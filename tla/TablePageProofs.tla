---------------------------- MODULE TablePageProofs ----------------------------
(***************************************************************************)
(* Proofs about the pages of a table and the connections they are at the   *)
(* end of, for any number of pages, connections, actions and gamestates:   *)
(* whatever the workers take first and whatever breaks, nothing is sent on *)
(* a connection that has not been greeted, no action is sent twice, and a  *)
(* connection that is alive has a row or is about to get one.              *)
(***************************************************************************)
EXTENDS TablePage, SequenceTheorems, FiniteSetTheorems, TLAPS

-----------------------------------------------------------------------------
(* Types                                                                   *)

(* Of the n gamestates of a behaviour the first one is never broadcast.    *)
SentOver(n) ==
    {Accepted, GotHello, Ping} \cup {State(g) : g \in 1..n} \cup {Broadcast(g) : g \in 2..n}

ReceivedOver(n) == [msg : SentOver(n), seq : Nat]
BatchesOver(n) == [from : 1..n, to : 1..n, after : Nat, phase : {"waiting", "running", "ended"}]

AnswerOver(n) == {Idle, Loading} \cup {Sending(g) : g \in 1..n}

RowTypes == [exists : BOOLEAN, active : BOOLEAN, old : BOOLEAN]

ServerTypes(n) ==
    /\ link \in [Conns -> {"unused", "open", "cut"}]
    /\ rows \in [Conns -> RowTypes]
    /\ events \subseteq EventTypes
    /\ answering \in [Conns -> AnswerOver(n)]
    /\ out \in [Conns -> Seq(SentOver(n))]
    /\ tableQueue \in Seq(Acts \cup {Closed})
    /\ asks \in Seq({"act", "wait", "out"}) /\ Len(asks) = n
    /\ game \in 1..n /\ announced \in 1..game
    /\ gaps \in [Conns -> SUBSET (1..n)]
    /\ greeted \subseteq Conns /\ refused \subseteq Acts \cup {Closed}

RouterTypes(n) ==
    /\ page \in [Pages -> {"closed", "open", "left"}]
    /\ socket \in [Pages -> Conns \cup {NoSocket}]
    /\ ready \in [Pages -> BOOLEAN] /\ timer \in [Pages -> BOOLEAN]
    /\ \A p \in Pages : ready[p] => socket[p] \in Conns
    /\ queue \in [Pages -> Seq(Acts)]
    /\ recvSeqNum \in [Pages -> Nat]
    /\ inbox \in [Pages -> Seq(ReceivedOver(n))]

ViewTypes(n) ==
    /\ version \in [Pages -> Nat \cup {-1}]
    /\ frames \in [Pages -> Seq(BatchesOver(n))]
    /\ batches \in [Pages -> Seq(BatchesOver(n))]
    /\ submitted \in [Pages -> BOOLEAN] /\ refreshed \in [Pages -> {"never", "due", "done"}]
    /\ skipped \in [Pages -> SUBSET (1..n)]

Types(n) ==
    /\ ServerTypes(n) /\ RouterTypes(n) /\ ViewTypes(n)
    /\ issued \in [Acts -> Pages \cup {Nobody, Elsewhere}]

-----------------------------------------------------------------------------
(* The inductive invariant of the connections                              *)

(* A connection belongs to one open page, from its first event on.         *)
OneOwner ==
    /\ \A p \in Pages : socket[p] \in Conns => link[socket[p]] # "unused" /\ page[p] = "open"
    /\ \A p, q \in Pages : socket[p] = socket[q] /\ socket[p] \in Conns => p = q

(* Nothing is known of a connection that has not been made ...             *)
UnusedIsNew ==
    \A c \in Conns : link[c] = "unused" =>
        ~HasRow(c) /\ answering[c] = Idle /\ c \notin greeted /\ \A e \in events : e.conn # c

(* ... and nothing arrives on one that is not open.                        *)
ClosedIsSilent == \A c \in Conns : link[c] # "open" => out[c] = <<>>

(* The server only hears the end of what has ended.                        *)
EndsAreTrue ==
    \A c \in Conns : Event(c, "disconnect") \in events \/ Event(c, "goodbye") \in events
                        => link[c] = "cut"

(* A router is ready, and says so, after its HELLO was answered.           *)
ReadyIsGreeted ==
    /\ \A p \in Pages : ready[p] => socket[p] \in greeted
    /\ \A c \in Conns : GotHello \in ToSet(out[c]) => c \in greeted

(* A connection that is alive is known.                                    *)
Known(c) ==
    \/ HasRow(c) \/ answering[c] # Idle \/ Ping \in ToSet(out[c])
    \/ \E e \in events : e.conn = c

AliveIsKnown ==
    \A p \in Pages :
        socket[p] \in Conns /\ link[socket[p]] = "open" => Known(socket[p])

ConnInv ==
    /\ OneOwner /\ UnusedIsNew /\ ClosedIsSilent /\ EndsAreTrue
    /\ ReadyIsGreeted /\ HelloComesFirst /\ AliveIsKnown

(* An action is at one place at most, and nowhere before it is submitted.  *)
OnceIn(a, list) == \A i, j \in DOMAIN list : list[i] = a /\ list[j] = a => i = j

InQueue(a)  == \E p \in Pages : a \in ToSet(queue[p])
InEvents(a) == \E c \in Conns : ActEvent(c, a) \in events
InTable(a)  == a \in ToSet(tableQueue)

OnePlace(a) ==
    /\ issued[a] \notin Pages => ~InQueue(a) /\ ~InEvents(a) /\ ~InTable(a) /\ a \notin refused
    /\ \A p, q \in Pages : a \in ToSet(queue[p]) /\ a \in ToSet(queue[q]) => p = q
    /\ \A c, d \in Conns : ActEvent(c, a) \in events /\ ActEvent(d, a) \in events => c = d
    /\ OnceIn(a, tableQueue)
    /\ InQueue(a) => ~InEvents(a) /\ ~InTable(a) /\ a \notin refused
    /\ InEvents(a) => ~InTable(a) /\ a \notin refused
    /\ InTable(a) => a \notin refused

PlaceInv == \A a \in Acts : OnePlace(a)

-----------------------------------------------------------------------------
(* Sequences                                                               *)

LEMMA EmptyIsSeq == ASSUME NEW S PROVE <<>> \in Seq(S) /\ ToSet(<<>>) = {}
BY DEF ToSet

LEMMA BehindAll ==
    ASSUME NEW S, NEW s \in Seq(S), NEW x \in S
    PROVE  Append(s, x) \in Seq(S) /\ ToSet(Append(s, x)) = ToSet(s) \cup {x}
<1>1. /\ Append(s, x) \in Seq(S) /\ Len(s) \in Nat /\ Len(Append(s, x)) = Len(s) + 1
      /\ \A i \in 1..Len(s) : Append(s, x)[i] = s[i]
      /\ Append(s, x)[Len(s) + 1] = x
  BY AppendProperties, LenProperties
<1>2. DOMAIN s = 1..Len(s) /\ DOMAIN Append(s, x) = 1..(Len(s) + 1)
  BY <1>1, LenProperties
<1> QED
  BY <1>1, <1>2 DEF ToSet

LEMMA FirstAndRest ==
    ASSUME NEW S, NEW s \in Seq(S), s # <<>>
    PROVE  /\ Head(s) \in S /\ Tail(s) \in Seq(S)
           /\ ToSet(s) = {Head(s)} \cup ToSet(Tail(s))
<1>1. /\ Head(s) \in S /\ Tail(s) \in Seq(S) /\ Len(s) \in Nat \ {0} /\ Head(s) = s[1]
      /\ Len(Tail(s)) = Len(s) - 1 /\ \A i \in 1..Len(Tail(s)) : Tail(s)[i] = s[i + 1]
  BY HeadTailProperties, EmptySeq
<1>2. DOMAIN s = 1..Len(s) /\ DOMAIN Tail(s) = 1..(Len(s) - 1)
  BY <1>1, LenProperties
<1>3. \A i \in 1..Len(s) : i = 1 \/ (i - 1) \in 1..(Len(s) - 1)
  BY <1>1
<1>4. ASSUME NEW i \in 1..Len(s) PROVE s[i] \in {Head(s)} \cup ToSet(Tail(s))
  <2>1. CASE i = 1
    BY <1>1, <2>1
  <2>2. CASE (i - 1) \in 1..(Len(s) - 1)
    <3>1. Tail(s)[i - 1] = s[i]
      BY <1>1, <2>2
    <3> QED
      BY <1>2, <2>2, <3>1 DEF ToSet
  <2> QED
    BY <1>3, <2>1, <2>2
<1>5. ASSUME NEW i \in 1..(Len(s) - 1) PROVE Tail(s)[i] \in ToSet(s)
  <2>1. Tail(s)[i] = s[i + 1] /\ (i + 1) \in 1..Len(s)
    BY <1>1
  <2> QED
    BY <1>2, <2>1 DEF ToSet
<1>6. Head(s) \in ToSet(s)
  BY <1>1, <1>2 DEF ToSet
<1> QED
  BY <1>1, <1>2, <1>4, <1>5, <1>6 DEF ToSet

-----------------------------------------------------------------------------
(* Types are kept                                                          *)

LEMMA MessageTypes ==
    ASSUME NEW n
    PROVE  /\ Accepted \in SentOver(n) /\ GotHello \in SentOver(n) /\ Ping \in SentOver(n)
           /\ \A g \in 1..n : State(g) \in SentOver(n)
           /\ \A g \in 2..n : Broadcast(g) \in SentOver(n)
BY DEF SentOver

LEMMA GamestateTypes ==
    ASSUME NEW n \in Nat, NEW m \in SentOver(n), m.type = "UPDATE_GAMESTATE"
    PROVE  /\ m.animated \in BOOLEAN /\ m.game \in 1..n
           /\ m.animated => m.game \in 2..n
           /\ m # Accepted /\ m # GotHello /\ m # Ping
<1>1. Accepted.type # "UPDATE_GAMESTATE" /\ GotHello.type # "UPDATE_GAMESTATE"
      /\ Ping.type # "UPDATE_GAMESTATE"
  BY DEF Accepted, GotHello, Ping
<1>2. \A g \in 1..n : State(g).game = g /\ State(g).animated = FALSE
  BY DEF State
<1>3. \A g \in 2..n : Broadcast(g).game = g /\ Broadcast(g).animated = TRUE /\ g \in 1..n
  BY DEF Broadcast
<1>4. m # Accepted /\ m # GotHello /\ m # Ping
  BY <1>1
<1>5. (\E g \in 1..n : m = State(g)) \/ (\E g \in 2..n : m = Broadcast(g))
  BY <1>4 DEF SentOver
<1>6. CASE \E g \in 1..n : m = State(g)
  BY <1>2, <1>4, <1>6
<1>7. CASE \E g \in 2..n : m = Broadcast(g)
  BY <1>3, <1>4, <1>7
<1> QED
  BY <1>5, <1>6, <1>7

LEMMA RowsTyped ==
    /\ NoRow \in RowTypes /\ Fresh \in RowTypes
    /\ \A r \in RowTypes : [r EXCEPT !.active = FALSE] \in RowTypes
                         /\ [r EXCEPT !.old = TRUE] \in RowTypes
BY DEF NoRow, Fresh, RowTypes

LEMMA AnswersTyped ==
    ASSUME NEW n, NEW w \in AnswerOver(n)
    PROVE  /\ w.step = "send" => w.game \in 1..n
           /\ w.step = "send" => w # Idle /\ w # Loading
<1>1. Idle.step = "idle" /\ Loading.step = "load"
  BY DEF Idle, Loading
<1>2. \A g \in 1..n : Sending(g).step = "send" /\ Sending(g).game = g
  BY DEF Sending
<1> QED
  BY <1>1, <1>2 DEF AnswerOver

LEMMA EventsTyped ==
    ASSUME NEW c \in Conns
    PROVE  /\ \A kind \in {"connect", "disconnect", "goodbye", "HELLO", PingResponse} :
                  Event(c, kind) \in EventTypes
           /\ \A a \in Acts : ActEvent(c, a) \in EventTypes
BY DEF EventTypes

LEMMA DeliveredTyped ==
    ASSUME NEW S, out \in [Conns -> Seq(S)], NEW to, NEW m \in S
    PROVE  /\ Delivered(to, m) \in [Conns -> Seq(S)]
           /\ \A c \in Conns : ToSet(Delivered(to, m)[c]) =
                ToSet(out[c]) \cup (IF c \in to /\ link[c] = "open" THEN {m} ELSE {})
<1>1. ASSUME NEW c \in Conns
      PROVE  /\ Append(out[c], m) \in Seq(S)
             /\ ToSet(Append(out[c], m)) = ToSet(out[c]) \cup {m}
  BY BehindAll
<1> QED
  BY <1>1 DEF Delivered

LEMMA WorkTypes ==
    ASSUME NEW n \in Nat, ServerTypes(n), NEW c \in Conns, Work(c)
    PROVE  ServerTypes(n)'
<1> USE DEF heartbeat, HasRow
<1>0. UNCHANGED <<link, game, asks, announced, refused, gaps>>
  BY DEF Work, Accept, LoadGame, Answer, OnHello, OnPingResponse, OnDisconnect, OnAct
<1>R. rows' \in [Conns -> RowTypes]
  <2>1. SetUp(c) \in [Conns -> RowTypes] /\ [rows EXCEPT ![c] = NoRow] \in [Conns -> RowTypes]
    BY RowsTyped DEF SetUp, ServerTypes
  <2>2. CleanedUp(c) \in [Conns -> RowTypes]
    BY RowsTyped DEF CleanedUp, ServerTypes
  <2>3. rows' \in {rows, SetUp(c), [rows EXCEPT ![c] = NoRow], CleanedUp(c)}
    BY DEF Work, Accept, LoadGame, Answer, OnHello, OnPingResponse, OnDisconnect, OnAct
  <2> QED
    BY <2>1, <2>2, <2>3 DEF ServerTypes
<1>1. events' \subseteq EventTypes
  BY DEF ServerTypes, Work, Accept, LoadGame, Answer, OnHello, OnPingResponse, OnDisconnect, OnAct
<1>2. CASE LoadGame(c) \/ OnPingResponse(c)
  <2>1. answering' \in [Conns -> AnswerOver(n)]
    BY <1>2 DEF LoadGame, OnPingResponse, ServerTypes, AnswerOver
  <2> QED
    BY <1>0, <1>1, <1>R, <1>2, <2>1 DEF LoadGame, OnPingResponse, ServerTypes
<1>3. CASE OnDisconnect(c)
  <2>1. tableQueue' \in Seq(Acts \cup {Closed}) /\ UNCHANGED <<answering, out, greeted>>
    BY <1>3, BehindAll DEF OnDisconnect, ServerTypes
  <2> QED
    BY <1>0, <1>1, <1>R, <2>1 DEF ServerTypes
<1>4. ASSUME NEW a \in Acts, OnAct(c, a) PROVE ServerTypes(n)'
  <2>1. tableQueue' \in Seq(Acts \cup {Closed}) /\ UNCHANGED <<answering, out, greeted>>
    BY <1>4, BehindAll DEF OnAct, ServerTypes
  <2> QED
    BY <1>0, <1>1, <1>R, <2>1 DEF ServerTypes
<1>5. CASE Accept(c)
  <2>1. out' \in [Conns -> Seq(SentOver(n))]
    BY <1>5, DeliveredTyped, MessageTypes DEF Accept, ServerTypes
  <2>2. answering' \in [Conns -> AnswerOver(n)] /\ UNCHANGED <<tableQueue, greeted>>
    BY <1>5 DEF Accept, ServerTypes, AnswerOver
  <2> QED
    BY <1>0, <1>1, <1>R, <2>1, <2>2 DEF ServerTypes
<1>6. CASE Answer(c)
  <2>1. answering[c].game \in 1..n
    BY <1>6, AnswersTyped DEF Answer, ServerTypes
  <2>2. State(answering[c].game) \in SentOver(n)
    BY <2>1, MessageTypes
  <2>3. out' \in [Conns -> Seq(SentOver(n))]
    BY <1>6, <2>2, DeliveredTyped DEF Answer, ServerTypes
  <2>4. answering' \in [Conns -> AnswerOver(n)] /\ UNCHANGED <<tableQueue, greeted>>
    BY <1>6 DEF Answer, ServerTypes, AnswerOver
  <2> QED
    BY <1>0, <1>1, <1>R, <2>3, <2>4 DEF ServerTypes
<1>7. CASE OnHello(c)
  <2>1. /\ Delivered({c}, GotHello) \in [Conns -> Seq(SentOver(n))]
        /\ Delivered(Others(c), Ping) \in [Conns -> Seq(SentOver(n))]
    BY DeliveredTyped, MessageTypes DEF ServerTypes
  <2>2. out' = [d \in Conns |-> IF d = c THEN Delivered({c}, GotHello)[c]
                                             ELSE Delivered(Others(c), Ping)[d]]
    BY <1>7 DEF OnHello
  <2>3. out' \in [Conns -> Seq(SentOver(n))]
    BY <2>1, <2>2
  <2>4. greeted' \subseteq Conns /\ UNCHANGED <<tableQueue, answering>>
    BY <1>7 DEF OnHello, ServerTypes
  <2> QED
    BY <1>0, <1>1, <1>R, <2>3, <2>4 DEF ServerTypes
<1> QED
  BY <1>2, <1>3, <1>4, <1>5, <1>6, <1>7 DEF Work

LEMMA BeatTypes ==
    ASSUME NEW n \in Nat, ServerTypes(n), Beat
    PROVE  ServerTypes(n)'
<1>1. CASE TableMoves
  BY <1>1 DEF TableMoves, Commit, ServerTypes
<1>2. CASE Obey \/ Refuse
  <2>1. Head(tableQueue) \in Acts \cup {Closed} /\ Tail(tableQueue) \in Seq(Acts \cup {Closed})
    BY <1>2, FirstAndRest DEF Obey, Refuse, ServerTypes
  <2>2. game' \in 1..n /\ announced' \in 1..game' /\ refused' \subseteq Acts \cup {Closed}
    BY <1>2, <2>1 DEF Obey, Refuse, Commit, ServerTypes
  <2> QED
    BY <1>2, <2>1, <2>2 DEF Obey, Refuse, Commit, ServerTypes
<1>3. CASE Announce
  <2>1. game \in 2..n
    BY <1>3 DEF Announce, ServerTypes
  <2>2. out' \in [Conns -> Seq(SentOver(n))]
    BY <1>3, <2>1, MessageTypes, DeliveredTyped DEF Announce, ServerTypes
  <2>3. gaps' \in [Conns -> SUBSET (1..n)]
    BY <1>3 DEF Announce, ServerTypes
  <2> QED
    BY <1>3, <2>2, <2>3 DEF Announce, ServerTypes
<1> QED
  BY <1>1, <1>2, <1>3 DEF Beat

LEMMA NetworkTypes ==
    ASSUME NEW n \in Nat, ServerTypes(n), NEW c \in Conns, Cut(c) \/ Age(c)
    PROVE  ServerTypes(n)'
<1>1. CASE Cut(c)
  <2>1. events' \subseteq EventTypes /\ out' \in [Conns -> Seq(SentOver(n))]
    BY <1>1, EventsTyped, EmptyIsSeq DEF Cut, ServerTypes
  <2> QED
    BY <1>1, <2>1 DEF Cut, Fault, heartbeat, ServerTypes
<1>2. CASE Age(c)
  BY <1>2, RowsTyped DEF Age, Fault, heartbeat, ServerTypes
<1> QED
  BY <1>1, <1>2

LEMMA SentTyped ==
    ASSUME NEW c \in Conns, NEW ms \in SUBSET (Acts \cup {"HELLO", PingResponse}),
           events \subseteq EventTypes
    PROVE  Sent(c, ms) \subseteq EventTypes
<1>1. ASSUME NEW m \in ms PROVE EventOf(c, m) \in EventTypes
  BY <1>1, EventsTyped DEF EventOf
<1> QED
  BY <1>1 DEF Sent

(* What a router acts upon is the head of what its connection brings.      *)
LEMMA IncomingIsHead ==
    ASSUME NEW p \in Pages, Incoming(p) # Accepted
    PROVE  socket[p] \in Conns /\ out[socket[p]] # <<>> /\ Incoming(p) = Head(out[socket[p]])
BY DEF Incoming

LEMMA ReceivedTypes ==
    ASSUME NEW n \in Nat, ServerTypes(n), RouterTypes(n), NEW p \in Pages, NEW m,
           m = Incoming(p), m # Accepted, Received(p, m)
    PROVE  /\ out' \in [Conns -> Seq(SentOver(n))] /\ m \in SentOver(n)
           /\ recvSeqNum' \in [Pages -> Nat] /\ inbox' \in [Pages -> Seq(ReceivedOver(n))]
<1> DEFINE c == socket[p]
<1>1. c \in Conns /\ out[c] # <<>> /\ m = Head(out[c])
  BY IncomingIsHead
<1>2. m \in SentOver(n) /\ Tail(out[c]) \in Seq(SentOver(n))
  BY <1>1, FirstAndRest DEF ServerTypes
<1>3. out' \in [Conns -> Seq(SentOver(n))]
  BY <1>1, <1>2 DEF Received, ServerTypes
<1>4. recvSeqNum[p] \in Nat /\ [msg |-> m, seq |-> recvSeqNum[p]] \in ReceivedOver(n)
  BY <1>2 DEF RouterTypes, ReceivedOver
<1>5. Append(inbox[p], [msg |-> m, seq |-> recvSeqNum[p]]) \in Seq(ReceivedOver(n))
  BY <1>4, BehindAll DEF RouterTypes
<1>6. recvSeqNum' \in [Pages -> Nat] /\ inbox' \in [Pages -> Seq(ReceivedOver(n))]
  BY <1>4, <1>5 DEF Received, RouterTypes
<1> QED
  BY <1>2, <1>3, <1>6

LEMMA SendJsonTypes ==
    ASSUME NEW n \in Nat, ServerTypes(n), RouterTypes(n), NEW p \in Pages,
           NEW m \in Acts, SendJson(p, m)
    PROVE  events' \subseteq EventTypes /\ queue' \in [Pages -> Seq(Acts)]
<1>1. CASE ready[p]
  <2>1. socket[p] \in Conns /\ {m} \in SUBSET (Acts \cup {"HELLO", PingResponse})
    BY <1>1 DEF RouterTypes
  <2>2. Sent(socket[p], {m}) \subseteq EventTypes
    BY <2>1, SentTyped DEF ServerTypes
  <2> QED
    BY <1>1, <2>2 DEF SendJson, RouterTypes
<1>2. CASE ~ready[p]
  <2>1. Append(queue[p], m) \in Seq(Acts)
    BY BehindAll DEF RouterTypes
  <2> QED
    BY <1>2, <2>1 DEF SendJson, RouterTypes, ServerTypes
<1> QED
  BY <1>1, <1>2

LEMMA SetupTypes ==
    ASSUME NEW n \in Nat, ServerTypes(n), RouterTypes(n), NEW p \in Pages, Load(p) \/ Reopen(p)
    PROVE  ServerTypes(n)' /\ RouterTypes(n)'
<1>1. PICK c \in Unused :
          /\ socket' = [socket EXCEPT ![p] = c] /\ link' = [link EXCEPT ![c] = "open"]
          /\ events' = events \cup {Event(c, "connect")}
          /\ ready' = [ready EXCEPT ![p] = FALSE]
          /\ queue' = queue /\ timer' = [timer EXCEPT ![p] = FALSE]
  BY DEF Load, Reopen, SetupSocket, Restarted
<1>2. c \in Conns /\ events' \subseteq EventTypes
  BY <1>1, EventsTyped DEF Unused, ServerTypes
<1>3. page' \in [Pages -> {"closed", "open", "left"}]
  BY DEF Load, Reopen, RouterTypes
<1>4. UNCHANGED <<rows, answering, out, heartbeat, gaps, greeted, faults, recvSeqNum, inbox>>
  BY DEF Load, Reopen
<1>5. ServerTypes(n)'
  BY <1>1, <1>2, <1>4 DEF ServerTypes, heartbeat
<1>6. RouterTypes(n)'
  BY <1>1, <1>2, <1>3, <1>4 DEF RouterTypes
<1> QED
  BY <1>5, <1>6

LEMMA CloseTypes ==
    ASSUME NEW n \in Nat, ServerTypes(n), RouterTypes(n), NEW p \in Pages, OnClose(p) \/ Unload(p)
    PROVE  ServerTypes(n)' /\ RouterTypes(n)'
<1>1. CASE OnClose(p)
  BY <1>1 DEF OnClose, Close, serverVars, heartbeat, ServerTypes, RouterTypes
<1>2. CASE Unload(p)
  <2>1. /\ link' \in [Conns -> {"unused", "open", "cut"}] /\ events' \subseteq EventTypes
        /\ out' \in [Conns -> Seq(SentOver(n))]
    <3>1. CASE socket[p] \in Conns /\ link[socket[p]] = "open"
      <4>1. /\ link' = [link EXCEPT ![socket[p]] = "cut"] /\ out' = [out EXCEPT ![socket[p]] = <<>>]
            /\ events' = events \cup {Event(socket[p], "goodbye")}
        BY <1>2, <3>1 DEF Unload
      <4> QED
        BY <3>1, <4>1, EventsTyped, EmptyIsSeq DEF ServerTypes
    <3>2. CASE ~(socket[p] \in Conns /\ link[socket[p]] = "open")
      <4>1. UNCHANGED <<link, out, events>>
        BY <1>2, <3>2 DEF Unload
      <4> QED
        BY <4>1 DEF ServerTypes
    <3> QED
      BY <3>1, <3>2
  <2>2. ServerTypes(n)'
    BY <1>2, <2>1 DEF Unload, ServerTypes, heartbeat
  <2>3. RouterTypes(n)'
    BY <1>2, EmptyIsSeq DEF Unload, RouterTypes
  <2> QED
    BY <2>2, <2>3
<1> QED
  BY <1>1, <1>2

LEMMA ReceiveTypes ==
    ASSUME NEW n \in Nat, ServerTypes(n), RouterTypes(n), NEW p \in Pages,
           OnOpen(p) \/ OnGamestate(p) \/ OnGotHello(p) \/ OnPing(p)
    PROVE  ServerTypes(n)' /\ RouterTypes(n)'
<1>1. CASE OnOpen(p)
  <2>1. socket[p] \in Conns /\ Tail(out[socket[p]]) \in Seq(SentOver(n))
    BY <1>1, FirstAndRest DEF OnOpen, ServerTypes
  <2>2. out' \in [Conns -> Seq(SentOver(n))]
    BY <1>1, <2>1 DEF OnOpen, ServerTypes
  <2>3. events' \subseteq EventTypes
    BY <1>1, <2>1, SentTyped DEF OnOpen, SendControl, ServerTypes
  <2> QED
    BY <1>1, <2>2, <2>3 DEF OnOpen, SendControl, ServerTypes, RouterTypes, heartbeat
<1>2. CASE OnGamestate(p)
  <2>1. Incoming(p) # Accepted
    BY <1>2 DEF OnGamestate, Accepted
  <2>2. /\ out' \in [Conns -> Seq(SentOver(n))]
        /\ recvSeqNum' \in [Pages -> Nat] /\ inbox' \in [Pages -> Seq(ReceivedOver(n))]
    BY <1>2, <2>1, ReceivedTypes DEF OnGamestate
  <2> QED
    BY <1>2, <2>2 DEF OnGamestate, Received, ServerTypes, RouterTypes, heartbeat
<1>3. CASE OnGotHello(p)
  <2>1. Incoming(p) # Accepted
    BY <1>3 DEF OnGotHello, Accepted, GotHello
  <2>2. /\ out' \in [Conns -> Seq(SentOver(n))]
        /\ recvSeqNum' \in [Pages -> Nat] /\ inbox' \in [Pages -> Seq(ReceivedOver(n))]
    BY <1>3, <2>1, ReceivedTypes DEF OnGotHello
  <2>3. socket[p] \in Conns
    BY <2>1, IncomingIsHead
  <2>4. ToSet(queue[p]) \subseteq Acts
    BY LenProperties, ElementOfSeq DEF RouterTypes, ToSet
  <2>5. events' \subseteq EventTypes
    BY <1>3, <2>3, <2>4, SentTyped DEF OnGotHello, ServerTypes
  <2>6. ServerTypes(n)'
    BY <1>3, <2>2, <2>5 DEF OnGotHello, Received, ServerTypes, heartbeat
  <2>7. RouterTypes(n)'
    BY <1>3, <2>2, <2>3, EmptyIsSeq DEF OnGotHello, Received, RouterTypes
  <2> QED
    BY <2>6, <2>7
<1>4. CASE OnPing(p)
  <2>1. Incoming(p) # Accepted
    BY <1>4 DEF OnPing, Accepted, Ping
  <2>2. /\ out' \in [Conns -> Seq(SentOver(n))]
        /\ recvSeqNum' \in [Pages -> Nat] /\ inbox' \in [Pages -> Seq(ReceivedOver(n))]
    BY <1>4, <2>1, ReceivedTypes DEF OnPing
  <2>3. socket[p] \in Conns
    BY <2>1, IncomingIsHead
  <2>4. events' \subseteq EventTypes
    BY <1>4, <2>3, SentTyped DEF OnPing, SendControl, ServerTypes
  <2> QED
    BY <1>4, <2>2, <2>4 DEF OnPing, SendControl, Received, ServerTypes, RouterTypes, heartbeat
<1> QED
  BY <1>1, <1>2, <1>3, <1>4

LEMMA BatchTypes ==
    ASSUME NEW n \in Nat
    PROVE  /\ \A i, j \in 1..n, k \in Nat : View!Batch(i, j, k) \in BatchesOver(n)
           /\ \A b \in BatchesOver(n), ph \in {"running", "ended"} :
                 [b EXCEPT !.phase = ph] \in BatchesOver(n)
BY DEF View!Batch, BatchesOver

LEMMA MountTypes ==
    ASSUME NEW n \in Nat, ViewTypes(n), NEW p \in Pages, NEW g \in 1..n, View!Mount(p, g)
    PROVE  ViewTypes(n)'
<1>1. View!Batch(g, g, 0) \in BatchesOver(n)
  BY BatchTypes
<1>2. [View!Batch(g, g, 0) EXCEPT !.phase = "ended"] \in BatchesOver(n)
  BY <1>1, BatchTypes
<1>3. batches' \in [Pages -> Seq(BatchesOver(n))]
  BY <1>2 DEF View!Mount, ViewTypes
<1>4. version' \in [Pages -> Nat \cup {-1}] /\ UNCHANGED <<frames, submitted, refreshed, skipped>>
  BY DEF View!Mount, ViewTypes
<1> QED
  BY <1>3, <1>4 DEF ViewTypes

LEMMA StateChangeTypes ==
    ASSUME NEW n \in Nat, ViewTypes(n), NEW p \in Pages, NEW new \in Nat,
           NEW animated \in BOOLEAN, NEW g, animated => g \in 2..n,
           View!HandleStateChange(p, new, animated, g)
    PROVE  /\ version' \in [Pages -> Nat \cup {-1}]
           /\ frames' \in [Pages -> Seq(BatchesOver(n))]
           /\ skipped' \in [Pages -> SUBSET (1..n)]
<1>1. version' \in [Pages -> Nat \cup {-1}]
  BY DEF View!HandleStateChange, ViewTypes
<1>2. skipped' \in [Pages -> SUBSET (1..n)]
  BY DEF View!HandleStateChange, ViewTypes
<1>3. CASE animated /\ View!IsNewVersion(p, new)
  <2>1. PICK after \in View!StartAfter(p) :
            frames' = [frames EXCEPT ![p] = Append(@, View!Batch(g - 1, g, after))]
    BY <1>3 DEF View!HandleStateChange
  <2>2. after \in Nat
    BY LenProperties DEF View!StartAfter, ViewTypes
  <2>3. g - 1 \in 1..n /\ g \in 1..n
    BY <1>3
  <2>4. Append(frames[p], View!Batch(g - 1, g, after)) \in Seq(BatchesOver(n))
    BY <2>2, <2>3, BatchTypes, BehindAll DEF ViewTypes
  <2> QED
    BY <1>1, <1>2, <2>1, <2>4 DEF ViewTypes
<1>4. CASE ~(animated /\ View!IsNewVersion(p, new))
  BY <1>1, <1>2, <1>4 DEF View!HandleStateChange, ViewTypes
<1> QED
  BY <1>3, <1>4

LEMMA DispatchTypes ==
    ASSUME NEW n \in Nat, RouterTypes(n), ViewTypes(n), NEW p \in Pages, Dispatch(p)
    PROVE  RouterTypes(n)' /\ ViewTypes(n)'
<1> DEFINE m == Head(inbox[p]).msg  s == Head(inbox[p]).seq
<1>1. Head(inbox[p]) \in ReceivedOver(n) /\ Tail(inbox[p]) \in Seq(ReceivedOver(n))
  BY FirstAndRest DEF Dispatch, RouterTypes
<1>2. m \in SentOver(n) /\ s \in Nat
  BY <1>1 DEF ReceivedOver
<1>3. RouterTypes(n)'
  BY <1>1 DEF Dispatch, serverVars, RouterTypes
<1>4. CASE m.type = "UPDATE_GAMESTATE"
  <2>1. m.animated \in BOOLEAN /\ (m.animated => m.game \in 2..n)
    BY <1>2, <1>4, GamestateTypes
  <2>2. View!UpdateGamestate(p, s, m.game, m.animated, asks[m.game] # "out")
    BY <1>4 DEF Dispatch
  <2>3. View!NextVersion(p, s) \in Nat
    <3>1. version[p] \in Nat \cup {-1}
      BY DEF ViewTypes
    <3> QED
      BY <1>2, <3>1 DEF View!NextVersion
  <2>4. View!HandleStateChange(p, View!NextVersion(p, s), m.animated, m.game)
    BY <2>2 DEF View!UpdateGamestate
  <2>5. /\ version' \in [Pages -> Nat \cup {-1}]
        /\ frames' \in [Pages -> Seq(BatchesOver(n))]
        /\ skipped' \in [Pages -> SUBSET (1..n)]
    BY <2>1, <2>3, <2>4, StateChangeTypes
  <2>6. submitted' \in [Pages -> BOOLEAN] /\ UNCHANGED <<batches, refreshed>>
    BY <2>2 DEF View!UpdateGamestate, ViewTypes
  <2> QED
    BY <1>3, <2>5, <2>6 DEF ViewTypes
<1>5. CASE m.type # "UPDATE_GAMESTATE"
  BY <1>3, <1>5 DEF Dispatch, viewVars, ViewTypes
<1> QED
  BY <1>4, <1>5

LEMMA BrowseTypes ==
    ASSUME NEW n \in Nat, ViewTypes(n), NEW p \in Pages, Browse(p)
    PROVE  ViewTypes(n)'
<1>1. CASE View!Refresh(p)
  <2>0. version[p] \in Nat \cup {-1}
    BY DEF ViewTypes
  <2>1. version[p] + 1 \in Nat
    BY <2>0
  <2>2. View!HandleStateChange(p, version[p] + 1, FALSE, 0)
    BY <1>1 DEF View!Refresh
  <2>3. /\ version' \in [Pages -> Nat \cup {-1}]
        /\ frames' \in [Pages -> Seq(BatchesOver(n))]
        /\ skipped' \in [Pages -> SUBSET (1..n)]
    BY <2>1, <2>2, StateChangeTypes
  <2> QED
    BY <1>1, <2>3 DEF View!Refresh, ViewTypes
<1>2. CASE View!Frame(p)
  <2>1. batches[p] \o frames[p] \in Seq(BatchesOver(n))
    BY ConcatProperties DEF ViewTypes
  <2> QED
    BY <1>2, <2>1, EmptyIsSeq DEF View!Frame, ViewTypes
<1>3. ASSUME NEW i \in DOMAIN batches[p], View!StartBatch(p, i) \/ View!EndBatch(p, i)
      PROVE  ViewTypes(n)'
  <2>1. batches[p] \in Seq(BatchesOver(n)) /\ i \in 1..Len(batches[p])
        /\ batches[p][i] \in BatchesOver(n)
    BY LenProperties, ElementOfSeq DEF ViewTypes
  <2>2. PICK ph \in {"running", "ended"} :
            /\ batches' = [batches EXCEPT ![p][i].phase = ph]
            /\ UNCHANGED <<version, frames, submitted, refreshed, skipped>>
    BY <1>3 DEF View!StartBatch, View!EndBatch
  <2>3. [batches[p][i] EXCEPT !.phase = ph] \in BatchesOver(n)
    BY <2>1, BatchTypes
  <2>4. [batches[p] EXCEPT ![i] = [batches[p][i] EXCEPT !.phase = ph]] \in Seq(BatchesOver(n))
    BY <2>1, <2>3, ExceptSeq
  <2>5. batches' = [batches EXCEPT ![p] =
                      [batches[p] EXCEPT ![i] = [batches[p][i] EXCEPT !.phase = ph]]]
    BY <2>2
  <2> QED
    BY <2>2, <2>4, <2>5 DEF ViewTypes
<1> QED
  BY <1>1, <1>2, <1>3 DEF Browse, View!Animate

LEMMA SubmitTypes ==
    ASSUME NEW n \in Nat, Types(n), NEW p \in Pages, NEW a \in Acts, Submit(p, a)
    PROVE  Types(n)'
<1>0. ServerTypes(n) /\ RouterTypes(n) /\ ViewTypes(n)
  BY DEF Types
<1>1. events' \subseteq EventTypes /\ queue' \in [Pages -> Seq(Acts)]
  BY <1>0, SendJsonTypes DEF Submit
<1>2. ServerTypes(n)'
  BY <1>0, <1>1 DEF Submit, ServerTypes, heartbeat
<1>3. RouterTypes(n)'
  BY <1>0, <1>1 DEF Submit, RouterTypes
<1>4. ViewTypes(n)'
  BY <1>0 DEF Submit, View!SubmitAction, ViewTypes
<1>5. issued' \in [Acts -> Pages \cup {Nobody, Elsewhere}]
  BY DEF Submit, Types
<1> QED
  BY <1>2, <1>3, <1>4, <1>5 DEF Types

LEMMA TypesInit == Init => \E n \in Nat : Types(n)
<1> SUFFICES ASSUME NEW s \in Scenes, ServerInit(s), RouterInit(s), View!ViewInit(s.refresh),
                    issued = [a \in Acts |-> IF a \in s.acts THEN Nobody ELSE Elsewhere]
             PROVE  \E n \in Nat : Types(n)
  BY DEF Init
<1> DEFINE n == Len(asks)
<1>1. asks \in Seq({"act", "wait", "out"}) /\ n \in Nat \ {0} /\ s.refresh \in BOOLEAN
  BY SocketsAssumption, EmptySeq DEF ServerInit
<1> HIDE DEF n
<1>2. ServerTypes(n)
  <2>1. out \in [Conns -> Seq(SentOver(n))] /\ tableQueue \in Seq(Acts \cup {Closed})
    BY EmptyIsSeq DEF ServerInit
  <2>2. answering \in [Conns -> AnswerOver(n)] /\ rows \in [Conns -> RowTypes]
    BY RowsTyped DEF ServerInit, AnswerOver
  <2>3. Len(asks) = n /\ game \in 1..n /\ announced \in 1..game
    BY <1>1 DEF n, ServerInit
  <2> QED
    BY <1>1, <2>1, <2>2, <2>3 DEF ServerInit, ServerTypes
<1>3. RouterTypes(n)
  BY EmptyIsSeq DEF RouterInit, RouterTypes
<1>4. ViewTypes(n)
  BY <1>1, EmptyIsSeq DEF View!ViewInit, ViewTypes
<1>5. issued \in [Acts -> Pages \cup {Nobody, Elsewhere}]
  OBVIOUS
<1> QED
  BY <1>1, <1>2, <1>3, <1>4, <1>5 DEF Types

LEMMA TypesNext ==
    ASSUME NEW n \in Nat, Types(n), [Next]_vars
    PROVE  Types(n)'
<1>0. ServerTypes(n) /\ RouterTypes(n) /\ ViewTypes(n)
  BY DEF Types
<1>1. ASSUME NEW p \in Pages, OpenPage(p) PROVE Types(n)'
  <2>1. ServerTypes(n)' /\ RouterTypes(n)'
    BY <1>0, <1>1, SetupTypes DEF OpenPage
  <2>2. ViewTypes(n)'
    BY <1>0, <1>1, MountTypes DEF OpenPage, ServerTypes
  <2> QED
    BY <1>1, <2>1, <2>2 DEF OpenPage, Types
<1>2. ASSUME NEW p \in Pages, Dispatch(p) PROVE Types(n)'
  <2>1. RouterTypes(n)' /\ ViewTypes(n)'
    BY <1>0, <1>2, DispatchTypes
  <2> QED
    BY <1>0, <1>2, <2>1 DEF Dispatch, Types, serverVars, heartbeat, ServerTypes
<1>3. ASSUME NEW p \in Pages, Browse(p) PROVE Types(n)'
  <2>1. ViewTypes(n)'
    BY <1>0, <1>3, BrowseTypes
  <2> QED
    BY <1>0, <1>3, <2>1 DEF Browse, Types, serverVars, routerVars, heartbeat, ServerTypes, RouterTypes
<1>4. ASSUME NEW p \in Pages, Leave(p) \/ Reconnect(p) \/ Receive(p) PROVE Types(n)'
  <2>1. ServerTypes(n)' /\ RouterTypes(n)'
    BY <1>0, <1>4, CloseTypes, SetupTypes, ReceiveTypes DEF Leave, Reconnect, Receive
  <2> QED
    BY <1>0, <1>4, <2>1 DEF Leave, Reconnect, Receive, Types, viewVars, ViewTypes
<1>5. ASSUME NEW p \in Pages, NEW a \in Acts, Submit(p, a) PROVE Types(n)'
  BY <1>5, SubmitTypes
<1>6. ASSUME NEW c \in Conns, Server(c) \/ Network(c) \/ Table PROVE Types(n)'
  <2>1. ServerTypes(n)'
    BY <1>0, <1>6, WorkTypes, BeatTypes, NetworkTypes DEF Server, Network, Table
  <2> QED
    BY <1>0, <1>6, <2>1 DEF Server, Network, Table, Types, routerVars, viewVars, RouterTypes, ViewTypes
<1>7. CASE Table
  <2>1. ServerTypes(n)'
    BY <1>0, <1>7, BeatTypes DEF Table
  <2> QED
    BY <1>0, <1>7, <2>1 DEF Table, Types, routerVars, viewVars, RouterTypes, ViewTypes
<1>8. CASE UNCHANGED vars
  BY <1>0, <1>8 DEF vars, serverVars, heartbeat, routerVars, viewVars, Types, ServerTypes, RouterTypes, ViewTypes
<1> QED
  BY <1>1, <1>2, <1>3, <1>4, <1>5, <1>6, <1>7, <1>8 DEF Next

Typed == \E n \in Nat : Types(n)

LEMMA TypedAlways == Spec => []Typed
<1>1. Init => Typed
  BY TypesInit DEF Typed
<1>2. Typed /\ [Next]_vars => Typed'
  <2> SUFFICES ASSUME Typed, [Next]_vars PROVE Typed'
    OBVIOUS
  <2>1. PICK n \in Nat : Types(n)
    BY DEF Typed
  <2>2. Types(n)'
    BY <2>1, TypesNext
  <2> QED
    BY <2>2 DEF Typed
<1> QED
  BY <1>1, <1>2, PTL DEF Spec

(* Every variable keeps its type, whatever is sent, cut, left or taken in  *)
(* another order; in particular every gamestate that a page is sent or     *)
(* shows has been committed, and no broadcast is without the one before.   *)
THEOREM TypeCorrect == Spec => []TypeOK
<1>1. ASSUME NEW n \in Nat, Types(n) PROVE TypeOK
  <2>0. ServerTypes(n) /\ RouterTypes(n) /\ ViewTypes(n)
    BY <1>1 DEF Types
  <2>1. Games = 1..n
    BY <2>0, LenProperties DEF ServerTypes, Games
  <2>2. SentOver(n) \subseteq Messages
    <3>1. \A g \in 1..n : State(g) \in Messages
      BY <2>1 DEF State, Messages
    <3>2. \A g \in 2..n : Broadcast(g) \in Messages
      BY <2>1 DEF Broadcast, Messages
    <3> QED
      BY <3>1, <3>2 DEF SentOver, Messages
  <2>3. ReceivedOver(n) \subseteq [msg : Messages, seq : Nat] /\ BatchesOver(n) = BatchType
    BY <2>1, <2>2 DEF ReceivedOver, BatchesOver, BatchType
  <2>4. out \in [Conns -> Seq(Messages)] /\ inbox \in [Pages -> Seq([msg : Messages, seq : Nat])]
    <3>1. \A t \in Seq(SentOver(n)) : t \in Seq(Messages)
      BY <2>2, SeqMonotonic
    <3>2. \A t \in Seq(ReceivedOver(n)) : t \in Seq([msg : Messages, seq : Nat])
      BY <2>3, SeqMonotonic
    <3>3. out \in [Conns -> Seq(SentOver(n))] /\ inbox \in [Pages -> Seq(ReceivedOver(n))]
      BY <2>0 DEF ServerTypes, RouterTypes
    <3> QED
      BY <3>1, <3>2, <3>3
  <2>5. answering \in [Conns -> [step : {"idle", "load", "send"}, game : Games \cup {0}]]
    <3>1. AnswerOver(n) \subseteq [step : {"idle", "load", "send"}, game : Games \cup {0}]
      BY <2>1 DEF AnswerOver, Idle, Loading, Sending
    <3> QED
      BY <2>0, <3>1 DEF ServerTypes
  <2>6. game \in Games /\ gaps \in [Conns -> SUBSET Games] /\ skipped \in [Pages -> SUBSET Games]
    BY <2>0, <2>1 DEF ServerTypes, ViewTypes
  <2>7. frames \in [Pages -> Seq(BatchType)] /\ batches \in [Pages -> Seq(BatchType)]
    BY <2>0, <2>3 DEF ViewTypes
  <2>8. rows \in [Conns -> [exists : BOOLEAN, active : BOOLEAN, old : BOOLEAN]]
        /\ events \subseteq EventTypes
    BY <2>0 DEF ServerTypes, RowTypes
  <2>9. /\ link \in [Conns -> {"unused", "open", "cut"}]
        /\ tableQueue \in Seq(Acts \cup {Closed}) /\ asks \in Seq({"act", "wait", "out"})
        /\ announced \in 1..game /\ greeted \subseteq Conns /\ refused \subseteq Acts \cup {Closed}
    BY <2>0 DEF ServerTypes
  <2>10. /\ page \in [Pages -> {"closed", "open", "left"}]
         /\ socket \in [Pages -> Conns \cup {NoSocket}]
         /\ ready \in [Pages -> BOOLEAN] /\ timer \in [Pages -> BOOLEAN]
         /\ queue \in [Pages -> Seq(Acts)]
         /\ recvSeqNum \in [Pages -> Nat]
    BY <2>0 DEF RouterTypes
  <2>11. /\ version \in [Pages -> Nat \cup {-1}]
         /\ submitted \in [Pages -> BOOLEAN]
         /\ refreshed \in [Pages -> {"never", "due", "done"}]
    BY <2>0 DEF ViewTypes
  <2>12. issued \in [Acts -> Pages \cup {Nobody, Elsewhere}]
    BY <1>1 DEF Types
  <2> QED
    BY <2>4, <2>5, <2>6, <2>7, <2>8, <2>9, <2>10, <2>11, <2>12 DEF TypeOK
<1>2. Typed => TypeOK
  BY <1>1 DEF Typed
<1> QED
  BY <1>2, TypedAlways, PTL

-----------------------------------------------------------------------------
(* The invariant of the connections is inductive                           *)

LEMMA EventFields ==
    /\ \A c, kind : Event(c, kind).conn = c /\ Event(c, kind).kind = kind
    /\ \A c, a : ActEvent(c, a).conn = c /\ ActEvent(c, a).kind = "ACT"
BY DEF Event, ActEvent

(* What a worker does to the rest of the world when it works for c.        *)
LEMMA WorkEffect ==
    ASSUME NEW n \in Nat, ServerTypes(n), UnusedIsNew, EndsAreTrue, NEW c \in Conns, Work(c)
    PROVE  /\ UNCHANGED link /\ link[c] # "unused"
           /\ events' \subseteq events /\ greeted \subseteq greeted'
           /\ \A e \in events : e.conn # c => e \in events'
           /\ \A d \in Conns \ {c} :
                  /\ answering'[d] = answering[d] /\ (d \in greeted' => d \in greeted)
                  /\ HasRow(d)' => HasRow(d)
                  /\ HasRow(d) /\ link[d] = "open" => HasRow(d)' \/ Ping \in ToSet(out'[d])
           /\ \A d \in Conns :
                  /\ ToSet(out[d]) \subseteq ToSet(out'[d])
                  /\ link[d] # "open" => out'[d] = out[d]
                  /\ GotHello \in ToSet(out'[d]) => GotHello \in ToSet(out[d]) \/ d \in greeted'
           /\ HasRow(c)' \/ answering'[c] # Idle \/ link[c] = "cut"
<1> USE DEF HasRow
<1>0. /\ out \in [Conns -> Seq(SentOver(n))] /\ rows \in [Conns -> RowTypes]
      /\ answering \in [Conns -> AnswerOver(n)] /\ greeted \subseteq Conns
  BY DEF ServerTypes
<1>1. ASSUME NEW kind, Event(c, kind) \in events PROVE link[c] # "unused"
  BY <1>1, EventFields DEF UnusedIsNew
<1>2. ASSUME NEW to, NEW m \in SentOver(n), m # GotHello, out' = Delivered(to, m), NEW d \in Conns
      PROVE  /\ ToSet(out[d]) \subseteq ToSet(out'[d])
             /\ link[d] # "open" => out'[d] = out[d]
             /\ GotHello \in ToSet(out'[d]) => GotHello \in ToSet(out[d])
  <2>1. ToSet(Delivered(to, m)[d]) = ToSet(out[d]) \cup (IF d \in to /\ link[d] = "open" THEN {m} ELSE {})
    BY <1>0, DeliveredTyped
  <2>2. link[d] # "open" => Delivered(to, m)[d] = out[d]
    BY DEF Delivered
  <2> QED
    BY <1>2, <2>1, <2>2
<1>3. Fresh.exists /\ ~NoRow.exists /\ Loading # Idle /\ \A g : Sending(g) # Idle
  BY DEF Fresh, NoRow, Loading, Idle, Sending
<1>4. CASE Accept(c)
  <2>1. link[c] # "unused"
    BY <1>1, <1>4 DEF Accept
  <2>2. out' = Delivered({c}, Accepted) /\ Accepted \in SentOver(n) /\ Accepted # GotHello
    BY <1>4, MessageTypes DEF Accept, Accepted, GotHello
  <2>3. \A d \in Conns : /\ ToSet(out[d]) \subseteq ToSet(out'[d])
                         /\ link[d] # "open" => out'[d] = out[d]
                         /\ GotHello \in ToSet(out'[d]) => GotHello \in ToSet(out[d])
    BY <1>2, <2>2
  <2>4. /\ UNCHANGED <<link, greeted>> /\ events' = events \ {Event(c, "connect")}
        /\ rows' = [rows EXCEPT ![c] = Fresh] /\ answering' = [answering EXCEPT ![c] = Loading]
    BY <1>4 DEF Accept, SetUp
  <2> QED
    BY <1>0, <1>3, <2>1, <2>3, <2>4, EventFields
<1>5. CASE LoadGame(c)
  <2>1. link[c] # "unused"
    BY <1>3, <1>5 DEF LoadGame, UnusedIsNew
  <2> QED
    BY <1>0, <1>3, <1>5, <2>1 DEF LoadGame
<1>6. CASE Answer(c)
  <2>0. answering[c] \in AnswerOver(n) /\ answering[c].step = "send"
    BY <1>0, <1>6 DEF Answer
  <2>1. answering[c] # Idle /\ answering[c].game \in 1..n
    BY <2>0, AnswersTyped
  <2>2. link[c] # "unused"
    BY <2>1 DEF UnusedIsNew
  <2>3. out' = Delivered({c}, State(answering[c].game))
    BY <1>6 DEF Answer
  <2>4. State(answering[c].game) \in SentOver(n) /\ State(answering[c].game) # GotHello
    BY <2>1, MessageTypes DEF State, GotHello
  <2> QED
    BY <1>0, <1>2, <1>3, <1>6, <2>2, <2>3, <2>4 DEF Answer, SetUp
<1>7. CASE OnHello(c)
  <2>1. link[c] # "unused"
    BY <1>1, <1>7 DEF OnHello
  <2>2. out' = [d \in Conns |-> IF d = c THEN Delivered({c}, GotHello)[c]
                                             ELSE Delivered(Others(c), Ping)[d]]
    BY <1>7 DEF OnHello
  <2>3. /\ ToSet(out'[c]) = ToSet(out[c]) \cup (IF link[c] = "open" THEN {GotHello} ELSE {})
        /\ \A d \in Conns \ {c} : ToSet(out'[d]) =
              ToSet(out[d]) \cup (IF d \in Others(c) /\ link[d] = "open" THEN {Ping} ELSE {})
    <3>0. GotHello \in SentOver(n) /\ Ping \in SentOver(n)
      BY MessageTypes
    <3>1. ASSUME NEW to, NEW m \in SentOver(n), NEW d \in Conns
          PROVE  ToSet(Delivered(to, m)[d]) =
                     ToSet(out[d]) \cup (IF d \in to /\ link[d] = "open" THEN {m} ELSE {})
      BY <1>0, DeliveredTyped
    <3>2. ToSet(Delivered({c}, GotHello)[c]) =
              ToSet(out[c]) \cup (IF c \in {c} /\ link[c] = "open" THEN {GotHello} ELSE {})
      BY <3>0, <3>1, Zenon
    <3>3. \A d \in Conns : ToSet(Delivered(Others(c), Ping)[d]) =
              ToSet(out[d]) \cup (IF d \in Others(c) /\ link[d] = "open" THEN {Ping} ELSE {})
      BY <3>0, <3>1, Zenon
    <3> QED
      BY <2>2, <3>2, <3>3
  <2>4. \A d \in Conns : link[d] # "open" => out'[d] = out[d]
    BY <2>2 DEF Delivered
  <2>5. Ping # GotHello
    BY DEF Ping, GotHello
  <2>6. \A d \in Conns : ToSet(out[d]) \subseteq ToSet(out'[d])
    BY <2>3
  <2>7. greeted' = greeted \cup {c} /\ UNCHANGED <<link, answering>>
        /\ events' = events \ {Event(c, "HELLO")}
    BY <1>7 DEF OnHello
  <2>8. /\ rows'[c].exists
        /\ \A d \in Conns \ {c} : rows'[d].exists => rows[d].exists
        /\ \A d \in Conns \ {c} : rows[d].exists => d \in Others(c)
    BY <1>0, <1>3, <1>7 DEF OnHello, CleanedUp, Others, RowTypes
  <2>9. \A d \in Conns :
            GotHello \in ToSet(out'[d]) => GotHello \in ToSet(out[d]) \/ d \in greeted'
    BY <2>3, <2>5, <2>7
  <2>10. \A d \in Conns \ {c} : rows[d].exists /\ link[d] = "open" => Ping \in ToSet(out'[d])
    BY <2>3, <2>8
  <2> QED
    BY <2>1, <2>4, <2>6, <2>7, <2>8, <2>9, <2>10, EventFields
<1>8. CASE OnPingResponse(c)
  <2>1. link[c] # "unused"
    BY <1>1, <1>8 DEF OnPingResponse
  <2> QED
    BY <1>0, <1>3, <1>8, <2>1, EventFields DEF OnPingResponse, SetUp
<1>9. ASSUME NEW a \in Acts, OnAct(c, a)
      PROVE  /\ link[c] # "unused" /\ UNCHANGED <<link, answering, out, greeted>>
             /\ events' = events \ {ActEvent(c, a)} /\ rows' = SetUp(c)
  <2>1. link[c] # "unused"
    BY <1>9, EventFields DEF OnAct, UnusedIsNew
  <2> QED
    BY <1>9, <2>1 DEF OnAct
<1>10. CASE \E a \in Acts : OnAct(c, a)
  BY <1>0, <1>3, <1>9, <1>10, EventFields DEF SetUp
<1>11. CASE OnDisconnect(c)
  <2>1. PICK kind \in {"disconnect", "goodbye"} :
            /\ Event(c, kind) \in events /\ events' = events \ {Event(c, kind)}
            /\ rows' = [rows EXCEPT ![c] = NoRow] /\ UNCHANGED <<link, answering, out, greeted>>
    BY <1>11 DEF OnDisconnect
  <2>2. link[c] = "cut"
    BY <2>1 DEF EndsAreTrue
  <2> QED
    BY <1>0, <1>3, <2>1, <2>2, EventFields
<1> QED
  BY <1>4, <1>5, <1>6, <1>7, <1>8, <1>10, <1>11 DEF Work

LEMMA ServerKeepsConn ==
    ASSUME NEW n \in Nat, Types(n), ConnInv, NEW c \in Conns, Server(c)
    PROVE  ConnInv'
<1> USE DEF ConnInv
<1>1. UNCHANGED <<page, socket, ready, queue>>
  BY DEF Server, routerVars
<1>2. /\ socket \in [Pages -> Conns \cup {NoSocket}] /\ events \subseteq EventTypes
      /\ \A p \in Pages : ready[p] => socket[p] \in Conns
  BY DEF Types, RouterTypes, ServerTypes
<1>3. /\ UNCHANGED link /\ link[c] # "unused"
      /\ events' \subseteq events /\ greeted \subseteq greeted'
      /\ \A e \in events : e.conn # c => e \in events'
      /\ \A d \in Conns \ {c} :
             /\ answering'[d] = answering[d] /\ (d \in greeted' => d \in greeted)
             /\ HasRow(d)' => HasRow(d)
             /\ HasRow(d) /\ link[d] = "open" => HasRow(d)' \/ Ping \in ToSet(out'[d])
      /\ \A d \in Conns :
             /\ ToSet(out[d]) \subseteq ToSet(out'[d])
             /\ link[d] # "open" => out'[d] = out[d]
             /\ GotHello \in ToSet(out'[d]) => GotHello \in ToSet(out[d]) \/ d \in greeted'
      /\ HasRow(c)' \/ answering'[c] # Idle \/ link[c] = "cut"
  BY WorkEffect DEF Types, Server
<1>4. OneOwner'
  BY <1>1, <1>3 DEF OneOwner
<1>5. UnusedIsNew'
  BY <1>3 DEF UnusedIsNew
<1>6. ClosedIsSilent' /\ EndsAreTrue'
  BY <1>3 DEF ClosedIsSilent, EndsAreTrue
<1>7. ReadyIsGreeted' /\ HelloComesFirst'
  BY <1>1, <1>3 DEF ReadyIsGreeted, HelloComesFirst
<1>8. ASSUME NEW d \in Conns, link[d] = "open", Known(d) PROVE Known(d)'
  <2>1. CASE d = c
    BY <1>3, <1>8, <2>1 DEF Known
  <2>2. CASE d # c
    BY <1>3, <1>8, <2>2 DEF Known
  <2> QED
    BY <2>1, <2>2
<1>9. AliveIsKnown'
  BY <1>1, <1>3, <1>8 DEF AliveIsKnown, Known
<1> QED
  BY <1>4, <1>5, <1>6, <1>7, <1>9

LEMMA TableKeepsConn ==
    ASSUME NEW n \in Nat, Types(n), ConnInv, Table
    PROVE  ConnInv'
<1> USE DEF ConnInv
<1>1. UNCHANGED <<page, socket, ready, queue, link, rows, events, answering, greeted>>
  BY DEF Table, Beat, TableMoves, Obey, Refuse, Announce, routerVars
<1>2. ASSUME NEW d \in Conns
      PROVE  /\ ToSet(out[d]) \subseteq ToSet(out'[d])
             /\ link[d] # "open" => out'[d] = out[d]
             /\ GotHello \in ToSet(out'[d]) => GotHello \in ToSet(out[d])
  <2>1. CASE UNCHANGED out
    BY <2>1
  <2>2. CASE Announce
    <3>1. game \in 2..n /\ out \in [Conns -> Seq(SentOver(n))]
      BY <2>2 DEF Announce, Types, ServerTypes
    <3>2. Broadcast(game) \in SentOver(n) /\ Broadcast(game) # GotHello
      BY <3>1, MessageTypes DEF Broadcast, GotHello
    <3>3. PICK to : out' = Delivered(to, Broadcast(game))
      BY <2>2 DEF Announce
    <3>4. ToSet(out'[d]) =
              ToSet(out[d]) \cup (IF d \in to /\ link[d] = "open" THEN {Broadcast(game)} ELSE {})
      <4>1. ToSet(Delivered(to, Broadcast(game))[d]) =
              ToSet(out[d]) \cup (IF d \in to /\ link[d] = "open" THEN {Broadcast(game)} ELSE {})
        BY <3>1, <3>2, DeliveredTyped
      <4> QED
        BY <3>3, <4>1
    <3>5. link[d] # "open" => out'[d] = out[d]
      BY <3>3 DEF Delivered
    <3> QED
      BY <3>2, <3>4, <3>5
  <2> QED
    BY <2>1, <2>2 DEF Table, Beat, TableMoves, Obey, Refuse
<1>3. OneOwner' /\ UnusedIsNew' /\ EndsAreTrue' /\ HelloComesFirst'
  BY <1>1 DEF OneOwner, UnusedIsNew, EndsAreTrue, HelloComesFirst, HasRow
<1>4. ClosedIsSilent' /\ ReadyIsGreeted'
  BY <1>1, <1>2 DEF ClosedIsSilent, ReadyIsGreeted
<1>5. AliveIsKnown'
  BY <1>1, <1>2 DEF AliveIsKnown, Known, HasRow
<1> QED
  BY <1>3, <1>4, <1>5

LEMMA NetworkKeepsConn ==
    ASSUME NEW n \in Nat, Types(n), ConnInv, NEW c \in Conns, Network(c)
    PROVE  ConnInv'
<1> USE DEF ConnInv
<1>0. /\ link \in [Conns -> {"unused", "open", "cut"}] /\ rows \in [Conns -> RowTypes]
      /\ out \in [Conns -> Seq(SentOver(n))] /\ socket \in [Pages -> Conns \cup {NoSocket}]
      /\ \A p \in Pages : ready[p] => socket[p] \in Conns
  BY DEF Types, ServerTypes, RouterTypes
<1>1. CASE Cut(c)
  <2>1. /\ link[c] = "open" /\ link' = [link EXCEPT ![c] = "cut"]
        /\ out' = [out EXCEPT ![c] = <<>>] /\ events' = events \cup {Event(c, "disconnect")}
        /\ UNCHANGED <<rows, answering, greeted, page, socket, ready, queue>>
    BY <1>1 DEF Network, Cut, routerVars
  <2>2. OneOwner' /\ ClosedIsSilent'
    BY <1>0, <2>1 DEF OneOwner, ClosedIsSilent
  <2>3. UnusedIsNew' /\ HelloComesFirst'
    BY <1>0, <2>1, EventFields DEF UnusedIsNew, HelloComesFirst, HasRow, PingResponse
  <2>4. EndsAreTrue'
    <3>1. \A d \in Conns, kind \in {"disconnect", "goodbye"} :
              Event(d, kind) \in events' => Event(d, kind) \in events \/ d = c
      BY <2>1, EventFields
    <3> QED
      BY <1>0, <2>1, <3>1 DEF EndsAreTrue
  <2>5. ReadyIsGreeted'
    BY <1>0, <2>1, EmptyIsSeq DEF ReadyIsGreeted
  <2>6. AliveIsKnown'
    BY <1>0, <2>1 DEF AliveIsKnown, Known, HasRow
  <2> QED
    BY <2>2, <2>3, <2>4, <2>5, <2>6
<1>2. CASE Age(c)
  <2>1. /\ UNCHANGED <<link, events, answering, out, greeted, page, socket, ready, queue>>
        /\ \A d \in Conns : rows'[d].exists = rows[d].exists
    BY <1>0, <1>2 DEF Network, Age, routerVars, RowTypes
  <2> QED
    BY <2>1 DEF OneOwner, UnusedIsNew, ClosedIsSilent, EndsAreTrue, ReadyIsGreeted,
                HelloComesFirst, AliveIsKnown, Known, HasRow
<1> QED
  BY <1>1, <1>2, <1>1 DEF Network

(* What is sent arrives as events of the connection, if it is open.        *)
LEMMA SentEvents ==
    ASSUME NEW c \in Conns, NEW ms \in SUBSET (Acts \cup {"HELLO", PingResponse})
    PROVE  /\ events \subseteq Sent(c, ms)
           /\ \A e \in Sent(c, ms) \ events :
                 /\ link[c] = "open" /\ e.conn = c
                 /\ e.kind \in {"ACT", "HELLO", PingResponse}
                 /\ e.kind = "ACT" => \E m \in ms : m \in Acts
           /\ link[c] = "open" /\ PingResponse \in ms => \E e \in Sent(c, ms) : e.conn = c
           /\ link[c] = "open" /\ "HELLO" \in ms => \E e \in Sent(c, ms) : e.conn = c
<1>1. \A m \in ms : EventOf(c, m).conn = c
  BY EventFields DEF EventOf
<1>2. \A m \in ms : EventOf(c, m).kind \in {"ACT", "HELLO", PingResponse}
  BY EventFields DEF EventOf
<1>3. \A m \in ms : EventOf(c, m).kind = "ACT" => m \in Acts
  BY EventFields DEF EventOf, PingResponse
<1> QED
  BY <1>1, <1>2, <1>3 DEF Sent

LEMMA SetupKeepsConn ==
    ASSUME NEW n \in Nat, Types(n), ConnInv, NEW p \in Pages, Load(p) \/ Reopen(p)
    PROVE  ConnInv'
<1> USE DEF ConnInv
<1>0. /\ link \in [Conns -> {"unused", "open", "cut"}]
      /\ socket \in [Pages -> Conns \cup {NoSocket}] /\ ready \in [Pages -> BOOLEAN]
      /\ \A q \in Pages : ready[q] => socket[q] \in Conns
      /\ page \in [Pages -> {"closed", "open", "left"}]
  BY DEF Types, ServerTypes, RouterTypes
<1>1. PICK c \in Unused :
          /\ socket' = [socket EXCEPT ![p] = c] /\ link' = [link EXCEPT ![c] = "open"]
          /\ events' = events \cup {Event(c, "connect")}
          /\ ready' = [ready EXCEPT ![p] = FALSE] /\ queue' = queue
  BY DEF Load, Reopen, SetupSocket, Restarted
<1>2. c \in Conns /\ link[c] = "unused"
  BY <1>1 DEF Unused
<1>3. UNCHANGED <<rows, answering, out, greeted>>
      /\ (page' = [page EXCEPT ![p] = "open"] \/ (UNCHANGED page /\ page[p] = "open"))
  BY DEF Load, Reopen
<1>4. OneOwner'
  BY <1>0, <1>1, <1>2, <1>3 DEF OneOwner
<1>5. UnusedIsNew' /\ HelloComesFirst'
  BY <1>0, <1>1, <1>2, <1>3, EventFields DEF UnusedIsNew, HelloComesFirst, HasRow, PingResponse
<1>6. ClosedIsSilent'
  BY <1>0, <1>1, <1>2, <1>3 DEF ClosedIsSilent
<1>7. EndsAreTrue'
  <2>1. \A d \in Conns, kind \in {"disconnect", "goodbye"} :
            Event(d, kind) \in events' => Event(d, kind) \in events
    BY <1>1, EventFields
  <2>2. \A kind : Event(c, kind) \notin events
    BY <1>2, EventFields DEF UnusedIsNew
  <2> QED
    BY <1>0, <1>1, <1>2, <2>1, <2>2 DEF EndsAreTrue
<1>8. ReadyIsGreeted'
  BY <1>0, <1>1, <1>3 DEF ReadyIsGreeted
<1>9. AliveIsKnown'
  <2>1. Known(c)'
    BY <1>1, EventFields DEF Known
  <2>2. \A d \in Conns : Known(d) => Known(d)'
    BY <1>1, <1>3 DEF Known, HasRow
  <2>3. \A q \in Pages : q # p /\ socket[q] \in Conns => socket[q] # c
    BY <1>2 DEF OneOwner
  <2> QED
    BY <1>0, <1>1, <2>1, <2>2, <2>3 DEF AliveIsKnown
<1> QED
  BY <1>4, <1>5, <1>6, <1>7, <1>8, <1>9

LEMMA CloseKeepsConn ==
    ASSUME NEW n \in Nat, Types(n), ConnInv, NEW p \in Pages, OnClose(p) \/ Unload(p)
    PROVE  ConnInv'
<1> USE DEF ConnInv
<1>0. /\ link \in [Conns -> {"unused", "open", "cut"}]
      /\ out \in [Conns -> Seq(SentOver(n))]
      /\ queue \in [Pages -> Seq(Acts)]
      /\ socket \in [Pages -> Conns \cup {NoSocket}] /\ ready \in [Pages -> BOOLEAN]
      /\ \A q \in Pages : ready[q] => socket[q] \in Conns
      /\ page \in [Pages -> {"closed", "open", "left"}]
  BY DEF Types, ServerTypes, RouterTypes
<1>1. /\ socket' = [socket EXCEPT ![p] = NoSocket] /\ ready' = [ready EXCEPT ![p] = FALSE]
      /\ UNCHANGED <<rows, answering, greeted>>
      /\ \A q \in Pages : q # p => page'[q] = page[q] /\ queue'[q] = queue[q]
  BY <1>0 DEF OnClose, Unload, Close, serverVars
<1>2. CASE UNCHANGED <<link, out, events>>
  <2>1. OneOwner'
    BY <1>0, <1>1, <1>2, RouterAssumption DEF OneOwner
  <2>2. UnusedIsNew' /\ ClosedIsSilent' /\ EndsAreTrue' /\ HelloComesFirst'
    BY <1>1, <1>2 DEF UnusedIsNew, ClosedIsSilent, EndsAreTrue, HelloComesFirst, HasRow
  <2>3. ReadyIsGreeted'
    BY <1>0, <1>1, <1>2 DEF ReadyIsGreeted
  <2>4. AliveIsKnown'
    BY <1>0, <1>1, <1>2, RouterAssumption DEF AliveIsKnown, Known, HasRow
  <2> QED
    BY <2>1, <2>2, <2>3, <2>4
<1>3. ASSUME NEW c \in Conns, c = socket[p], link[c] = "open",
             link' = [link EXCEPT ![c] = "cut"], out' = [out EXCEPT ![c] = <<>>],
             events' = events \cup {Event(c, "goodbye")}
      PROVE  ConnInv'
  <2>0. \A q \in Pages : q # p => socket[q] # c
    BY <1>3 DEF OneOwner
  <2>1. OneOwner'
    BY <1>0, <1>1, <1>3, RouterAssumption DEF OneOwner
  <2>2. UnusedIsNew' /\ HelloComesFirst'
    BY <1>0, <1>1, <1>3, EventFields DEF UnusedIsNew, HelloComesFirst, HasRow, PingResponse
  <2>3. ClosedIsSilent'
    BY <1>0, <1>3 DEF ClosedIsSilent
  <2>4. EndsAreTrue'
    <3>1. \A d \in Conns, kind \in {"disconnect", "goodbye"} :
              Event(d, kind) \in events' => Event(d, kind) \in events \/ d = c
      BY <1>3, EventFields
    <3> QED
      BY <1>0, <1>3, <3>1 DEF EndsAreTrue
  <2>5. ReadyIsGreeted'
    BY <1>0, <1>1, <1>3, EmptyIsSeq DEF ReadyIsGreeted
  <2>6. AliveIsKnown'
    BY <1>0, <1>1, <1>3, <2>0, RouterAssumption DEF AliveIsKnown, Known, HasRow
  <2> QED
    BY <2>1, <2>2, <2>3, <2>4, <2>5, <2>6
<1>4. CASE OnClose(p)
  BY <1>2, <1>4 DEF OnClose, serverVars
<1>5. CASE Unload(p)
  BY <1>2, <1>3, <1>5 DEF Unload
<1> QED
  BY <1>4, <1>5

(* A message is taken from the connection of a page, and something may be  *)
(* sent on it that its state allows.                                       *)
LEMMA TakingKeepsConn ==
    ASSUME NEW n \in Nat, Types(n), ConnInv, NEW p \in Pages, NEW c \in Conns, c = socket[p],
           out[c] # <<>>, out' = [out EXCEPT ![c] = Tail(out[c])],
           NEW ms \in SUBSET (Acts \cup {"HELLO", PingResponse}),
           events' = Sent(c, ms), (\E m \in ms : m \in Acts) => c \in greeted,
           UNCHANGED <<link, rows, answering, greeted, page, socket>>,
           \A q \in Pages \ {p} : ready'[q] = ready[q] /\ queue'[q] = queue[q],
           ready'[p] => c \in greeted,
           AliveIsKnown'
    PROVE  ConnInv'
<1> USE DEF ConnInv
<1>0. out \in [Conns -> Seq(SentOver(n))] /\ events \subseteq EventTypes
  BY DEF Types, ServerTypes
<1>1. link[c] = "open"
  BY DEF ClosedIsSilent, OneOwner
<1>2. ToSet(out[c]) = {Head(out[c])} \cup ToSet(Tail(out[c]))
  BY <1>0, FirstAndRest
<1>3. \A d \in Conns : ToSet(out'[d]) \subseteq ToSet(out[d])
  BY <1>0, <1>2
<1>4. OneOwner'
  BY DEF OneOwner
<1>5. UnusedIsNew'
  BY <1>1, SentEvents DEF UnusedIsNew, HasRow
<1>6. ClosedIsSilent'
  BY <1>0, <1>1 DEF ClosedIsSilent
<1>7. EndsAreTrue'
  <2>1. \A d \in Conns, kind \in {"disconnect", "goodbye"} :
            Event(d, kind) \in events' => Event(d, kind) \in events
    BY SentEvents, EventFields DEF PingResponse
  <2> QED
    BY <2>1 DEF EndsAreTrue
<1>8. ReadyIsGreeted'
  BY <1>3 DEF ReadyIsGreeted
<1>9. HelloComesFirst'
  <2>1. \A e \in events' : e \in events \/ (e.conn = c /\ (e.kind = "ACT" => c \in greeted))
    BY SentEvents
  <2> QED
    BY <2>1 DEF HelloComesFirst
<1> QED
  BY <1>4, <1>5, <1>6, <1>7, <1>8, <1>9

LEMMA ReceiveKeepsConn ==
    ASSUME NEW n \in Nat, Types(n), ConnInv, NEW p \in Pages, Receive(p)
    PROVE  ConnInv'
<1> DEFINE c == socket[p]
<1>0. /\ out \in [Conns -> Seq(SentOver(n))] /\ events \subseteq EventTypes
      /\ queue \in [Pages -> Seq(Acts)] /\ ready \in [Pages -> BOOLEAN]
      /\ \A q \in Pages : ready[q] => socket[q] \in Conns
      /\ socket \in [Pages -> Conns \cup {NoSocket}]
  BY DEF Types, ServerTypes, RouterTypes
<1>1. /\ c \in Conns /\ out[c] # <<>> /\ out' = [out EXCEPT ![c] = Tail(out[c])]
      /\ UNCHANGED <<link, rows, answering, greeted, page, socket>>
  <2>1. CASE OnOpen(p)
    BY <2>1 DEF OnOpen
  <2>2. CASE OnGamestate(p) \/ OnGotHello(p) \/ OnPing(p)
    <3>1. Incoming(p) # Accepted
      BY <2>2 DEF OnGamestate, OnGotHello, OnPing, Accepted, GotHello, Ping
    <3> QED
      BY <2>2, <3>1, IncomingIsHead DEF OnGamestate, OnGotHello, OnPing, Received
  <2> QED
    BY <2>1, <2>2 DEF Receive
<1>2. link[c] = "open" /\ \A q \in Pages : q # p => socket[q] # c
  BY <1>1 DEF ConnInv, ClosedIsSilent, OneOwner
<1>3. ToSet(out[c]) = {Head(out[c])} \cup ToSet(Tail(out[c]))
  BY <1>0, <1>1, FirstAndRest
<1>4. ASSUME events \subseteq events', Head(out[c]) = Ping => \E e \in events' : e.conn = c,
             NEW d \in Conns, Known(d)
      PROVE  Known(d)'
  <2>1. Ping \in ToSet(out[d]) => Ping \in ToSet(out'[d]) \/ (d = c /\ Head(out[c]) = Ping)
    BY <1>0, <1>1, <1>3
  <2> QED
    BY <1>1, <1>4, <2>1 DEF Known, HasRow
<1>5. CASE OnOpen(p)
  <2>1. events' = Sent(c, {"HELLO"}) /\ UNCHANGED <<ready, queue>> /\ Head(out[c]) = Accepted
    BY <1>5 DEF OnOpen, SendControl
  <2>2. events \subseteq events' /\ \E e \in events' : e.conn = c
    BY <1>1, <1>2, <2>1, SentEvents
  <2>3. AliveIsKnown'
    BY <1>1, <1>4, <2>1, <2>2 DEF ConnInv, AliveIsKnown
  <2>4. ready'[p] => c \in greeted
    BY <2>1 DEF ConnInv, ReadyIsGreeted
  <2>5. {"HELLO"} \in SUBSET (Acts \cup {"HELLO", PingResponse}) /\ ~\E m \in {"HELLO"} : m \in Acts
    BY SocketsAssumption
  <2> QED
    BY <1>1, <2>1, <2>3, <2>4, <2>5, TakingKeepsConn
<1>6. CASE OnGamestate(p)
  <2>1. events' = events /\ UNCHANGED <<ready, queue>> /\ Head(out[c]) # Ping
    BY <1>6, IncomingIsHead DEF OnGamestate, Accepted, Ping
  <2>2. events' = Sent(c, {})
    BY <2>1 DEF Sent
  <2>3. AliveIsKnown'
    BY <1>1, <1>4, <2>1 DEF ConnInv, AliveIsKnown
  <2>4. ready'[p] => c \in greeted
    BY <2>1 DEF ConnInv, ReadyIsGreeted
  <2> QED
    BY <1>1, <2>1, <2>2, <2>3, <2>4, TakingKeepsConn
<1>7. CASE OnGotHello(p)
  <2>1. /\ Head(out[c]) = GotHello /\ events' = Sent(c, ToSet(queue[p]))
        /\ ready' = [ready EXCEPT ![p] = TRUE] /\ queue' = [queue EXCEPT ![p] = <<>>]
    BY <1>7, IncomingIsHead DEF OnGotHello, Accepted, GotHello
  <2>2. c \in greeted
    BY <1>1, <1>3, <2>1 DEF ConnInv, ReadyIsGreeted
  <2>3. ToSet(queue[p]) \in SUBSET (Acts \cup {"HELLO", PingResponse})
    BY <1>0, LenProperties, ElementOfSeq DEF ToSet
  <2>4. events \subseteq events' /\ Head(out[c]) # Ping
    BY <1>1, <2>1, <2>3, SentEvents DEF GotHello, Ping
  <2>5. AliveIsKnown'
    BY <1>1, <1>4, <2>4 DEF ConnInv, AliveIsKnown
  <2> QED
    BY <1>0, <1>1, <2>1, <2>2, <2>3, <2>5, TakingKeepsConn
<1>8. CASE OnPing(p)
  <2>1. Head(out[c]) = Ping /\ events' = Sent(c, {PingResponse}) /\ UNCHANGED <<ready, queue>>
    BY <1>8, IncomingIsHead DEF OnPing, SendControl, Accepted, Ping
  <2>2. {PingResponse} \in SUBSET (Acts \cup {"HELLO", PingResponse}) /\ PingResponse \notin Acts
    BY SocketsAssumption DEF PingResponse
  <2>3. events \subseteq events' /\ \E e \in events' : e.conn = c
    BY <1>1, <1>2, <2>1, <2>2, SentEvents
  <2>4. AliveIsKnown'
    BY <1>1, <1>4, <2>1, <2>3 DEF ConnInv, AliveIsKnown
  <2>5. ready'[p] => c \in greeted
    BY <2>1 DEF ConnInv, ReadyIsGreeted
  <2> QED
    BY <1>1, <2>1, <2>2, <2>4, <2>5, TakingKeepsConn
<1> QED
  BY <1>5, <1>6, <1>7, <1>8 DEF Receive

LEMMA SubmitKeepsConn ==
    ASSUME NEW n \in Nat, Types(n), ConnInv, NEW p \in Pages, NEW a \in Acts, Submit(p, a)
    PROVE  ConnInv'
<1> USE DEF ConnInv
<1>0. /\ queue \in [Pages -> Seq(Acts)] /\ events \subseteq EventTypes
      /\ \A q \in Pages : ready[q] => socket[q] \in Conns
      /\ SendJson(p, a) /\ UNCHANGED <<link, rows, answering, out, greeted, page, socket, ready>>
  BY DEF Types, ServerTypes, RouterTypes, Submit
<1>1. CASE ready[p]
  <2> DEFINE c == socket[p]
  <2>1. c \in greeted /\ c \in Conns /\ events' = Sent(c, {a}) /\ UNCHANGED queue
    BY <1>0, <1>1 DEF SendJson, ReadyIsGreeted
  <2>2. {a} \in SUBSET (Acts \cup {"HELLO", PingResponse})
    OBVIOUS
  <2>3. /\ events \subseteq events'
        /\ \A e \in events' \ events : e.conn = c /\ e.kind \in {"ACT", "HELLO", PingResponse}
    BY <2>1, <2>2, SentEvents
  <2>4. OneOwner' /\ ClosedIsSilent' /\ ReadyIsGreeted'
    BY <1>0 DEF OneOwner, ClosedIsSilent, ReadyIsGreeted
  <2>5. UnusedIsNew' /\ HelloComesFirst'
    BY <1>0, <2>1, <2>3 DEF UnusedIsNew, HelloComesFirst, OneOwner, HasRow
  <2>6. EndsAreTrue'
    <3>1. \A d \in Conns, kind \in {"disconnect", "goodbye"} :
              Event(d, kind) \in events' => Event(d, kind) \in events
      BY <2>3, EventFields DEF PingResponse
    <3> QED
      BY <1>0, <3>1 DEF EndsAreTrue
  <2>7. AliveIsKnown'
    BY <1>0, <2>1, <2>3 DEF AliveIsKnown, Known, HasRow
  <2> QED
    BY <2>4, <2>5, <2>6, <2>7
<1>2. CASE ~ready[p]
  <2>1. events' = events /\ queue' = [queue EXCEPT ![p] = Append(queue[p], a)]
    BY <1>0, <1>2 DEF SendJson
  <2>2. ToSet(Append(queue[p], a)) = ToSet(queue[p]) \cup {a}
    BY <1>0, BehindAll
  <2>3. AliveIsKnown'
    BY <1>0, <2>1, <2>2 DEF AliveIsKnown, Known, HasRow
  <2>4. OneOwner' /\ UnusedIsNew' /\ ClosedIsSilent' /\ EndsAreTrue' /\ ReadyIsGreeted' /\ HelloComesFirst'
    BY <1>0, <2>1 DEF OneOwner, UnusedIsNew, ClosedIsSilent, EndsAreTrue, ReadyIsGreeted,
                      HelloComesFirst, HasRow
  <2> QED
    BY <2>3, <2>4
<1> QED
  BY <1>1, <1>2

LEMMA ConnNext ==
    ASSUME NEW n \in Nat, Types(n), ConnInv, [Next]_vars
    PROVE  ConnInv'
<1>1. ASSUME NEW p \in Pages, OpenPage(p) \/ Leave(p) \/ Receive(p) \/ Reconnect(p) PROVE ConnInv'
  BY <1>1, SetupKeepsConn, CloseKeepsConn, ReceiveKeepsConn DEF OpenPage, Leave, Reconnect
<1>2. ASSUME NEW p \in Pages, NEW a \in Acts, Submit(p, a) PROVE ConnInv'
  BY <1>2, SubmitKeepsConn
<1>3. ASSUME NEW c \in Conns, Server(c) \/ Network(c) PROVE ConnInv'
  BY <1>3, ServerKeepsConn, NetworkKeepsConn
<1>4. CASE Table
  BY <1>4, TableKeepsConn
<1>5. ASSUME NEW p \in Pages, Dispatch(p) \/ Browse(p) \/ UNCHANGED vars PROVE ConnInv'
  <2>1. UNCHANGED <<link, rows, answering, out, events, greeted, page, socket, ready, queue>>
    BY <1>5 DEF Dispatch, Browse, vars, serverVars, routerVars
  <2> QED
    BY <2>1 DEF ConnInv, OneOwner, UnusedIsNew, ClosedIsSilent, EndsAreTrue, ReadyIsGreeted,
                HelloComesFirst, AliveIsKnown, Known, HasRow
<1>6. CASE UNCHANGED vars
  BY <1>6 DEF vars, serverVars, routerVars, ConnInv, OneOwner, UnusedIsNew, ClosedIsSilent,
              EndsAreTrue, ReadyIsGreeted, HelloComesFirst, AliveIsKnown, Known, HasRow
<1> QED
  BY <1>1, <1>2, <1>3, <1>4, <1>5, <1>6 DEF Next

LEMMA ConnInit == Init => ConnInv
<1> SUFFICES ASSUME NEW s \in Scenes, ServerInit(s), RouterInit(s) PROVE ConnInv
  BY DEF Init
<1>1. OneOwner
  BY RouterAssumption DEF RouterInit, OneOwner
<1>2. UnusedIsNew /\ ClosedIsSilent /\ EndsAreTrue /\ HelloComesFirst
  BY DEF ServerInit, UnusedIsNew, ClosedIsSilent, EndsAreTrue, HelloComesFirst, HasRow, NoRow
<1>3. ReadyIsGreeted
  BY EmptyIsSeq DEF ServerInit, RouterInit, ReadyIsGreeted
<1>4. AliveIsKnown
  BY RouterAssumption DEF RouterInit, AliveIsKnown
<1> QED
  BY <1>1, <1>2, <1>3, <1>4 DEF ConnInv

LEMMA ConnAlways == Spec => [](Typed /\ ConnInv)
<1>1. Init => ConnInv
  BY ConnInit
<1>2. Typed /\ ConnInv /\ [Next]_vars => ConnInv'
  BY ConnNext DEF Typed
<1> QED
  BY <1>1, <1>2, TypedAlways, PTL DEF Spec

(* No action is sent on a connection whose HELLO has not been answered, in *)
(* whatever order the workers take the events and however often the page   *)
(* reconnects (send_json and _flush of the SocketRouter).                  *)
THEOREM GreetedFirst == Spec => []HelloComesFirst
<1>1. ConnInv => HelloComesFirst
  BY DEF ConnInv
<1> QED
  BY <1>1, ConnAlways, PTL

(* A socket that is alive, greeted or not, is never forgotten: when        *)
(* cleanup_stale deletes its row, the PING that makes its page answer is   *)
(* on the way, and every answer creates the row again.                     *)
THEOREM AliveStaysKnown == Spec => []AliveHasRow
<1>1. ConnInv => AliveHasRow
  BY DEF ConnInv, AliveIsKnown, Known, AliveHasRow
<1> QED
  BY <1>1, ConnAlways, PTL

-----------------------------------------------------------------------------
(* Actions are not sent twice                                              *)

LEMMA OnceBehind ==
    ASSUME NEW S, NEW s \in Seq(S), NEW x \in S, NEW a, OnceIn(a, s), a = x => a \notin ToSet(s)
    PROVE  OnceIn(a, Append(s, x))
<1>1. /\ Len(s) \in Nat /\ Len(Append(s, x)) = Len(s) + 1 /\ Append(s, x) \in Seq(S)
      /\ \A i \in 1..Len(s) : Append(s, x)[i] = s[i]
      /\ Append(s, x)[Len(s) + 1] = x
  BY AppendProperties, LenProperties
<1>2. DOMAIN s = 1..Len(s) /\ DOMAIN Append(s, x) = 1..(Len(s) + 1)
  BY <1>1, LenProperties
<1>3. \A i \in DOMAIN s : s[i] = a => a # x
  BY DEF ToSet
<1> QED
  BY <1>1, <1>2, <1>3 DEF OnceIn

LEMMA OnceInRest ==
    ASSUME NEW S, NEW s \in Seq(S), s # <<>>, NEW a, OnceIn(a, s)
    PROVE  OnceIn(a, Tail(s)) /\ (a = Head(s) => a \notin ToSet(Tail(s)))
<1>1. /\ Len(s) \in Nat \ {0} /\ Head(s) = s[1] /\ Tail(s) \in Seq(S)
      /\ Len(Tail(s)) = Len(s) - 1 /\ \A i \in 1..Len(Tail(s)) : Tail(s)[i] = s[i + 1]
  BY HeadTailProperties, EmptySeq
<1>2. DOMAIN s = 1..Len(s) /\ DOMAIN Tail(s) = 1..(Len(s) - 1)
  BY <1>1, LenProperties
<1>3. \A i \in DOMAIN Tail(s) : i + 1 \in DOMAIN s /\ i + 1 # 1 /\ Tail(s)[i] = s[i + 1]
  BY <1>1, <1>2
<1>4. 1 \in DOMAIN s
  BY <1>1, <1>2
<1>5. OnceIn(a, Tail(s))
  <2> SUFFICES ASSUME NEW i \in DOMAIN Tail(s), NEW j \in DOMAIN Tail(s),
                      Tail(s)[i] = a, Tail(s)[j] = a
               PROVE  i = j
    BY DEF OnceIn
  <2>1. i + 1 = j + 1
    BY <1>3 DEF OnceIn
  <2> QED
    BY <1>2, <2>1
<1>6. a = Head(s) => a \notin ToSet(Tail(s))
  BY <1>1, <1>3, <1>4 DEF OnceIn, ToSet
<1> QED
  BY <1>5, <1>6

(* Where nothing is added, nothing is doubled.                             *)
LEMMA PlacesShrink ==
    ASSUME PlaceInv, UNCHANGED <<issued, refused>>,
           \A a \in Acts, p \in Pages : a \in ToSet(queue'[p]) => a \in ToSet(queue[p]),
           \A a \in Acts, c \in Conns : ActEvent(c, a) \in events' => ActEvent(c, a) \in events,
           \A a \in Acts : InTable(a)' => InTable(a),
           \A a \in Acts : OnceIn(a, tableQueue) => OnceIn(a, tableQueue')
    PROVE  PlaceInv'
<1> SUFFICES ASSUME NEW a \in Acts PROVE OnePlace(a)'
  BY DEF PlaceInv
<1>1. OnePlace(a)
  BY DEF PlaceInv
<1>2. InQueue(a)' => InQueue(a)
  BY DEF InQueue
<1>3. InEvents(a)' => InEvents(a)
  BY DEF InEvents
<1> QED
  BY <1>1, <1>2, <1>3 DEF OnePlace

LEMMA ActEventsDiffer ==
    /\ \A c, d, a, b : ActEvent(c, a) = ActEvent(d, b) => c = d /\ a = b
    /\ \A c, d \in Conns, a \in Acts :
          \A kind \in {"connect", "disconnect", "goodbye", "HELLO", PingResponse} :
              ActEvent(c, a) # Event(d, kind)
<1>1. \A c, a : ActEvent(c, a).conn = c /\ ActEvent(c, a).act = a /\ ActEvent(c, a).kind = "ACT"
  BY DEF ActEvent
<1>2. \A d, kind : Event(d, kind).kind = kind
  BY DEF Event
<1> QED
  BY <1>1, <1>2 DEF PingResponse

(* The actions among the events after something was sent.                  *)
LEMMA SentActs ==
    ASSUME NEW c \in Conns, NEW ms \in SUBSET (Acts \cup {"HELLO", PingResponse})
    PROVE  \A d \in Conns, a \in Acts :
               ActEvent(d, a) \in Sent(c, ms) => ActEvent(d, a) \in events \/ (d = c /\ a \in ms)
<1> SUFFICES ASSUME NEW d \in Conns, NEW a \in Acts, ActEvent(d, a) \in Sent(c, ms),
                    ActEvent(d, a) \notin events
             PROVE  d = c /\ a \in ms
  OBVIOUS
<1>1. PICK m \in ms : ActEvent(d, a) = EventOf(c, m)
  BY DEF Sent
<1>2. CASE m \in Acts
  BY <1>1, <1>2, ActEventsDiffer DEF EventOf
<1>3. CASE m \notin Acts
  BY <1>1, <1>3, ActEventsDiffer DEF EventOf
<1> QED
  BY <1>2, <1>3

LEMMA SubmitKeepsPlaces ==
    ASSUME NEW n \in Nat, Types(n), ConnInv, PlaceInv, NEW p \in Pages, NEW b \in Acts, Submit(p, b)
    PROVE  PlaceInv'
<1> SUFFICES ASSUME NEW a \in Acts PROVE OnePlace(a)'
  BY DEF PlaceInv
<1>0. /\ queue \in [Pages -> Seq(Acts)] /\ issued \in [Acts -> Pages \cup {Nobody, Elsewhere}]
      /\ \A q \in Pages : ready[q] => socket[q] \in Conns
  BY DEF Types, RouterTypes
<1>1. /\ issued[b] = Nobody /\ issued' = [issued EXCEPT ![b] = p]
      /\ UNCHANGED <<tableQueue, refused>> /\ SendJson(p, b)
  BY DEF Submit, heartbeat
<1>2. OnePlace(a) /\ OnePlace(b) /\ Nobody \notin Pages
  BY PageAssumption DEF PlaceInv
<1>3. ~InQueue(b) /\ ~InEvents(b) /\ ~InTable(b) /\ b \notin refused
  BY <1>1, <1>2 DEF OnePlace
<1>4. InTable(a)' = InTable(a) /\ OnceIn(a, tableQueue)' = OnceIn(a, tableQueue)
  BY <1>1 DEF InTable
<1>5. issued'[a] = IF a = b THEN p ELSE issued[a]
  BY <1>0, <1>1
<1>6. CASE ready[p]
  <2>1. socket[p] \in Conns /\ events' = Sent(socket[p], {b}) /\ UNCHANGED queue
    BY <1>0, <1>1, <1>6 DEF SendJson
  <2>2. {b} \in SUBSET (Acts \cup {"HELLO", PingResponse})
    OBVIOUS
  <2>3. \A d \in Conns : ActEvent(d, a) \in events' => ActEvent(d, a) \in events \/ (d = socket[p] /\ a = b)
    BY <2>1, <2>2, SentActs
  <2>4. InQueue(a)' = InQueue(a)
    BY <2>1 DEF InQueue
  <2>5. CASE a = b
    BY <1>1, <1>2, <1>3, <1>4, <1>5, <2>1, <2>3, <2>4, <2>5 DEF OnePlace, InEvents, InQueue
  <2>6. CASE a # b
    <3>1. InEvents(a)' => InEvents(a)
      BY <2>3, <2>6 DEF InEvents
    <3> QED
      BY <1>1, <1>2, <1>4, <1>5, <2>1, <2>3, <2>4, <2>6, <3>1 DEF OnePlace
  <2> QED
    BY <2>5, <2>6
<1>7. CASE ~ready[p]
  <2>1. events' = events /\ queue' = [queue EXCEPT ![p] = Append(queue[p], b)]
    BY <1>1, <1>7 DEF SendJson
  <2>2. ToSet(Append(queue[p], b)) = ToSet(queue[p]) \cup {b}
    BY <1>0, BehindAll
  <2>3. \A q \in Pages : a \in ToSet(queue'[q]) => a \in ToSet(queue[q]) \/ (q = p /\ a = b)
    BY <1>0, <2>1, <2>2
  <2>4. InEvents(a)' = InEvents(a)
    BY <2>1 DEF InEvents
  <2>5. CASE a = b
    BY <1>1, <1>2, <1>3, <1>4, <1>5, <2>1, <2>3, <2>4, <2>5 DEF OnePlace, InEvents, InQueue
  <2>6. CASE a # b
    <3>1. InQueue(a)' => InQueue(a)
      BY <2>3, <2>6 DEF InQueue
    <3> QED
      BY <1>1, <1>2, <1>4, <1>5, <2>1, <2>3, <2>4, <2>6, <3>1 DEF OnePlace
  <2> QED
    BY <2>5, <2>6
<1> QED
  BY <1>6, <1>7

(* A flushed action goes from the queue of its page to one connection.     *)
LEMMA ReceiveKeepsPlaces ==
    ASSUME NEW n \in Nat, Types(n), ConnInv, PlaceInv, NEW p \in Pages, Receive(p)
    PROVE  PlaceInv'
<1>0. /\ queue \in [Pages -> Seq(Acts)]
      /\ \A q \in Pages : ready[q] => socket[q] \in Conns
      /\ UNCHANGED <<tableQueue, refused, issued>>
  <2>1. UNCHANGED <<tableQueue, refused>>
    BY DEF Receive, OnOpen, OnGamestate, OnGotHello, OnPing, Received, heartbeat
  <2> QED
    BY <2>1 DEF Types, RouterTypes, Receive
<1>1. \A a \in Acts : InTable(a)' = InTable(a) /\ OnceIn(a, tableQueue)' = OnceIn(a, tableQueue)
  BY <1>0 DEF InTable
<1>2. CASE OnGotHello(p)
  <2> DEFINE c == socket[p]
  <2>1. c \in Conns
    BY <1>2, IncomingIsHead DEF OnGotHello, Accepted, GotHello
  <2>2. events' = Sent(c, ToSet(queue[p])) /\ queue' = [queue EXCEPT ![p] = <<>>]
    BY <1>2 DEF OnGotHello
  <2>3. ToSet(queue[p]) \in SUBSET (Acts \cup {"HELLO", PingResponse})
    BY <1>0, LenProperties, ElementOfSeq DEF ToSet
  <2> SUFFICES ASSUME NEW a \in Acts PROVE OnePlace(a)'
    BY DEF PlaceInv
  <2>4. \A d \in Conns : ActEvent(d, a) \in events' =>
            ActEvent(d, a) \in events \/ (d = c /\ a \in ToSet(queue[p]))
    BY <2>1, <2>2, <2>3, SentActs
  <2>5. \A q \in Pages : a \in ToSet(queue'[q]) => a \in ToSet(queue[q]) /\ q # p
    BY <1>0, <2>2, EmptyIsSeq
  <2>6. OnePlace(a)
    BY DEF PlaceInv
  <2>7. CASE a \in ToSet(queue[p])
    <3>1. InQueue(a) /\ ~InQueue(a)'
      BY <2>5, <2>6, <2>7 DEF InQueue, OnePlace
    <3> QED
      BY <1>0, <1>1, <2>4, <2>5, <2>6, <3>1 DEF OnePlace, InEvents
  <2>8. CASE a \notin ToSet(queue[p])
    <3>1. (InQueue(a)' => InQueue(a)) /\ (InEvents(a)' => InEvents(a))
      BY <2>4, <2>5, <2>8 DEF InQueue, InEvents
    <3> QED
      BY <1>0, <1>1, <2>4, <2>5, <2>6, <2>8, <3>1 DEF OnePlace
  <2> QED
    BY <2>7, <2>8
<1>3. CASE OnOpen(p)
  <2>1. socket[p] \in Conns /\ events' = Sent(socket[p], {"HELLO"}) /\ UNCHANGED queue
    BY <1>3 DEF OnOpen, SendControl
  <2>2. {"HELLO"} \in SUBSET (Acts \cup {"HELLO", PingResponse}) /\ "HELLO" \notin Acts
    BY SocketsAssumption
  <2>3. \A a \in Acts, d \in Conns : ActEvent(d, a) \in events' => ActEvent(d, a) \in events
    BY <2>1, <2>2, SentActs
  <2> QED
    BY <1>0, <1>1, <2>1, <2>3, PlacesShrink
<1>4. CASE OnGamestate(p)
  <2>1. UNCHANGED <<events, queue>>
    BY <1>4 DEF OnGamestate
  <2> QED
    BY <1>0, <1>1, <2>1, PlacesShrink
<1>5. CASE OnPing(p)
  <2>0. PingResponse \notin Acts
    BY SocketsAssumption DEF PingResponse
  <2>1. socket[p] \in Conns /\ events' = Sent(socket[p], {PingResponse}) /\ UNCHANGED queue
    BY <1>5, IncomingIsHead DEF OnPing, SendControl, Accepted, Ping
  <2>2. {PingResponse} \in SUBSET (Acts \cup {"HELLO", PingResponse})
    OBVIOUS
  <2>3. \A a \in Acts, d \in Conns : ActEvent(d, a) \in events' => ActEvent(d, a) \in events
    BY <2>0, <2>1, <2>2, SentActs
  <2> QED
    BY <1>0, <1>1, <2>1, <2>3, PlacesShrink
<1> QED
  BY <1>2, <1>3, <1>4, <1>5 DEF Receive

(* A worker passes an action on to the heartbeat.                          *)
LEMMA ServerKeepsPlaces ==
    ASSUME NEW n \in Nat, Types(n), ConnInv, PlaceInv, NEW c \in Conns, Server(c)
    PROVE  PlaceInv'
<1>0. /\ tableQueue \in Seq(Acts \cup {Closed}) /\ UNCHANGED <<queue, issued, refused>>
      /\ Closed \notin Acts
  <2>1. UNCHANGED refused
    BY DEF Server, Work, Accept, LoadGame, Answer, OnHello, OnPingResponse, OnDisconnect, OnAct, heartbeat
  <2> QED
    BY <2>1, SocketsAssumption DEF Types, ServerTypes, Server, routerVars
<1>1. ASSUME NEW b \in Acts, OnAct(c, b) PROVE PlaceInv'
  <2> SUFFICES ASSUME NEW a \in Acts PROVE OnePlace(a)'
    BY DEF PlaceInv
  <2>1. /\ ActEvent(c, b) \in events /\ events' = events \ {ActEvent(c, b)}
        /\ tableQueue' = Append(tableQueue, b)
    BY <1>1 DEF OnAct
  <2>2. ToSet(Append(tableQueue, b)) = ToSet(tableQueue) \cup {b}
    BY <1>0, BehindAll
  <2>3. OnePlace(a) /\ InQueue(a)' = InQueue(a)
    BY <1>0 DEF PlaceInv, InQueue
  <2>4. a = b => InEvents(a) /\ ~InEvents(a)'
    BY <2>1, <2>3, ActEventsDiffer DEF InEvents, OnePlace
  <2>5. InEvents(a)' => InEvents(a)
    BY <2>1 DEF InEvents
  <2>6. InTable(a)' => InTable(a) \/ a = b
    BY <2>1, <2>2 DEF InTable
  <2>7. OnceIn(a, tableQueue)'
    <3>1. OnceIn(a, Append(tableQueue, b))
      BY <1>0, <2>3, <2>4, OnceBehind DEF OnePlace, InTable
    <3> QED
      BY <2>1, <3>1 DEF OnceIn
  <2> QED
    BY <1>0, <2>1, <2>3, <2>4, <2>5, <2>6, <2>7 DEF OnePlace
<1>2. CASE OnDisconnect(c)
  <2>1. /\ events' \subseteq events
        /\ tableQueue' = tableQueue \/ tableQueue' = Append(tableQueue, Closed)
    BY <1>2 DEF OnDisconnect
  <2>2. ASSUME tableQueue' = Append(tableQueue, Closed), NEW a \in Acts
        PROVE  (InTable(a)' => InTable(a)) /\ (OnceIn(a, tableQueue) => OnceIn(a, tableQueue'))
    <3>1. ToSet(Append(tableQueue, Closed)) = ToSet(tableQueue) \cup {Closed}
      BY <1>0, BehindAll
    <3>2. OnceIn(a, tableQueue) => OnceIn(a, Append(tableQueue, Closed))
      BY <1>0, OnceBehind
    <3> QED
      BY <1>0, <2>2, <3>1, <3>2 DEF InTable
  <2>3. \A a \in Acts : (InTable(a)' => InTable(a)) /\ (OnceIn(a, tableQueue) => OnceIn(a, tableQueue'))
    BY <2>1, <2>2 DEF InTable
  <2> QED
    BY <1>0, <2>1, <2>3, PlacesShrink
<1>3. CASE Accept(c) \/ LoadGame(c) \/ Answer(c) \/ OnHello(c) \/ OnPingResponse(c)
  <2>1. events' \subseteq events /\ UNCHANGED tableQueue
    BY <1>3 DEF Accept, LoadGame, Answer, OnHello, OnPingResponse, heartbeat
  <2> QED
    BY <1>0, <2>1, PlacesShrink DEF InTable
<1> QED
  BY <1>1, <1>2, <1>3 DEF Server, Work

(* The heartbeat takes an action, and remembers it if it refuses it.       *)
LEMMA TableKeepsPlaces ==
    ASSUME NEW n \in Nat, Types(n), PlaceInv, Table
    PROVE  PlaceInv'
<1>0. tableQueue \in Seq(Acts \cup {Closed}) /\ UNCHANGED <<queue, issued, events>>
  <2>1. UNCHANGED events
    BY DEF Table, Beat, TableMoves, Obey, Refuse, Announce
  <2> QED
    BY <2>1 DEF Types, ServerTypes, Table, routerVars
<1>1. CASE UNCHANGED <<tableQueue, refused>>
  BY <1>0, <1>1, PlacesShrink DEF InTable
<1>2. ASSUME tableQueue # <<>>, tableQueue' = Tail(tableQueue),
             refused' = refused \/ refused' = refused \cup {Head(tableQueue)}
      PROVE  PlaceInv'
  <2> SUFFICES ASSUME NEW a \in Acts PROVE OnePlace(a)'
    BY DEF PlaceInv
  <2>1. OnePlace(a) /\ InQueue(a)' = InQueue(a) /\ InEvents(a)' = InEvents(a)
    BY <1>0 DEF PlaceInv, InQueue, InEvents
  <2>2. ToSet(tableQueue) = {Head(tableQueue)} \cup ToSet(Tail(tableQueue))
    BY <1>0, <1>2, FirstAndRest
  <2>3. OnceIn(a, Tail(tableQueue)) /\ (a = Head(tableQueue) => a \notin ToSet(Tail(tableQueue)))
    BY <1>0, <1>2, <2>1, OnceInRest DEF OnePlace
  <2>4. InTable(a)' => InTable(a) /\ a # Head(tableQueue)
    BY <1>2, <2>2, <2>3 DEF InTable
  <2>5. a = Head(tableQueue) => InTable(a)
    BY <2>2 DEF InTable
  <2>6. a \in refused' => a \in refused \/ a = Head(tableQueue)
    BY <1>2
  <2>7. OnceIn(a, tableQueue)'
    BY <1>2, <2>3 DEF OnceIn
  <2> QED
    BY <1>0, <2>1, <2>4, <2>5, <2>6, <2>7 DEF OnePlace
<1> QED
  BY <1>1, <1>2 DEF Table, Beat, TableMoves, Obey, Refuse, Announce

LEMMA LinksKeepPlaces ==
    ASSUME NEW n \in Nat, Types(n), PlaceInv,
           \/ \E p \in Pages : OpenPage(p) \/ Dispatch(p) \/ Browse(p) \/ Leave(p) \/ Reconnect(p)
           \/ \E c \in Conns : Network(c)
           \/ UNCHANGED vars
    PROVE  PlaceInv'
<1>0. /\ queue \in [Pages -> Seq(Acts)]
      /\ socket \in [Pages -> Conns \cup {NoSocket}]
  BY DEF Types, RouterTypes
<1>1. UNCHANGED <<issued, refused, tableQueue>>
  BY DEF OpenPage, Load, Dispatch, Browse, Leave, Unload, Reconnect, OnClose, Reopen, Network, Cut, Age,
         vars, serverVars, heartbeat
<1>2. \A p \in Pages : queue'[p] = queue[p] \/ queue'[p] = <<>>
  BY <1>0 DEF OpenPage, Load, SetupSocket, Restarted, Dispatch, Browse, Leave, Unload, Reconnect,
              OnClose, Reopen, Network, vars, routerVars
<1>3. \/ events' \subseteq events
      \/ \E c \in Conns, kind \in {"connect", "disconnect", "goodbye"} :
             events' = events \cup {Event(c, kind)}
  <2>1. ASSUME NEW p \in Pages, SetupSocket(p)
        PROVE  \E c \in Conns : events' = events \cup {Event(c, "connect")}
    BY <2>1 DEF SetupSocket, Unused
  <2>2. ASSUME NEW p \in Pages, OpenPage(p) \/ Reopen(p)
        PROVE  \E c \in Conns : events' = events \cup {Event(c, "connect")}
    BY <2>1, <2>2 DEF OpenPage, Load, Reopen
  <2>3. ASSUME NEW p \in Pages, Unload(p)
        PROVE  events' = events \/ \E c \in Conns : events' = events \cup {Event(c, "goodbye")}
    BY <2>3 DEF Unload
  <2>4. ASSUME NEW c \in Conns, Network(c)
        PROVE  events' = events \/ events' = events \cup {Event(c, "disconnect")}
    BY <2>4 DEF Network, Cut, Age
  <2>5. ASSUME NEW p \in Pages, Dispatch(p) \/ Browse(p) \/ OnClose(p)
        PROVE  events' = events
    BY <2>5 DEF Dispatch, Browse, OnClose, serverVars
  <2>6. CASE UNCHANGED vars
    BY <2>6 DEF vars, serverVars
  <2> QED
    BY <2>2, <2>3, <2>4, <2>5, <2>6 DEF Leave, Reconnect
<1>4. \A a \in Acts, c \in Conns : ActEvent(c, a) \in events' => ActEvent(c, a) \in events
  BY <1>3, ActEventsDiffer
<1>5. \A a \in Acts, p \in Pages : a \in ToSet(queue'[p]) => a \in ToSet(queue[p])
  BY <1>2, EmptyIsSeq
<1> QED
  BY <1>1, <1>4, <1>5, PlacesShrink DEF InTable

LEMMA PlacesAlways == Spec => [](Typed /\ ConnInv /\ PlaceInv)
<1>1. Init => PlaceInv
  <2> SUFFICES ASSUME NEW s \in Scenes, ServerInit(s), RouterInit(s), NEW a \in Acts PROVE OnePlace(a)
    BY DEF Init, PlaceInv
  <2>1. ~InQueue(a) /\ ~InEvents(a) /\ ~InTable(a) /\ a \notin refused
    BY EmptyIsSeq DEF ServerInit, RouterInit, InQueue, InEvents, InTable
  <2>2. OnceIn(a, tableQueue)
    BY DEF ServerInit, OnceIn
  <2> QED
    BY <2>1, <2>2 DEF OnePlace, InQueue, InEvents
<1>2. Typed /\ ConnInv /\ PlaceInv /\ [Next]_vars => PlaceInv'
  <2> SUFFICES ASSUME NEW n \in Nat, Types(n), ConnInv, PlaceInv, [Next]_vars PROVE PlaceInv'
    BY DEF Typed
  <2>1. ASSUME NEW p \in Pages, NEW a \in Acts, Submit(p, a) PROVE PlaceInv'
    BY <2>1, SubmitKeepsPlaces
  <2>2. ASSUME NEW p \in Pages, Receive(p) PROVE PlaceInv'
    BY <2>2, ReceiveKeepsPlaces
  <2>3. ASSUME NEW c \in Conns, Server(c) PROVE PlaceInv'
    BY <2>3, ServerKeepsPlaces
  <2>4. CASE Table
    BY <2>4, TableKeepsPlaces
  <2> QED
    BY <2>1, <2>2, <2>3, <2>4, LinksKeepPlaces DEF Next
<1> QED
  BY <1>1, <1>2, ConnAlways, PTL DEF Spec

LEMMA FewElements ==
    ASSUME NEW S, \A x, y \in S : x = y
    PROVE  Cardinality(S) <= 1
<1>1. CASE S = {}
  BY <1>1, FS_EmptySet
<1>2. ASSUME NEW x \in S PROVE Cardinality(S) <= 1
  <2>1. S = {x}
    OBVIOUS
  <2> QED
    BY <2>1, FS_Singleton
<1> QED
  BY <1>1, <1>2

(* An action of the user is sent once: it is never in two places at a      *)
(* time, and a page that reconnects does not send it again, although its   *)
(* router queues what is submitted before it is greeted.                   *)
THEOREM SentOnceSafe == Spec => []SentOnce
<1>1. ASSUME PlaceInv, NEW a \in Acts PROVE Cardinality(Places(a)) <= 1
  <2>1. OnePlace(a)
    BY <1>1 DEF PlaceInv
  <2>2. ASSUME NEW x \in Places(a)
        PROVE  \/ \E p \in Pages : x = <<"queue", p>> /\ a \in ToSet(queue[p])
               \/ \E c \in Conns : x = <<"event", c>> /\ ActEvent(c, a) \in events
               \/ \E i \in DOMAIN tableQueue : x = <<"table", i>> /\ tableQueue[i] = a
               \/ x = <<"refused", a>> /\ a \in refused
    BY DEF Places
  <2>3. ASSUME NEW x \in Places(a), NEW y \in Places(a) PROVE x = y
    <3>1. CASE InQueue(a)
      <4>1. PICK p \in Pages : a \in ToSet(queue[p])
        BY <3>1 DEF InQueue
      <4>2. ASSUME NEW z \in Places(a) PROVE z = <<"queue", p>>
        BY <2>1, <2>2, <3>1, <4>1 DEF OnePlace, InEvents, InTable, ToSet
      <4> QED
        BY <4>2
    <3>2. CASE InEvents(a)
      <4>1. PICK c \in Conns : ActEvent(c, a) \in events
        BY <3>2 DEF InEvents
      <4>2. ASSUME NEW z \in Places(a) PROVE z = <<"event", c>>
        BY <2>1, <2>2, <3>2, <4>1 DEF OnePlace, InQueue, InTable, ToSet
      <4> QED
        BY <4>2
    <3>3. CASE InTable(a)
      <4>1. PICK i \in DOMAIN tableQueue : tableQueue[i] = a
        BY <3>3 DEF InTable, ToSet
      <4>2. ASSUME NEW z \in Places(a) PROVE z = <<"table", i>>
        BY <2>1, <2>2, <3>3, <4>1 DEF OnePlace, OnceIn, InQueue, InEvents
      <4> QED
        BY <4>2
    <3>4. CASE ~InQueue(a) /\ ~InEvents(a) /\ ~InTable(a)
      BY <2>2, <3>4 DEF InQueue, InEvents, InTable, ToSet
    <3> QED
      BY <3>1, <3>2, <3>3, <3>4
  <2> QED
    BY <2>3, FewElements
<1>2. PlaceInv => SentOnce
  BY <1>1 DEF SentOnce
<1> QED
  BY <1>2, PlacesAlways, PTL
=============================================================================
