---------------------------- MODULE TableViewProofs ----------------------------
(***************************************************************************)
(* Proofs about what the pages of a table show, for any number of pages,   *)
(* connections, actions and gamestates: the gamestates reach a page in the *)
(* order in which they were committed, whatever it skips is one gamestate, *)
(* and a page at rest shows the last one.                                  *)
(***************************************************************************)
EXTENDS TablePageProofs, WellFoundedInduction

-----------------------------------------------------------------------------
(* Versions                                                                *)

(* How many of the messages that a page received it has dispatched.        *)
Taken(p) == recvSeqNum[p] - Len(inbox[p])

(* What waits in the inbox is numbered consecutively, so the version of a  *)
(* gamestate only comes up a second time as that of the UPDATE_GAMESTATE   *)
(* of the page itself.                                                     *)
Numbered(p) ==
    /\ Len(inbox[p]) <= recvSeqNum[p]
    /\ \A i \in 1..Len(inbox[p]) : inbox[p][i].seq = Taken(p) + i - 1

VersionIsBehind(p) ==
    /\ version[p] <= Taken(p)
    /\ version[p] = Taken(p) => refreshed[p] = "done" /\ skipped[p] = {}
    /\ skipped[p] # {} => refreshed[p] = "done" /\ \E g \in skipped[p] : skipped[p] = {g}

VersionInv == \A p \in Pages : Numbered(p) /\ VersionIsBehind(p)

-----------------------------------------------------------------------------
(* The gamestates on their way to the screen                               *)

(* The gamestates that a message, a received message and a batch bring to  *)
(* the screen, as functions.                                               *)
Tells(n) == [m \in SentOver(n) |->
                IF m.type = "UPDATE_GAMESTATE" /\ m.animated THEN {m.game} ELSE {}]
Brings(n) == [r \in ReceivedOver(n) |-> Tells(n)[r.msg]]
Leads(n) == [b \in BatchesOver(n) |-> {b.to}]

Goals(s, lead)  == UNION {lead[x] : x \in ToSet(s)}
Before(A, B)    == \A g \in A, h \in B : g <= h
Rising(s, lead) == \A i, j \in DOMAIN s : i < j => Before(lead[s[i]], lead[s[j]])

OnTheWay(n, p) == IF socket[p] \in Conns THEN Goals(out[socket[p]], Tells(n)) ELSE {}
Unread(n, p)   == Goals(inbox[p], Brings(n))
Unseen(n, p)   == Goals(frames[p], Leads(n))
Queued(n, p)   == Goals(batches[p], Leads(n))

(* From the server to the screen the gamestates stay in order ...          *)
InOrder(n, p) ==
    /\ Rising(inbox[p], Brings(n)) /\ Rising(frames[p], Leads(n)) /\ Rising(batches[p], Leads(n))
    /\ Before(Queued(n, p), Unseen(n, p)) /\ Before(Queued(n, p), Unread(n, p))
    /\ Before(Queued(n, p), OnTheWay(n, p)) /\ Before(Unseen(n, p), Unread(n, p))
    /\ Before(Unseen(n, p), OnTheWay(n, p)) /\ Before(Unread(n, p), OnTheWay(n, p))

(* ... and are none that has not been committed.                           *)
Heard(n, p) == Queued(n, p) \cup Unseen(n, p) \cup Unread(n, p) \cup OnTheWay(n, p) \cup skipped[p]

OrderInv(n) ==
    /\ \A c \in Conns : Rising(out[c], Tells(n)) /\ Goals(out[c], Tells(n)) \subseteq 1..game
    /\ \A p \in Pages : InOrder(n, p) /\ Heard(n, p) \subseteq 1..game

(* A page is mounted once, with a batch that has ended; what waits for the *)
(* next frame has not started.                                             *)
Mounted(p) ==
    /\ page[p] = "closed" => inbox[p] = <<>> /\ frames[p] = <<>>
    /\ page[p] = "open" => batches[p] # <<>> /\ batches[p][1].phase = "ended"
    /\ \A i \in DOMAIN frames[p] : frames[p][i].phase = "waiting"

MountInv == \A p \in Pages : Mounted(p)

-----------------------------------------------------------------------------
(* What a page has heard                                                   *)

(* An open connection has been sent the gamestate announced last, or there *)
(* is a gap in what it was sent.                                           *)
UpToDate(n, p) ==
    LET c == socket[p] IN
    page[p] = "open" /\ c \in Conns /\ link[c] = "open" =>
        announced \in gaps[c] \/ \E g \in Heard(n, p) : announced <= g

HeardInv(n) ==
    /\ \A c \in Conns : link[c] = "unused" => announced = 1 \/ announced \in gaps[c]
    /\ \A p \in Pages : UpToDate(n, p)

-----------------------------------------------------------------------------
(* Versions only come up twice once                                        *)

LEMMA SeqFacts ==
    ASSUME NEW S, NEW s \in Seq(S)
    PROVE  /\ Len(s) \in Nat /\ DOMAIN s = 1..Len(s) /\ (s = <<>> <=> Len(s) = 0)
           /\ \A i \in 1..Len(s) : s[i] \in S
           /\ \A x \in S : /\ Append(s, x) \in Seq(S) /\ Len(Append(s, x)) = Len(s) + 1
                           /\ \A i \in 1..Len(s) : Append(s, x)[i] = s[i]
                           /\ Append(s, x)[Len(s) + 1] = x
           /\ s # <<>> => /\ Head(s) \in S /\ Tail(s) \in Seq(S) /\ Head(s) = s[1]
                          /\ Len(s) \in Nat \ {0} /\ Len(Tail(s)) = Len(s) - 1
                          /\ \A i \in 1..(Len(s) - 1) : Tail(s)[i] = s[i + 1]
<1>1. Len(s) \in Nat /\ DOMAIN s = 1..Len(s) /\ (s = <<>> <=> Len(s) = 0)
  BY LenProperties, EmptySeq
<1>2. \A i \in 1..Len(s) : s[i] \in S
  BY ElementOfSeq
<1>3. ASSUME NEW x \in S
      PROVE  /\ Append(s, x) \in Seq(S) /\ Len(Append(s, x)) = Len(s) + 1
             /\ \A i \in 1..Len(s) : Append(s, x)[i] = s[i]
             /\ Append(s, x)[Len(s) + 1] = x
  BY AppendProperties
<1>4. ASSUME s # <<>>
      PROVE  /\ Head(s) \in S /\ Tail(s) \in Seq(S) /\ Head(s) = s[1]
             /\ Len(s) \in Nat \ {0} /\ Len(Tail(s)) = Len(s) - 1
             /\ \A i \in 1..(Len(s) - 1) : Tail(s)[i] = s[i + 1]
  <2>1. /\ Head(s) \in S /\ Tail(s) \in Seq(S) /\ Head(s) = s[1] /\ Len(Tail(s)) = Len(s) - 1
        /\ \A i \in 1..Len(Tail(s)) : Tail(s)[i] = s[i + 1]
    BY <1>4, HeadTailProperties
  <2> QED
    BY <1>1, <1>4, <2>1
<1> QED
  BY <1>1, <1>2, <1>3, <1>4

(* What a page has received does not change in number when it is put in    *)
(* the inbox, and the message dispatched has the number of those before.   *)
LEMMA ReceivedKeepsVersion ==
    ASSUME NEW n \in Nat, RouterTypes(n), NEW p \in Pages, NEW m \in SentOver(n), Received(p, m),
           NEW q \in Pages, Numbered(q)
    PROVE  Numbered(q)' /\ Taken(q)' = Taken(q)
<1>1. inbox' = [inbox EXCEPT ![p] = Append(@, [msg |-> m, seq |-> recvSeqNum[p]])]
      /\ recvSeqNum' = [recvSeqNum EXCEPT ![p] = @ + 1]
  BY DEF Received
<1>2. recvSeqNum[p] \in Nat /\ [msg |-> m, seq |-> recvSeqNum[p]] \in ReceivedOver(n)
      /\ inbox[p] \in Seq(ReceivedOver(n))
  BY DEF RouterTypes, ReceivedOver
<1>3. CASE q # p
  <2>1. inbox'[q] = inbox[q] /\ recvSeqNum'[q] = recvSeqNum[q]
    BY <1>1, <1>3 DEF RouterTypes
  <2> QED
    BY <2>1 DEF Numbered, Taken
<1>4. CASE q = p
  <2> DEFINE r == [msg |-> m, seq |-> recvSeqNum[p]]  l == Len(inbox[p])
  <2>1. inbox'[p] = Append(inbox[p], r) /\ recvSeqNum'[p] = recvSeqNum[p] + 1
    BY <1>1 DEF RouterTypes
  <2>2. /\ l \in Nat /\ Len(inbox'[p]) = l + 1
        /\ \A i \in 1..l : inbox'[p][i] = inbox[p][i]
        /\ inbox'[p][l + 1].seq = recvSeqNum[p]
    <3>1. r \in ReceivedOver(n) /\ r.seq = recvSeqNum[p]
      BY <1>2
    <3> HIDE DEF r
    <3> QED
      BY <1>2, <2>1, <3>1, SeqFacts
  <2>3. l <= recvSeqNum[p] /\ \A i \in 1..l : inbox[p][i].seq = recvSeqNum[p] - l + i - 1
    BY <1>4 DEF Numbered, Taken
  <2>0. recvSeqNum[p] \in Nat
    BY <1>2
  <2> HIDE DEF l
  <2>4. \A i \in 1..(l + 1) : inbox'[p][i].seq = recvSeqNum[p] + 1 - (l + 1) + i - 1
    <3> SUFFICES ASSUME NEW i \in 1..(l + 1)
                 PROVE  inbox'[p][i].seq = recvSeqNum[p] + 1 - (l + 1) + i - 1
      OBVIOUS
    <3>1. CASE i \in 1..l
      <4>1. recvSeqNum[p] - l + i - 1 = recvSeqNum[p] + 1 - (l + 1) + i - 1
        BY <2>0, <2>2
      <4> QED
        BY <2>2, <2>3, <3>1, <4>1
    <3>2. CASE i = l + 1
      BY <2>0, <2>2, <3>2
    <3> QED
      BY <2>2, <3>1, <3>2
  <2>5. Len(inbox'[p]) = l + 1 /\ l + 1 <= recvSeqNum'[p]
        /\ recvSeqNum'[p] - (l + 1) = recvSeqNum[p] - l
    BY <1>2, <2>1, <2>2, <2>3
  <2>6. Taken(p)' = recvSeqNum'[p] - (l + 1) /\ Taken(p) = recvSeqNum[p] - l
    BY <2>2 DEF Taken, l
  <2>7. Taken(p)' = Taken(p) /\ recvSeqNum[p] + 1 - (l + 1) = Taken(p)'
    BY <2>0, <2>1, <2>2, <2>5, <2>6
  <2>8. \A i \in 1..(l + 1) : inbox'[p][i].seq = Taken(p)' + i - 1
    BY <2>4, <2>7
  <2>9. Numbered(p)'
    BY <2>2, <2>5, <2>8 DEF Numbered
  <2> QED
    BY <1>4, <2>7, <2>9
<1> QED
  BY <1>3, <1>4

LEMMA DispatchedIsNext ==
    ASSUME NEW n \in Nat, RouterTypes(n), NEW p \in Pages, Dispatch(p), Numbered(p)
    PROVE  /\ Head(inbox[p]).seq = Taken(p) /\ Taken(p) \in Nat
           /\ Numbered(p)' /\ Taken(p)' = Taken(p) + 1
<1> DEFINE l == Len(inbox[p])
<1>1. /\ inbox[p] # <<>> /\ inbox[p] \in Seq(ReceivedOver(n)) /\ recvSeqNum[p] \in Nat
      /\ inbox'[p] = Tail(inbox[p]) /\ recvSeqNum'[p] = recvSeqNum[p]
  BY DEF Dispatch, RouterTypes
<1>2. /\ l \in Nat \ {0} /\ Head(inbox[p]) = inbox[p][1] /\ Len(inbox'[p]) = l - 1
      /\ \A i \in 1..(l - 1) : inbox'[p][i] = inbox[p][i + 1]
  BY <1>1, SeqFacts
<1>3. l <= recvSeqNum[p] /\ \A i \in 1..l : inbox[p][i].seq = recvSeqNum[p] - l + i - 1
  BY DEF Numbered, Taken
<1> HIDE DEF l
<1>4. inbox[p][1].seq = recvSeqNum[p] - l /\ recvSeqNum[p] - l \in Nat
  BY <1>1, <1>2, <1>3
<1>5. \A i \in 1..(l - 1) : inbox'[p][i].seq = recvSeqNum[p] - (l - 1) + i - 1
  <2> SUFFICES ASSUME NEW i \in 1..(l - 1)
               PROVE  inbox'[p][i].seq = recvSeqNum[p] - (l - 1) + i - 1
    OBVIOUS
  <2>1. i + 1 \in 1..l
    BY <1>2
  <2> QED
    BY <1>1, <1>2, <1>3, <2>1
<1>6. l - 1 <= recvSeqNum'[p] /\ recvSeqNum'[p] - (l - 1) = recvSeqNum[p] - l + 1
  BY <1>1, <1>2, <1>3
<1> QED
  BY <1>1, <1>2, <1>4, <1>5, <1>6 DEF Numbered, Taken, l

LEMMA DispatchKeepsVersion ==
    ASSUME NEW n \in Nat, Types(n), VersionInv, NEW p \in Pages, Dispatch(p)
    PROVE  VersionInv'
<1> DEFINE m == Head(inbox[p]).msg  s == Head(inbox[p]).seq  t == Taken(p)
           new == View!NextVersion(p, s)
<1>0. RouterTypes(n) /\ ViewTypes(n)
  BY DEF Types
<1>1. s = t /\ t \in Nat /\ Numbered(p)' /\ Taken(p)' = t + 1
  BY <1>0, DispatchedIsNext DEF VersionInv
<1>2. /\ version[p] \in Nat \cup {-1} /\ skipped[p] \in SUBSET (1..n) /\ VersionIsBehind(p)
  BY <1>0 DEF ViewTypes, VersionInv
<1>3. VersionIsBehind(p)'
  <2>1. CASE m.type # "UPDATE_GAMESTATE"
    <3>1. UNCHANGED <<version, refreshed, skipped>>
      BY <2>1 DEF Dispatch, viewVars
    <3> HIDE DEF t
    <3> QED
      BY <1>1, <1>2, <3>1 DEF VersionIsBehind, t
  <2>2. CASE m.type = "UPDATE_GAMESTATE"
    <3>1. View!HandleStateChange(p, new, m.animated, m.game) /\ UNCHANGED refreshed
      BY <2>2 DEF Dispatch, View!UpdateGamestate
    <3>2. version' = [version EXCEPT ![p] = new]
          /\ skipped' = IF m.animated /\ ~(new # version[p])
                        THEN [skipped EXCEPT ![p] = @ \cup {m.game}] ELSE skipped
      BY <3>1 DEF View!HandleStateChange, View!IsNewVersion
    <3>3. version'[p] = new
      BY <1>0, <3>2 DEF ViewTypes
    <3>4. new = IF t = 0 THEN version[p] + 1 ELSE t
      BY <1>1 DEF View!NextVersion
    <3>5. CASE new # version[p]
      <4>1. skipped'[p] = skipped[p] /\ refreshed'[p] = refreshed[p]
        BY <3>1, <3>2, <3>5
      <4>2. new <= t + 1 /\ (new = t + 1 => t = 0 /\ version[p] = 0)
        BY <1>1, <1>2, <3>4 DEF VersionIsBehind
      <4> HIDE DEF t, new
      <4> QED
        BY <1>1, <1>2, <3>3, <4>1, <4>2 DEF VersionIsBehind, t
    <3>6. CASE new = version[p]
      <4>1. t # 0 /\ version[p] = t
        BY <1>1, <1>2, <3>4, <3>6
      <4>2. refreshed[p] = "done" /\ skipped[p] = {}
        BY <1>2, <4>1 DEF VersionIsBehind
      <4>3. skipped'[p] \in {{}, {m.game}}
        BY <1>0, <3>2, <4>2 DEF ViewTypes
      <4>4. version'[p] <= t + 1 /\ version'[p] # t + 1
        BY <1>1, <3>3, <3>6, <4>1
      <4> HIDE DEF t, new, m
      <4> QED
        BY <1>1, <3>1, <4>2, <4>3, <4>4 DEF VersionIsBehind
    <3> QED
      BY <3>5, <3>6
  <2> QED
    BY <2>1, <2>2
<1>4. ASSUME NEW q \in Pages, q # p PROVE Numbered(q)' /\ VersionIsBehind(q)'
  <2>1. inbox'[q] = inbox[q] /\ UNCHANGED <<recvSeqNum, refreshed>>
    BY <1>0, <1>4 DEF Dispatch, RouterTypes, viewVars, View!UpdateGamestate
  <2>2. version'[q] = version[q] /\ skipped'[q] = skipped[q]
    BY <1>0, <1>4 DEF Dispatch, ViewTypes, viewVars, View!UpdateGamestate, View!HandleStateChange
  <2> QED
    BY <2>1, <2>2 DEF VersionInv, Numbered, VersionIsBehind, Taken
<1> QED
  BY <1>1, <1>3, <1>4 DEF VersionInv

LEMMA ReceiveEffect ==
    ASSUME NEW n \in Nat, Types(n), NEW p \in Pages, Receive(p)
    PROVE  /\ UNCHANGED <<viewVars, issued, link, page, socket, game, announced, gaps, answering, asks,
                          tableQueue, refused, greeted>>
           /\ \/ OnOpen(p) /\ UNCHANGED <<inbox, recvSeqNum, ready, queue>>
              \/ \E m \in SentOver(n) : m = Incoming(p) /\ m # Accepted /\ Received(p, m)
<1>1. CASE OnOpen(p)
  BY <1>1 DEF Receive, OnOpen, SendControl, heartbeat
<1>2. CASE OnGamestate(p) \/ OnGotHello(p) \/ OnPing(p)
  <2>1. PICK m : m = Incoming(p) /\ m # Accepted /\ Received(p, m)
    BY <1>2 DEF OnGamestate, OnGotHello, OnPing, Accepted, GotHello, Ping
  <2>2. m \in SentOver(n)
    BY <2>1, ReceivedTypes DEF Types
  <2> QED
    BY <2>1, <2>2 DEF Receive, Received, heartbeat
<1> QED
  BY <1>1, <1>2 DEF Receive

LEMMA RefreshKeepsVersion ==
    ASSUME NEW n \in Nat, Types(n), VersionInv, NEW p \in Pages, Browse(p)
    PROVE  VersionInv'
<1>0. ViewTypes(n) /\ RouterTypes(n) /\ UNCHANGED <<inbox, recvSeqNum>>
  BY DEF Types, Browse, routerVars
<1>1. CASE View!Refresh(p)
  <2>1. /\ refreshed[p] = "due" /\ refreshed' = [refreshed EXCEPT ![p] = "done"]
        /\ version' = [version EXCEPT ![p] = version[p] + 1] /\ UNCHANGED skipped
    BY <1>1 DEF View!Refresh, View!HandleStateChange
  <2>2. Taken(p) \in Int /\ version[p] \in Nat \cup {-1} /\ VersionIsBehind(p)
    BY <1>0, LenProperties DEF Taken, RouterTypes, ViewTypes, VersionInv
  <2>3. ASSUME NEW q \in Pages PROVE VersionIsBehind(q)' /\ Numbered(q)'
    <3>1. Taken(q)' = Taken(q) /\ Numbered(q)'
      BY <1>0 DEF Taken, VersionInv, Numbered
    <3>2. CASE q # p
      <4>1. version'[q] = version[q] /\ refreshed'[q] = refreshed[q] /\ VersionIsBehind(q)
        BY <1>0, <2>1, <3>2 DEF ViewTypes, VersionInv
      <4> QED
        BY <2>1, <3>1, <4>1 DEF VersionIsBehind
    <3>3. CASE q = p
      <4>1. version'[p] = version[p] + 1 /\ refreshed'[p] = "done"
        BY <1>0, <2>1 DEF ViewTypes
      <4>2. version[p] <= Taken(p) /\ version[p] # Taken(p) /\ skipped[p] = {}
        BY <2>1, <2>2 DEF VersionIsBehind
      <4> QED
        BY <2>1, <2>2, <3>1, <3>3, <4>1, <4>2 DEF VersionIsBehind
    <3> QED
      BY <3>2, <3>3
  <2> QED
    BY <2>3 DEF VersionInv
<1>2. CASE View!Frame(p) \/ View!Animate(p)
  BY <1>0, <1>2 DEF View!Frame, View!Animate, View!StartBatch, View!EndBatch,
                    VersionInv, Numbered, VersionIsBehind, Taken
<1> QED
  BY <1>1, <1>2 DEF Browse

LEMMA LeaveKeepsVersion ==
    ASSUME NEW n \in Nat, Types(n), VersionInv, NEW p \in Pages, Leave(p)
    PROVE  VersionInv'
<1>0. /\ RouterTypes(n) /\ ViewTypes(n) /\ UNCHANGED <<recvSeqNum, version, refreshed, skipped>>
      /\ inbox' = [inbox EXCEPT ![p] = <<>>]
  BY DEF Types, Leave, Unload, viewVars
<1>1. ASSUME NEW q \in Pages PROVE Numbered(q)' /\ VersionIsBehind(q)'
  <2>1. VersionIsBehind(q) /\ Numbered(q)
    BY DEF VersionInv
  <2>2. CASE q # p
    <3>1. inbox'[q] = inbox[q]
      BY <1>0, <2>2 DEF RouterTypes
    <3> QED
      BY <1>0, <2>1, <3>1 DEF Numbered, VersionIsBehind, Taken
  <2>3. CASE q = p
    <3>1. inbox'[p] = <<>> /\ Len(inbox'[p]) = 0 /\ recvSeqNum[p] \in Nat /\ Len(inbox[p]) \in Nat
          /\ version[p] \in Nat \cup {-1}
      BY <1>0, LenProperties DEF RouterTypes, ViewTypes
    <3>2. Taken(p)' = recvSeqNum[p] /\ Taken(p) \in Int /\ Taken(p) <= recvSeqNum[p]
      BY <1>0, <3>1 DEF Taken
    <3>3. Numbered(p)'
      BY <1>0, <3>1 DEF Numbered
    <3>4. VersionIsBehind(p)'
      BY <1>0, <2>1, <2>3, <3>1, <3>2 DEF VersionIsBehind
    <3> QED
      BY <2>3, <3>3, <3>4
  <2> QED
    BY <2>2, <2>3
<1> QED
  BY <1>1 DEF VersionInv

LEMMA VersionNext ==
    ASSUME NEW n \in Nat, Types(n), VersionInv, [Next]_vars
    PROVE  VersionInv'
<1>0. RouterTypes(n) /\ ViewTypes(n)
  BY DEF Types
<1>1. ASSUME NEW p \in Pages, OpenPage(p) PROVE VersionInv'
  <2>1. /\ version' = [version EXCEPT ![p] = -1]
        /\ UNCHANGED <<inbox, recvSeqNum, refreshed, skipped>>
    BY <1>1 DEF OpenPage, Load, View!Mount
  <2>2. ASSUME NEW q \in Pages PROVE VersionIsBehind(q)' /\ Numbered(q)'
    <3>1. Numbered(q)' /\ Taken(q)' = Taken(q) /\ VersionIsBehind(q)
      BY <2>1 DEF VersionInv, Numbered, Taken
    <3>2. version'[q] \in {version[q], -1} /\ version[q] \in Nat \cup {-1}
      BY <1>0, <2>1 DEF ViewTypes
    <3>3. Taken(q) \in Nat
      BY <1>0, LenProperties DEF Taken, VersionInv, Numbered, RouterTypes
    <3> QED
      BY <2>1, <3>1, <3>2, <3>3 DEF VersionIsBehind
  <2> QED
    BY <2>2 DEF VersionInv
<1>2. ASSUME NEW p \in Pages, Dispatch(p) \/ Browse(p) \/ Leave(p) PROVE VersionInv'
  BY <1>2, DispatchKeepsVersion, RefreshKeepsVersion, LeaveKeepsVersion
<1>3. ASSUME NEW p \in Pages, Receive(p) PROVE VersionInv'
  <2>1. UNCHANGED <<version, refreshed, skipped>>
    BY <1>3 DEF Receive, viewVars
  <2>2. ASSUME NEW q \in Pages PROVE Numbered(q)' /\ Taken(q)' = Taken(q)
    <3>1. CASE UNCHANGED <<inbox, recvSeqNum>>
      BY <3>1 DEF VersionInv, Numbered, Taken
    <3>2. CASE \E m \in SentOver(n) : Received(p, m)
      BY <1>0, <3>2, ReceivedKeepsVersion DEF VersionInv
    <3> QED
      BY <1>3, <3>1, <3>2, ReceiveEffect
  <2> QED
    BY <2>1, <2>2 DEF VersionInv, VersionIsBehind
<1>4. CASE Table \/ UNCHANGED vars
  <2>1. UNCHANGED <<inbox, recvSeqNum, version, refreshed, skipped>>
    BY <1>4 DEF Table, vars, routerVars, viewVars
  <2> QED
    BY <2>1 DEF VersionInv, Numbered, VersionIsBehind, Taken
<1>5. ASSUME NEW p \in Pages, Reconnect(p) PROVE VersionInv'
  <2>1. UNCHANGED <<inbox, recvSeqNum, version, refreshed, skipped>>
    BY <1>5 DEF Reconnect, OnClose, Close, Reopen, viewVars
  <2> QED
    BY <2>1 DEF VersionInv, Numbered, VersionIsBehind, Taken
<1>6. ASSUME NEW p \in Pages, NEW a \in Acts, Submit(p, a) PROVE VersionInv'
  <2>1. UNCHANGED <<inbox, recvSeqNum, version, refreshed, skipped>>
    BY <1>6 DEF Submit, View!SubmitAction
  <2> QED
    BY <2>1 DEF VersionInv, Numbered, VersionIsBehind, Taken
<1>7. ASSUME NEW c \in Conns, Server(c) \/ Network(c) PROVE VersionInv'
  <2>1. UNCHANGED <<inbox, recvSeqNum, version, refreshed, skipped>>
    BY <1>7 DEF Server, Network, routerVars, viewVars
  <2> QED
    BY <2>1 DEF VersionInv, Numbered, VersionIsBehind, Taken
<1> QED
  BY <1>1, <1>2, <1>3, <1>4, <1>5, <1>6, <1>7 DEF Next

LEMMA VersionAlways == Spec => [](Typed /\ ConnInv /\ VersionInv)
<1>1. Init => VersionInv
  <2> SUFFICES ASSUME NEW s \in Scenes, RouterInit(s), View!ViewInit(s.refresh) PROVE VersionInv
    BY DEF Init
  <2>1. \A p \in Pages : inbox[p] = <<>> /\ Len(inbox[p]) = 0 /\ recvSeqNum[p] = 0
                         /\ version[p] = -1 /\ skipped[p] = {}
    BY DEF RouterInit, View!ViewInit
  <2> QED
    BY <2>1 DEF VersionInv, Numbered, VersionIsBehind, Taken
<1>2. Typed /\ VersionInv /\ [Next]_vars => VersionInv'
  BY VersionNext DEF Typed
<1> QED
  BY <1>1, <1>2, ConnAlways, PTL DEF Spec

(* Of all the gamestates that are broadcast to a page, the animations of   *)
(* one at most are passed over, because of the empty UPDATE_GAMESTATE of   *)
(* the page; however many there are, however the connections break, and    *)
(* although the numbers of the messages start at 0 and the version at -1   *)
(* (handleStateChange of the PokerDispatcher).                             *)
THEOREM SkipsAreFew == Spec => []SkippedOnceAtMost
<1>1. VersionInv => SkippedOnceAtMost
  <2> SUFFICES ASSUME VersionInv, NEW p \in Pages, skipped[p] # {}
               PROVE  refreshed[p] = "done" /\ Cardinality(skipped[p]) = 1
    BY DEF SkippedOnceAtMost
  <2>1. refreshed[p] = "done" /\ \E g \in skipped[p] : skipped[p] = {g}
    BY DEF VersionInv, VersionIsBehind
  <2> QED
    BY <2>1, FS_Singleton
<1> QED
  BY <1>1, VersionAlways, PTL

-----------------------------------------------------------------------------
(* Goals of sequences                                                      *)

LEMMA GoalsOfNone == ASSUME NEW lead PROVE Goals(<<>>, lead) = {} /\ Rising(<<>>, lead)
<1>1. DOMAIN <<>> = {} /\ ToSet(<<>>) = {}
  BY DEF ToSet
<1> QED
  BY <1>1 DEF Goals, Rising

LEMMA GoalsBehind ==
    ASSUME NEW S, NEW lead, NEW s \in Seq(S), NEW x \in S
    PROVE  /\ Goals(Append(s, x), lead) = Goals(s, lead) \cup lead[x]
           /\ Rising(s, lead) /\ Before(Goals(s, lead), lead[x]) => Rising(Append(s, x), lead)
<1>1. ToSet(Append(s, x)) = ToSet(s) \cup {x}
  BY BehindAll
<1>2. /\ Len(s) \in Nat /\ DOMAIN s = 1..Len(s) /\ DOMAIN Append(s, x) = 1..(Len(s) + 1)
      /\ \A i \in 1..Len(s) : Append(s, x)[i] = s[i]
      /\ Append(s, x)[Len(s) + 1] = x
  BY SeqFacts
<1>3. Goals(Append(s, x), lead) = Goals(s, lead) \cup lead[x]
  BY <1>1 DEF Goals
<1>4. ASSUME Rising(s, lead), Before(Goals(s, lead), lead[x]),
             NEW i \in 1..(Len(s) + 1), NEW j \in 1..(Len(s) + 1), i < j
      PROVE  Before(lead[Append(s, x)[i]], lead[Append(s, x)[j]])
  <2>1. i \in 1..Len(s) /\ Append(s, x)[i] = s[i]
    BY <1>2, <1>4
  <2>2. CASE j \in 1..Len(s)
    BY <1>2, <1>4, <2>1, <2>2 DEF Rising
  <2>3. CASE j = Len(s) + 1
    <3>1. lead[s[i]] \subseteq Goals(s, lead)
      BY <1>2, <2>1 DEF Goals, ToSet
    <3> QED
      BY <1>2, <1>4, <2>1, <2>3, <3>1 DEF Before
  <2> QED
    BY <1>2, <2>2, <2>3
<1> QED
  BY <1>2, <1>3, <1>4 DEF Rising

LEMMA GoalsOfRest ==
    ASSUME NEW S, NEW lead, NEW s \in Seq(S), s # <<>>
    PROVE  /\ Goals(s, lead) = lead[Head(s)] \cup Goals(Tail(s), lead)
           /\ Rising(s, lead) => Rising(Tail(s), lead)
                                 /\ Before(lead[Head(s)], Goals(Tail(s), lead))
<1>1. ToSet(s) = {Head(s)} \cup ToSet(Tail(s))
  BY FirstAndRest
<1>2. /\ Len(s) \in Nat \ {0} /\ DOMAIN s = 1..Len(s) /\ DOMAIN Tail(s) = 1..(Len(s) - 1)
      /\ \A i \in 1..(Len(s) - 1) : Tail(s)[i] = s[i + 1]
      /\ Head(s) = s[1]
  <2>1. Tail(s) \in Seq(S) /\ Len(Tail(s)) = Len(s) - 1
    BY SeqFacts
  <2>2. DOMAIN Tail(s) = 1..(Len(s) - 1)
    BY <2>1, SeqFacts
  <2> QED
    BY <2>2, SeqFacts
<1>3. Goals(s, lead) = lead[Head(s)] \cup Goals(Tail(s), lead)
  BY <1>1 DEF Goals
<1>4. ASSUME Rising(s, lead), NEW i \in 1..(Len(s) - 1), NEW j \in 1..(Len(s) - 1), i < j
      PROVE  Before(lead[Tail(s)[i]], lead[Tail(s)[j]])
  <2>1. i + 1 \in 1..Len(s) /\ j + 1 \in 1..Len(s) /\ i + 1 < j + 1
    BY <1>2, <1>4
  <2> QED
    BY <1>2, <1>4, <2>1 DEF Rising
<1>5. ASSUME Rising(s, lead), NEW g \in lead[Head(s)], NEW h \in Goals(Tail(s), lead)
      PROVE  g <= h
  <2>1. PICK j \in 1..(Len(s) - 1) : h \in lead[Tail(s)[j]]
    BY <1>2 DEF Goals, ToSet
  <2>2. 1 \in 1..Len(s) /\ j + 1 \in 1..Len(s) /\ 1 < j + 1 /\ h \in lead[s[j + 1]]
    BY <1>2, <2>1
  <2>3. Before(lead[s[1]], lead[s[j + 1]])
    BY <1>2, <1>5, <2>2 DEF Rising
  <2> QED
    BY <1>2, <1>5, <2>2, <2>3 DEF Before
<1> QED
  BY <1>2, <1>3, <1>4, <1>5 DEF Rising, Before

LEMMA GoalsOfBoth ==
    ASSUME NEW S, NEW lead, NEW s \in Seq(S), NEW t \in Seq(S)
    PROVE  /\ Goals(s \o t, lead) = Goals(s, lead) \cup Goals(t, lead)
           /\ Rising(s, lead) /\ Rising(t, lead) /\ Before(Goals(s, lead), Goals(t, lead))
                => Rising(s \o t, lead)
<1> DEFINE k == Len(s)  l == Len(t)
<1>1. /\ k \in Nat /\ l \in Nat /\ DOMAIN s = 1..k /\ DOMAIN t = 1..l
      /\ s \o t \in Seq(S) /\ Len(s \o t) = k + l
      /\ \A i \in 1..(k + l) : (s \o t)[i] = IF i <= k THEN s[i] ELSE t[i - k]
  BY LenProperties, ConcatProperties
<1>2. DOMAIN (s \o t) = 1..(k + l)
  BY <1>1, LenProperties
<1> HIDE DEF k, l
<1>3. /\ \A i \in 1..k : i \in 1..(k + l) /\ (s \o t)[i] = s[i]
      /\ \A i \in 1..l : k + i \in 1..(k + l) /\ (s \o t)[k + i] = t[i]
      /\ \A i \in 1..(k + l) : i \in 1..k \/ (i - k \in 1..l /\ (s \o t)[i] = t[i - k])
  BY <1>1
<1>4. ToSet(s \o t) = ToSet(s) \cup ToSet(t)
  <2> DEFINE u == s \o t
  <2>1. DOMAIN u = 1..(k + l) /\ DOMAIN s = 1..k /\ DOMAIN t = 1..l
    BY <1>1, <1>2
  <2>2. /\ \A i \in 1..k : i \in 1..(k + l) /\ u[i] = s[i]
        /\ \A i \in 1..l : k + i \in 1..(k + l) /\ u[k + i] = t[i]
        /\ \A i \in 1..(k + l) : (i \in 1..k /\ u[i] = s[i]) \/ (i - k \in 1..l /\ u[i] = t[i - k])
    BY <1>3
  <2> HIDE DEF u
  <2>3. ToSet(s) \cup ToSet(t) \subseteq ToSet(u)
    BY <2>1, <2>2 DEF ToSet
  <2>4. ToSet(u) \subseteq ToSet(s) \cup ToSet(t)
    BY <2>1, <2>2 DEF ToSet
  <2> QED
    BY <2>3, <2>4 DEF u
<1>5. Goals(s \o t, lead) = Goals(s, lead) \cup Goals(t, lead)
  BY <1>4 DEF Goals
<1>6. ASSUME Rising(s, lead), Rising(t, lead), Before(Goals(s, lead), Goals(t, lead)),
             NEW i \in 1..(k + l), NEW j \in 1..(k + l), i < j
      PROVE  Before(lead[(s \o t)[i]], lead[(s \o t)[j]])
  <2>1. CASE i \in 1..k /\ j \in 1..k
    BY <1>1, <1>3, <1>6, <2>1 DEF Rising
  <2>2. CASE i \in 1..k /\ j - k \in 1..l
    <3>1. (s \o t)[i] = s[i] /\ (s \o t)[j] = t[j - k]
      BY <1>1, <1>3, <2>2
    <3>2. lead[s[i]] \subseteq Goals(s, lead) /\ lead[t[j - k]] \subseteq Goals(t, lead)
      BY <1>1, <2>2 DEF Goals, ToSet
    <3> QED
      BY <1>6, <3>1, <3>2 DEF Before
  <2>3. CASE i - k \in 1..l /\ j - k \in 1..l
    <3>1. (s \o t)[i] = t[i - k] /\ (s \o t)[j] = t[j - k] /\ i - k < j - k
      BY <1>1, <1>6, <2>3
    <3> QED
      BY <1>1, <1>6, <2>3, <3>1 DEF Rising
  <2> QED
    BY <1>1, <1>6, <2>1, <2>2, <2>3
<1> QED
  BY <1>2, <1>5, <1>6 DEF Rising

LEMMA JoinedBegins ==
    ASSUME NEW S, NEW s \in Seq(S), NEW t \in Seq(S)
    PROVE  Len(s) <= Len(s \o t) /\ \A i \in 1..Len(s) : (s \o t)[i] = s[i]
<1> DEFINE k == Len(s)  l == Len(t)
<1>1. /\ k \in Nat /\ l \in Nat /\ Len(s \o t) = k + l
      /\ \A i \in 1..(k + l) : (s \o t)[i] = IF i <= k THEN s[i] ELSE t[i - k]
  BY LenProperties, ConcatProperties
<1> HIDE DEF k, l
<1>2. k <= k + l /\ \A i \in 1..k : i \in 1..(k + l) /\ i <= k
  BY <1>1
<1> QED
  BY <1>1, <1>2 DEF k

LEMMA GoalsAreSame ==
    ASSUME NEW lead, NEW s, NEW t, DOMAIN s = DOMAIN t, \A i \in DOMAIN s : lead[s[i]] = lead[t[i]]
    PROVE  Goals(s, lead) = Goals(t, lead) /\ (Rising(s, lead) => Rising(t, lead))
<1>1. Goals(s, lead) = Goals(t, lead)
  BY DEF Goals, ToSet
<1> QED
  BY <1>1 DEF Rising

(* Only a broadcast brings something to the screen.                        *)
LEMMA GoalValues ==
    ASSUME NEW n \in Nat
    PROVE  /\ \A g \in 1..n : Tells(n)[State(g)] = {}
           /\ \A g \in 2..n : Tells(n)[Broadcast(g)] = {g}
           /\ Tells(n)[Accepted] = {} /\ Tells(n)[GotHello] = {} /\ Tells(n)[Ping] = {}
           /\ \A m \in SentOver(n) : /\ m.type = "UPDATE_GAMESTATE" /\ m.animated => Tells(n)[m] = {m.game}
                                     /\ m.type # "UPDATE_GAMESTATE" => Tells(n)[m] = {}
                                     /\ m.type = "UPDATE_GAMESTATE" /\ ~m.animated => Tells(n)[m] = {}
           /\ \A r \in ReceivedOver(n) : Brings(n)[r] = Tells(n)[r.msg]
           /\ \A b \in BatchesOver(n) : Leads(n)[b] = {b.to}
<1>1. \A m \in SentOver(n) : Tells(n)[m] = IF m.type = "UPDATE_GAMESTATE" /\ m.animated THEN {m.game} ELSE {}
  BY DEF Tells
<1>2. \A g : /\ State(g).type = "UPDATE_GAMESTATE" /\ State(g).animated = FALSE
             /\ Broadcast(g).type = "UPDATE_GAMESTATE" /\ Broadcast(g).animated = TRUE
             /\ Broadcast(g).game = g
  BY DEF State, Broadcast
<1>3. Accepted.type # "UPDATE_GAMESTATE" /\ GotHello.type # "UPDATE_GAMESTATE"
      /\ Ping.type # "UPDATE_GAMESTATE"
  BY DEF Accepted, GotHello, Ping
<1>4. /\ \A r \in ReceivedOver(n) : Brings(n)[r] = Tells(n)[r.msg]
      /\ \A b \in BatchesOver(n) : Leads(n)[b] = {b.to}
  BY DEF Brings, Leads
<1>5. \A g \in 1..n : Tells(n)[State(g)] = {}
  BY <1>1, <1>2, MessageTypes
<1>6. \A g \in 2..n : Tells(n)[Broadcast(g)] = {g}
  BY <1>1, <1>2, MessageTypes
<1>7. Tells(n)[Accepted] = {} /\ Tells(n)[GotHello] = {} /\ Tells(n)[Ping] = {}
  BY <1>1, <1>3, MessageTypes
<1> HIDE DEF Tells, Brings, Leads
<1> QED
  BY <1>1, <1>4, <1>5, <1>6, <1>7

-----------------------------------------------------------------------------
(* What the steps do to the messages and batches of a page                 *)

LEMMA DispatchEffect ==
    ASSUME NEW n \in Nat, Types(n), NEW p \in Pages, Dispatch(p)
    PROVE  \E r \in ReceivedOver(n) :
              /\ r = Head(inbox[p]) /\ inbox[p] # <<>> /\ inbox' = [inbox EXCEPT ![p] = Tail(inbox[p])]
              /\ UNCHANGED <<serverVars, page, socket, batches>>
              /\ \/ /\ UNCHANGED frames
                    /\ skipped' = [skipped EXCEPT ![p] = skipped[p] \cup Brings(n)[r]]
                 \/ \E b \in BatchesOver(n) :
                        /\ b.phase = "waiting" /\ Brings(n)[r] = {b.to}
                        /\ frames' = [frames EXCEPT ![p] = Append(frames[p], b)]
                        /\ UNCHANGED skipped
<1> DEFINE r == Head(inbox[p])  m == r.msg  new == View!NextVersion(p, r.seq)
<1>0. RouterTypes(n) /\ ViewTypes(n)
  BY DEF Types
<1>1. r \in ReceivedOver(n) /\ m \in SentOver(n) /\ inbox[p] # <<>>
  <2>1. inbox[p] \in Seq(ReceivedOver(n)) /\ inbox[p] # <<>>
    BY <1>0 DEF Dispatch, RouterTypes
  <2>2. r \in ReceivedOver(n)
    BY <2>1, FirstAndRest
  <2> QED
    BY <2>1, <2>2 DEF ReceivedOver
<1>2. Brings(n)[r] = Tells(n)[m]
  BY <1>1, GoalValues
<1>3. inbox' = [inbox EXCEPT ![p] = Tail(inbox[p])] /\ UNCHANGED <<serverVars, page, socket, batches>>
  BY DEF Dispatch, viewVars, View!UpdateGamestate
<1>4. CASE m.type # "UPDATE_GAMESTATE"
  <2>1. UNCHANGED <<frames, skipped>> /\ Tells(n)[m] = {}
    BY <1>1, <1>4, GoalValues DEF Dispatch, viewVars
  <2>2. skipped' = [skipped EXCEPT ![p] = skipped[p] \cup {}]
    BY <1>0, <2>1 DEF ViewTypes
  <2> QED
    BY <1>1, <1>2, <1>3, <2>1, <2>2
<1>5. CASE m.type = "UPDATE_GAMESTATE"
  <2>1. View!HandleStateChange(p, new, m.animated, m.game)
    BY <1>5 DEF Dispatch, View!UpdateGamestate
  <2>2. m.animated \in BOOLEAN /\ (m.animated => m.game \in 2..n)
    BY <1>1, <1>5, GamestateTypes
  <2>3. CASE ~m.animated
    <3>1. UNCHANGED <<frames, skipped>> /\ Tells(n)[m] = {}
      BY <1>1, <1>5, <2>1, <2>3, GoalValues DEF View!HandleStateChange
    <3>2. skipped' = [skipped EXCEPT ![p] = skipped[p] \cup {}]
      BY <1>0, <3>1 DEF ViewTypes
    <3> QED
      BY <1>1, <1>2, <1>3, <3>1, <3>2
  <2>4. CASE m.animated /\ ~View!IsNewVersion(p, new)
    <3>1. UNCHANGED frames /\ skipped' = [skipped EXCEPT ![p] = skipped[p] \cup {m.game}]
      BY <2>1, <2>4 DEF View!HandleStateChange
    <3>2. Tells(n)[m] = {m.game}
      BY <1>1, <1>5, <2>4, GoalValues
    <3> QED
      BY <1>1, <1>2, <1>3, <3>1, <3>2
  <2>5. CASE m.animated /\ View!IsNewVersion(p, new)
    <3>1. PICK after \in View!StartAfter(p) :
              frames' = [frames EXCEPT ![p] = Append(@, View!Batch(m.game - 1, m.game, after))]
      BY <2>1, <2>5 DEF View!HandleStateChange
    <3>2. after \in Nat
      BY <1>0, LenProperties DEF View!StartAfter, ViewTypes
    <3> DEFINE b == View!Batch(m.game - 1, m.game, after)
    <3>3. b \in BatchesOver(n) /\ b.phase = "waiting" /\ b.to = m.game
      <4>1. m.game - 1 \in 1..n /\ m.game \in 1..n
        BY <2>2, <2>5
      <4> QED
        BY <3>2, <4>1 DEF View!Batch, BatchesOver
    <3>4. Tells(n)[m] = {m.game} /\ UNCHANGED skipped
      BY <1>1, <1>5, <2>1, <2>5, GoalValues DEF View!HandleStateChange
    <3> HIDE DEF b
    <3> QED
      BY <1>1, <1>2, <1>3, <3>1, <3>3, <3>4 DEF b
  <2> QED
    BY <2>2, <2>3, <2>4, <2>5
<1> QED
  BY <1>4, <1>5

LEMMA BrowseEffect ==
    ASSUME NEW n \in Nat, Types(n), NEW p \in Pages, Browse(p)
    PROVE  /\ page[p] = "open" /\ UNCHANGED <<serverVars, routerVars, issued, submitted, skipped>>
           /\ \/ UNCHANGED <<batches, frames>>
              \/ /\ batches' = [batches EXCEPT ![p] = batches[p] \o frames[p]]
                 /\ frames' = [frames EXCEPT ![p] = <<>>]
              \/ \E i \in 1..Len(batches[p]), ph \in {"running", "ended"} :
                    /\ batches[p][i].phase # "ended" /\ UNCHANGED frames
                    /\ batches' = [batches EXCEPT ![p] =
                                    [batches[p] EXCEPT ![i] = [batches[p][i] EXCEPT !.phase = ph]]]
<1>0. page[p] = "open" /\ UNCHANGED <<serverVars, routerVars, issued>>
  BY DEF Browse
<1>1. CASE View!Refresh(p)
  BY <1>0, <1>1 DEF View!Refresh, View!HandleStateChange
<1>2. CASE View!Frame(p)
  BY <1>0, <1>2 DEF View!Frame
<1>3. ASSUME NEW i \in DOMAIN batches[p], View!StartBatch(p, i) \/ View!EndBatch(p, i)
      PROVE  /\ UNCHANGED <<submitted, skipped>>
             /\ \E j \in 1..Len(batches[p]), ph \in {"running", "ended"} :
                    /\ batches[p][j].phase # "ended" /\ UNCHANGED frames
                    /\ batches' = [batches EXCEPT ![p] =
                                    [batches[p] EXCEPT ![j] = [batches[p][j] EXCEPT !.phase = ph]]]
  <2>1. i \in 1..Len(batches[p])
    BY LenProperties DEF Types, ViewTypes
  <2>2. PICK ph \in {"running", "ended"} :
            /\ batches' = [batches EXCEPT ![p][i].phase = ph]
            /\ UNCHANGED <<version, frames, submitted, refreshed, skipped>>
    BY <1>3 DEF View!StartBatch, View!EndBatch
  <2>3. batches[p][i].phase # "ended"
    BY <1>3 DEF View!StartBatch, View!EndBatch
  <2>4. batches' = [batches EXCEPT ![p] =
                      [batches[p] EXCEPT ![i] = [batches[p][i] EXCEPT !.phase = ph]]]
    BY <2>2
  <2> QED
    BY <2>1, <2>2, <2>3, <2>4
<1> QED
  BY <1>0, <1>1, <1>2, <1>3 DEF Browse, View!Animate

LEMMA MountNext ==
    ASSUME NEW n \in Nat, Types(n), ConnInv, MountInv, [Next]_vars
    PROVE  MountInv'
<1>0. RouterTypes(n) /\ ViewTypes(n) /\ ServerTypes(n)
  BY DEF Types
<1>1. ASSUME NEW p \in Pages, OpenPage(p) PROVE MountInv'
  <2>1. /\ page' = [page EXCEPT ![p] = "open"] /\ UNCHANGED <<inbox, frames>>
        /\ batches' = [batches EXCEPT ![p] = <<[View!Batch(game, game, 0) EXCEPT !.phase = "ended"]>>]
    BY <1>1 DEF OpenPage, Load, View!Mount
  <2>2. batches'[p] # <<>> /\ batches'[p][1].phase = "ended"
    BY <1>0, <2>1 DEF ViewTypes, View!Batch
  <2>3. ASSUME NEW q \in Pages PROVE Mounted(q)'
    <3>1. CASE q = p
      BY <1>0, <2>1, <2>2, <3>1 DEF Mounted, MountInv, RouterTypes
    <3>2. CASE q # p
      <4>1. page'[q] = page[q] /\ batches'[q] = batches[q]
        BY <1>0, <2>1, <3>2 DEF RouterTypes, ViewTypes
      <4> QED
        BY <2>1, <4>1 DEF Mounted, MountInv
    <3> QED
      BY <3>1, <3>2
  <2> QED
    BY <2>3 DEF MountInv
<1>2. ASSUME NEW p \in Pages, Dispatch(p) PROVE MountInv'
  <2>1. /\ inbox[p] # <<>> /\ UNCHANGED <<page, batches>>
        /\ \A q \in Pages : q # p => inbox'[q] = inbox[q] /\ frames'[q] = frames[q]
        /\ \/ frames'[p] = frames[p]
           \/ \E b \in BatchesOver(n) : b.phase = "waiting" /\ frames'[p] = Append(frames[p], b)
    <3>1. PICK r \in ReceivedOver(n) :
              /\ inbox[p] # <<>> /\ inbox' = [inbox EXCEPT ![p] = Tail(inbox[p])]
              /\ UNCHANGED <<page, batches>>
              /\ \/ UNCHANGED frames
                 \/ \E b \in BatchesOver(n) :
                        b.phase = "waiting" /\ frames' = [frames EXCEPT ![p] = Append(frames[p], b)]
      BY <1>2, DispatchEffect
    <3> QED
      BY <1>0, <3>1 DEF RouterTypes, ViewTypes
  <2>2. page[p] # "closed" /\ Mounted(p)
    BY <2>1 DEF MountInv, Mounted
  <2>3. \A i \in DOMAIN frames'[p] : frames'[p][i].phase = "waiting"
    <3>1. ASSUME NEW b \in BatchesOver(n), b.phase = "waiting", frames'[p] = Append(frames[p], b)
          PROVE  \A i \in DOMAIN frames'[p] : frames'[p][i].phase = "waiting"
      <4>1. /\ Len(frames[p]) \in Nat /\ DOMAIN frames[p] = 1..Len(frames[p])
            /\ DOMAIN frames'[p] = 1..(Len(frames[p]) + 1)
            /\ \A i \in 1..Len(frames[p]) : frames'[p][i] = frames[p][i]
            /\ frames'[p][Len(frames[p]) + 1] = b
        BY <1>0, <3>1, SeqFacts DEF ViewTypes
      <4>2. \A i \in 1..(Len(frames[p]) + 1) : i \in 1..Len(frames[p]) \/ i = Len(frames[p]) + 1
        BY <4>1
      <4> QED
        BY <2>2, <3>1, <4>1, <4>2 DEF Mounted
    <3> QED
      BY <2>1, <2>2, <3>1 DEF Mounted
  <2>4. ASSUME NEW q \in Pages, q # p PROVE Mounted(q)'
    BY <2>1, <2>4 DEF MountInv, Mounted
  <2>5. Mounted(p)'
    BY <2>1, <2>2, <2>3 DEF Mounted
  <2> QED
    BY <2>4, <2>5 DEF MountInv
<1>3. ASSUME NEW p \in Pages, Browse(p) PROVE MountInv'
  <2> DEFINE k == Len(batches[p])
  <2>1. page[p] = "open" /\ UNCHANGED <<page, inbox>>
    BY <1>3, BrowseEffect DEF routerVars
  <2>2. /\ batches[p] # <<>> /\ batches[p][1].phase = "ended" /\ Mounted(p)
        /\ k \in Nat \ {0} /\ DOMAIN batches[p] = 1..k
    BY <1>0, <2>1, SeqFacts DEF MountInv, Mounted, ViewTypes
  <2>3. CASE UNCHANGED <<batches, frames>>
    BY <2>1, <2>3 DEF MountInv, Mounted
  <2>4. CASE /\ batches' = [batches EXCEPT ![p] = batches[p] \o frames[p]]
             /\ frames' = [frames EXCEPT ![p] = <<>>]
    <3>1. batches'[p] = batches[p] \o frames[p] /\ frames'[p] = <<>>
      BY <1>0, <2>4 DEF ViewTypes
    <3>2. (batches[p] \o frames[p])[1] = batches[p][1] /\ batches[p] \o frames[p] # <<>>
      <4>1. /\ batches[p] \o frames[p] \in Seq(BatchesOver(n)) /\ Len(frames[p]) \in Nat
            /\ Len(batches[p] \o frames[p]) = k + Len(frames[p])
            /\ \A i \in 1..(k + Len(frames[p])) : (batches[p] \o frames[p])[i] =
                    IF i <= k THEN batches[p][i] ELSE frames[p][i - k]
        BY <1>0, ConcatProperties, LenProperties DEF ViewTypes
      <4> HIDE DEF k
      <4>2. 1 \in 1..(k + Len(frames[p])) /\ 1 <= k /\ k + Len(frames[p]) # 0
        BY <2>2, <4>1
      <4> QED
        BY <4>1, <4>2, SeqFacts
    <3>3. DOMAIN frames'[p] = {}
      BY <3>1
    <3>4. Mounted(p)'
      BY <2>1, <2>2, <3>1, <3>2, <3>3 DEF Mounted
    <3>5. ASSUME NEW q \in Pages, q # p PROVE Mounted(q)'
      <4>1. batches'[q] = batches[q] /\ frames'[q] = frames[q]
        BY <1>0, <2>4, <3>5 DEF ViewTypes
      <4> QED
        BY <2>1, <4>1 DEF MountInv, Mounted
    <3> QED
      BY <3>4, <3>5 DEF MountInv
  <2>5. ASSUME NEW i \in 1..Len(batches[p]), NEW ph \in {"running", "ended"},
               batches[p][i].phase # "ended", UNCHANGED frames,
               batches' = [batches EXCEPT ![p] =
                             [batches[p] EXCEPT ![i] = [batches[p][i] EXCEPT !.phase = ph]]]
        PROVE  MountInv'
    <3>1. i # 1
      BY <2>2, <2>5
    <3>2. batches'[p] = [batches[p] EXCEPT ![i] = [batches[p][i] EXCEPT !.phase = ph]]
      BY <1>0, <2>5 DEF ViewTypes
    <3>3. batches'[p][1] = batches[p][1] /\ DOMAIN batches'[p] = 1..k
      BY <2>2, <3>1, <3>2
    <3>4. batches'[p] # <<>>
      BY <2>2, <3>3
    <3>5. Mounted(p)'
      BY <2>1, <2>2, <2>5, <3>3, <3>4 DEF Mounted
    <3>6. ASSUME NEW q \in Pages, q # p PROVE Mounted(q)'
      <4>1. batches'[q] = batches[q]
        BY <1>0, <2>5, <3>6 DEF ViewTypes
      <4> QED
        BY <2>1, <2>5, <4>1 DEF MountInv, Mounted
    <3> QED
      BY <3>5, <3>6 DEF MountInv
  <2>6. \/ UNCHANGED <<batches, frames>>
        \/ /\ batches' = [batches EXCEPT ![p] = batches[p] \o frames[p]]
           /\ frames' = [frames EXCEPT ![p] = <<>>]
        \/ \E i \in 1..Len(batches[p]), ph \in {"running", "ended"} :
              /\ batches[p][i].phase # "ended" /\ UNCHANGED frames
              /\ batches' = [batches EXCEPT ![p] =
                              [batches[p] EXCEPT ![i] = [batches[p][i] EXCEPT !.phase = ph]]]
    BY <1>3, BrowseEffect
  <2> QED
    BY <2>3, <2>4, <2>5, <2>6
<1>4. ASSUME NEW p \in Pages, Receive(p) PROVE MountInv'
  <2>1. UNCHANGED <<page, batches, frames>>
    BY <1>4, ReceiveEffect DEF viewVars
  <2>2. \A q \in Pages : q # p => inbox'[q] = inbox[q]
    <3>1. CASE UNCHANGED inbox
      BY <3>1
    <3>2. CASE \E m \in SentOver(n) : Received(p, m)
      BY <1>0, <3>2 DEF Received, RouterTypes
    <3> QED
      BY <1>4, <3>1, <3>2, ReceiveEffect
  <2>3. page[p] = "open"
    <3>1. socket[p] \in Conns
      BY <1>4, ReceiveEffect, IncomingIsHead DEF OnOpen
    <3> QED
      BY <3>1 DEF ConnInv, OneOwner
  <2> QED
    BY <2>1, <2>2, <2>3 DEF MountInv, Mounted
<1>5. ASSUME NEW p \in Pages, Leave(p) PROVE MountInv'
  <2>1. /\ page' = [page EXCEPT ![p] = "left"] /\ inbox' = [inbox EXCEPT ![p] = <<>>]
        /\ UNCHANGED <<batches, frames>>
    BY <1>5 DEF Leave, Unload, viewVars
  <2>2. \A q \in Pages : /\ q # p => page'[q] = page[q] /\ inbox'[q] = inbox[q]
                         /\ q = p => page'[q] = "left"
    BY <1>0, <2>1 DEF RouterTypes
  <2> QED
    BY <2>1, <2>2 DEF MountInv, Mounted
<1>6. ASSUME NEW p \in Pages, Reconnect(p) PROVE MountInv'
  <2>1. UNCHANGED <<page, inbox, batches, frames>>
    BY <1>6 DEF Reconnect, OnClose, Reopen, viewVars
  <2> QED
    BY <2>1 DEF MountInv, Mounted
<1>7. ASSUME NEW p \in Pages, NEW a \in Acts, Submit(p, a) PROVE MountInv'
  <2>1. UNCHANGED <<page, inbox, batches, frames>>
    BY <1>7 DEF Submit, View!SubmitAction
  <2> QED
    BY <2>1 DEF MountInv, Mounted
<1>8. ASSUME NEW c \in Conns, Server(c) \/ Network(c) PROVE MountInv'
  <2>1. UNCHANGED <<page, inbox, batches, frames>>
    BY <1>8 DEF Server, Network, routerVars, viewVars
  <2> QED
    BY <2>1 DEF MountInv, Mounted
<1>9. CASE Table \/ UNCHANGED vars
  <2>1. UNCHANGED <<page, inbox, batches, frames>>
    BY <1>9 DEF Table, vars, routerVars, viewVars
  <2> QED
    BY <2>1 DEF MountInv, Mounted
<1> QED
  BY <1>1, <1>2, <1>3, <1>4, <1>5, <1>6, <1>7, <1>8, <1>9 DEF Next

-----------------------------------------------------------------------------
(* The gamestates reach the screen in order                                *)

LEMMA DeliveredGoals ==
    ASSUME NEW n \in Nat, out \in [Conns -> Seq(SentOver(n))], NEW to, NEW m \in SentOver(n),
           NEW d \in Conns
    PROVE  /\ Goals(Delivered(to, m)[d], Tells(n)) =
                Goals(out[d], Tells(n)) \cup
                    (IF d \in to /\ link[d] = "open" THEN Tells(n)[m] ELSE {})
           /\ Rising(out[d], Tells(n)) /\ Before(Goals(out[d], Tells(n)), Tells(n)[m])
                => Rising(Delivered(to, m)[d], Tells(n))
<1>1. Delivered(to, m)[d] = IF d \in to /\ link[d] = "open" THEN Append(out[d], m) ELSE out[d]
  BY DEF Delivered
<1>2. /\ Goals(Append(out[d], m), Tells(n)) = Goals(out[d], Tells(n)) \cup Tells(n)[m]
      /\ Rising(out[d], Tells(n)) /\ Before(Goals(out[d], Tells(n)), Tells(n)[m])
            => Rising(Append(out[d], m), Tells(n))
  BY GoalsBehind
<1> QED
  BY <1>1, <1>2

(* The replies of the workers bring nothing to the screen.                 *)
LEMMA SilentDelivery ==
    ASSUME NEW n \in Nat, out \in [Conns -> Seq(SentOver(n))], NEW to, NEW m \in SentOver(n),
           Tells(n)[m] = {}, NEW d \in Conns
    PROVE  /\ Goals(Delivered(to, m)[d], Tells(n)) = Goals(out[d], Tells(n))
           /\ Rising(out[d], Tells(n)) => Rising(Delivered(to, m)[d], Tells(n))
<1>1. Before(Goals(out[d], Tells(n)), Tells(n)[m])
  BY DEF Before
<1>2. /\ Goals(Append(out[d], m), Tells(n)) = Goals(out[d], Tells(n)) \cup Tells(n)[m]
      /\ Rising(out[d], Tells(n)) /\ Before(Goals(out[d], Tells(n)), Tells(n)[m])
            => Rising(Append(out[d], m), Tells(n))
  BY GoalsBehind
<1>3. Delivered(to, m)[d] \in {Append(out[d], m), out[d]}
  BY DEF Delivered
<1> QED
  BY <1>1, <1>2, <1>3

LEMMA WorkGoals ==
    ASSUME NEW n \in Nat, ServerTypes(n), NEW c \in Conns, Work(c), NEW d \in Conns
    PROVE  /\ Goals(out'[d], Tells(n)) = Goals(out[d], Tells(n))
           /\ Rising(out[d], Tells(n)) => Rising(out'[d], Tells(n))
<1>0. out \in [Conns -> Seq(SentOver(n))]
  BY DEF ServerTypes
<1>1. CASE \E a \in Acts : OnAct(c, a)
  BY <1>1 DEF OnAct
<1>2. CASE LoadGame(c) \/ OnPingResponse(c) \/ OnDisconnect(c)
  BY <1>2 DEF LoadGame, OnPingResponse, OnDisconnect
<1>3. CASE Accept(c)
  <2>1. Accepted \in SentOver(n) /\ Tells(n)[Accepted] = {}
    BY MessageTypes, GoalValues
  <2>2. out' = Delivered({c}, Accepted)
    BY <1>3 DEF Accept
  <2> QED
    BY <1>0, <2>1, <2>2, SilentDelivery
<1>4. CASE Answer(c)
  <2>1. answering[c].game \in 1..n
    BY <1>4, AnswersTyped DEF Answer, ServerTypes
  <2>2. State(answering[c].game) \in SentOver(n) /\ Tells(n)[State(answering[c].game)] = {}
    BY <2>1, MessageTypes, GoalValues
  <2>3. out' = Delivered({c}, State(answering[c].game))
    BY <1>4 DEF Answer
  <2> QED
    BY <1>0, <2>2, <2>3, SilentDelivery
<1>5. CASE OnHello(c)
  <2>1. /\ GotHello \in SentOver(n) /\ Tells(n)[GotHello] = {}
        /\ Ping \in SentOver(n) /\ Tells(n)[Ping] = {}
    BY MessageTypes, GoalValues
  <2>2. out'[d] = IF d = c THEN Delivered({c}, GotHello)[d] ELSE Delivered(Others(c), Ping)[d]
    BY <1>5 DEF OnHello
  <2>3. /\ Goals(Delivered({c}, GotHello)[d], Tells(n)) = Goals(out[d], Tells(n))
        /\ Rising(out[d], Tells(n)) => Rising(Delivered({c}, GotHello)[d], Tells(n))
    BY <1>0, <2>1, SilentDelivery
  <2>4. /\ Goals(Delivered(Others(c), Ping)[d], Tells(n)) = Goals(out[d], Tells(n))
        /\ Rising(out[d], Tells(n)) => Rising(Delivered(Others(c), Ping)[d], Tells(n))
    BY <1>0, <2>1, SilentDelivery
  <2> QED
    BY <2>2, <2>3, <2>4
<1> QED
  BY <1>1, <1>2, <1>3, <1>4, <1>5 DEF Work

LEMMA AnnounceGoals ==
    ASSUME NEW n \in Nat, ServerTypes(n), OrderInv(n), Announce, NEW d \in Conns
    PROVE  /\ game \in 2..n
           /\ Goals(out'[d], Tells(n)) =
                Goals(out[d], Tells(n)) \cup (IF HasRow(d) /\ link[d] = "open" THEN {game} ELSE {})
           /\ Rising(out'[d], Tells(n))
<1>1. out \in [Conns -> Seq(SentOver(n))] /\ game \in 2..n
  BY DEF ServerTypes, Announce
<1>2. Broadcast(game) \in SentOver(n) /\ Tells(n)[Broadcast(game)] = {game}
  BY <1>1, MessageTypes, GoalValues
<1>3. out' = Delivered({c \in Conns : HasRow(c)}, Broadcast(game))
  BY DEF Announce
<1>4. Rising(out[d], Tells(n)) /\ Goals(out[d], Tells(n)) \subseteq 1..game
  BY DEF OrderInv
<1>5. Before(Goals(out[d], Tells(n)), {game})
  BY <1>1, <1>4 DEF Before
<1>6. ASSUME NEW to, to = {c \in Conns : HasRow(c)}
      PROVE  /\ Goals(Delivered(to, Broadcast(game))[d], Tells(n)) =
                   Goals(out[d], Tells(n)) \cup
                        (IF HasRow(d) /\ link[d] = "open" THEN {game} ELSE {})
             /\ Rising(Delivered(to, Broadcast(game))[d], Tells(n))
  <2>1. d \in to <=> HasRow(d)
    BY <1>6
  <2>2. Before(Goals(out[d], Tells(n)), Tells(n)[Broadcast(game)])
    BY <1>2, <1>5
  <2>3. /\ Goals(Delivered(to, Broadcast(game))[d], Tells(n)) =
              Goals(out[d], Tells(n)) \cup
                (IF d \in to /\ link[d] = "open" THEN Tells(n)[Broadcast(game)] ELSE {})
        /\ Rising(Delivered(to, Broadcast(game))[d], Tells(n))
    BY <1>1, <1>2, <1>4, <2>2, DeliveredGoals
  <2> QED
    BY <1>2, <2>1, <2>3
<1> QED
  BY <1>1, <1>3, <1>6

(* A page to which nothing happens, but that the last gamestate may be on  *)
(* its way to it.                                                          *)
LEMMA OrderIsKept ==
    ASSUME NEW n \in Nat, NEW p \in Pages, InOrder(n, p), Heard(n, p) \subseteq 1..game,
           inbox'[p] = inbox[p], frames'[p] = frames[p], batches'[p] = batches[p],
           skipped'[p] = skipped[p], game \in Nat, game' \in Nat, game <= game', 1 <= game',
           OnTheWay(n, p)' \subseteq OnTheWay(n, p) \cup {game'}
    PROVE  InOrder(n, p)' /\ Heard(n, p)' \subseteq 1..game'
<1>1. /\ Unread(n, p)' = Unread(n, p) /\ Unseen(n, p)' = Unseen(n, p)
      /\ Queued(n, p)' = Queued(n, p)
  BY DEF Unread, Unseen, Queued
<1>2. /\ Rising(inbox[p], Brings(n))' /\ Rising(frames[p], Leads(n))'
      /\ Rising(batches[p], Leads(n))'
  BY DEF InOrder
<1>3. \A g \in Heard(n, p) : g <= game' /\ g \in 1..game'
  OBVIOUS
<1>4. ASSUME NEW A, Before(A, OnTheWay(n, p)), A \subseteq Heard(n, p)
      PROVE  Before(A, OnTheWay(n, p)')
  BY <1>3, <1>4 DEF Before
<1>5. /\ Before(Queued(n, p), OnTheWay(n, p)') /\ Before(Unseen(n, p), OnTheWay(n, p)')
      /\ Before(Unread(n, p), OnTheWay(n, p)')
  BY <1>4 DEF InOrder, Heard
<1>6. InOrder(n, p)'
  BY <1>1, <1>2, <1>5 DEF InOrder
<1>7. Heard(n, p)' \subseteq 1..game'
  <2>1. Heard(n, p)' \subseteq Heard(n, p) \cup {game'}
    BY <1>1 DEF Heard
  <2> QED
    BY <1>3, <2>1
<1> QED
  BY <1>6, <1>7

(* A step of somebody else                                                 *)
LEMMA OrderElsewhere ==
    ASSUME NEW n \in Nat, Types(n), OrderInv(n),
           UNCHANGED <<socket, inbox, frames, batches, skipped>>, game' \in 1..n, game <= game',
           \A c \in Conns : Rising(out'[c], Tells(n))
                            /\ Goals(out'[c], Tells(n)) \subseteq Goals(out[c], Tells(n)) \cup {game'}
    PROVE  OrderInv(n)'
<1>0. game \in Nat /\ game' \in Nat /\ 1 <= game'
  BY DEF Types, ServerTypes
<1>1. ASSUME NEW c \in Conns
      PROVE  Rising(out'[c], Tells(n)) /\ Goals(out'[c], Tells(n)) \subseteq 1..game'
  <2>1. Goals(out[c], Tells(n)) \subseteq 1..game
    BY DEF OrderInv
  <2> QED
    BY <1>0, <2>1
<1>2. ASSUME NEW p \in Pages PROVE InOrder(n, p)' /\ Heard(n, p)' \subseteq 1..game'
  <2>1. OnTheWay(n, p)' = IF socket[p] \in Conns THEN Goals(out'[socket[p]], Tells(n)) ELSE {}
    BY DEF OnTheWay
  <2>2. OnTheWay(n, p)' \subseteq OnTheWay(n, p) \cup {game'}
    BY <2>1 DEF OnTheWay
  <2>3. InOrder(n, p) /\ Heard(n, p) \subseteq 1..game
    BY DEF OrderInv
  <2> QED
    BY <1>0, <2>2, <2>3, OrderIsKept
<1> QED
  BY <1>1, <1>2 DEF OrderInv

LEMMA ServerKeepsOrder ==
    ASSUME NEW n \in Nat, Types(n), OrderInv(n), NEW c \in Conns, Server(c)
    PROVE  OrderInv(n)'
<1>1. /\ UNCHANGED <<socket, inbox, frames, batches, skipped, game>>
      /\ game' \in 1..n /\ game <= game' /\ ServerTypes(n) /\ Work(c)
  <2>1. UNCHANGED game
    BY DEF Server, Work, Accept, LoadGame, Answer, OnHello, OnPingResponse, OnDisconnect, OnAct,
           heartbeat
  <2>2. ServerTypes(n) /\ Work(c) /\ UNCHANGED <<socket, inbox, frames, batches, skipped>>
    BY DEF Types, Server, routerVars, viewVars
  <2>3. game \in 1..n
    BY <2>2 DEF ServerTypes
  <2> QED
    BY <2>1, <2>2, <2>3
<1>2. ASSUME NEW d \in Conns
      PROVE  Rising(out'[d], Tells(n))
             /\ Goals(out'[d], Tells(n)) \subseteq Goals(out[d], Tells(n)) \cup {game'}
  BY <1>1, WorkGoals DEF OrderInv
<1> QED
  BY <1>1, <1>2, OrderElsewhere

LEMMA TableKeepsOrder ==
    ASSUME NEW n \in Nat, Types(n), OrderInv(n), Table
    PROVE  OrderInv(n)'
<1>1. UNCHANGED <<socket, inbox, frames, batches, skipped>> /\ ServerTypes(n)
  BY DEF Types, Table, routerVars, viewVars
<1>2. CASE Announce
  <2>1. game' = game /\ game \in 1..n /\ game <= game'
    BY <1>1, <1>2 DEF Announce, ServerTypes
  <2>2. ASSUME NEW d \in Conns
        PROVE  Rising(out'[d], Tells(n))
               /\ Goals(out'[d], Tells(n)) \subseteq Goals(out[d], Tells(n)) \cup {game'}
    BY <1>1, <1>2, <2>1, AnnounceGoals
  <2> QED
    BY <1>1, <2>1, <2>2, OrderElsewhere
<1>3. CASE TableMoves \/ Obey \/ Refuse
  <2>1. game' \in 1..n /\ game <= game' /\ out' = out
    BY <1>1, <1>3 DEF TableMoves, Obey, Refuse, Commit, ServerTypes
  <2>2. ASSUME NEW d \in Conns
        PROVE  Rising(out'[d], Tells(n))
               /\ Goals(out'[d], Tells(n)) \subseteq Goals(out[d], Tells(n)) \cup {game'}
    BY <2>1 DEF OrderInv
  <2> QED
    BY <1>1, <2>1, <2>2, OrderElsewhere
<1> QED
  BY <1>2, <1>3 DEF Table, Beat

LEMMA NetworkKeepsOrder ==
    ASSUME NEW n \in Nat, Types(n), OrderInv(n), NEW c \in Conns, Network(c)
    PROVE  OrderInv(n)'
<1>1. /\ UNCHANGED <<socket, inbox, frames, batches, skipped, game>>
      /\ game' \in 1..n /\ game <= game' /\ ServerTypes(n)
  BY DEF Types, ServerTypes, Network, routerVars, viewVars, heartbeat, Cut, Age
<1>2. ASSUME NEW d \in Conns PROVE out'[d] \in {out[d], <<>>}
  BY <1>1 DEF Network, Cut, Age, ServerTypes
<1>3. ASSUME NEW d \in Conns
      PROVE  Rising(out'[d], Tells(n))
             /\ Goals(out'[d], Tells(n)) \subseteq Goals(out[d], Tells(n)) \cup {game'}
  <2>1. Goals(<<>>, Tells(n)) = {} /\ Rising(<<>>, Tells(n))
    BY GoalsOfNone
  <2> QED
    BY <1>2, <2>1 DEF OrderInv
<1> QED
  BY <1>1, <1>3, OrderElsewhere

(* The end and the beginning of a connection of a page                     *)
LEMMA LinkKeepsOrder ==
    ASSUME NEW n \in Nat, Types(n), ConnInv, OrderInv(n), NEW p \in Pages, Reconnect(p)
    PROVE  OrderInv(n)'
<1>0. ServerTypes(n) /\ RouterTypes(n)
  BY DEF Types
<1>1. UNCHANGED <<out, game, inbox, frames, batches, skipped>>
  BY DEF Reconnect, OnClose, Reopen, serverVars, heartbeat, viewVars
<1>2. \A q \in Pages : q # p => socket'[q] = socket[q]
  BY <1>0 DEF Reconnect, OnClose, Close, Reopen, SetupSocket, RouterTypes
<1>3. OnTheWay(n, p)' = {}
  <2>1. CASE OnClose(p)
    <3>1. socket'[p] = NoSocket
      BY <1>0, <2>1 DEF OnClose, Close, RouterTypes
    <3> QED
      BY <3>1, RouterAssumption DEF OnTheWay
  <2>2. CASE Reopen(p)
    <3>1. PICK c \in Unused : socket' = [socket EXCEPT ![p] = c]
      BY <2>2 DEF Reopen, SetupSocket
    <3>2. c \in Conns /\ socket'[p] = c /\ out[c] = <<>>
      BY <1>0, <3>1 DEF Unused, RouterTypes, ConnInv, ClosedIsSilent
    <3>3. Goals(out[c], Tells(n)) = {}
      BY <3>2, GoalsOfNone
    <3> QED
      BY <1>1, <3>2, <3>3 DEF OnTheWay
  <2> QED
    BY <2>1, <2>2 DEF Reconnect
<1>4. ASSUME NEW q \in Pages PROVE InOrder(n, q)' /\ Heard(n, q)' \subseteq 1..game'
  <2>1. OnTheWay(n, q)' \subseteq OnTheWay(n, q) \cup {game'}
    <3>1. CASE q = p
      BY <1>3, <3>1
    <3>2. CASE q # p
      <4>1. socket'[q] = socket[q]
        BY <1>2, <3>2
      <4> QED
        BY <1>1, <4>1 DEF OnTheWay
    <3> QED
      BY <3>1, <3>2
  <2>2. InOrder(n, q) /\ Heard(n, q) \subseteq 1..game
    BY DEF OrderInv
  <2>3. game \in Nat /\ game' \in Nat /\ game <= game' /\ 1 <= game'
    BY <1>0, <1>1 DEF ServerTypes
  <2>4. /\ inbox'[q] = inbox[q] /\ frames'[q] = frames[q] /\ batches'[q] = batches[q]
        /\ skipped'[q] = skipped[q]
    BY <1>1
  <2> QED
    BY <2>1, <2>2, <2>3, <2>4, OrderIsKept
<1> QED
  BY <1>1, <1>4 DEF OrderInv

LEMMA OpeningKeepsOrder ==
    ASSUME NEW n \in Nat, Types(n), ConnInv, MountInv, OrderInv(n), NEW p \in Pages, OpenPage(p)
    PROVE  OrderInv(n)'
<1>0. ServerTypes(n) /\ RouterTypes(n) /\ ViewTypes(n) /\ game \in 1..n
  BY DEF Types, ServerTypes
<1>1. /\ UNCHANGED <<out, game, inbox, frames, skipped>> /\ page[p] = "closed"
      /\ batches' = [batches EXCEPT ![p] = <<[View!Batch(game, game, 0) EXCEPT !.phase = "ended"]>>]
  BY DEF OpenPage, Load, heartbeat, View!Mount
<1>2. PICK c \in Unused : socket' = [socket EXCEPT ![p] = c]
  BY DEF OpenPage, Load, SetupSocket
<1>3. c \in Conns /\ out[c] = <<>> /\ \A q \in Pages : q # p => socket'[q] = socket[q]
  BY <1>0, <1>2 DEF Unused, RouterTypes, ConnInv, ClosedIsSilent
<1>4. OnTheWay(n, p)' = {}
  <2>1. socket'[p] = c /\ Goals(out[c], Tells(n)) = {}
    BY <1>0, <1>2, <1>3, GoalsOfNone DEF RouterTypes
  <2> QED
    BY <1>1, <2>1 DEF OnTheWay
<1>5. InOrder(n, p)' /\ Heard(n, p)' \subseteq 1..game
  <2> DEFINE b == [View!Batch(game, game, 0) EXCEPT !.phase = "ended"]
  <2>1. b \in BatchesOver(n) /\ b.to = game /\ batches'[p] = <<b>>
    BY <1>0, <1>1 DEF ViewTypes, View!Batch, BatchesOver
  <2> HIDE DEF b
  <2>2. inbox'[p] = <<>> /\ frames'[p] = <<>>
    BY <1>1 DEF MountInv, Mounted
  <2>3. Unread(n, p)' = {} /\ Unseen(n, p)' = {}
        /\ Rising(inbox'[p], Brings(n)) /\ Rising(frames'[p], Leads(n))
    BY <2>2, GoalsOfNone DEF Unread, Unseen
  <2>4. ToSet(<<b>>) = {b} /\ Rising(<<b>>, Leads(n))
    BY DEF ToSet, Rising
  <2>5. Queued(n, p)' = {game} /\ Rising(batches'[p], Leads(n))
    BY <2>1, <2>4, GoalValues DEF Queued, Goals
  <2>6. InOrder(n, p)'
    BY <1>4, <2>3, <2>5 DEF InOrder, Before
  <2>7. skipped[p] \subseteq 1..game
    BY DEF OrderInv, Heard
  <2>8. Heard(n, p)' \subseteq 1..game
    BY <1>0, <1>1, <1>4, <2>3, <2>5, <2>7 DEF Heard
  <2> QED
    BY <2>6, <2>8
<1>6. ASSUME NEW q \in Pages, q # p PROVE InOrder(n, q)' /\ Heard(n, q)' \subseteq 1..game'
  <2>1. OnTheWay(n, q)' \subseteq OnTheWay(n, q) \cup {game'}
    BY <1>1, <1>3, <1>6 DEF OnTheWay
  <2>2. InOrder(n, q) /\ Heard(n, q) \subseteq 1..game
    BY DEF OrderInv
  <2>3. game \in Nat /\ game' \in Nat /\ game <= game' /\ 1 <= game'
    BY <1>0, <1>1
  <2>4. /\ inbox'[q] = inbox[q] /\ frames'[q] = frames[q] /\ batches'[q] = batches[q]
        /\ skipped'[q] = skipped[q]
    BY <1>0, <1>1, <1>6 DEF ViewTypes
  <2> QED
    BY <2>1, <2>2, <2>3, <2>4, OrderIsKept
<1> QED
  BY <1>1, <1>5, <1>6 DEF OrderInv

LEMMA LeavingKeepsOrder ==
    ASSUME NEW n \in Nat, Types(n), OrderInv(n), NEW p \in Pages, Leave(p)
    PROVE  OrderInv(n)'
<1>0. ServerTypes(n) /\ RouterTypes(n) /\ ViewTypes(n) /\ game \in 1..n
  BY DEF Types, ServerTypes
<1>1. /\ UNCHANGED <<game, frames, batches, skipped>>
      /\ inbox' = [inbox EXCEPT ![p] = <<>>] /\ socket' = [socket EXCEPT ![p] = NoSocket]
  BY DEF Leave, Unload, heartbeat, viewVars
<1>2. ASSUME NEW d \in Conns PROVE out'[d] \in {out[d], <<>>}
  BY <1>0 DEF Leave, Unload, ServerTypes
<1>3. ASSUME NEW d \in Conns
      PROVE  Rising(out'[d], Tells(n)) /\ Goals(out'[d], Tells(n)) \subseteq Goals(out[d], Tells(n))
  BY <1>2, GoalsOfNone DEF OrderInv
<1>4. InOrder(n, p)' /\ Heard(n, p)' \subseteq 1..game
  <2>1. OnTheWay(n, p)' = {}
    BY <1>0, <1>1, RouterAssumption DEF OnTheWay, RouterTypes
  <2>2. inbox'[p] = <<>>
    BY <1>0, <1>1 DEF RouterTypes
  <2>3. Unread(n, p)' = {} /\ Rising(inbox'[p], Brings(n))
    BY <2>2, GoalsOfNone DEF Unread
  <2>4. Unseen(n, p)' = Unseen(n, p) /\ Queued(n, p)' = Queued(n, p)
    BY <1>1 DEF Unseen, Queued
  <2>5. InOrder(n, p) /\ Heard(n, p) \subseteq 1..game
    BY DEF OrderInv
  <2>6. InOrder(n, p)'
    BY <1>1, <2>1, <2>3, <2>4, <2>5 DEF InOrder, Before
  <2>7. Heard(n, p)' \subseteq 1..game
    BY <1>1, <2>1, <2>3, <2>4, <2>5 DEF Heard
  <2> QED
    BY <2>6, <2>7
<1>5. ASSUME NEW q \in Pages, q # p PROVE InOrder(n, q)' /\ Heard(n, q)' \subseteq 1..game'
  <2>1. socket'[q] = socket[q] /\ inbox'[q] = inbox[q]
    BY <1>0, <1>1, <1>5 DEF RouterTypes
  <2>2. OnTheWay(n, q)' = IF socket[q] \in Conns THEN Goals(out'[socket[q]], Tells(n)) ELSE {}
    BY <2>1 DEF OnTheWay
  <2>3. OnTheWay(n, q)' \subseteq OnTheWay(n, q) \cup {game'}
    BY <1>3, <2>2 DEF OnTheWay
  <2>4. InOrder(n, q) /\ Heard(n, q) \subseteq 1..game
    BY DEF OrderInv
  <2>5. game \in Nat /\ game' \in Nat /\ game <= game' /\ 1 <= game'
    BY <1>0, <1>1
  <2>6. frames'[q] = frames[q] /\ batches'[q] = batches[q] /\ skipped'[q] = skipped[q]
    BY <1>1
  <2> QED
    BY <2>1, <2>3, <2>4, <2>5, <2>6, OrderIsKept
<1>6. ASSUME NEW d \in Conns PROVE Goals(out'[d], Tells(n)) \subseteq 1..game'
  BY <1>1, <1>3 DEF OrderInv
<1> QED
  BY <1>1, <1>3, <1>4, <1>5, <1>6 DEF OrderInv

(* The message at the head of a connection goes to the end of the inbox.   *)
LEMMA ReceiveKeepsOrder ==
    ASSUME NEW n \in Nat, Types(n), ConnInv, OrderInv(n), NEW p \in Pages, Receive(p)
    PROVE  OrderInv(n)'
<1> DEFINE c == socket[p]
<1>0. ServerTypes(n) /\ RouterTypes(n) /\ ViewTypes(n) /\ game \in 1..n
  BY DEF Types, ServerTypes
<1>1. UNCHANGED <<socket, game, frames, batches, skipped>>
  BY ReceiveEffect DEF viewVars
<1>2. c \in Conns /\ out[c] # <<>> /\ out' = [out EXCEPT ![c] = Tail(out[c])]
  <2>1. CASE OnOpen(p)
    BY <2>1 DEF OnOpen
  <2>2. CASE \E m \in SentOver(n) : m = Incoming(p) /\ m # Accepted /\ Received(p, m)
    BY <2>2, IncomingIsHead DEF Received
  <2> QED
    BY <2>1, <2>2, ReceiveEffect
<1> DEFINE m == Head(out[c])
<1>3. /\ Goals(out[c], Tells(n)) = Tells(n)[m] \cup Goals(Tail(out[c]), Tells(n))
      /\ Rising(Tail(out[c]), Tells(n)) /\ Before(Tells(n)[m], Goals(Tail(out[c]), Tells(n)))
  <2>1. out[c] \in Seq(SentOver(n)) /\ Rising(out[c], Tells(n))
    BY <1>0, <1>2 DEF ServerTypes, OrderInv
  <2> QED
    BY <1>2, <2>1, GoalsOfRest
<1>4. /\ out'[c] = Tail(out[c])
      /\ \A d \in Conns : d # c => out'[d] = out[d]
  BY <1>0, <1>2 DEF ServerTypes
<1>5. ASSUME NEW d \in Conns
      PROVE  Rising(out'[d], Tells(n)) /\ Goals(out'[d], Tells(n)) \subseteq Goals(out[d], Tells(n))
  BY <1>3, <1>4 DEF OrderInv
<1>6. CASE UNCHANGED inbox
  <2>1. game' \in 1..n /\ game <= game'
    BY <1>0, <1>1
  <2> QED
    BY <1>1, <1>5, <1>6, <2>1, OrderElsewhere
<1>7. CASE Received(p, m) /\ m \in SentOver(n)
  <2> DEFINE r == [msg |-> m, seq |-> recvSeqNum[p]]
  <2>1. r \in ReceivedOver(n) /\ r.msg = m
    BY <1>0, <1>7 DEF RouterTypes, ReceivedOver
  <2>2. inbox' = [inbox EXCEPT ![p] = Append(@, r)] /\ inbox[p] \in Seq(ReceivedOver(n))
    BY <1>0, <1>7 DEF Received, RouterTypes
  <2> HIDE DEF r
  <2>3. Brings(n)[r] = Tells(n)[m]
    BY <2>1, GoalValues
  <2>4. inbox'[p] = Append(inbox[p], r) /\ \A q \in Pages : q # p => inbox'[q] = inbox[q]
    BY <1>0, <2>2 DEF RouterTypes
  <2>5. InOrder(n, p) /\ Heard(n, p) \subseteq 1..game
    BY DEF OrderInv
  <2>6. /\ OnTheWay(n, p) = Tells(n)[m] \cup OnTheWay(n, p)'
        /\ Before(Tells(n)[m], OnTheWay(n, p)')
    BY <1>1, <1>2, <1>3, <1>4 DEF OnTheWay
  <2>7. Unread(n, p)' = Unread(n, p) \cup Tells(n)[m] /\ Rising(inbox'[p], Brings(n))
    <3>1. Before(Unread(n, p), Tells(n)[m]) /\ Rising(inbox[p], Brings(n))
      BY <2>5, <2>6 DEF InOrder, Before
    <3>2. Before(Goals(inbox[p], Brings(n)), Brings(n)[r])
      BY <2>3, <3>1 DEF Unread
    <3>3. /\ Goals(Append(inbox[p], r), Brings(n)) = Goals(inbox[p], Brings(n)) \cup Brings(n)[r]
          /\ Rising(Append(inbox[p], r), Brings(n))
      BY <2>1, <2>2, <3>1, <3>2, GoalsBehind
    <3> QED
      BY <2>3, <2>4, <3>3 DEF Unread
  <2>8. /\ Unseen(n, p)' = Unseen(n, p) /\ Queued(n, p)' = Queued(n, p)
        /\ Rising(frames'[p], Leads(n)) /\ Rising(batches'[p], Leads(n))
    BY <1>1, <2>5 DEF Unseen, Queued, InOrder
  <2>9. InOrder(n, p)'
    BY <2>5, <2>6, <2>7, <2>8 DEF InOrder, Before
  <2>10. Heard(n, p)' \subseteq 1..game'
    BY <1>1, <2>5, <2>6, <2>7, <2>8 DEF Heard
  <2>11. ASSUME NEW q \in Pages, q # p PROVE InOrder(n, q)' /\ Heard(n, q)' \subseteq 1..game'
    <3>1. OnTheWay(n, q)' \subseteq OnTheWay(n, q) \cup {game'}
      BY <1>1, <1>5 DEF OnTheWay
    <3>2. InOrder(n, q) /\ Heard(n, q) \subseteq 1..game
      BY DEF OrderInv
    <3>3. game \in Nat /\ game' \in Nat /\ game <= game' /\ 1 <= game'
      BY <1>0, <1>1
    <3>4. /\ inbox'[q] = inbox[q] /\ frames'[q] = frames[q] /\ batches'[q] = batches[q]
          /\ skipped'[q] = skipped[q]
      BY <1>1, <2>4, <2>11
    <3> QED
      BY <3>1, <3>2, <3>3, <3>4, OrderIsKept
  <2>12. ASSUME NEW d \in Conns PROVE Goals(out'[d], Tells(n)) \subseteq 1..game'
    BY <1>1, <1>5 DEF OrderInv
  <2> QED
    BY <1>5, <2>9, <2>10, <2>11, <2>12 DEF OrderInv
<1>8. UNCHANGED inbox \/ (Received(p, m) /\ m \in SentOver(n))
  <2>1. CASE \E x \in SentOver(n) : x = Incoming(p) /\ x # Accepted /\ Received(p, x)
    BY <2>1, IncomingIsHead
  <2> QED
    BY <2>1, ReceiveEffect
<1> QED
  BY <1>6, <1>7, <1>8

(* The first message of the inbox becomes the last batch to be queued, or  *)
(* is passed over.                                                         *)
LEMMA DispatchKeepsOrder ==
    ASSUME NEW n \in Nat, Types(n), OrderInv(n), NEW p \in Pages, Dispatch(p)
    PROVE  OrderInv(n)'
<1>0. RouterTypes(n) /\ ViewTypes(n) /\ game \in 1..n
  BY DEF Types, ServerTypes
<1>1. PICK r \in ReceivedOver(n) :
          /\ r = Head(inbox[p]) /\ inbox[p] # <<>> /\ inbox' = [inbox EXCEPT ![p] = Tail(inbox[p])]
          /\ UNCHANGED <<serverVars, page, socket, batches>>
          /\ \/ /\ UNCHANGED frames
                /\ skipped' = [skipped EXCEPT ![p] = skipped[p] \cup Brings(n)[r]]
             \/ \E b \in BatchesOver(n) :
                    /\ b.phase = "waiting" /\ Brings(n)[r] = {b.to}
                    /\ frames' = [frames EXCEPT ![p] = Append(frames[p], b)]
                    /\ UNCHANGED skipped
  BY DispatchEffect
<1>2. UNCHANGED <<out, game, socket, batches>>
  BY <1>1 DEF serverVars, heartbeat
<1>3. InOrder(n, p) /\ Heard(n, p) \subseteq 1..game
  BY DEF OrderInv
<1>4. inbox[p] \in Seq(ReceivedOver(n)) /\ frames[p] \in Seq(BatchesOver(n))
  BY <1>0 DEF RouterTypes, ViewTypes
<1>5. /\ Unread(n, p) = Brings(n)[r] \cup Unread(n, p)'
      /\ Rising(inbox'[p], Brings(n)) /\ Before(Brings(n)[r], Unread(n, p)')
  <2>1. inbox'[p] = Tail(inbox[p])
    BY <1>0, <1>1 DEF RouterTypes
  <2>2. /\ Goals(inbox[p], Brings(n)) = Brings(n)[r] \cup Goals(Tail(inbox[p]), Brings(n))
        /\ Rising(Tail(inbox[p]), Brings(n))
        /\ Before(Brings(n)[r], Goals(Tail(inbox[p]), Brings(n)))
    BY <1>1, <1>3, <1>4, GoalsOfRest DEF InOrder
  <2> QED
    BY <2>1, <2>2 DEF Unread
<1>6. /\ Unseen(n, p)' \subseteq Unseen(n, p) \cup Brings(n)[r] /\ Rising(frames'[p], Leads(n))
      /\ skipped'[p] \subseteq skipped[p] \cup Brings(n)[r]
  <2>1. CASE /\ UNCHANGED frames
             /\ skipped' = [skipped EXCEPT ![p] = skipped[p] \cup Brings(n)[r]]
    BY <1>0, <1>3, <2>1 DEF Unseen, InOrder, ViewTypes
  <2>2. ASSUME NEW b \in BatchesOver(n), Brings(n)[r] = {b.to}, UNCHANGED skipped,
               frames' = [frames EXCEPT ![p] = Append(frames[p], b)]
        PROVE  /\ Unseen(n, p)' \subseteq Unseen(n, p) \cup Brings(n)[r]
               /\ Rising(frames'[p], Leads(n)) /\ skipped'[p] \subseteq skipped[p] \cup Brings(n)[r]
    <3>1. frames'[p] = Append(frames[p], b) /\ Leads(n)[b] = Brings(n)[r]
      BY <1>0, <2>2, GoalValues DEF ViewTypes
    <3>2. Before(Goals(frames[p], Leads(n)), Leads(n)[b]) /\ Rising(frames[p], Leads(n))
      BY <1>3, <1>5, <3>1 DEF InOrder, Unseen, Before
    <3>3. /\ Goals(Append(frames[p], b), Leads(n)) = Goals(frames[p], Leads(n)) \cup Leads(n)[b]
          /\ Rising(Append(frames[p], b), Leads(n))
      BY <1>4, <3>2, GoalsBehind
    <3> QED
      BY <2>2, <3>1, <3>3 DEF Unseen
  <2> QED
    BY <1>1, <2>1, <2>2
<1>7. /\ Queued(n, p)' = Queued(n, p) /\ OnTheWay(n, p)' = OnTheWay(n, p)
      /\ Rising(batches'[p], Leads(n))
  BY <1>2, <1>3 DEF Queued, OnTheWay, InOrder
<1>8. InOrder(n, p)'
  <2> DEFINE T == Brings(n)[r]
  <2>1. /\ Before(Queued(n, p), Unseen(n, p)) /\ Before(Queued(n, p), Unread(n, p))
        /\ Before(Queued(n, p), OnTheWay(n, p)) /\ Before(Unseen(n, p), Unread(n, p))
        /\ Before(Unseen(n, p), OnTheWay(n, p)) /\ Before(Unread(n, p), OnTheWay(n, p))
    BY <1>3 DEF InOrder
  <2> HIDE DEF T
  <2>2. Unread(n, p) = T \cup Unread(n, p)' /\ Before(T, Unread(n, p)')
        /\ Unseen(n, p)' \subseteq Unseen(n, p) \cup T
    BY <1>5, <1>6 DEF T
  <2>3. /\ Before(Queued(n, p), Unseen(n, p)') /\ Before(Queued(n, p), Unread(n, p)')
        /\ Before(Unseen(n, p)', Unread(n, p)') /\ Before(Unseen(n, p)', OnTheWay(n, p))
        /\ Before(Unread(n, p)', OnTheWay(n, p))
    BY <2>1, <2>2 DEF Before
  <2> QED
    BY <1>5, <1>6, <1>7, <2>1, <2>3 DEF InOrder
<1>9. Heard(n, p)' \subseteq 1..game'
  BY <1>2, <1>3, <1>5, <1>6, <1>7 DEF Heard
<1>10. ASSUME NEW q \in Pages, q # p PROVE InOrder(n, q)' /\ Heard(n, q)' \subseteq 1..game'
  <2>1. OnTheWay(n, q)' \subseteq OnTheWay(n, q) \cup {game'}
    BY <1>2 DEF OnTheWay
  <2>2. InOrder(n, q) /\ Heard(n, q) \subseteq 1..game
    BY DEF OrderInv
  <2>3. game \in Nat /\ game' \in Nat /\ game <= game' /\ 1 <= game'
    BY <1>0, <1>2
  <2>4. /\ inbox'[q] = inbox[q] /\ frames'[q] = frames[q] /\ batches'[q] = batches[q]
        /\ skipped'[q] = skipped[q]
    <3>1. /\ inbox'[q] = inbox[q] /\ batches'[q] = batches[q]
      BY <1>0, <1>1, <1>2, <1>10 DEF RouterTypes
    <3>2. frames'[q] = frames[q] /\ skipped'[q] = skipped[q]
      BY <1>0, <1>1, <1>10 DEF ViewTypes
    <3> QED
      BY <3>1, <3>2
  <2> QED
    BY <2>1, <2>2, <2>3, <2>4, OrderIsKept
<1> QED
  BY <1>2, <1>8, <1>9, <1>10 DEF OrderInv

LEMMA BatchFields ==
    ASSUME NEW n, NEW b \in BatchesOver(n), NEW ph \in {"running", "ended"}
    PROVE  /\ [b EXCEPT !.phase = ph] \in BatchesOver(n) /\ b.to \in 1..n
           /\ [b EXCEPT !.phase = ph].to = b.to /\ [b EXCEPT !.phase = ph].phase = ph
BY DEF BatchesOver

(* Time only changes the phases of batches.                                *)
LEMMA PhaseKeepsGoals ==
    ASSUME NEW n \in Nat, NEW s \in Seq(BatchesOver(n)), NEW i \in 1..Len(s),
           NEW ph \in {"running", "ended"}, NEW t, t = [s EXCEPT ![i] = [s[i] EXCEPT !.phase = ph]]
    PROVE  /\ t \in Seq(BatchesOver(n)) /\ DOMAIN t = DOMAIN s
           /\ \A j \in DOMAIN s : t[j].to = s[j].to
                                 /\ t[j].phase = IF j = i THEN ph ELSE s[j].phase
           /\ Goals(t, Leads(n)) = Goals(s, Leads(n))
           /\ Rising(s, Leads(n)) => Rising(t, Leads(n))
<1>1. DOMAIN s = 1..Len(s) /\ \A j \in 1..Len(s) : s[j] \in BatchesOver(n)
  BY SeqFacts
<1>2. /\ [s[i] EXCEPT !.phase = ph] \in BatchesOver(n) /\ [s[i] EXCEPT !.phase = ph].to = s[i].to
      /\ [s[i] EXCEPT !.phase = ph].phase = ph
  <2>1. s[i] \in BatchesOver(n)
    BY <1>1
  <2> QED
    BY <2>1, BatchFields
<1>3. t \in Seq(BatchesOver(n)) /\ DOMAIN t = DOMAIN s
  BY <1>1, <1>2, ExceptSeq
<1>4. \A j \in 1..Len(s) : /\ t[j] \in BatchesOver(n) /\ t[j].to = s[j].to
                           /\ t[j].phase = IF j = i THEN ph ELSE s[j].phase
  BY <1>1, <1>2
<1>5. ASSUME NEW j \in DOMAIN s PROVE Leads(n)[s[j]] = Leads(n)[t[j]]
  <2>1. s[j] \in BatchesOver(n) /\ t[j] \in BatchesOver(n) /\ t[j].to = s[j].to
    BY <1>1, <1>4
  <2>2. \A b \in BatchesOver(n) : Leads(n)[b] = {b.to}
    BY GoalValues
  <2> QED
    BY <2>1, <2>2
<1> QED
  BY <1>1, <1>3, <1>4, <1>5, GoalsAreSame

LEMMA BrowsingKeepsOrder ==
    ASSUME NEW n \in Nat, Types(n), OrderInv(n), NEW p \in Pages, Browse(p)
    PROVE  OrderInv(n)'
<1>0. ViewTypes(n) /\ game \in 1..n
  BY DEF Types, ServerTypes
<1>1. UNCHANGED <<out, game, socket, inbox, skipped>>
  BY BrowseEffect DEF serverVars, heartbeat, routerVars
<1>2. InOrder(n, p) /\ Heard(n, p) \subseteq 1..game
  BY DEF OrderInv
<1>3. batches[p] \in Seq(BatchesOver(n)) /\ frames[p] \in Seq(BatchesOver(n))
  BY <1>0 DEF ViewTypes
<1>4. /\ \A q \in Pages : q # p => batches'[q] = batches[q] /\ frames'[q] = frames[q]
      /\ Queued(n, p)' \subseteq Queued(n, p) \cup Unseen(n, p)
      /\ Unseen(n, p)' = {} \/ (Unseen(n, p)' = Unseen(n, p) /\ Queued(n, p)' = Queued(n, p))
      /\ Rising(batches'[p], Leads(n)) /\ Rising(frames'[p], Leads(n))
  <2>1. CASE UNCHANGED <<batches, frames>>
    BY <1>2, <2>1 DEF Queued, Unseen, InOrder
  <2>2. CASE /\ batches' = [batches EXCEPT ![p] = batches[p] \o frames[p]]
             /\ frames' = [frames EXCEPT ![p] = <<>>]
    <3>1. /\ batches'[p] = batches[p] \o frames[p] /\ frames'[p] = <<>>
          /\ \A q \in Pages : q # p => batches'[q] = batches[q] /\ frames'[q] = frames[q]
      BY <1>0, <2>2 DEF ViewTypes
    <3>2. /\ Goals(batches[p] \o frames[p], Leads(n)) =
                Goals(batches[p], Leads(n)) \cup Goals(frames[p], Leads(n))
          /\ Rising(batches[p] \o frames[p], Leads(n))
      BY <1>2, <1>3, GoalsOfBoth DEF InOrder, Queued, Unseen
    <3>3. Goals(<<>>, Leads(n)) = {} /\ Rising(<<>>, Leads(n))
      BY GoalsOfNone
    <3> QED
      BY <3>1, <3>2, <3>3 DEF Queued, Unseen
  <2>3. ASSUME NEW i \in 1..Len(batches[p]), NEW ph \in {"running", "ended"}, UNCHANGED frames,
               batches' = [batches EXCEPT ![p] =
                             [batches[p] EXCEPT ![i] = [batches[p][i] EXCEPT !.phase = ph]]]
        PROVE  /\ \A q \in Pages : q # p => batches'[q] = batches[q] /\ frames'[q] = frames[q]
               /\ Unseen(n, p)' = Unseen(n, p) /\ Queued(n, p)' = Queued(n, p)
               /\ Rising(batches'[p], Leads(n)) /\ Rising(frames'[p], Leads(n))
    <3>1. /\ batches'[p] = [batches[p] EXCEPT ![i] = [batches[p][i] EXCEPT !.phase = ph]]
          /\ \A q \in Pages : q # p => batches'[q] = batches[q]
      BY <1>0, <2>3 DEF ViewTypes
    <3>2. /\ Goals(batches'[p], Leads(n)) = Goals(batches[p], Leads(n))
          /\ Rising(batches[p], Leads(n)) => Rising(batches'[p], Leads(n))
      BY <1>3, <3>1, PhaseKeepsGoals
    <3> QED
      BY <1>2, <2>3, <3>1, <3>2 DEF Queued, Unseen, InOrder
  <2>4. \/ UNCHANGED <<batches, frames>>
        \/ /\ batches' = [batches EXCEPT ![p] = batches[p] \o frames[p]]
           /\ frames' = [frames EXCEPT ![p] = <<>>]
        \/ \E i \in 1..Len(batches[p]), ph \in {"running", "ended"} :
              /\ batches[p][i].phase # "ended" /\ UNCHANGED frames
              /\ batches' = [batches EXCEPT ![p] =
                              [batches[p] EXCEPT ![i] = [batches[p][i] EXCEPT !.phase = ph]]]
    BY BrowseEffect
  <2> QED
    BY <2>1, <2>2, <2>3, <2>4
<1>5. /\ Unread(n, p)' = Unread(n, p) /\ OnTheWay(n, p)' = OnTheWay(n, p)
      /\ Rising(inbox'[p], Brings(n))
  BY <1>1, <1>2 DEF Unread, OnTheWay, InOrder
<1>6. InOrder(n, p)'
  <2>1. /\ Before(Queued(n, p), Unseen(n, p)) /\ Before(Queued(n, p), Unread(n, p))
        /\ Before(Queued(n, p), OnTheWay(n, p)) /\ Before(Unseen(n, p), Unread(n, p))
        /\ Before(Unseen(n, p), OnTheWay(n, p)) /\ Before(Unread(n, p), OnTheWay(n, p))
    BY <1>2 DEF InOrder
  <2>2. /\ Before(Queued(n, p)', Unseen(n, p)') /\ Before(Queued(n, p)', Unread(n, p))
        /\ Before(Queued(n, p)', OnTheWay(n, p)) /\ Before(Unseen(n, p)', Unread(n, p))
        /\ Before(Unseen(n, p)', OnTheWay(n, p))
    BY <1>4, <2>1 DEF Before
  <2> QED
    BY <1>4, <1>5, <2>1, <2>2 DEF InOrder
<1>7. Heard(n, p)' \subseteq 1..game'
  BY <1>1, <1>2, <1>4, <1>5 DEF Heard
<1>8. ASSUME NEW q \in Pages, q # p PROVE InOrder(n, q)' /\ Heard(n, q)' \subseteq 1..game'
  <2>1. OnTheWay(n, q)' \subseteq OnTheWay(n, q) \cup {game'}
    BY <1>1 DEF OnTheWay
  <2>2. InOrder(n, q) /\ Heard(n, q) \subseteq 1..game
    BY DEF OrderInv
  <2>3. game \in Nat /\ game' \in Nat /\ game <= game' /\ 1 <= game'
    BY <1>0, <1>1
  <2>4. /\ inbox'[q] = inbox[q] /\ frames'[q] = frames[q] /\ batches'[q] = batches[q]
        /\ skipped'[q] = skipped[q]
    BY <1>1, <1>4, <1>8
  <2> QED
    BY <2>1, <2>2, <2>3, <2>4, OrderIsKept
<1> QED
  BY <1>1, <1>6, <1>7, <1>8 DEF OrderInv

LEMMA OrderNext ==
    ASSUME NEW n \in Nat, Types(n), ConnInv, MountInv, OrderInv(n), [Next]_vars
    PROVE  OrderInv(n)'
<1>1. ASSUME NEW p \in Pages, OpenPage(p) \/ Dispatch(p) \/ Browse(p) \/ Leave(p) \/ Receive(p) \/ Reconnect(p)
      PROVE  OrderInv(n)'
  BY <1>1, OpeningKeepsOrder, DispatchKeepsOrder, BrowsingKeepsOrder, LeavingKeepsOrder,
     ReceiveKeepsOrder, LinkKeepsOrder
<1>2. ASSUME NEW c \in Conns, Server(c) \/ Network(c) PROVE OrderInv(n)'
  BY <1>2, ServerKeepsOrder, NetworkKeepsOrder
<1>3. CASE Table
  BY <1>3, TableKeepsOrder
<1>4. ASSUME UNCHANGED <<out, game, socket, inbox, frames, batches, skipped>> PROVE OrderInv(n)'
  <2>1. game' \in 1..n /\ game <= game'
    BY <1>4 DEF Types, ServerTypes
  <2>2. \A c \in Conns : Rising(out'[c], Tells(n))
            /\ Goals(out'[c], Tells(n)) \subseteq Goals(out[c], Tells(n)) \cup {game'}
    BY <1>4 DEF OrderInv
  <2> QED
    BY <1>4, <2>1, <2>2, OrderElsewhere
<1>5. ASSUME NEW p \in Pages, NEW a \in Acts, Submit(p, a) PROVE OrderInv(n)'
  BY <1>4, <1>5 DEF Submit, View!SubmitAction, heartbeat
<1>6. CASE UNCHANGED vars
  BY <1>4, <1>6 DEF vars, serverVars, heartbeat, routerVars, viewVars
<1> QED
  BY <1>1, <1>2, <1>3, <1>5, <1>6 DEF Next

LEMMA OrderInit == ASSUME NEW n \in Nat, Types(n), Init PROVE OrderInv(n) /\ MountInv
<1> SUFFICES ASSUME NEW s \in Scenes, ServerInit(s), RouterInit(s), View!ViewInit(s.refresh)
             PROVE  OrderInv(n) /\ MountInv
  BY DEF Init
<1>1. \A p \in Pages : /\ inbox[p] = <<>> /\ frames[p] = <<>> /\ batches[p] = <<>> /\ skipped[p] = {}
                       /\ socket[p] \notin Conns /\ page[p] # "open"
  BY RouterAssumption DEF RouterInit, View!ViewInit
<1>2. \A c \in Conns : out[c] = <<>>
  BY DEF ServerInit
<1>3. \A lead : Goals(<<>>, lead) = {} /\ Rising(<<>>, lead)
  BY GoalsOfNone
<1>4. ASSUME NEW p \in Pages PROVE InOrder(n, p) /\ Heard(n, p) \subseteq 1..game
  <2>1. /\ Unread(n, p) = {} /\ Unseen(n, p) = {} /\ Queued(n, p) = {} /\ OnTheWay(n, p) = {}
    BY <1>1, <1>3 DEF Unread, Unseen, Queued, OnTheWay
  <2>2. InOrder(n, p)
    BY <1>1, <1>3, <2>1 DEF InOrder, Before
  <2> QED
    BY <1>1, <2>1, <2>2 DEF Heard
<1>5. OrderInv(n)
  BY <1>2, <1>3, <1>4 DEF OrderInv
<1>6. MountInv
  BY <1>1 DEF MountInv, Mounted
<1> QED
  BY <1>5, <1>6

Ordered == \E n \in Nat : Types(n) /\ OrderInv(n)

LEMMA OrderAlways == Spec => [](ConnInv /\ MountInv /\ Ordered)
<1>1. Init => MountInv /\ Ordered
  BY TypesInit, OrderInit DEF Ordered
<1>2. ConnInv /\ MountInv /\ Ordered /\ [Next]_vars => MountInv' /\ Ordered'
  <2> SUFFICES ASSUME ConnInv, MountInv, Ordered, [Next]_vars PROVE MountInv' /\ Ordered'
    OBVIOUS
  <2>1. PICK n \in Nat : Types(n) /\ OrderInv(n)
    BY DEF Ordered
  <2>2. MountInv' /\ Types(n)' /\ OrderInv(n)'
    BY <2>1, TypesNext, MountNext, OrderNext
  <2> QED
    BY <2>2 DEF Ordered
<1> QED
  BY <1>1, <1>2, ConnAlways, PTL DEF Spec

-----------------------------------------------------------------------------
(* A page never goes back                                                  *)

(* The set of those above it is smallest for the greatest of a set.        *)
LEMMA GreatestExists ==
    ASSUME NEW k \in Nat, NEW S \in SUBSET (1..k), S # {}
    PROVE  \E i \in S : \A j \in S : j <= i
<1> DEFINE above(i) == {x \in S : i < x}
           T        == {above(i) : i \in S}
<1>1. IsWellFoundedOn(StrictSubsetOrdering(S), SUBSET S)
  <2>1. IsFiniteSet(S)
    <3>1. IsFiniteSet(1..k)
      BY FS_Interval
    <3> QED
      BY <3>1, FS_Subset
  <2> QED
    BY <2>1, FS_StrictSubsetOrderingWellFounded, FS_FiniteSubsetsOfFinite
<1>2. T \subseteq SUBSET S /\ T # {}
  <2>1. \A i \in S : above(i) \in SUBSET S
    OBVIOUS
  <2>2. PICK i \in S : TRUE
    OBVIOUS
  <2> HIDE DEF above
  <2> QED
    BY <2>1, <2>2
<1>3. PICK A \in T : \A B \in T : <<B, A>> \notin StrictSubsetOrdering(S)
  <2> HIDE DEF T
  <2> QED
    BY <1>1, <1>2, WFMin
<1>4. PICK i \in S : A = above(i)
  OBVIOUS
<1>5. ASSUME NEW j \in S, i < j PROVE FALSE
  <2>1. above(j) \subseteq above(i) /\ j \in above(i) /\ j \notin above(j)
    <3>1. \A x \in S : x \in Int
      OBVIOUS
    <3>2. \A x \in S : j < x => i < x
      BY <1>5, <3>1
    <3>3. j \in above(i) /\ j \notin above(j)
      BY <1>5, <3>1
    <3> QED
      BY <3>2, <3>3
  <2>2. above(j) \in SUBSET S /\ above(i) \in SUBSET S
    <3>1. \A h \in S : above(h) \in SUBSET S
      OBVIOUS
    <3> HIDE DEF above
    <3> QED
      BY <3>1
  <2>3. above(j) \in T
    <3> HIDE DEF above
    <3> QED
      OBVIOUS
  <2> HIDE DEF above, T
  <2>4. <<above(j), above(i)>> \in StrictSubsetOrdering(S)
    BY <2>1, <2>2 DEF StrictSubsetOrdering
  <2> QED
    BY <1>3, <1>4, <2>3, <2>4
<1> QED
  BY <1>5

LastStarted(s) ==
    CHOOSE i \in {j \in DOMAIN s : s[j].phase # "waiting"} :
        \A j \in {h \in DOMAIN s : s[h].phase # "waiting"} : j <= i

LEMMA LastStartedExists ==
    ASSUME NEW S, NEW s \in Seq(S), s # <<>>, s[1].phase = "ended"
    PROVE  /\ LastStarted(s) \in 1..Len(s) /\ s[LastStarted(s)].phase # "waiting"
           /\ \A i \in 1..Len(s) : s[i].phase # "waiting" => i <= LastStarted(s)
<1> DEFINE T == {j \in DOMAIN s : s[j].phase # "waiting"}
<1>1. Len(s) \in Nat \ {0} /\ DOMAIN s = 1..Len(s)
  BY SeqFacts
<1>2. 1 \in T /\ T \in SUBSET (1..Len(s))
  BY <1>1
<1>3. \E i \in T : \A j \in T : j <= i
  <2> HIDE DEF T
  <2> QED
    BY <1>1, <1>2, GreatestExists
<1>4. LastStarted(s) = CHOOSE i \in T : \A j \in T : j <= i
  BY DEF LastStarted
<1>5. LastStarted(s) \in T /\ \A j \in T : j <= LastStarted(s)
  <2> HIDE DEF T
  <2> QED
    BY <1>3, <1>4
<1> QED
  BY <1>1, <1>5

(* What has started stays so, and what comes later leads further.          *)
LEMMA LaterLeadsFurther ==
    ASSUME NEW n \in Nat, NEW s \in Seq(BatchesOver(n)), NEW t \in Seq(BatchesOver(n)),
           s # <<>>, s[1].phase = "ended", t # <<>>, t[1].phase = "ended", Rising(t, Leads(n)),
           Len(s) <= Len(t), \A i \in 1..Len(s) : t[i].to = s[i].to
                                                  /\ (s[i].phase # "waiting" => t[i].phase # "waiting")
    PROVE  s[LastStarted(s)].to <= t[LastStarted(t)].to
<1> DEFINE a == LastStarted(s)  b == LastStarted(t)
<1>1. a \in 1..Len(s) /\ s[a].phase # "waiting" /\ Len(s) \in Nat /\ Len(t) \in Nat
  BY LastStartedExists, LenProperties
<1>2. b \in 1..Len(t) /\ \A i \in 1..Len(t) : t[i].phase # "waiting" => i <= b
  BY LastStartedExists
<1>3. a \in 1..Len(t) /\ t[a].phase # "waiting" /\ t[a].to = s[a].to
  BY <1>1
<1>4. t[a] \in BatchesOver(n) /\ t[b] \in BatchesOver(n) /\ DOMAIN t = 1..Len(t)
  BY <1>2, <1>3, SeqFacts
<1>5. Leads(n)[t[a]] = {t[a].to} /\ Leads(n)[t[b]] = {t[b].to} /\ t[a].to \in Nat
  <2>1. \A x \in BatchesOver(n) : Leads(n)[x] = {x.to}
    BY GoalValues
  <2>2. \A x \in BatchesOver(n) : x.to \in 1..n
    BY DEF BatchesOver
  <2> HIDE DEF a, b
  <2>3. t[a].to \in 1..n
    BY <1>4, <2>2
  <2> QED
    BY <1>4, <2>1, <2>3
<1> HIDE DEF a, b
<1>6. a <= b
  BY <1>2, <1>3
<1>7. CASE a = b
  BY <1>3, <1>5, <1>7 DEF a, b
<1>8. CASE a < b
  <2>1. a \in DOMAIN t /\ b \in DOMAIN t
    BY <1>2, <1>3, <1>4
  <2>2. Before(Leads(n)[t[a]], Leads(n)[t[b]])
    BY <1>8, <2>1 DEF Rising
  <2>3. t[a].to <= t[b].to
    BY <1>5, <2>2 DEF Before
  <2> QED
    BY <1>3, <2>3 DEF a, b
<1> QED
  BY <1>1, <1>2, <1>6, <1>7, <1>8

LEMMA OpenPageMoves ==
    ASSUME NEW n \in Nat, Types(n), NEW p \in Pages, page[p] = "open", [Next]_vars
    PROVE  batches'[p] = batches[p] \/ Browse(p)
<1>0. ViewTypes(n) /\ RouterTypes(n)
  BY DEF Types
<1>1. ASSUME NEW q \in Pages, OpenPage(q) PROVE batches'[p] = batches[p]
  BY <1>0, <1>1 DEF OpenPage, Load, View!Mount, ViewTypes
<1>2. ASSUME NEW q \in Pages, Dispatch(q) PROVE batches'[p] = batches[p]
  BY <1>2 DEF Dispatch, viewVars, View!UpdateGamestate
<1>3. ASSUME NEW q \in Pages, Browse(q), q # p PROVE batches'[p] = batches[p]
  BY <1>0, <1>3 DEF Browse, View!Refresh, View!Frame, View!Animate, View!StartBatch, View!EndBatch,
                    ViewTypes
<1>4. ASSUME NEW q \in Pages, Leave(q) \/ Receive(q) \/ Reconnect(q) PROVE batches'[p] = batches[p]
  BY <1>4 DEF Leave, Receive, Reconnect, viewVars
<1>5. ASSUME NEW q \in Pages, NEW a \in Acts, Submit(q, a) PROVE batches'[p] = batches[p]
  BY <1>5 DEF Submit, View!SubmitAction
<1>6. ASSUME NEW c \in Conns, Server(c) \/ Network(c) PROVE batches'[p] = batches[p]
  BY <1>6 DEF Server, Network, viewVars
<1>7. CASE Table \/ UNCHANGED vars
  BY <1>7 DEF Table, vars, viewVars
<1> QED
  BY <1>1, <1>2, <1>3, <1>4, <1>5, <1>6, <1>7 DEF Next

(* Whatever was loaded for a page before it was announced, and however its *)
(* connections break, an open page never begins to animate towards a       *)
(* gamestate before the one it has animated towards (handleStateChange and *)
(* ANIMATE: only broadcasts bring batches, and these come in order).       *)
THEOREM NeverBack == Spec => ViewNeverGoesBack
<1>1. ASSUME NEW n \in Nat, Types(n), Types(n)', OrderInv(n)', MountInv, MountInv', [Next]_vars,
             NEW p \in Pages, page[p] = "open"
      PROVE  View!Towards(p) <= View!Towards(p)'
  <2>1. /\ batches[p] \in Seq(BatchesOver(n)) /\ batches[p] # <<>> /\ batches[p][1].phase = "ended"
        /\ Len(batches[p]) \in Nat /\ DOMAIN batches[p] = 1..Len(batches[p])
    BY <1>1, LenProperties DEF Types, ViewTypes, MountInv, Mounted
  <2>2. /\ View!Towards(p) = batches[p][LastStarted(batches[p])].to
        /\ View!Towards(p)' = batches'[p][LastStarted(batches'[p])].to
    BY DEF View!Towards, View!Showing, View!Started, LastStarted
  <2>3. /\ batches'[p] \in Seq(BatchesOver(n)) /\ Rising(batches'[p], Leads(n))
    BY <1>1 DEF Types, ViewTypes, OrderInv, InOrder
  <2>4. CASE batches'[p] = batches[p]
    <3>1. \A i \in 1..Len(batches[p]) : batches'[p][i].to = batches[p][i].to
              /\ (batches[p][i].phase # "waiting" => batches'[p][i].phase # "waiting")
      BY <2>4
    <3>2. Len(batches[p]) <= Len(batches'[p]) /\ batches'[p] # <<>> /\ batches'[p][1].phase = "ended"
      BY <2>1, <2>4
    <3> QED
      BY <2>1, <2>2, <2>3, <3>1, <3>2, LaterLeadsFurther
  <2>5. CASE Browse(p)
    <3>1. page'[p] = "open"
      BY <1>1, <2>5, BrowseEffect DEF routerVars
    <3>2. batches'[p] # <<>> /\ batches'[p][1].phase = "ended"
      BY <1>1, <3>1 DEF MountInv, Mounted
    <3>3. /\ Len(batches[p]) <= Len(batches'[p])
          /\ \A i \in 1..Len(batches[p]) : batches'[p][i].to = batches[p][i].to
                /\ (batches[p][i].phase # "waiting" => batches'[p][i].phase # "waiting")
      <4>1. CASE UNCHANGED <<batches, frames>>
        BY <2>1, <4>1
      <4>2. CASE batches' = [batches EXCEPT ![p] = batches[p] \o frames[p]]
        <5>1. batches'[p] = batches[p] \o frames[p] /\ frames[p] \in Seq(BatchesOver(n))
          BY <1>1, <4>2 DEF Types, ViewTypes
        <5>2. /\ Len(batches[p]) <= Len(batches[p] \o frames[p])
              /\ \A i \in 1..Len(batches[p]) : (batches[p] \o frames[p])[i] = batches[p][i]
          BY <2>1, <5>1, JoinedBegins
        <5> QED
          BY <5>1, <5>2
      <4>3. ASSUME NEW i \in 1..Len(batches[p]), NEW ph \in {"running", "ended"},
                   batches' = [batches EXCEPT ![p] =
                                 [batches[p] EXCEPT ![i] = [batches[p][i] EXCEPT !.phase = ph]]]
            PROVE  /\ Len(batches[p]) <= Len(batches'[p])
                   /\ \A j \in 1..Len(batches[p]) : batches'[p][j].to = batches[p][j].to
                          /\ (batches[p][j].phase # "waiting" => batches'[p][j].phase # "waiting")
        <5>1. batches'[p] = [batches[p] EXCEPT ![i] = [batches[p][i] EXCEPT !.phase = ph]]
          BY <1>1, <4>3 DEF Types, ViewTypes
        <5>2. /\ DOMAIN batches'[p] = DOMAIN batches[p]
              /\ \A j \in DOMAIN batches[p] :
                    /\ batches'[p][j].to = batches[p][j].to
                    /\ batches'[p][j].phase = IF j = i THEN ph ELSE batches[p][j].phase
          BY <2>1, <5>1, PhaseKeepsGoals
        <5>3. Len(batches'[p]) = Len(batches[p])
          BY <2>1, <2>3, <5>2, LenProperties
        <5>4. \A j \in 1..Len(batches[p]) :
                  batches[p][j].phase # "waiting" => batches'[p][j].phase # "waiting"
          BY <2>1, <5>2
        <5>5. Len(batches[p]) <= Len(batches'[p])
          BY <2>1, <5>3
        <5> QED
          BY <2>1, <5>2, <5>4, <5>5
      <4>4. \/ UNCHANGED <<batches, frames>>
            \/ batches' = [batches EXCEPT ![p] = batches[p] \o frames[p]]
            \/ \E i \in 1..Len(batches[p]), ph \in {"running", "ended"} :
                  batches' = [batches EXCEPT ![p] =
                                [batches[p] EXCEPT ![i] = [batches[p][i] EXCEPT !.phase = ph]]]
        <5>1. \/ UNCHANGED <<batches, frames>>
              \/ /\ batches' = [batches EXCEPT ![p] = batches[p] \o frames[p]]
                 /\ frames' = [frames EXCEPT ![p] = <<>>]
              \/ \E i \in 1..Len(batches[p]), ph \in {"running", "ended"} :
                    /\ batches[p][i].phase # "ended" /\ UNCHANGED frames
                    /\ batches' = [batches EXCEPT ![p] =
                                    [batches[p] EXCEPT ![i] = [batches[p][i] EXCEPT !.phase = ph]]]
          BY <1>1, <2>5, BrowseEffect, Zenon
        <5>2. (\E i \in 1..Len(batches[p]), ph \in {"running", "ended"} :
                    /\ batches[p][i].phase # "ended" /\ UNCHANGED frames
                    /\ batches' = [batches EXCEPT ![p] =
                                    [batches[p] EXCEPT ![i] = [batches[p][i] EXCEPT !.phase = ph]]])
                => \E i \in 1..Len(batches[p]), ph \in {"running", "ended"} :
                      batches' = [batches EXCEPT ![p] =
                                    [batches[p] EXCEPT ![i] = [batches[p][i] EXCEPT !.phase = ph]]]
          BY Zenon
        <5> QED
          BY <5>1, <5>2, Zenon
      <4> QED
        BY <4>1, <4>2, <4>3, <4>4
    <3> QED
      BY <2>1, <2>2, <2>3, <3>2, <3>3, LaterLeadsFurther
  <2> QED
    BY <1>1, <2>4, <2>5, OpenPageMoves
<1>2. ConnInv /\ MountInv /\ Ordered /\ MountInv' /\ [Next]_vars
        => [\A p \in Pages : page[p] = "open" => View!Towards(p) <= View!Towards(p)']_vars
  <2> SUFFICES ASSUME ConnInv, MountInv, Ordered, MountInv', [Next]_vars, NEW p \in Pages,
                      page[p] = "open"
               PROVE  View!Towards(p) <= View!Towards(p)'
    OBVIOUS
  <2>1. PICK n \in Nat : Types(n) /\ OrderInv(n)
    BY DEF Ordered
  <2>2. Types(n)' /\ OrderInv(n)'
    BY <2>1, TypesNext, OrderNext
  <2> QED
    BY <1>1, <2>1, <2>2
<1> QED
  BY <1>2, OrderAlways, PTL DEF Spec, ViewNeverGoesBack

-----------------------------------------------------------------------------
(* What a page has heard is not forgotten                                  *)

LEMMA ReceivingKeepsHeard ==
    ASSUME NEW n \in Nat, Types(n), ConnInv, NEW p \in Pages, Receive(p), NEW q \in Pages
    PROVE  Heard(n, q) \subseteq Heard(n, q)'
<1> DEFINE c == socket[p]
<1>0. ServerTypes(n) /\ RouterTypes(n)
  BY DEF Types
<1>1. UNCHANGED <<socket, frames, batches, skipped>>
  BY ReceiveEffect DEF viewVars
<1>2. c \in Conns /\ out[c] # <<>> /\ out' = [out EXCEPT ![c] = Tail(out[c])]
  <2>1. CASE OnOpen(p)
    BY <2>1 DEF OnOpen
  <2>2. CASE \E m \in SentOver(n) : m = Incoming(p) /\ m # Accepted /\ Received(p, m)
    BY <2>2, IncomingIsHead DEF Received
  <2> QED
    BY <2>1, <2>2, ReceiveEffect
<1>3. Queued(n, q)' = Queued(n, q) /\ Unseen(n, q)' = Unseen(n, q)
  BY <1>1 DEF Queued, Unseen
<1>4. CASE q # p
  <2>1. socket[q] \in Conns => out'[socket[q]] = out[socket[q]]
    <3>1. socket[q] \in Conns => socket[q] # c
      BY <1>2, <1>4 DEF ConnInv, OneOwner
    <3> QED
      BY <1>0, <1>2, <3>1 DEF ServerTypes
  <2>2. inbox'[q] = inbox[q]
    <3>1. CASE UNCHANGED inbox
      BY <3>1
    <3>2. CASE \E m \in SentOver(n) : Received(p, m)
      BY <1>0, <1>4, <3>2 DEF Received, RouterTypes
    <3> QED
      BY <3>1, <3>2, ReceiveEffect
  <2>3. OnTheWay(n, q)' = OnTheWay(n, q) /\ Unread(n, q)' = Unread(n, q)
    BY <1>1, <2>1, <2>2 DEF OnTheWay, Unread
  <2> QED
    BY <1>1, <1>3, <2>3 DEF Heard
<1>5. CASE q = p
  <2> DEFINE m == Head(out[c])
  <2>1. Goals(out[c], Tells(n)) = Tells(n)[m] \cup Goals(Tail(out[c]), Tells(n))
    <3>1. out[c] \in Seq(SentOver(n))
      BY <1>0, <1>2 DEF ServerTypes
    <3> QED
      BY <1>2, <3>1, GoalsOfRest
  <2>2. OnTheWay(n, p) = Tells(n)[m] \cup OnTheWay(n, p)'
    <3>1. out'[c] = Tail(out[c])
      BY <1>0, <1>2 DEF ServerTypes
    <3> QED
      BY <1>1, <1>2, <2>1, <3>1 DEF OnTheWay
  <2>3. Unread(n, p) \cup Tells(n)[m] \subseteq Unread(n, p)'
    <3>1. CASE OnOpen(p) /\ UNCHANGED inbox
      <4>1. m = Accepted /\ Tells(n)[m] = {}
        BY <3>1, GoalValues DEF OnOpen
      <4> QED
        BY <3>1, <4>1 DEF Unread
    <3>2. CASE \E x \in SentOver(n) : x = Incoming(p) /\ x # Accepted /\ Received(p, x)
      <4> DEFINE r == [msg |-> m, seq |-> recvSeqNum[p]]
      <4>1. m \in SentOver(n) /\ Received(p, m)
        BY <3>2, IncomingIsHead
      <4>2. r \in ReceivedOver(n) /\ r.msg = m
        BY <1>0, <4>1 DEF RouterTypes, ReceivedOver
      <4>3. inbox'[p] = Append(inbox[p], r) /\ inbox[p] \in Seq(ReceivedOver(n))
        BY <1>0, <4>1 DEF Received, RouterTypes
      <4> HIDE DEF r, m
      <4>4. Brings(n)[r] = Tells(n)[m]
        BY <4>2, GoalValues
      <4>5. Goals(Append(inbox[p], r), Brings(n)) = Goals(inbox[p], Brings(n)) \cup Brings(n)[r]
        BY <4>2, <4>3, GoalsBehind
      <4> QED
        BY <4>3, <4>4, <4>5 DEF Unread
    <3> QED
      BY <3>1, <3>2, ReceiveEffect
  <2> QED
    BY <1>1, <1>3, <1>5, <2>2, <2>3 DEF Heard
<1> QED
  BY <1>4, <1>5

LEMMA DispatchKeepsHeard ==
    ASSUME NEW n \in Nat, Types(n), NEW p \in Pages, Dispatch(p), NEW q \in Pages
    PROVE  Heard(n, q) \subseteq Heard(n, q)'
<1>0. RouterTypes(n) /\ ViewTypes(n)
  BY DEF Types
<1>1. PICK r \in ReceivedOver(n) :
          /\ r = Head(inbox[p]) /\ inbox[p] # <<>> /\ inbox' = [inbox EXCEPT ![p] = Tail(inbox[p])]
          /\ UNCHANGED <<serverVars, page, socket, batches>>
          /\ \/ /\ UNCHANGED frames
                /\ skipped' = [skipped EXCEPT ![p] = skipped[p] \cup Brings(n)[r]]
             \/ \E b \in BatchesOver(n) :
                    /\ b.phase = "waiting" /\ Brings(n)[r] = {b.to}
                    /\ frames' = [frames EXCEPT ![p] = Append(frames[p], b)]
                    /\ UNCHANGED skipped
  BY DispatchEffect
<1>2. OnTheWay(n, q)' = OnTheWay(n, q) /\ Queued(n, q)' = Queued(n, q)
  BY <1>1 DEF serverVars, OnTheWay, Queued
<1>3. CASE q # p
  <2>1. inbox'[q] = inbox[q]
    BY <1>0, <1>1, <1>3 DEF RouterTypes
  <2>2. frames'[q] = frames[q] /\ skipped'[q] = skipped[q]
    BY <1>0, <1>1, <1>3 DEF ViewTypes
  <2>3. Unread(n, q)' = Unread(n, q) /\ Unseen(n, q)' = Unseen(n, q)
    BY <2>1, <2>2 DEF Unread, Unseen
  <2> QED
    BY <1>2, <2>2, <2>3 DEF Heard
<1>4. CASE q = p
  <2>1. inbox'[p] = Tail(inbox[p]) /\ inbox[p] \in Seq(ReceivedOver(n))
    BY <1>0, <1>1 DEF RouterTypes
  <2>2. Unread(n, p) = Brings(n)[r] \cup Unread(n, p)'
    <3>1. Goals(inbox[p], Brings(n)) = Brings(n)[r] \cup Goals(Tail(inbox[p]), Brings(n))
      BY <1>1, <2>1, GoalsOfRest
    <3> QED
      BY <2>1, <3>1 DEF Unread
  <2>3. Unseen(n, p) \cup skipped[p] \cup Brings(n)[r] \subseteq Unseen(n, p)' \cup skipped'[p]
    <3>1. CASE /\ UNCHANGED frames
               /\ skipped' = [skipped EXCEPT ![p] = skipped[p] \cup Brings(n)[r]]
      BY <1>0, <3>1 DEF Unseen, ViewTypes
    <3>2. ASSUME NEW b \in BatchesOver(n), Brings(n)[r] = {b.to}, UNCHANGED skipped,
                 frames' = [frames EXCEPT ![p] = Append(frames[p], b)]
          PROVE  Unseen(n, p) \cup skipped[p] \cup Brings(n)[r] \subseteq Unseen(n, p)' \cup skipped'[p]
      <4>1. /\ frames'[p] = Append(frames[p], b) /\ Leads(n)[b] = Brings(n)[r]
            /\ frames[p] \in Seq(BatchesOver(n))
        <5>1. frames \in [Pages -> Seq(BatchesOver(n))]
          BY <1>0 DEF ViewTypes
        <5>2. Leads(n)[b] = {b.to}
          BY <3>2, GoalValues
        <5> QED
          BY <3>2, <5>1, <5>2
      <4>2. Goals(Append(frames[p], b), Leads(n)) = Goals(frames[p], Leads(n)) \cup Leads(n)[b]
        <5>1. \A s \in Seq(BatchesOver(n)) :
                Goals(Append(s, b), Leads(n)) = Goals(s, Leads(n)) \cup Leads(n)[b]
          BY GoalsBehind
        <5> QED
          BY <4>1, <5>1
      <4> QED
        BY <3>2, <4>1, <4>2 DEF Unseen
    <3> QED
      BY <1>1, <3>1, <3>2
  <2> QED
    BY <1>2, <1>4, <2>2, <2>3 DEF Heard
<1> QED
  BY <1>3, <1>4

LEMMA BrowsingKeepsHeard ==
    ASSUME NEW n \in Nat, Types(n), NEW p \in Pages, Browse(p), NEW q \in Pages
    PROVE  Heard(n, q) \subseteq Heard(n, q)'
<1>0. ViewTypes(n) /\ UNCHANGED <<out, socket, inbox, skipped>>
  BY BrowseEffect DEF Types, serverVars, routerVars
<1>1. OnTheWay(n, q)' = OnTheWay(n, q) /\ Unread(n, q)' = Unread(n, q)
  BY <1>0 DEF OnTheWay, Unread
<1>2. Queued(n, q) \cup Unseen(n, q) \subseteq Queued(n, q)' \cup Unseen(n, q)'
  <2>1. CASE UNCHANGED <<batches, frames>>
    BY <2>1 DEF Queued, Unseen
  <2>2. CASE /\ batches' = [batches EXCEPT ![p] = batches[p] \o frames[p]]
             /\ frames' = [frames EXCEPT ![p] = <<>>]
    <3>1. CASE q # p
      BY <1>0, <2>2, <3>1 DEF Queued, Unseen, ViewTypes
    <3>2. CASE q = p
      <4>1. batches'[p] = batches[p] \o frames[p]
        BY <1>0, <2>2 DEF ViewTypes
      <4>2. Goals(batches[p] \o frames[p], Leads(n)) =
                Goals(batches[p], Leads(n)) \cup Goals(frames[p], Leads(n))
        BY <1>0, GoalsOfBoth DEF ViewTypes
      <4> QED
        BY <3>2, <4>1, <4>2 DEF Queued, Unseen
    <3> QED
      BY <3>1, <3>2
  <2>3. ASSUME NEW i \in 1..Len(batches[p]), NEW ph \in {"running", "ended"}, UNCHANGED frames,
               batches' = [batches EXCEPT ![p] =
                             [batches[p] EXCEPT ![i] = [batches[p][i] EXCEPT !.phase = ph]]]
        PROVE  Queued(n, q) \cup Unseen(n, q) \subseteq Queued(n, q)' \cup Unseen(n, q)'
    <3>1. CASE q # p
      BY <1>0, <2>3, <3>1 DEF Queued, Unseen, ViewTypes
    <3>2. CASE q = p
      <4>1. /\ batches'[p] = [batches[p] EXCEPT ![i] = [batches[p][i] EXCEPT !.phase = ph]]
            /\ batches[p] \in Seq(BatchesOver(n))
        BY <1>0, <2>3 DEF ViewTypes
      <4>2. Goals(batches'[p], Leads(n)) = Goals(batches[p], Leads(n))
        BY <4>1, PhaseKeepsGoals
      <4> QED
        BY <2>3, <3>2, <4>2 DEF Queued, Unseen
    <3> QED
      BY <3>1, <3>2
  <2>4. \/ UNCHANGED <<batches, frames>>
        \/ /\ batches' = [batches EXCEPT ![p] = batches[p] \o frames[p]]
           /\ frames' = [frames EXCEPT ![p] = <<>>]
        \/ \E i \in 1..Len(batches[p]), ph \in {"running", "ended"} :
              /\ batches[p][i].phase # "ended" /\ UNCHANGED frames
              /\ batches' = [batches EXCEPT ![p] =
                              [batches[p] EXCEPT ![i] = [batches[p][i] EXCEPT !.phase = ph]]]
    BY BrowseEffect
  <2> QED
    BY <2>1, <2>2, <2>3, <2>4
<1> QED
  BY <1>0, <1>1, <1>2 DEF Heard

LEMMA StillUpToDate ==
    ASSUME NEW n \in Nat, NEW p \in Pages, UpToDate(n, p), UNCHANGED <<announced, gaps>>,
           page'[p] = "open" /\ socket'[p] \in Conns /\ link'[socket'[p]] = "open"
                => page[p] = "open" /\ socket'[p] = socket[p] /\ link[socket[p]] = "open"
                   /\ Heard(n, p) \subseteq Heard(n, p)'
    PROVE  UpToDate(n, p)'
BY DEF UpToDate

(* A page with a new connection                                            *)
LEMMA NewUpToDate ==
    ASSUME NEW n \in Nat, Types(n), ConnInv, MountInv, OrderInv(n), HeardInv(n), NEW p \in Pages,
           OpenPage(p) \/ (Reopen(p) /\ UNCHANGED viewVars)
    PROVE  UpToDate(n, p)'
<1>0. /\ ServerTypes(n) /\ RouterTypes(n) /\ ViewTypes(n) /\ UNCHANGED <<announced, gaps>>
      /\ game \in 1..n /\ announced \in 1..game
  BY DEF Types, ServerTypes, OpenPage, Load, Reopen, heartbeat
<1>1. PICK c \in Unused : socket' = [socket EXCEPT ![p] = c]
  BY DEF OpenPage, Load, Reopen, SetupSocket
<1>2. c \in Conns /\ socket'[p] = c /\ (announced = 1 \/ announced \in gaps[c])
  BY <1>0, <1>1 DEF Unused, RouterTypes, HeardInv
<1>3. CASE OpenPage(p)
  <2> DEFINE b == [View!Batch(game, game, 0) EXCEPT !.phase = "ended"]
  <2>1. b \in BatchesOver(n) /\ b.to = game /\ batches'[p] = <<b>>
    BY <1>0, <1>3 DEF OpenPage, View!Mount, ViewTypes, View!Batch, BatchesOver
  <2> HIDE DEF b
  <2>2. Goals(<<b>>, Leads(n)) = {game}
    <3>1. ToSet(<<b>>) = {b} /\ Leads(n)[b] = {game}
      BY <2>1, GoalValues DEF ToSet
    <3> QED
      BY <3>1 DEF Goals
  <2>3. game \in Heard(n, p)'
    BY <2>1, <2>2 DEF Heard, Queued
  <2>4. announced' <= game
    BY <1>0
  <2> QED
    BY <2>3, <2>4 DEF UpToDate
<1>4. CASE Reopen(p) /\ UNCHANGED viewVars
  <2>1. page[p] = "open" /\ batches'[p] = batches[p]
    BY <1>4 DEF Reopen, viewVars
  <2>2. batches[p] # <<>> /\ batches[p] \in Seq(BatchesOver(n))
    BY <1>0, <2>1 DEF MountInv, Mounted, ViewTypes
  <2>3. Head(batches[p]) \in BatchesOver(n) /\ Goals(batches[p], Leads(n)) =
            Leads(n)[Head(batches[p])] \cup Goals(Tail(batches[p]), Leads(n))
    BY <2>2, FirstAndRest, GoalsOfRest
  <2>4. Head(batches[p]).to \in Queued(n, p)
    <3>1. \A b \in BatchesOver(n) : Leads(n)[b] = {b.to}
      BY GoalValues
    <3> QED
      BY <2>3, <3>1 DEF Queued
  <2>5. Head(batches[p]).to \in Heard(n, p) /\ Head(batches[p]).to \in 1..game
    BY <2>4 DEF Heard, OrderInv
  <2>6. Head(batches[p]).to \in Heard(n, p)'
    BY <2>1, <2>4 DEF Heard, Queued
  <2>7. announced' = announced /\ gaps' = gaps /\ (announced = 1 => announced <= Head(batches[p]).to)
    BY <1>0, <2>5
  <2> QED
    BY <1>2, <2>6, <2>7 DEF UpToDate
<1> QED
  BY <1>3, <1>4

LEMMA AnnounceKeepsHeard ==
    ASSUME NEW n \in Nat, Types(n), ConnInv, OrderInv(n), HeardInv(n), Table, Announce
    PROVE  HeardInv(n)'
<1>0. /\ ServerTypes(n) /\ announced' = game /\ UNCHANGED <<link, game, page, socket>>
      /\ gaps' = [c \in Conns |-> IF HasRow(c) THEN gaps[c] ELSE gaps[c] \cup {game}]
  BY DEF Types, Table, Announce, routerVars
<1>1. ASSUME NEW c \in Conns, link'[c] = "unused" PROVE announced' \in gaps'[c]
  BY <1>0, <1>1 DEF ConnInv, UnusedIsNew
<1>2. ASSUME NEW p \in Pages, socket[p] \in Conns, link[socket[p]] = "open"
      PROVE  announced' \in gaps'[socket[p]] \/ \E g \in Heard(n, p)' : announced' <= g
  <2>1. CASE HasRow(socket[p])
    <3>1. game \in Goals(out'[socket[p]], Tells(n)) /\ game \in Nat
      BY <1>0, <1>2, <2>1, AnnounceGoals
    <3>2. game \in Heard(n, p)'
      BY <1>0, <1>2, <3>1 DEF Heard, OnTheWay
    <3>3. announced' <= game
      BY <1>0, <3>1
    <3> QED
      BY <3>2, <3>3
  <2>2. CASE ~HasRow(socket[p])
    BY <1>0, <1>2, <2>2
  <2> QED
    BY <2>1, <2>2
<1>3. ASSUME NEW p \in Pages PROVE UpToDate(n, p)'
  BY <1>0, <1>2, <1>3 DEF UpToDate
<1> QED
  BY <1>1, <1>3 DEF HeardInv

LEMMA HeardNext ==
    ASSUME NEW n \in Nat, Types(n), ConnInv, MountInv, OrderInv(n), HeardInv(n), [Next]_vars
    PROVE  HeardInv(n)'
<1>0. ServerTypes(n) /\ RouterTypes(n) /\ ViewTypes(n)
  BY DEF Types
<1>1. ASSUME UNCHANGED <<announced, gaps>>,
             \A c \in Conns : link'[c] = "unused" => link[c] = "unused",
             \A p \in Pages : UpToDate(n, p)'
      PROVE  HeardInv(n)'
  BY <1>1 DEF HeardInv
<1>2. ASSUME UNCHANGED <<announced, gaps, link, page, socket>>,
             \A p \in Pages : Heard(n, p) \subseteq Heard(n, p)'
      PROVE  HeardInv(n)'
  <2>1. ASSUME NEW p \in Pages PROVE UpToDate(n, p)'
    BY <1>2, StillUpToDate DEF HeardInv
  <2> QED
    BY <1>1, <1>2, <2>1
<1>3. ASSUME NEW p \in Pages, Receive(p) PROVE HeardInv(n)'
  <2>1. UNCHANGED <<announced, gaps, link, page, socket>>
    BY <1>3, ReceiveEffect
  <2>2. \A q \in Pages : Heard(n, q) \subseteq Heard(n, q)'
    BY <1>3, ReceivingKeepsHeard
  <2> QED
    BY <1>2, <2>1, <2>2
<1>4. ASSUME NEW p \in Pages, Dispatch(p) PROVE HeardInv(n)'
  <2>1. UNCHANGED <<announced, gaps, link, page, socket>>
    BY <1>4 DEF Dispatch, serverVars, heartbeat
  <2> QED
    BY <1>2, <1>4, <2>1, DispatchKeepsHeard
<1>5. ASSUME NEW p \in Pages, Browse(p) PROVE HeardInv(n)'
  <2>1. UNCHANGED <<announced, gaps, link, page, socket>>
    BY <1>5 DEF Browse, serverVars, heartbeat, routerVars
  <2> QED
    BY <1>2, <1>5, <2>1, BrowsingKeepsHeard
<1>6. ASSUME NEW p \in Pages, UNCHANGED <<out, socket, inbox, frames, batches, skipped>>
      PROVE  Heard(n, p) \subseteq Heard(n, p)'
  BY <1>6 DEF Heard, OnTheWay, Unread, Unseen, Queued
<1>7. ASSUME NEW p \in Pages, NEW a \in Acts, Submit(p, a) PROVE HeardInv(n)'
  <2>1. /\ UNCHANGED <<announced, gaps, link, page, socket>>
        /\ UNCHANGED <<out, inbox, frames, batches, skipped>>
    BY <1>7 DEF Submit, View!SubmitAction, heartbeat
  <2> QED
    BY <1>2, <1>6, <2>1
<1>8. ASSUME NEW c \in Conns, Server(c) PROVE HeardInv(n)'
  <2>1. Work(c) /\ UNCHANGED <<page, socket, inbox, frames, batches, skipped>>
    BY <1>8 DEF Server, routerVars, viewVars
  <2>2. UNCHANGED <<announced, gaps, link>>
    BY <2>1 DEF Work, Accept, LoadGame, Answer, OnHello, OnPingResponse, OnDisconnect, OnAct,
                heartbeat
  <2>3. ASSUME NEW p \in Pages PROVE Heard(n, p) \subseteq Heard(n, p)'
    <3>1. socket[p] \in Conns => Goals(out'[socket[p]], Tells(n)) = Goals(out[socket[p]], Tells(n))
      BY <1>0, <2>1, WorkGoals
    <3> QED
      BY <2>1, <3>1 DEF Heard, OnTheWay, Unread, Unseen, Queued
  <2> QED
    BY <1>2, <2>1, <2>2, <2>3
<1>9. CASE Table
  <2>1. CASE Announce
    BY <1>9, <2>1, AnnounceKeepsHeard
  <2>2. CASE TableMoves \/ Obey \/ Refuse
    <3>1. /\ UNCHANGED <<announced, gaps, link, page, socket>>
          /\ UNCHANGED <<out, inbox, frames, batches, skipped>>
      BY <1>9, <2>2 DEF Table, TableMoves, Obey, Refuse, routerVars, viewVars
    <3> QED
      BY <1>2, <1>6, <3>1
  <2> QED
    BY <1>9, <2>1, <2>2 DEF Table, Beat
<1>10. CASE UNCHANGED vars
  <2>1. /\ UNCHANGED <<announced, gaps, link, page, socket>>
        /\ UNCHANGED <<out, inbox, frames, batches, skipped>>
    BY <1>10 DEF vars, serverVars, heartbeat, routerVars, viewVars
  <2> QED
    BY <1>2, <1>6, <2>1
<1>11. ASSUME NEW c \in Conns, Network(c) PROVE HeardInv(n)'
  <2>1. UNCHANGED <<announced, gaps, page, socket, inbox, frames, batches, skipped>>
    BY <1>11 DEF Network, Cut, Age, heartbeat, routerVars, viewVars
  <2>2. \A d \in Conns : /\ link'[d] = "unused" => link[d] = "unused"
                         /\ link'[d] = "open" => link[d] = "open" /\ out'[d] = out[d]
    BY <1>0, <1>11 DEF Network, Cut, Age, ServerTypes
  <2>3. ASSUME NEW p \in Pages PROVE UpToDate(n, p)'
    <3>1. socket[p] \in Conns /\ link'[socket[p]] = "open" => Heard(n, p) \subseteq Heard(n, p)'
      BY <2>1, <2>2 DEF Heard, OnTheWay, Unread, Unseen, Queued
    <3> QED
      BY <2>1, <2>2, <3>1, StillUpToDate DEF HeardInv
  <2> QED
    BY <1>1, <2>1, <2>2, <2>3
<1>12. ASSUME NEW p \in Pages, Leave(p) \/ (OnClose(p) /\ UNCHANGED <<viewVars, issued>>)
       PROVE  HeardInv(n)'
  <2>1. UNCHANGED <<announced, gaps, frames, batches, skipped>>
    BY <1>12 DEF Leave, Unload, OnClose, serverVars, heartbeat, viewVars
  <2>2. \A d \in Conns : /\ link'[d] = "unused" => link[d] = "unused"
                         /\ link'[d] = "open" => link[d] = "open" /\ out'[d] = out[d]
    BY <1>0, <1>12 DEF Leave, Unload, OnClose, serverVars, ServerTypes
  <2>3. /\ socket'[p] \notin Conns
        /\ \A q \in Pages : q # p => socket'[q] = socket[q] /\ page'[q] = page[q] /\ inbox'[q] = inbox[q]
    BY <1>0, <1>12, RouterAssumption DEF Leave, Unload, OnClose, Close, RouterTypes
  <2>4. ASSUME NEW q \in Pages PROVE UpToDate(n, q)'
    <3>1. CASE q = p
      BY <2>3, <3>1 DEF UpToDate
    <3>2. CASE q # p
      <4>1. socket[q] \in Conns /\ link'[socket[q]] = "open" => Heard(n, q) \subseteq Heard(n, q)'
        BY <2>1, <2>2, <2>3, <3>2 DEF Heard, OnTheWay, Unread, Unseen, Queued
      <4> QED
        BY <2>1, <2>2, <2>3, <3>2, <4>1, StillUpToDate DEF HeardInv
    <3> QED
      BY <3>1, <3>2
  <2> QED
    BY <1>1, <2>1, <2>2, <2>4
<1>13. ASSUME NEW p \in Pages, OpenPage(p) \/ (Reopen(p) /\ UNCHANGED <<viewVars, issued>>)
       PROVE  HeardInv(n)'
  <2>1. UNCHANGED <<announced, gaps, out, inbox, frames, skipped>>
    BY <1>13 DEF OpenPage, Load, View!Mount, Reopen, heartbeat, viewVars
  <2>2. PICK c \in Unused : socket' = [socket EXCEPT ![p] = c] /\ link' = [link EXCEPT ![c] = "open"]
    BY <1>13 DEF OpenPage, Load, Reopen, SetupSocket
  <2>3. \A d \in Conns : /\ link'[d] = "unused" => link[d] = "unused"
                         /\ d # c => link'[d] = link[d]
    BY <1>0, <2>2 DEF ServerTypes
  <2>4. UpToDate(n, p)'
    BY <1>13, NewUpToDate
  <2>5. ASSUME NEW q \in Pages, q # p PROVE UpToDate(n, q)'
    <3>1. socket'[q] = socket[q] /\ page'[q] = page[q] /\ batches'[q] = batches[q]
      BY <1>0, <1>13, <2>2, <2>5 DEF OpenPage, Load, View!Mount, Reopen, viewVars, RouterTypes, ViewTypes
    <3>2. socket[q] \in Conns => socket[q] # c
      BY <2>2 DEF Unused, ConnInv, OneOwner
    <3>3. Heard(n, q) \subseteq Heard(n, q)'
      BY <2>1, <3>1 DEF Heard, OnTheWay, Unread, Unseen, Queued
    <3> QED
      BY <2>1, <2>3, <3>1, <3>2, <3>3, StillUpToDate DEF HeardInv
  <2> QED
    BY <1>1, <2>1, <2>3, <2>4, <2>5
<1>14. ASSUME NEW p \in Pages, OpenPage(p) \/ Leave(p) \/ Reconnect(p) PROVE HeardInv(n)'
  <2>1. \/ OpenPage(p) \/ (Reopen(p) /\ UNCHANGED <<viewVars, issued>>)
        \/ Leave(p) \/ (OnClose(p) /\ UNCHANGED <<viewVars, issued>>)
    BY <1>14 DEF Reconnect
  <2> QED
    BY <1>12, <1>13, <2>1
<1>15. ASSUME NEW p \in Pages,
              OpenPage(p) \/ Dispatch(p) \/ Browse(p) \/ Leave(p) \/ Receive(p) \/ Reconnect(p)
       PROVE  HeardInv(n)'
  BY <1>3, <1>4, <1>5, <1>14, <1>15
<1>16. ASSUME NEW c \in Conns, Server(c) \/ Network(c) PROVE HeardInv(n)'
  BY <1>8, <1>11, <1>16
<1> QED
  BY <1>7, <1>9, <1>10, <1>15, <1>16 DEF Next

LEMMA HeardInit == ASSUME NEW n \in Nat, Types(n), Init PROVE HeardInv(n)
<1> SUFFICES ASSUME NEW s \in Scenes, ServerInit(s), RouterInit(s) PROVE HeardInv(n)
  BY DEF Init
<1>1. announced = 1 /\ \A p \in Pages : page[p] # "open"
  BY DEF ServerInit, RouterInit
<1> QED
  BY <1>1 DEF HeardInv, UpToDate

HeardOf == \E n \in Nat : Types(n) /\ OrderInv(n) /\ HeardInv(n)

LEMMA HeardAlways == Spec => [](ConnInv /\ MountInv /\ HeardOf)
<1>1. Init => HeardOf
  BY TypesInit, OrderInit, HeardInit DEF HeardOf
<1>2. ConnInv /\ MountInv /\ HeardOf /\ [Next]_vars => HeardOf'
  <2> SUFFICES ASSUME ConnInv, MountInv, HeardOf, [Next]_vars PROVE HeardOf'
    OBVIOUS
  <2>1. PICK n \in Nat : Types(n) /\ OrderInv(n) /\ HeardInv(n)
    BY DEF HeardOf
  <2>2. Types(n)' /\ OrderInv(n)' /\ HeardInv(n)'
    BY <2>1, TypesNext, OrderNext, HeardNext
  <2> QED
    BY <2>2 DEF HeardOf
<1> QED
  BY <1>1, <1>2, OrderAlways, PTL DEF Spec

(* A page at rest shows the last gamestate that was committed, unless the  *)
(* server had no row of its connection when that was announced, or its     *)
(* number was that of the empty UPDATE_GAMESTATE of the page: what was     *)
(* broadcast is in the queue of the page, in the place of the last batch,  *)
(* whatever broke and in whatever order the workers answered.              *)
THEOREM RestIsCurrent == Spec => []RestingPageIsCurrent
<1>1. ASSUME NEW n \in Nat, Types(n), MountInv, OrderInv(n), HeardInv(n), NEW p \in Pages, AtRest(p),
             game \notin gaps[socket[p]], game \notin skipped[p]
      PROVE  View!Shown(p) = game
  <2> DEFINE s == batches[p]  l == LastStarted(s)
  <2>1. /\ socket[p] \in Conns /\ link[socket[p]] = "open" /\ page[p] = "open"
        /\ out[socket[p]] = <<>> /\ inbox[p] = <<>> /\ frames[p] = <<>> /\ announced = game
        /\ \A i \in DOMAIN s : s[i].phase = "ended"
    BY <1>1 DEF AtRest, View!AllEnded
  <2>2. s \in Seq(BatchesOver(n)) /\ s # <<>> /\ s[1].phase = "ended" /\ game \in Nat
    BY <1>1, <2>1 DEF Types, ViewTypes, ServerTypes, MountInv, Mounted
  <2>3. Heard(n, p) = Queued(n, p) \cup skipped[p] /\ Heard(n, p) \subseteq 1..game
    BY <1>1, <2>1, GoalsOfNone DEF Heard, OnTheWay, Unread, Unseen, OrderInv
  <2>4. game \in Queued(n, p)
    <3>1. PICK g \in Heard(n, p) : game <= g
      BY <1>1, <2>1 DEF HeardInv, UpToDate
    <3>2. g = game
      BY <2>2, <2>3, <3>1
    <3> QED
      BY <1>1, <2>3, <3>1, <3>2
  <2>5. /\ Len(s) \in Nat /\ DOMAIN s = 1..Len(s)
        /\ \A i \in 1..Len(s) : s[i] \in BatchesOver(n) /\ Leads(n)[s[i]] = {s[i].to} /\ s[i].to \in Nat
    <3>1. \A b \in BatchesOver(n) : Leads(n)[b] = {b.to} /\ b.to \in Nat
      BY GoalValues DEF BatchesOver
    <3> QED
      BY <2>2, <3>1, SeqFacts
  <2>6. PICK i \in 1..Len(s) : s[i].to = game
    <3>1. PICK i \in DOMAIN s : game \in Leads(n)[s[i]]
      BY <2>4 DEF Queued, Goals, ToSet
    <3> QED
      BY <2>5, <3>1
  <2>7. l \in 1..Len(s) /\ i <= l
    <3>1. /\ LastStarted(s) \in 1..Len(s)
          /\ \A j \in 1..Len(s) : s[j].phase # "waiting" => j <= LastStarted(s)
      BY <2>2, LastStartedExists
    <3> QED
      BY <2>1, <2>5, <3>1
  <2>8. game <= s[l].to
    <3>1. CASE i = l
      BY <2>2, <2>6, <3>1
    <3>2. CASE i # l
      <4>1. i < l /\ Before(Leads(n)[s[i]], Leads(n)[s[l]])
        BY <1>1, <2>5, <2>7, <3>2 DEF OrderInv, InOrder, Rising
      <4> QED
        BY <2>5, <2>6, <2>7, <4>1 DEF Before
    <3> QED
      BY <3>1, <3>2
  <2>9. s[l].to <= game
    <3>1. s[l].to \in Queued(n, p)
      <4>1. s[l] \in ToSet(s)
        BY <2>5, <2>7 DEF ToSet
      <4>2. Leads(n)[s[l]] \subseteq Queued(n, p)
        BY <4>1 DEF Queued, Goals
      <4> QED
        BY <2>5, <2>7, <4>2
    <3> QED
      BY <2>2, <2>3, <3>1
  <2>10. s[l].to = game
    BY <2>2, <2>5, <2>7, <2>8, <2>9
  <2>11. View!Showing(p) = l /\ s[l].phase = "ended"
    BY <2>1, <2>5, <2>7 DEF View!Showing, View!Started, LastStarted
  <2> QED
    BY <2>10, <2>11 DEF View!Shown
<1>2. MountInv /\ HeardOf => RestingPageIsCurrent
  BY <1>1 DEF HeardOf, RestingPageIsCurrent
<1> QED
  BY <1>2, HeardAlways, PTL
-----------------------------------------------------------------------------
(* The buttons of the pages of a table, for any number of pages,           *)
(* connections, actions and gamestates: the buttons that went away with an *)
(* action come back, because an action of the page is on its way or was    *)
(* refused, or a gamestate that asks the user for one is on its way to the *)
(* page.                                                                   *)

(* The first thing that a worker does with a connection is to accept it.   *)
First(c) ==
    Event(c, "connect") \in events =>
        c \notin greeted /\ Event(c, "HELLO") \notin events /\ Accepted \notin ToSet(out[c])

AcceptedFirst == \A c \in Conns : First(c)

(* The actions in the queue of a page were submitted there.                *)
QueueIsOwn == \A p \in Pages, a \in Acts : a \in ToSet(queue[p]) => issued[a] = p

(* A gamestate that brings the buttons back is to be loaded, is loaded, or *)
(* is on its way.                                                          *)
Asking(m) == m.type = "UPDATE_GAMESTATE" /\ asks[m.game] # "out"

AskingOnTheWay(p) ==
    LET c == socket[p] IN
    \/ Event(c, "connect") \in events
    \/ answering[c] = Loading
    \/ answering[c].step = "send" /\ asks[answering[c].game] # "out"
    \/ \E m \in ToSet(out[c]) : Asking(m)
    \/ \E r \in ToSet(inbox[p]) : Asking(r.msg)

Somewhere(a)      == InQueue(a) \/ InEvents(a) \/ InTable(a) \/ a \in refused
WaitsForAction(p) == \E a \in Acts : issued[a] = p /\ Somewhere(a)

NeedsButtons(p) ==
    LET c == socket[p] IN
    /\ page[p] = "open" /\ c \in Conns /\ link[c] = "open" /\ submitted[p] /\ announced = game
    /\ asks[game] # "out" /\ game \notin gaps[c]

ButtonsComeBack(p) == NeedsButtons(p) => WaitsForAction(p) \/ AskingOnTheWay(p)

ButtonsInv == AcceptedFirst /\ QueueIsOwn /\ \A p \in Pages : ButtonsComeBack(p)

-----------------------------------------------------------------------------
(* What the steps of a page do to its queue and the events                 *)

LEMMA EventsDiffer ==
    \A c, d, k, l : Event(c, k) = Event(d, l) => c = d /\ k = l
<1>1. \A c, k : Event(c, k).conn = c /\ Event(c, k).kind = k
  BY EventFields
<1> QED
  BY <1>1

LEMMA SentHello ==
    ASSUME NEW c \in Conns, NEW ms \in SUBSET (Acts \cup {"HELLO", PingResponse}), NEW d \in Conns
    PROVE  /\ Event(d, "connect") \in Sent(c, ms) => Event(d, "connect") \in events
           /\ Event(d, "HELLO") \in Sent(c, ms) => Event(d, "HELLO") \in events \/ (d = c /\ "HELLO" \in ms)
<1>1. ASSUME NEW m \in ms, NEW k \in {"connect", "HELLO"}, Event(d, k) = EventOf(c, m)
      PROVE  k = "HELLO" /\ m = "HELLO" /\ d = c
  <2>1. m \notin Acts
    BY <1>1, ActEventsDiffer DEF EventOf
  <2>2. EventOf(c, m) = Event(c, m)
    BY <2>1 DEF EventOf
  <2>3. d = c /\ k = m
    BY <1>1, <2>2, EventsDiffer
  <2>4. m \in {"HELLO", PingResponse}
    BY <2>1
  <2> QED
    BY <1>1, <2>3, <2>4 DEF PingResponse
<1> QED
  BY <1>1 DEF Sent

(* What arrives is taken from the connection; actions leave the queue for  *)
(* the connection, if it is open.                                          *)
LEMMA RouterSends ==
    ASSUME NEW n \in Nat, Types(n), NEW p \in Pages, Receive(p)
    PROVE  /\ socket[p] \in Conns /\ out[socket[p]] # <<>>
           /\ out' = [out EXCEPT ![socket[p]] = Tail(out[socket[p]])]
           /\ events \subseteq events'
           /\ \A d \in Conns :
                 /\ Event(d, "connect") \in events' => Event(d, "connect") \in events
                 /\ Event(d, "HELLO") \in events' =>
                        Event(d, "HELLO") \in events \/ (d = socket[p] /\ Accepted \in ToSet(out[d]))
           /\ \A q \in Pages, a \in Acts :
                 /\ a \in ToSet(queue'[q]) => a \in ToSet(queue[q])
                 /\ a \in ToSet(queue[q]) => a \in ToSet(queue'[q])
                        \/ (q = p /\ (link[socket[p]] = "open" => ActEvent(socket[p], a) \in events'))
<1> DEFINE c == socket[p]
<1>0. /\ queue \in [Pages -> Seq(Acts)]
      /\ out \in [Conns -> Seq(SentOver(n))]
      /\ \A q \in Pages : ready[q] => socket[q] \in Conns
      /\ "HELLO" \notin Acts /\ PingResponse \notin Acts /\ PingResponse # "HELLO"
  BY SocketsAssumption DEF Types, ServerTypes, RouterTypes, PingResponse
<1>1. ASSUME c \in Conns, NEW ms \in SUBSET (Acts \cup {"HELLO", PingResponse}), events' = Sent(c, ms)
      PROVE  /\ events \subseteq events'
             /\ \A d \in Conns :
                   /\ Event(d, "connect") \in events' => Event(d, "connect") \in events
                   /\ Event(d, "HELLO") \in events' => Event(d, "HELLO") \in events \/ (d = c /\ "HELLO" \in ms)
  BY <1>1, SentHello DEF Sent
<1>2. CASE OnOpen(p)
  <2>1. /\ c \in Conns /\ out[c] # <<>> /\ Head(out[c]) = Accepted
        /\ out' = [out EXCEPT ![c] = Tail(out[c])] /\ events' = Sent(c, {"HELLO"}) /\ UNCHANGED queue
    BY <1>2 DEF OnOpen, SendControl
  <2>2. Accepted \in ToSet(out[c])
    BY <1>0, <2>1, FirstAndRest
  <2>3. {"HELLO"} \in SUBSET (Acts \cup {"HELLO", PingResponse})
    OBVIOUS
  <2> HIDE DEF c
  <2>4. /\ events \subseteq events'
        /\ \A d \in Conns :
              /\ Event(d, "connect") \in events' => Event(d, "connect") \in events
              /\ Event(d, "HELLO") \in events' => Event(d, "HELLO") \in events \/ d = c
    BY <1>1, <2>1, <2>3
  <2> QED
    BY <2>1, <2>2, <2>4 DEF c
<1>3. CASE OnGamestate(p)
  <2>1. Incoming(p) # Accepted /\ UNCHANGED <<events, queue>> /\ Received(p, Incoming(p))
    BY <1>3 DEF OnGamestate, Accepted
  <2> QED
    BY <2>1, IncomingIsHead DEF Received
<1>4. CASE OnGotHello(p)
  <2>1. /\ c \in Conns /\ out[c] # <<>> /\ out' = [out EXCEPT ![c] = Tail(out[c])]
        /\ events' = Sent(c, ToSet(queue[p])) /\ queue' = [queue EXCEPT ![p] = <<>>]
    BY <1>4, IncomingIsHead DEF OnGotHello, Received, Accepted, GotHello
  <2>2. ToSet(queue[p]) \in SUBSET Acts
    BY <1>0, LenProperties, ElementOfSeq DEF ToSet
  <2>3. ToSet(queue[p]) \in SUBSET (Acts \cup {"HELLO", PingResponse}) /\ "HELLO" \notin ToSet(queue[p])
    BY <1>0, <2>2
  <2>4. /\ events \subseteq events'
        /\ \A d \in Conns :
              /\ Event(d, "connect") \in events' => Event(d, "connect") \in events
              /\ Event(d, "HELLO") \in events' => Event(d, "HELLO") \in events
    BY <1>1, <2>1, <2>3
  <2>5. \A a \in Acts : a \in ToSet(queue[p]) /\ link[c] = "open" => ActEvent(c, a) \in events'
    BY <2>1 DEF Sent, EventOf
  <2>6. ToSet(queue'[p]) = {} /\ \A q \in Pages : q # p => queue'[q] = queue[q]
    BY <1>0, <2>1, EmptyIsSeq
  <2> QED
    BY <2>1, <2>4, <2>5, <2>6
<1>5. CASE OnPing(p)
  <2>1. /\ c \in Conns /\ out[c] # <<>> /\ out' = [out EXCEPT ![c] = Tail(out[c])]
        /\ events' = Sent(c, {PingResponse}) /\ UNCHANGED queue
    BY <1>5, IncomingIsHead DEF OnPing, SendControl, Received, Accepted, Ping
  <2>2. {PingResponse} \in SUBSET (Acts \cup {"HELLO", PingResponse}) /\ "HELLO" \notin {PingResponse}
    BY <1>0
  <2>3. /\ events \subseteq events'
        /\ \A d \in Conns :
              /\ Event(d, "connect") \in events' => Event(d, "connect") \in events
              /\ Event(d, "HELLO") \in events' => Event(d, "HELLO") \in events
    BY <1>1, <2>1, <2>2
  <2> QED
    BY <2>1, <2>3
<1> QED
  BY <1>2, <1>3, <1>4, <1>5 DEF Receive

-----------------------------------------------------------------------------
(* A connection is accepted before anything else happens to it             *)

LEMMA FirstStays ==
    ASSUME NEW c \in Conns, First(c),
           Event(c, "connect") \in events' =>
               /\ Event(c, "connect") \in events
               /\ c \in greeted' => c \in greeted
               /\ Event(c, "HELLO") \in events' => Event(c, "HELLO") \in events
               /\ Accepted \in ToSet(out'[c]) => Accepted \in ToSet(out[c])
    PROVE  First(c)'
BY DEF First

LEMMA WorkKeepsFirst ==
    ASSUME NEW n \in Nat, Types(n), AcceptedFirst, NEW d \in Conns, Work(d)
    PROVE  AcceptedFirst'
<1> SUFFICES ASSUME NEW c \in Conns PROVE First(c)'
  BY DEF AcceptedFirst
<1>0. First(c) /\ out \in [Conns -> Seq(SentOver(n))] /\ answering \in [Conns -> AnswerOver(n)]
  BY DEF AcceptedFirst, Types, ServerTypes
<1>1. ASSUME NEW to, NEW m \in SentOver(n), c \notin to \/ m # Accepted,
             Accepted \in ToSet(Delivered(to, m)[c])
      PROVE  Accepted \in ToSet(out[c])
  <2>1. ToSet(Delivered(to, m)[c]) = ToSet(out[c]) \cup (IF c \in to /\ link[c] = "open" THEN {m} ELSE {})
    BY <1>0, DeliveredTyped
  <2> QED
    BY <1>1, <2>1
<1>2. CASE Accept(d)
  <2>1. /\ events' = events \ {Event(d, "connect")} /\ out' = Delivered({d}, Accepted)
        /\ UNCHANGED greeted
    BY <1>2 DEF Accept
  <2>2. CASE c = d
    BY <2>1, <2>2 DEF First
  <2>3. CASE c # d
    <3>1. c \notin {d} /\ Accepted \in SentOver(n)
      BY <2>3, MessageTypes
    <3>2. Accepted \in ToSet(out'[c]) => Accepted \in ToSet(out[c])
      BY <1>1, <2>1, <3>1
    <3> QED
      BY <1>0, <2>1, <3>2, FirstStays
  <2> QED
    BY <2>2, <2>3
<1>3. CASE OnHello(d)
  <2>1. /\ Event(d, "HELLO") \in events /\ events' = events \ {Event(d, "HELLO")}
        /\ greeted' = greeted \cup {d}
        /\ out' = [e \in Conns |-> IF e = d THEN Delivered({d}, GotHello)[d] ELSE Delivered(Others(d), Ping)[e]]
    BY <1>3 DEF OnHello
  <2>2. GotHello # Accepted /\ Ping # Accepted
    BY DEF GotHello, Accepted, Ping
  <2>3. CASE c = d
    BY <1>0, <2>1, <2>3 DEF First
  <2>4. CASE c # d
    <3>1. out'[c] = Delivered(Others(d), Ping)[c]
      BY <2>1, <2>4
    <3>2. Ping \in SentOver(n)
      BY MessageTypes
    <3>3. Accepted \in ToSet(out'[c]) => Accepted \in ToSet(out[c])
      BY <1>1, <2>2, <3>1, <3>2
    <3> QED
      BY <1>0, <2>1, <2>4, <3>3, FirstStays
  <2> QED
    BY <2>3, <2>4
<1>4. CASE Answer(d)
  <2>1. UNCHANGED <<events, greeted>> /\ out' = Delivered({d}, State(answering[d].game))
    BY <1>4 DEF Answer
  <2>2. State(answering[d].game) \in SentOver(n) /\ State(answering[d].game) # Accepted
    <3>1. answering[d].step = "send" /\ answering[d] \in AnswerOver(n)
      BY <1>0, <1>4 DEF Answer
    <3>2. answering[d].game \in 1..n
      BY <3>1 DEF AnswerOver, Idle, Loading, Sending
    <3>3. State(answering[d].game).type # Accepted.type
      BY DEF State, Accepted
    <3> QED
      BY <3>2, <3>3, MessageTypes
  <2>3. Accepted \in ToSet(out'[c]) => Accepted \in ToSet(out[c])
    BY <1>1, <2>1, <2>2
  <2> QED
    BY <1>0, <2>1, <2>3, FirstStays
<1>5. CASE LoadGame(d) \/ OnPingResponse(d) \/ OnDisconnect(d) \/ \E a \in Acts : OnAct(d, a)
  <2>1. events' \subseteq events /\ UNCHANGED <<out, greeted>>
    BY <1>5 DEF LoadGame, OnPingResponse, OnDisconnect, OnAct
  <2> QED
    BY <1>0, <2>1, FirstStays
<1> QED
  BY <1>2, <1>3, <1>4, <1>5 DEF Work

LEMMA ReceivingKeepsFirst ==
    ASSUME NEW n \in Nat, Types(n), AcceptedFirst, NEW p \in Pages, Receive(p)
    PROVE  AcceptedFirst'
<1> SUFFICES ASSUME NEW c \in Conns PROVE First(c)'
  BY DEF AcceptedFirst
<1>0. First(c) /\ out \in [Conns -> Seq(SentOver(n))] /\ UNCHANGED greeted
  BY ReceiveEffect DEF AcceptedFirst, Types, ServerTypes
<1>1. /\ socket[p] \in Conns /\ out[socket[p]] # <<>>
      /\ out' = [out EXCEPT ![socket[p]] = Tail(out[socket[p]])]
      /\ Event(c, "connect") \in events' => Event(c, "connect") \in events
      /\ Event(c, "HELLO") \in events' =>
             Event(c, "HELLO") \in events \/ (c = socket[p] /\ Accepted \in ToSet(out[c]))
  BY RouterSends
<1>2. ToSet(out'[c]) \subseteq ToSet(out[c])
  <2>1. CASE c = socket[p]
    <3>1. ToSet(out[c]) = {Head(out[c])} \cup ToSet(Tail(out[c]))
      BY <1>0, <1>1, <2>1, FirstAndRest
    <3> QED
      BY <1>0, <1>1, <2>1, <3>1
  <2>2. CASE c # socket[p]
    BY <1>0, <1>1, <2>2
  <2> QED
    BY <2>1, <2>2
<1> QED
  BY <1>0, <1>1, <1>2 DEF First

LEMMA FirstNext ==
    ASSUME NEW n \in Nat, Types(n), ConnInv, AcceptedFirst, [Next]_vars
    PROVE  AcceptedFirst'
<1>0. out \in [Conns -> Seq(SentOver(n))] /\ out' \in [Conns -> Seq(SentOver(n))]
  <2>1. Types(n)'
    BY TypesNext
  <2> QED
    BY <2>1 DEF Types, ServerTypes
<1>1. ASSUME UNCHANGED greeted,
             \A c \in Conns : /\ Event(c, "connect") \in events' => Event(c, "connect") \in events
                              /\ Event(c, "HELLO") \in events' => Event(c, "HELLO") \in events
                              /\ Accepted \in ToSet(out'[c]) => Accepted \in ToSet(out[c])
      PROVE  AcceptedFirst'
  BY <1>1, FirstStays DEF AcceptedFirst
<1>3. ASSUME NEW p \in Pages, OpenPage(p) \/ Reopen(p) PROVE AcceptedFirst'
  <2>1. UNCHANGED <<out, greeted>>
    BY <1>3 DEF OpenPage, Load, Reopen
  <2>2. PICK c \in Unused : events' = events \cup {Event(c, "connect")}
    BY <1>3 DEF OpenPage, Load, Reopen, SetupSocket
  <2>3. c \in Conns /\ out[c] = <<>> /\ c \notin greeted /\ Event(c, "HELLO") \notin events
    BY <2>2, EventFields DEF Unused, ConnInv, UnusedIsNew, ClosedIsSilent
  <2>4. ASSUME NEW d \in Conns PROVE First(d)'
    <3>1. Event(d, "HELLO") \in events' <=> Event(d, "HELLO") \in events
      BY <2>2, EventsDiffer
    <3>2. CASE d = c
      BY <2>1, <2>3, <3>1, <3>2, EmptyIsSeq DEF First
    <3>3. CASE d # c
      <4>1. Event(d, "connect") \in events' => Event(d, "connect") \in events
        BY <2>2, <3>3, EventsDiffer
      <4> QED
        BY <2>1, <3>1, <4>1 DEF First, AcceptedFirst
    <3> QED
      BY <3>2, <3>3
  <2> QED
    BY <2>4 DEF AcceptedFirst
<1>4. ASSUME NEW p \in Pages, Leave(p) \/ OnClose(p) PROVE AcceptedFirst'
  <2>1. /\ UNCHANGED greeted
        /\ \A c \in Conns : out'[c] = out[c] \/ out'[c] = <<>>
    BY <1>0, <1>4 DEF Leave, Unload, OnClose, serverVars
  <2>2. events' = events \/ \E c : events' = events \cup {Event(c, "goodbye")}
    BY <1>4 DEF Leave, Unload, OnClose, serverVars
  <2>3. \A c \in Conns : /\ Event(c, "connect") \in events' => Event(c, "connect") \in events
                         /\ Event(c, "HELLO") \in events' => Event(c, "HELLO") \in events
    BY <2>2, EventsDiffer
  <2> QED
    BY <1>1, <2>1, <2>3, EmptyIsSeq
<1>5. ASSUME NEW c \in Conns, Network(c) PROVE AcceptedFirst'
  <2>1. /\ UNCHANGED greeted
        /\ \A d \in Conns : out'[d] = out[d] \/ out'[d] = <<>>
    BY <1>0, <1>5 DEF Network, Cut, Age
  <2>2. events' = events \/ events' = events \cup {Event(c, "disconnect")}
    BY <1>5 DEF Network, Cut, Age
  <2>3. \A d \in Conns : /\ Event(d, "connect") \in events' => Event(d, "connect") \in events
                         /\ Event(d, "HELLO") \in events' => Event(d, "HELLO") \in events
    BY <2>2, EventsDiffer
  <2> QED
    BY <1>1, <2>1, <2>3, EmptyIsSeq
<1>6. CASE Table
  <2>1. UNCHANGED <<events, greeted>>
    BY <1>6 DEF Table, Beat, TableMoves, Obey, Refuse, Announce
  <2>2. out' = out \/ \E to : out' = Delivered(to, Broadcast(game))
    BY <1>6 DEF Table, Beat, TableMoves, Obey, Refuse, Announce
  <2>3. ASSUME NEW to, out' = Delivered(to, Broadcast(game)), Announce, NEW c \in Conns
        PROVE  Accepted \in ToSet(out'[c]) => Accepted \in ToSet(out[c])
    <3>1. Broadcast(game) \in SentOver(n) /\ Broadcast(game) # Accepted
      <4>1. game \in 2..n
        BY <2>3 DEF Announce, Types, ServerTypes
      <4>2. Broadcast(game).type # Accepted.type
        BY DEF Broadcast, Accepted
      <4> QED
        BY <4>1, <4>2, MessageTypes
    <3>2. Accepted \in ToSet(Delivered(to, Broadcast(game))[c]) => Accepted \in ToSet(out[c])
      <4>1. \A m \in SentOver(n) : m # Accepted /\ Accepted \in ToSet(Delivered(to, m)[c])
                                      => Accepted \in ToSet(out[c])
        <5>1. \A m \in SentOver(n) : ToSet(Delivered(to, m)[c]) =
                  ToSet(out[c]) \cup (IF c \in to /\ link[c] = "open" THEN {m} ELSE {})
          <6> TAKE m \in SentOver(n)
          <6>1. out \in [Conns -> Seq(SentOver(n))]
            BY <1>0
          <6> QED
            BY <6>1, DeliveredTyped
        <5> QED
          BY <5>1
      <4> QED
        BY <3>1, <4>1
    <3> QED
      BY <2>3, <3>2
  <2>4. out' = out \/ \E to : out' = Delivered(to, Broadcast(game)) /\ Announce
    BY <1>6 DEF Table, Beat, TableMoves, Obey, Refuse, Announce
  <2> QED
    BY <1>1, <2>1, <2>3, <2>4
<1>7. ASSUME NEW p \in Pages, NEW a \in Acts, Submit(p, a) PROVE AcceptedFirst'
  <2>1. UNCHANGED <<out, greeted>> /\ SendJson(p, a)
    BY <1>7 DEF Submit
  <2>2. \A c \in Conns : /\ Event(c, "connect") \in events' => Event(c, "connect") \in events
                         /\ Event(c, "HELLO") \in events' => Event(c, "HELLO") \in events
    <3>1. CASE ready[p]
      <4>1. socket[p] \in Conns /\ events' = Sent(socket[p], {a})
        BY <2>1, <3>1 DEF SendJson, Types, RouterTypes
      <4>2. {a} \in SUBSET (Acts \cup {"HELLO", PingResponse}) /\ "HELLO" \notin {a}
        BY SocketsAssumption
      <4> QED
        BY <4>1, <4>2, SentHello
    <3>2. CASE ~ready[p]
      BY <2>1, <3>2 DEF SendJson
    <3> QED
      BY <3>1, <3>2
  <2> QED
    BY <1>1, <2>1, <2>2
<1>8. ASSUME NEW p \in Pages, Dispatch(p) \/ Browse(p) PROVE AcceptedFirst'
  <2>1. UNCHANGED <<out, greeted, events>>
    BY <1>8 DEF Dispatch, Browse, serverVars
  <2> QED
    BY <1>1, <2>1
<1>9. CASE UNCHANGED vars
  <2>1. UNCHANGED <<out, greeted, events>>
    BY <1>9 DEF vars, serverVars
  <2> QED
    BY <1>1, <2>1
<1>10. ASSUME NEW p \in Pages,
              OpenPage(p) \/ Dispatch(p) \/ Browse(p) \/ Leave(p) \/ Receive(p) \/ Reconnect(p)
       PROVE  AcceptedFirst'
  BY <1>3, <1>4, <1>8, <1>10, ReceivingKeepsFirst DEF Reconnect
<1>11. ASSUME NEW c \in Conns, Server(c) \/ Network(c) PROVE AcceptedFirst'
  BY <1>5, <1>11, WorkKeepsFirst DEF Server
<1> QED
  BY <1>6, <1>7, <1>9, <1>10, <1>11 DEF Next

-----------------------------------------------------------------------------
(* A queue holds actions of its own page                                   *)

LEMMA SubmitSends ==
    ASSUME NEW n \in Nat, Types(n), NEW p \in Pages, NEW b \in Acts, Submit(p, b)
    PROVE  /\ issued[b] = Nobody /\ issued' = [issued EXCEPT ![b] = p]
           /\ UNCHANGED <<link, rows, answering, out, heartbeat, gaps, greeted, page, socket, inbox>>
           /\ events \subseteq events'
           /\ \A q \in Pages, a \in Acts :
                  a \in ToSet(queue'[q]) <=> a \in ToSet(queue[q]) \/ (~ready[p] /\ q = p /\ a = b)
           /\ ready[p] => socket[p] \in Conns
                          /\ (link[socket[p]] = "open" => ActEvent(socket[p], b) \in events')
<1>0. /\ queue \in [Pages -> Seq(Acts)]
      /\ \A q \in Pages : ready[q] => socket[q] \in Conns
  BY DEF Types, RouterTypes
<1>1. /\ issued[b] = Nobody /\ issued' = [issued EXCEPT ![b] = p] /\ SendJson(p, b)
      /\ UNCHANGED <<link, rows, answering, out, heartbeat, gaps, greeted, page, socket, inbox>>
  BY DEF Submit
<1>2. CASE ready[p]
  <2>1. events' = Sent(socket[p], {b}) /\ UNCHANGED queue
    BY <1>1, <1>2 DEF SendJson
  <2>2. events \subseteq events' /\ (link[socket[p]] = "open" => ActEvent(socket[p], b) \in events')
    BY <2>1 DEF Sent, EventOf
  <2> QED
    BY <1>0, <1>1, <1>2, <2>1, <2>2
<1>3. CASE ~ready[p]
  <2>1. events' = events /\ queue' = [queue EXCEPT ![p] = Append(queue[p], b)]
    BY <1>1, <1>3 DEF SendJson
  <2>2. ToSet(Append(queue[p], b)) = ToSet(queue[p]) \cup {b}
    BY <1>0, BehindAll
  <2>3. \A q \in Pages, a \in Acts :
            a \in ToSet(queue'[q]) <=> a \in ToSet(queue[q]) \/ (q = p /\ a = b)
    BY <1>0, <2>1, <2>2
  <2> QED
    BY <1>1, <1>3, <2>1, <2>3
<1> QED
  BY <1>2, <1>3

LEMMA OwnNext ==
    ASSUME NEW n \in Nat, Types(n), QueueIsOwn, [Next]_vars
    PROVE  QueueIsOwn'
<1>0. /\ queue \in [Pages -> Seq(Acts)]
      /\ issued \in [Acts -> Pages \cup {Nobody, Elsewhere}]
  BY DEF Types, RouterTypes
<1>1. ASSUME UNCHANGED issued,
             \A p \in Pages, a \in Acts : a \in ToSet(queue'[p]) => a \in ToSet(queue[p])
      PROVE  QueueIsOwn'
  BY <1>1 DEF QueueIsOwn
<1>2. ASSUME UNCHANGED issued, \A p \in Pages : queue'[p] = queue[p] \/ queue'[p] = <<>>
      PROVE  QueueIsOwn'
  BY <1>1, <1>2, EmptyIsSeq
<1>3. ASSUME NEW p \in Pages, Receive(p) PROVE QueueIsOwn'
  <2>1. UNCHANGED issued
    BY <1>3, ReceiveEffect
  <2>2. \A q \in Pages, a \in Acts : a \in ToSet(queue'[q]) => a \in ToSet(queue[q])
    BY <1>3, RouterSends
  <2> QED
    BY <1>1, <2>1, <2>2
<1>4. ASSUME NEW p \in Pages, NEW b \in Acts, Submit(p, b) PROVE QueueIsOwn'
  <2>1. /\ issued[b] = Nobody /\ issued' = [issued EXCEPT ![b] = p]
        /\ \A q \in Pages, a \in Acts :
               a \in ToSet(queue'[q]) => a \in ToSet(queue[q]) \/ (q = p /\ a = b)
    BY <1>4, SubmitSends
  <2>2. ASSUME NEW q \in Pages, NEW a \in Acts, a \in ToSet(queue'[q]) PROVE issued'[a] = q
    <3>1. CASE a \in ToSet(queue[q])
      <4>1. issued[a] = q /\ Nobody \notin Pages
        BY <3>1, PageAssumption DEF QueueIsOwn
      <4> QED
        BY <1>0, <2>1, <4>1
    <3>2. CASE q = p /\ a = b
      BY <1>0, <2>1, <3>2
    <3> QED
      BY <2>1, <2>2, <3>1, <3>2
  <2> QED
    BY <2>2 DEF QueueIsOwn
<1>5. ASSUME NEW p \in Pages, OpenPage(p) \/ Dispatch(p) \/ Browse(p) \/ Leave(p) \/ Reconnect(p)
      PROVE  QueueIsOwn'
  <2>1. UNCHANGED issued /\ \A q \in Pages : queue'[q] = queue[q] \/ queue'[q] = <<>>
    BY <1>0, <1>5 DEF OpenPage, Load, SetupSocket, Restarted, Dispatch, Browse, Leave, Unload, Reconnect,
                      OnClose, Reopen, routerVars
  <2> QED
    BY <1>2, <2>1
<1>6. ASSUME UNCHANGED <<issued, queue>> PROVE QueueIsOwn'
  BY <1>2, <1>6
<1>7. ASSUME NEW c \in Conns, Server(c) \/ Network(c) PROVE QueueIsOwn'
  BY <1>6, <1>7 DEF Server, Network, routerVars
<1>8. CASE Table \/ UNCHANGED vars
  BY <1>6, <1>8 DEF Table, vars, routerVars
<1>9. ASSUME NEW p \in Pages,
             OpenPage(p) \/ Dispatch(p) \/ Browse(p) \/ Leave(p) \/ Receive(p) \/ Reconnect(p)
      PROVE  QueueIsOwn'
  BY <1>3, <1>5, <1>9
<1> QED
  BY <1>4, <1>7, <1>8, <1>9 DEF Next

-----------------------------------------------------------------------------
(* The buttons come back                                                   *)

LEMMA WaitingStays ==
    ASSUME NEW p \in Pages, WaitsForAction(p),
           \A a \in Acts : issued[a] = p /\ Somewhere(a) => issued'[a] = p /\ Somewhere(a)'
    PROVE  WaitsForAction(p)'
BY DEF WaitsForAction

LEMMA AskingStays ==
    ASSUME NEW p \in Pages, AskingOnTheWay(p), UNCHANGED asks, socket'[p] = socket[p],
           Event(socket[p], "connect") \in events => Event(socket[p], "connect") \in events',
           answering'[socket[p]] = answering[socket[p]],
           ToSet(out[socket[p]]) \subseteq ToSet(out'[socket[p]]),
           ToSet(inbox[p]) \subseteq ToSet(inbox'[p])
    PROVE  AskingOnTheWay(p)'
<1>1. \A m : Asking(m)' <=> Asking(m)
  BY DEF Asking
<1> QED
  BY <1>1 DEF AskingOnTheWay

(* What is left of a page when its steps change nothing of what it waits   *)
(* for.                                                                    *)
LEMMA ComeBackStays ==
    ASSUME NEW p \in Pages, ButtonsComeBack(p), NeedsButtons(p)' => NeedsButtons(p),
           NeedsButtons(p)' /\ WaitsForAction(p) => WaitsForAction(p)' \/ AskingOnTheWay(p)',
           NeedsButtons(p)' /\ AskingOnTheWay(p) => AskingOnTheWay(p)'
    PROVE  ButtonsComeBack(p)'
BY DEF ButtonsComeBack

LEMMA SubmitKeepsButtons ==
    ASSUME NEW n \in Nat, Types(n), NEW p \in Pages, ButtonsComeBack(p),
           NEW q \in Pages, NEW b \in Acts, Submit(q, b)
    PROVE  ButtonsComeBack(p)'
<1>0. /\ issued \in [Acts -> Pages \cup {Nobody, Elsewhere}] /\ submitted \in [Pages -> BOOLEAN]
      /\ Nobody \notin Pages
  BY PageAssumption DEF Types, ViewTypes
<1>1. /\ issued[b] = Nobody /\ issued' = [issued EXCEPT ![b] = q]
      /\ UNCHANGED <<link, rows, answering, out, heartbeat, gaps, greeted, page, socket, inbox>>
      /\ events \subseteq events'
      /\ \A r \in Pages, a \in Acts :
             a \in ToSet(queue'[r]) <=> a \in ToSet(queue[r]) \/ (~ready[q] /\ r = q /\ a = b)
      /\ ready[q] => socket[q] \in Conns
                     /\ (link[socket[q]] = "open" => ActEvent(socket[q], b) \in events')
  BY SubmitSends
<1>2. CASE p = q
  <2> SUFFICES ASSUME NeedsButtons(p)' PROVE WaitsForAction(p)'
    BY DEF ButtonsComeBack
  <2>1. link[socket[p]] = "open" /\ issued'[b] = p
    BY <1>0, <1>1, <1>2 DEF NeedsButtons
  <2>2. InQueue(b)' \/ InEvents(b)'
    BY <1>1, <1>2, <2>1 DEF InQueue, InEvents
  <2> QED
    BY <2>1, <2>2 DEF WaitsForAction, Somewhere
<1>3. CASE p # q
  <2>1. submitted'[p] = submitted[p]
    BY <1>0, <1>3 DEF Submit, View!SubmitAction
  <2>2. NeedsButtons(p)' => NeedsButtons(p)
    BY <1>1, <2>1 DEF NeedsButtons, heartbeat
  <2>3. \A a \in Acts : issued[a] = p /\ Somewhere(a) => issued'[a] = p /\ Somewhere(a)'
    BY <1>0, <1>1 DEF Somewhere, InQueue, InEvents, InTable, heartbeat
  <2>4. WaitsForAction(p) => WaitsForAction(p)'
    BY <2>3, WaitingStays
  <2>5. AskingOnTheWay(p) => AskingOnTheWay(p)'
    BY <1>1, AskingStays DEF heartbeat
  <2> QED
    BY <2>2, <2>4, <2>5, ComeBackStays
<1> QED
  BY <1>2, <1>3

LEMMA DispatchKeepsButtons ==
    ASSUME NEW n \in Nat, Types(n), NEW p \in Pages, ButtonsComeBack(p), NEW q \in Pages, Dispatch(q)
    PROVE  ButtonsComeBack(p)'
<1>0. RouterTypes(n) /\ ViewTypes(n)
  BY DEF Types
<1>1. /\ UNCHANGED <<serverVars, page, socket, queue, issued>>
      /\ inbox[q] # <<>> /\ inbox' = [inbox EXCEPT ![q] = Tail(inbox[q])]
  BY DEF Dispatch
<1>2. \A a \in Acts : issued[a] = p /\ Somewhere(a) => issued'[a] = p /\ Somewhere(a)'
  BY <1>1 DEF Somewhere, InQueue, InEvents, InTable, serverVars, heartbeat
<1>3. WaitsForAction(p) => WaitsForAction(p)'
  BY <1>2, WaitingStays
<1>4. CASE p # q
  <2>1. inbox'[p] = inbox[p] /\ submitted'[p] = submitted[p]
    BY <1>0, <1>1, <1>4 DEF Dispatch, View!UpdateGamestate, viewVars, RouterTypes, ViewTypes
  <2>2. NeedsButtons(p)' => NeedsButtons(p)
    BY <1>1, <2>1 DEF NeedsButtons, serverVars, heartbeat
  <2>3. AskingOnTheWay(p) => AskingOnTheWay(p)'
    BY <1>1, <2>1, AskingStays DEF serverVars, heartbeat
  <2> QED
    BY <1>3, <2>2, <2>3, ComeBackStays
<1>5. CASE p = q
  <2> DEFINE r == Head(inbox[p])
  <2>1. /\ submitted'[p] => submitted[p]
        /\ Asking(r.msg) => ~submitted'[p]
    <3>1. CASE r.msg.type = "UPDATE_GAMESTATE"
      <4>1. submitted' = [submitted EXCEPT ![p] = IF asks[r.msg.game] # "out" THEN FALSE ELSE @]
        BY <1>5, <3>1 DEF Dispatch, View!UpdateGamestate
      <4> QED
        BY <1>0, <4>1 DEF Asking, ViewTypes
    <3>2. CASE r.msg.type # "UPDATE_GAMESTATE"
      BY <1>5, <3>2 DEF Dispatch, viewVars, Asking
    <3> QED
      BY <3>1, <3>2
  <2>2. ToSet(inbox[p]) = {r} \cup ToSet(inbox'[p])
    <3>1. inbox[p] \in Seq(ReceivedOver(n)) /\ inbox'[p] = Tail(inbox[p])
      BY <1>0, <1>1, <1>5 DEF RouterTypes
    <3>2. ToSet(inbox[p]) = {Head(inbox[p])} \cup ToSet(Tail(inbox[p]))
      BY <1>1, <1>5, <3>1, FirstAndRest
    <3> QED
      BY <3>1, <3>2
  <2>3. NeedsButtons(p)' => NeedsButtons(p) /\ ~Asking(r.msg)
    BY <1>1, <2>1 DEF NeedsButtons, serverVars, heartbeat
  <2>4. ASSUME ~Asking(r.msg), AskingOnTheWay(p) PROVE AskingOnTheWay(p)'
    <3>1. \A m : Asking(m)' <=> Asking(m)
      BY <1>1 DEF Asking, serverVars, heartbeat
    <3> HIDE DEF r
    <3>2. (\E x \in ToSet(inbox[p]) : Asking(x.msg)) => \E x \in ToSet(inbox'[p]) : Asking(x.msg)
      BY <2>2, <2>4
    <3> QED
      BY <1>1, <2>4, <3>1, <3>2 DEF AskingOnTheWay, serverVars, heartbeat
  <2> QED
    BY <1>3, <2>3, <2>4, ComeBackStays
<1> QED
  BY <1>4, <1>5

LEMMA ReceiveKeepsButtons ==
    ASSUME NEW n \in Nat, Types(n), ConnInv, QueueIsOwn, NEW p \in Pages, ButtonsComeBack(p),
           NEW q \in Pages, Receive(q)
    PROVE  ButtonsComeBack(p)'
<1> DEFINE c == socket[p]
<1>0. /\ inbox \in [Pages -> Seq(ReceivedOver(n))] /\ out \in [Conns -> Seq(SentOver(n))]
      /\ recvSeqNum \in [Pages -> Nat]
  BY DEF Types, ServerTypes, RouterTypes
<1>1. /\ UNCHANGED <<submitted, issued, link, page, socket, game, announced, gaps, answering, asks,
                     tableQueue, refused>>
      /\ \/ OnOpen(q) /\ UNCHANGED inbox
         \/ \E m \in SentOver(n) : m = Incoming(q) /\ m # Accepted /\ Received(q, m)
  BY ReceiveEffect DEF viewVars
<1>2. /\ socket[q] \in Conns /\ out[socket[q]] # <<>>
      /\ out' = [out EXCEPT ![socket[q]] = Tail(out[socket[q]])]
      /\ events \subseteq events'
      /\ \A r \in Pages, a \in Acts : a \in ToSet(queue[r]) =>
             a \in ToSet(queue'[r])
             \/ (r = q /\ (link[socket[q]] = "open" => ActEvent(socket[q], a) \in events'))
  BY RouterSends
<1>3. NeedsButtons(p)' => NeedsButtons(p)
  BY <1>1 DEF NeedsButtons
<1>4. ASSUME NeedsButtons(p), WaitsForAction(p) PROVE WaitsForAction(p)'
  <2> SUFFICES ASSUME NEW a \in Acts, issued[a] = p, Somewhere(a) PROVE issued'[a] = p /\ Somewhere(a)'
    BY <1>4, WaitingStays
  <2>1. InQueue(a) => InQueue(a)' \/ InEvents(a)'
    <3> SUFFICES ASSUME NEW r \in Pages, a \in ToSet(queue[r]) PROVE InQueue(a)' \/ InEvents(a)'
      BY DEF InQueue
    <3>1. r = p
      BY DEF QueueIsOwn
    <3>2. link[c] = "open"
      BY <1>4 DEF NeedsButtons
    <3>3. a \in ToSet(queue'[p]) \/ (p = q /\ ActEvent(socket[q], a) \in events')
      BY <1>2, <3>1, <3>2
    <3> QED
      BY <1>2, <3>3 DEF InQueue, InEvents
  <2>2. (InEvents(a) => InEvents(a)') /\ (InTable(a) => InTable(a)') /\ (a \in refused => a \in refused')
    BY <1>1, <1>2 DEF InEvents, InTable
  <2> QED
    BY <1>1, <2>1, <2>2 DEF Somewhere
<1>5. ASSUME NeedsButtons(p), AskingOnTheWay(p) PROVE AskingOnTheWay(p)'
  <2>0. c \in Conns
    BY <1>5 DEF NeedsButtons
  <2>1. CASE p # q
    <3>1. socket[q] # c
      BY <2>0, <2>1 DEF ConnInv, OneOwner
    <3>2. out'[c] = out[c] /\ inbox'[p] = inbox[p]
      BY <1>0, <1>1, <1>2, <2>0, <2>1, <3>1 DEF Received
    <3> QED
      BY <1>1, <1>2, <1>5, <3>2, AskingStays
  <2>2. CASE p = q
    <3>1. \A m : Asking(m)' <=> Asking(m)
      BY <1>1 DEF Asking
    <3>2. ToSet(out[c]) = {Head(out[c])} \cup ToSet(out'[c])
      <4>1. out'[c] = Tail(out[c])
        BY <1>0, <1>2, <2>2
      <4> QED
        BY <1>0, <1>2, <2>2, <4>1, FirstAndRest
    <3>3. CASE OnOpen(p) /\ UNCHANGED inbox
      <4>1. ~Asking(Head(out[c]))
        BY <3>3 DEF OnOpen, Asking, Accepted
      <4> HIDE DEF c
      <4>2. (\E m \in ToSet(out[c]) : Asking(m)) => \E m \in ToSet(out'[c]) : Asking(m)
        BY <3>2, <4>1
      <4> QED
        BY <1>1, <1>2, <1>5, <3>1, <3>3, <4>2 DEF AskingOnTheWay, c
    <3>4. ASSUME NEW m \in SentOver(n), m = Incoming(p), m # Accepted, Received(p, m)
          PROVE  AskingOnTheWay(p)'
      <4> DEFINE r == [msg |-> m, seq |-> recvSeqNum[p]]
      <4>1. m = Head(out[c]) /\ inbox'[p] = Append(inbox[p], r)
        BY <1>0, <3>4, IncomingIsHead DEF Received
      <4>2. r \in ReceivedOver(n) /\ r.msg = m
        BY <1>0 DEF ReceivedOver
      <4>3. ToSet(inbox'[p]) = ToSet(inbox[p]) \cup {r}
        <5> HIDE DEF r
        <5> QED
          BY <1>0, <4>1, <4>2, BehindAll
      <4> HIDE DEF r, c
      <4>4. (\E x \in ToSet(inbox[p]) : Asking(x.msg)) => \E x \in ToSet(inbox'[p]) : Asking(x.msg)
        BY <4>3
      <4>5. (\E x \in ToSet(out[c]) : Asking(x)) =>
                (\E x \in ToSet(out'[c]) : Asking(x)) \/ \E x \in ToSet(inbox'[p]) : Asking(x.msg)
        BY <3>2, <4>1, <4>2, <4>3
      <4> QED
        BY <1>1, <1>2, <1>5, <3>1, <4>4, <4>5 DEF AskingOnTheWay, c
    <3> QED
      BY <1>1, <2>2, <3>3, <3>4
  <2> QED
    BY <2>1, <2>2
<1> QED
  BY <1>3, <1>4, <1>5, ComeBackStays

LEMMA ServerKeepsButtons ==
    ASSUME NEW n \in Nat, Types(n), ConnInv, NEW p \in Pages, ButtonsComeBack(p),
           NEW c \in Conns, Server(c)
    PROVE  ButtonsComeBack(p)'
<1> DEFINE d == socket[p]
<1>0. /\ Work(c) /\ UNCHANGED <<page, socket, queue, inbox, submitted, issued>>
      /\ tableQueue \in Seq(Acts \cup {Closed}) /\ out \in [Conns -> Seq(SentOver(n))]
      /\ answering \in [Conns -> AnswerOver(n)] /\ ServerTypes(n) /\ UnusedIsNew /\ EndsAreTrue
  BY DEF Server, routerVars, viewVars, Types, ServerTypes, ConnInv
<1>1. UNCHANGED <<link, game, asks, announced, refused, gaps>>
  BY <1>0 DEF Work, Accept, LoadGame, Answer, OnHello, OnPingResponse, OnDisconnect, OnAct, heartbeat
<1>2. NeedsButtons(p)' => NeedsButtons(p)
  BY <1>0, <1>1 DEF NeedsButtons
<1>3. ASSUME WaitsForAction(p) PROVE WaitsForAction(p)'
  <2> SUFFICES ASSUME NEW a \in Acts, issued[a] = p, Somewhere(a) PROVE issued'[a] = p /\ Somewhere(a)'
    BY <1>3, WaitingStays
  <2>1. InTable(a) => InTable(a)'
    <3>1. ToSet(tableQueue) \subseteq ToSet(tableQueue')
      <4>1. tableQueue' = tableQueue \/ \E x \in Acts \cup {Closed} : tableQueue' = Append(tableQueue, x)
        BY <1>0 DEF Work, Accept, LoadGame, Answer, OnHello, OnPingResponse, OnDisconnect, OnAct, heartbeat
      <4>2. \A x \in Acts \cup {Closed} : ToSet(tableQueue) \subseteq ToSet(Append(tableQueue, x))
        BY <1>0, BehindAll
      <4> QED
        BY <4>1, <4>2
    <3> QED
      BY <3>1 DEF InTable
  <2>2. InEvents(a) => InEvents(a)' \/ InTable(a)'
    <3>1. CASE OnAct(c, a)
      <4>1. tableQueue' = Append(tableQueue, a) /\ ToSet(Append(tableQueue, a)) = ToSet(tableQueue) \cup {a}
        BY <1>0, <3>1, BehindAll DEF OnAct
      <4> QED
        BY <4>1 DEF InTable
    <3>2. ASSUME NEW b \in Acts, b # a, OnAct(c, b) PROVE InEvents(a) => InEvents(a)'
      <4>1. \A e \in Conns : ActEvent(e, a) # ActEvent(c, b)
        BY <3>2, ActEventsDiffer
      <4> QED
        BY <3>2, <4>1 DEF OnAct, InEvents
    <3>3. ASSUME LoadGame(c) \/ Answer(c) PROVE InEvents(a) => InEvents(a)'
      BY <3>3 DEF LoadGame, Answer, InEvents
    <3>4. ASSUME Accept(c) \/ OnHello(c) \/ OnPingResponse(c) \/ OnDisconnect(c)
          PROVE  InEvents(a) => InEvents(a)'
      <4>1. PICK k \in {"connect", "disconnect", "goodbye", "HELLO", PingResponse} :
                events' = events \ {Event(c, k)}
        BY <3>4 DEF Accept, OnHello, OnPingResponse, OnDisconnect, PingResponse
      <4> QED
        BY <4>1, ActEventsDiffer DEF InEvents
    <3> QED
      BY <1>0, <3>1, <3>2, <3>3, <3>4 DEF Work
  <2>3. InQueue(a) => InQueue(a)'
    BY <1>0 DEF InQueue
  <2> QED
    BY <1>0, <1>1, <2>1, <2>2, <2>3 DEF Somewhere
<1>4. ASSUME NeedsButtons(p), AskingOnTheWay(p) PROVE AskingOnTheWay(p)'
  <2>0. d \in Conns /\ link[d] = "open" /\ asks[game] # "out"
    BY <1>4 DEF NeedsButtons
  <2>1. ToSet(out[d]) \subseteq ToSet(out'[d])
    BY <1>0, <2>0, WorkEffect
  <2>2. CASE c # d
    <3>1. /\ \A e \in events : e.conn # c => e \in events'
          /\ answering'[d] = answering[d]
      BY <1>0, <2>0, <2>2, WorkEffect
    <3>2. Event(d, "connect") \in events => Event(d, "connect") \in events'
      BY <2>2, <3>1, EventFields
    <3> QED
      BY <1>0, <1>1, <1>4, <2>1, <3>1, <3>2, AskingStays
  <2>3. CASE c = d
    <3>1. CASE Accept(c)
      <4>1. answering'[d] = Loading
        BY <1>0, <2>0, <2>3, <3>1 DEF Accept
      <4> QED
        BY <1>0, <4>1 DEF AskingOnTheWay
    <3>2. CASE LoadGame(c)
      <4>1. answering'[d].step = "send" /\ answering'[d].game = game
        BY <1>0, <2>0, <2>3, <3>2 DEF LoadGame, Sending
      <4> QED
        BY <1>0, <1>1, <2>0, <4>1 DEF AskingOnTheWay
    <3>3. CASE Answer(c)
      <4> DEFINE g == answering[d].game  m == State(g)
      <4>1. /\ answering[d].step = "send" /\ out' = Delivered({d}, m) /\ UNCHANGED events
        BY <2>3, <3>3 DEF Answer
      <4>2. answering[d] # Loading /\ g \in 1..n
        BY <1>0, <2>0, <4>1 DEF AnswerOver, Loading, Idle, Sending
      <4>3. m \in SentOver(n) /\ m.type = "UPDATE_GAMESTATE" /\ m.game = g
        <5>1. \A h \in 1..n : State(h) \in SentOver(n)
          BY MessageTypes
        <5> QED
          BY <4>2, <5>1 DEF State
      <4>4. m \in ToSet(out'[d])
        <5> HIDE DEF m, d
        <5>1. ASSUME NEW to, NEW x \in SentOver(n), d \in to PROVE x \in ToSet(Delivered(to, x)[d])
          <6>1. out \in [Conns -> Seq(SentOver(n))]
            BY <1>0
          <6>2. ToSet(Delivered(to, x)[d]) =
                    ToSet(out[d]) \cup (IF d \in to /\ link[d] = "open" THEN {x} ELSE {})
            BY <2>0, <6>1, DeliveredTyped
          <6> QED
            BY <2>0, <5>1, <6>2
        <5> QED
          BY <4>1, <4>3, <5>1
      <4>5. \A x : Asking(x)' <=> Asking(x)
        BY <1>1 DEF Asking
      <4>6. CASE asks[g] # "out"
        <5>1. Asking(m)
          BY <4>3, <4>6 DEF Asking
        <5> QED
          BY <1>0, <4>4, <4>5, <5>1 DEF AskingOnTheWay
      <4>7. CASE asks[g] = "out"
        BY <1>0, <1>4, <2>1, <4>1, <4>2, <4>5, <4>7 DEF AskingOnTheWay
      <4> QED
        BY <4>6, <4>7
    <3>4. CASE OnHello(c) \/ OnPingResponse(c) \/ OnDisconnect(c) \/ \E a \in Acts : OnAct(c, a)
      <4>1. UNCHANGED answering
        BY <3>4 DEF OnHello, OnPingResponse, OnDisconnect, OnAct
      <4>2. Event(d, "connect") \in events => Event(d, "connect") \in events'
        <5>1. CASE OnHello(c) \/ OnPingResponse(c) \/ OnDisconnect(c)
          <6>1. \E k \in {"disconnect", "goodbye", "HELLO", PingResponse} : events' = events \ {Event(c, k)}
            BY <5>1 DEF OnHello, OnPingResponse, OnDisconnect, PingResponse
          <6> QED
            BY <6>1, EventsDiffer DEF PingResponse
        <5>2. ASSUME NEW a \in Acts, OnAct(c, a)
              PROVE  Event(d, "connect") \in events => Event(d, "connect") \in events'
          <6>1. ActEvent(c, a) # Event(d, "connect")
            BY <2>0, ActEventsDiffer
          <6> QED
            BY <5>2, <6>1 DEF OnAct
        <5> QED
          BY <3>4, <5>1, <5>2
      <4> QED
        BY <1>0, <1>1, <1>4, <2>1, <4>1, <4>2, AskingStays
    <3> QED
      BY <1>0, <3>1, <3>2, <3>3, <3>4 DEF Work
  <2> QED
    BY <2>2, <2>3
<1> QED
  BY <1>2, <1>3, <1>4, ComeBackStays

(* The gamestate announced asks for the buttons itself; while one is only  *)
(* committed nobody needs them yet.                                        *)
LEMMA TableKeepsButtons ==
    ASSUME NEW n \in Nat, Types(n), NEW p \in Pages, ButtonsComeBack(p), Table
    PROVE  ButtonsComeBack(p)'
<1> DEFINE c == socket[p]
<1>0. /\ UNCHANGED <<page, socket, queue, inbox, submitted, issued>>
      /\ tableQueue \in Seq(Acts \cup {Closed}) /\ out \in [Conns -> Seq(SentOver(n))]
      /\ game \in 1..n /\ announced \in 1..game
  BY DEF Table, routerVars, viewVars, Types, ServerTypes
<1>1. CASE TableMoves \/ Obey
  <2>1. announced' = game /\ game' = game + 1
    BY <1>1 DEF TableMoves, Obey, Commit
  <2>2. announced' # game'
    BY <1>0, <2>1
  <2> QED
    BY <2>2 DEF ButtonsComeBack, NeedsButtons
<1>2. CASE Refuse
  <2>1. /\ UNCHANGED <<link, events, answering, out, game, asks, announced, gaps>>
        /\ tableQueue # <<>> /\ tableQueue' = Tail(tableQueue) /\ refused' = refused \cup {Head(tableQueue)}
    BY <1>2 DEF Refuse
  <2>2. NeedsButtons(p)' => NeedsButtons(p)
    BY <1>0, <2>1 DEF NeedsButtons
  <2>3. AskingOnTheWay(p) => AskingOnTheWay(p)'
    BY <1>0, <2>1, AskingStays
  <2>4. ToSet(tableQueue) = {Head(tableQueue)} \cup ToSet(Tail(tableQueue))
    BY <1>0, <2>1, FirstAndRest
  <2>5. \A a \in Acts : issued[a] = p /\ Somewhere(a) => issued'[a] = p /\ Somewhere(a)'
    BY <1>0, <2>1, <2>4 DEF Somewhere, InQueue, InEvents, InTable
  <2>6. WaitsForAction(p) => WaitsForAction(p)'
    BY <2>5, WaitingStays
  <2> QED
    BY <2>2, <2>3, <2>6, ComeBackStays
<1>3. CASE Announce
  <2> SUFFICES ASSUME NeedsButtons(p)' PROVE AskingOnTheWay(p)'
    BY DEF ButtonsComeBack
  <2>1. /\ out' = Delivered({d \in Conns : HasRow(d)}, Broadcast(game)) /\ UNCHANGED <<asks, link, game>>
        /\ gaps' = [d \in Conns |-> IF HasRow(d) THEN gaps[d] ELSE gaps[d] \cup {game}]
    BY <1>3 DEF Announce
  <2>2. c \in Conns /\ link[c] = "open" /\ asks[game] # "out" /\ game \notin gaps'[c]
    BY <1>0, <2>1 DEF NeedsButtons
  <2>3. HasRow(c)
    BY <2>1, <2>2
  <2>4. Broadcast(game) \in SentOver(n) /\ Broadcast(game).type = "UPDATE_GAMESTATE"
        /\ Broadcast(game).game = game
    <3>1. game \in 2..n
      BY <1>0, <1>3 DEF Announce
    <3> QED
      BY <3>1, MessageTypes DEF Broadcast
  <2>5. ASSUME NEW to, NEW x \in SentOver(n), c \in to PROVE x \in ToSet(Delivered(to, x)[c])
    <3> HIDE DEF c
    <3>1. out \in [Conns -> Seq(SentOver(n))]
      BY <1>0
    <3>0. c \in Conns
      BY <2>2
    <3>2. ToSet(Delivered(to, x)[c]) =
              ToSet(out[c]) \cup (IF c \in to /\ link[c] = "open" THEN {x} ELSE {})
      BY <3>0, <3>1, DeliveredTyped
    <3> QED
      BY <2>2, <2>5, <3>2
  <2>6. Broadcast(game) \in ToSet(out'[c])
    <3>1. c \in {d \in Conns : HasRow(d)}
      BY <2>2, <2>3
    <3> QED
      BY <2>1, <2>4, <2>5, <3>1
  <2>7. Asking(Broadcast(game))'
    BY <2>1, <2>2, <2>4 DEF Asking
  <2> QED
    BY <1>0, <2>1, <2>6, <2>7 DEF AskingOnTheWay
<1> QED
  BY <1>1, <1>2, <1>3 DEF Table, Beat

LEMMA LinksKeepButtons ==
    ASSUME NEW n \in Nat, Types(n), ConnInv, QueueIsOwn, NEW p \in Pages, ButtonsComeBack(p), NEW q \in Pages,
           OpenPage(q) \/ Leave(q) \/ Reconnect(q)
    PROVE  ButtonsComeBack(p)'
<1> DEFINE c == socket[p]
<1>0. RouterTypes(n) /\ ServerTypes(n) /\ NoSocket \notin Conns
  BY RouterAssumption DEF Types
<1>1. UNCHANGED <<answering, tableQueue, game, asks, announced, refused, gaps, issued, submitted>>
  BY DEF OpenPage, Leave, Reconnect, Load, Unload, OnClose, Reopen, View!Mount, serverVars, heartbeat,
         viewVars
<1>2. CASE OpenPage(q) \/ Reopen(q)
  <2>1. PICK d \in Unused : /\ socket' = [socket EXCEPT ![q] = d] /\ link' = [link EXCEPT ![d] = "open"]
                            /\ events' = events \cup {Event(d, "connect")} /\ queue' = queue
    BY <1>2 DEF OpenPage, Load, Reopen, SetupSocket, Restarted
  <2>2. UNCHANGED <<out, inbox>> /\ \A r \in Pages : r # q => page'[r] = page[r]
    BY <1>0, <1>2 DEF OpenPage, Load, Reopen, RouterTypes
  <2>3. CASE p = q
    <3>1. Event(socket'[p], "connect") \in events'
      BY <1>0, <2>1, <2>3 DEF RouterTypes
    <3> QED
      BY <3>1 DEF ButtonsComeBack, AskingOnTheWay
  <2>4. CASE p # q
    <3>1. socket'[p] = socket[p] /\ page'[p] = page[p]
      BY <1>0, <2>1, <2>2, <2>4 DEF RouterTypes
    <3>2. c \in Conns => c # d /\ link'[c] = link[c]
      <4>1. c \in Conns => link[c] # "unused"
        BY DEF ConnInv, OneOwner
      <4>2. link[d] = "unused"
        BY DEF Unused
      <4> QED
        BY <1>0, <2>1, <4>1, <4>2 DEF ServerTypes
    <3>3. NeedsButtons(p)' => NeedsButtons(p)
      BY <1>1, <3>1, <3>2 DEF NeedsButtons
    <3>4. AskingOnTheWay(p) => AskingOnTheWay(p)'
      BY <1>1, <2>1, <2>2, <3>1, AskingStays
    <3>5. \A a \in Acts : issued[a] = p /\ Somewhere(a) => issued'[a] = p /\ Somewhere(a)'
      BY <1>1, <2>1 DEF Somewhere, InQueue, InEvents, InTable
    <3>6. WaitsForAction(p) => WaitsForAction(p)'
      BY <3>5, WaitingStays
    <3> QED
      BY <3>3, <3>4, <3>6, ComeBackStays
  <2> QED
    BY <2>3, <2>4
<1>3. CASE Leave(q) \/ OnClose(q)
  <2>1. /\ socket' = [socket EXCEPT ![q] = NoSocket]
        /\ \A r \in Pages : r # q => /\ page'[r] = page[r] /\ queue'[r] = queue[r] /\ inbox'[r] = inbox[r]
        /\ events \subseteq events'
    BY <1>0, <1>3 DEF Leave, Unload, OnClose, Close, serverVars, RouterTypes
  <2>2. \A d \in Conns : link'[d] = "open" => link[d] = "open" /\ out'[d] = out[d]
    BY <1>0, <1>3 DEF Leave, Unload, OnClose, serverVars, ServerTypes
  <2>3. CASE p = q
    <3>1. socket'[p] = NoSocket
      BY <1>0, <2>1, <2>3 DEF RouterTypes
    <3> QED
      BY <1>0, <3>1 DEF ButtonsComeBack, NeedsButtons
  <2>4. CASE p # q
    <3>1. socket'[p] = socket[p] /\ page'[p] = page[p] /\ queue'[p] = queue[p] /\ inbox'[p] = inbox[p]
      BY <1>0, <2>1, <2>4 DEF RouterTypes
    <3>2. NeedsButtons(p)' => NeedsButtons(p) /\ out'[c] = out[c]
      BY <1>1, <2>2, <3>1 DEF NeedsButtons
    <3>3. NeedsButtons(p)' /\ AskingOnTheWay(p) => AskingOnTheWay(p)'
      BY <1>1, <2>1, <3>1, <3>2, AskingStays
    <3>4. ASSUME NEW a \in Acts, issued[a] = p, Somewhere(a) PROVE issued'[a] = p /\ Somewhere(a)'
      <4>1. InQueue(a) => InQueue(a)'
        <5>1. \A r \in Pages : a \in ToSet(queue[r]) => r = p
          BY <3>4 DEF QueueIsOwn
        <5> QED
          BY <3>1, <5>1 DEF InQueue
      <4> QED
        BY <1>1, <2>1, <3>4, <4>1 DEF Somewhere, InEvents, InTable
    <3>5. WaitsForAction(p) => WaitsForAction(p)'
      BY <3>4, WaitingStays
    <3> QED
      BY <3>2, <3>3, <3>5, ComeBackStays
  <2> QED
    BY <2>3, <2>4
<1> QED
  BY <1>2, <1>3 DEF Reconnect

LEMMA ComeBackNext ==
    ASSUME NEW n \in Nat, Types(n), ConnInv, QueueIsOwn, NEW p \in Pages, ButtonsComeBack(p), [Next]_vars
    PROVE  ButtonsComeBack(p)'
<1>1. ASSUME UNCHANGED <<page, socket, queue, inbox, submitted, issued, answering, tableQueue, game, asks,
                         announced, refused, gaps>>,
             events \subseteq events',
             \A c \in Conns : link'[c] = "open" => link[c] = "open" /\ out'[c] = out[c]
      PROVE  ButtonsComeBack(p)'
  <2>1. NeedsButtons(p)' => NeedsButtons(p) /\ out'[socket[p]] = out[socket[p]]
    BY <1>1 DEF NeedsButtons
  <2>2. NeedsButtons(p)' /\ AskingOnTheWay(p) => AskingOnTheWay(p)'
    BY <1>1, <2>1, AskingStays
  <2>3. \A a \in Acts : issued[a] = p /\ Somewhere(a) => issued'[a] = p /\ Somewhere(a)'
    BY <1>1 DEF Somewhere, InQueue, InEvents, InTable
  <2>4. WaitsForAction(p) => WaitsForAction(p)'
    BY <2>3, WaitingStays
  <2> QED
    BY <2>1, <2>2, <2>4, ComeBackStays
<1>2. ASSUME NEW c \in Conns, Network(c) PROVE ButtonsComeBack(p)'
  <2>1. /\ UNCHANGED <<page, socket, queue, inbox, submitted, issued, answering, tableQueue, game, asks,
                       announced, refused, gaps>>
        /\ events \subseteq events'
    BY <1>2 DEF Network, Cut, Age, routerVars, viewVars, heartbeat
  <2>2. \A d \in Conns : link'[d] = "open" => link[d] = "open" /\ out'[d] = out[d]
    BY <1>2 DEF Network, Cut, Age, Types, ServerTypes
  <2> QED
    BY <1>1, <2>1, <2>2
<1>3. ASSUME NEW q \in Pages, Browse(q) PROVE ButtonsComeBack(p)'
  <2>1. UNCHANGED <<serverVars, routerVars, issued, submitted>>
    BY <1>3, BrowseEffect
  <2> QED
    BY <1>1, <2>1 DEF serverVars, heartbeat, routerVars
<1>4. CASE UNCHANGED vars
  BY <1>1, <1>4 DEF vars, serverVars, heartbeat, routerVars, viewVars
<1>5. ASSUME NEW q \in Pages,
             OpenPage(q) \/ Dispatch(q) \/ Browse(q) \/ Leave(q) \/ Receive(q) \/ Reconnect(q)
      PROVE  ButtonsComeBack(p)'
  <2>1. CASE OpenPage(q) \/ Leave(q) \/ Reconnect(q)
    BY <2>1, LinksKeepButtons
  <2>2. CASE Dispatch(q)
    BY <2>2, DispatchKeepsButtons
  <2>3. CASE Receive(q)
    BY <2>3, ReceiveKeepsButtons
  <2> QED
    BY <1>3, <1>5, <2>1, <2>2, <2>3
<1>6. ASSUME NEW q \in Pages, NEW a \in Acts, Submit(q, a) PROVE ButtonsComeBack(p)'
  BY <1>6, SubmitKeepsButtons
<1>7. ASSUME NEW c \in Conns, Server(c) PROVE ButtonsComeBack(p)'
  BY <1>7, ServerKeepsButtons
<1>8. CASE Table
  BY <1>8, TableKeepsButtons
<1>9. ASSUME NEW c \in Conns, Server(c) \/ Network(c) PROVE ButtonsComeBack(p)'
  BY <1>2, <1>7, <1>9
<1> QED
  BY <1>4, <1>5, <1>6, <1>8, <1>9 DEF Next

LEMMA ButtonsInit == Init => ButtonsInv
<1> SUFFICES ASSUME NEW s \in Scenes, ServerInit(s), RouterInit(s), View!ViewInit(s.refresh)
             PROVE  ButtonsInv
  BY DEF Init
<1>1. events = {} /\ \A p \in Pages : queue[p] = <<>> /\ ~submitted[p]
  BY DEF ServerInit, RouterInit, View!ViewInit
<1> QED
  BY <1>1, EmptyIsSeq DEF ButtonsInv, AcceptedFirst, First, QueueIsOwn, ButtonsComeBack, NeedsButtons

LEMMA ButtonsAlways == Spec => [](ConnInv /\ Typed /\ ButtonsInv)
<1>1. ConnInv /\ Typed /\ ButtonsInv /\ [Next]_vars => ButtonsInv'
  <2> SUFFICES ASSUME NEW n \in Nat, Types(n), ConnInv, ButtonsInv, [Next]_vars PROVE ButtonsInv'
    BY DEF Typed
  <2>1. AcceptedFirst' /\ QueueIsOwn'
    BY FirstNext, OwnNext DEF ButtonsInv
  <2>2. ASSUME NEW p \in Pages PROVE ButtonsComeBack(p)'
    BY ComeBackNext DEF ButtonsInv
  <2> QED
    BY <2>1, <2>2 DEF ButtonsInv
<1> QED
  BY <1>1, ButtonsInit, ConnAlways, PTL DEF Spec

(* When a page that is at rest shows no buttons although the table waits   *)
(* for its user, an action of that page is still on its way to the         *)
(* heartbeat or was refused by it, however the page was reconnected and in *)
(* whatever order its events were handled.                                 *)
THEOREM ButtonsReturn == Spec => []ButtonsWaitForAnAnswer
<1>1. ASSUME ConnInv, ButtonsInv, NEW p \in Pages, AtRest(p), submitted[p], asks[game] = "act",
             game \notin gaps[socket[p]]
      PROVE  \E a \in Acts : issued[a] = p /\ Pending(a)
  <2>1. /\ page[p] = "open" /\ ready[p] /\ socket[p] \in Conns /\ link[socket[p]] = "open"
        /\ out[socket[p]] = <<>> /\ inbox[p] = <<>> /\ answering[socket[p]] = Idle /\ announced = game
    BY <1>1 DEF AtRest
  <2>2. NeedsButtons(p)
    BY <1>1, <2>1 DEF NeedsButtons
  <2>3. ~AskingOnTheWay(p)
    <3>1. Event(socket[p], "connect") \notin events
      BY <1>1, <2>1 DEF ConnInv, ReadyIsGreeted, ButtonsInv, AcceptedFirst, First
    <3>2. Idle # Loading /\ Idle.step # "send"
      BY DEF Idle, Loading
    <3> QED
      BY <2>1, <3>1, <3>2, EmptyIsSeq DEF AskingOnTheWay
  <2>4. PICK a \in Acts : issued[a] = p /\ Somewhere(a)
    BY <1>1, <2>2, <2>3 DEF ButtonsInv, ButtonsComeBack, WaitsForAction
  <2>5. Places(a) # {}
    <3>1. CASE InQueue(a)
      <4>1. PICK q \in Pages : a \in ToSet(queue[q])
        BY <3>1 DEF InQueue
      <4>2. <<"queue", q>> \in Places(a)
        BY <4>1 DEF Places
      <4> QED
        BY <4>2
    <3>2. CASE InEvents(a)
      <4>1. PICK c \in Conns : ActEvent(c, a) \in events
        BY <3>2 DEF InEvents
      <4>2. <<"event", c>> \in Places(a)
        BY <4>1 DEF Places
      <4> QED
        BY <4>2
    <3>3. CASE InTable(a)
      <4>1. PICK i \in DOMAIN tableQueue : tableQueue[i] = a
        BY <3>3 DEF InTable, ToSet
      <4>2. <<"table", i>> \in Places(a)
        BY <4>1 DEF Places
      <4> QED
        BY <4>2
    <3>4. CASE a \in refused
      <4>1. <<"refused", a>> \in Places(a)
        BY <3>4 DEF Places
      <4> QED
        BY <4>1
    <3> QED
      BY <2>4, <3>1, <3>2, <3>3, <3>4 DEF Somewhere
  <2> QED
    BY <2>4, <2>5 DEF Pending
<1>2. ConnInv /\ ButtonsInv => ButtonsWaitForAnAnswer
  BY <1>1 DEF ButtonsWaitForAnAnswer
<1> QED
  BY <1>2, ButtonsAlways, PTL
=============================================================================
