-------------------------------- MODULE Sockets --------------------------------
(***************************************************************************)
(* The server's end of the websockets of one table and one user:           *)
(* sockets/handlers.py, sockets/models.py and the TableSocketHandler of    *)
(* poker/views/handlers.py, with what the heartbeat of the table sends to  *)
(* them (poker/megaphone.py).                                              *)
(*                                                                         *)
(* The interface server turns what happens to a connection into events     *)
(* (connect, receive, disconnect) that several worker processes handle in  *)
(* whatever order they get to them, even those of one connection.  A       *)
(* connection that has been accepted has a row in the database; who has a  *)
(* row gets the broadcasts.  Every handler first updates or creates the    *)
(* row of its connection.                                                  *)
(*                                                                         *)
(* A gamestate is its number; it asks of the user to "act",                *)
(* to "wait" for its turn (it may set presets), or nothing ("out").        *)
(***************************************************************************)
EXTENDS Naturals, Sequences, FiniteSets

CONSTANTS
    Conns,      \* websocket connections that the user's pages may open
    Acts,       \* actions the user may submit
    Pages,      \* pages of the same table that the user may open
    Scenes      \* bounds of the behaviours to look at: see below

Closed == "PLAYER_CLOSE_TABLE"

(* A scene bounds a behaviour: the connections, pages and actions there    *)
(* are, the gamestates that may be committed, with what each of them asks  *)
(* of the user, and which faults may happen once: a connection breaks,     *)
(* falls silent for 5 minutes, or a page is left.                          *)
ASSUME SocketsAssumption ==
    /\ Acts \cap {Closed, "HELLO", "PING_RESPONSE"} = {}
    /\ \A s \in Scenes :
        /\ s.conns \subseteq Conns /\ s.pages \subseteq Pages /\ s.acts \subseteq Acts
        /\ s.asks \in Seq({"act", "wait", "out"}) /\ s.asks # <<>>
        /\ s.faults \subseteq {"cut", "silence", "leave"} /\ s.refresh \in BOOLEAN

VARIABLES
    link,       \* a connection is "unused", "open" or "cut"
    rows,       \* the Socket rows: active, and whether last_ping is over 5 minutes old
    events,     \* the events that no worker has handled yet
    answering,  \* connect handlers at work, and the gamestate they loaded
    out,        \* messages on the way to the browser, in order
    tableQueue, \* messages on the way to the heartbeat
    game,       \* the number of the gamestate committed last
    asks,       \* what each gamestate asks of the user
    faults,     \* the faults that may still happen
    announced,  \* the number of the gamestate broadcast last
    gaps,       \* history: the broadcasts a connection had no row for
    greeted,    \* history: the connections whose HELLO was answered
    refused     \* history: the actions the heartbeat rejected

Fault(kind) == kind \in faults /\ faults' = faults \ {kind}

heartbeat  == <<tableQueue, game, asks, announced, refused>>
serverVars == <<link, rows, events, answering, out, heartbeat, gaps, greeted, faults>>

NoRow == [exists |-> FALSE, active |-> FALSE, old |-> FALSE]
Fresh == [exists |-> TRUE, active |-> TRUE, old |-> FALSE]

Idle       == [step |-> "idle", game |-> 0]
Loading    == [step |-> "load", game |-> 0]
Sending(g) == [step |-> "send", game |-> g]

Event(c, kind) == [conn |-> c, kind |-> kind]
ActEvent(c, a) == [conn |-> c, kind |-> "ACT", act |-> a]

Accepted      == [type |-> "accept"]
GotHello      == [type |-> "GOT_HELLO"]
Ping          == [type |-> "PING"]
(* The gamestate for one connection has an empty list of animations (the   *)
(* subscribers of its controller have seen no event); a broadcast has      *)
(* those of its events, from a SNAPTO before to a SNAPTO after them.       *)
State(g)      == [type |-> "UPDATE_GAMESTATE", game |-> g, animated |-> FALSE]
Broadcast(g)  == [type |-> "UPDATE_GAMESTATE", game |-> g, animated |-> TRUE]

HasRow(c) == rows[c].exists

(* What is sent to a connection that is gone disappears.                   *)
Delivered(to, m) ==
    [c \in Conns |-> IF c \in to /\ link[c] = "open" THEN Append(out[c], m) ELSE out[c]]

-----------------------------------------------------------------------------
(* The handlers of the workers                                             *)

(* setup_session: update_or_create, active, last_ping = now                *)
SetUp(c) == [rows EXCEPT ![c] = Fresh]

(* connect: the row, then the reply that completes the handshake ...       *)
Accept(c) ==
    /\ Event(c, "connect") \in events
    /\ events' = events \ {Event(c, "connect")}
    /\ rows' = SetUp(c)
    /\ out' = Delivered({c}, Accepted)
    /\ answering' = [answering EXCEPT ![c] = Loading]
    /\ UNCHANGED <<link, heartbeat, gaps, greeted, faults>>

(* ... then a controller is made from the database ...                     *)
LoadGame(c) ==
    /\ answering[c] = Loading
    /\ answering' = [answering EXCEPT ![c] = Sending(game)]
    /\ UNCHANGED <<link, rows, events, out, heartbeat, gaps, greeted, faults>>

(* Mutant: the page gets the animations of the gamestate that was loaded.  *)
AnswerAnimated(c) ==
    /\ answering[c].step = "send"
    /\ rows' = SetUp(c)
    /\ LET g == answering[c].game IN
       out' = Delivered({c}, [State(g) EXCEPT !.animated = g > 1])
    /\ answering' = [answering EXCEPT ![c] = Idle]
    /\ UNCHANGED <<link, events, heartbeat, gaps, greeted, faults>>

(* ... and its gamestate is sent.                                          *)
Answer(c) ==
    /\ answering[c].step = "send"
    /\ rows' = SetUp(c)
    /\ out' = Delivered({c}, State(answering[c].game))
    /\ answering' = [answering EXCEPT ![c] = Idle]
    /\ UNCHANGED <<link, events, heartbeat, gaps, greeted, faults>>

(* cleanup_stale: the user's other sockets of this page become inactive,   *)
(* are asked for a PING, and those that were silent for 5 minutes are      *)
(* deleted without waiting for their answer.                               *)
Others(c) == {d \in Conns \ {c} : HasRow(d)}

CleanedUp(c) ==
    [d \in Conns |->
        CASE d = c                             -> Fresh
          [] d \in Others(c) /\ rows[d].old    -> NoRow
          [] d \in Others(c) /\ ~rows[d].old   -> [rows[d] EXCEPT !.active = FALSE]
          [] OTHER                             -> rows[d]]

(* Mutant: the silent sockets are deleted and only the others are asked.   *)
OnHelloAskingTheRest(c) ==
    /\ Event(c, "HELLO") \in events
    /\ events' = events \ {Event(c, "HELLO")}
    /\ rows' = CleanedUp(c)
    /\ out' = [d \in Conns |->
                  IF d = c THEN Delivered({c}, GotHello)[c]
                  ELSE Delivered({e \in Others(c) : ~rows[e].old}, Ping)[d]]
    /\ greeted' = greeted \cup {c}
    /\ UNCHANGED <<link, answering, heartbeat, gaps, faults>>

OnHello(c) ==
    /\ Event(c, "HELLO") \in events
    /\ events' = events \ {Event(c, "HELLO")}
    /\ rows' = CleanedUp(c)
    /\ out' = [d \in Conns |-> IF d = c THEN Delivered({c}, GotHello)[c]
                                        ELSE Delivered(Others(c), Ping)[d]]
    /\ greeted' = greeted \cup {c}
    /\ UNCHANGED <<link, answering, heartbeat, gaps, faults>>

(* on_ping does nothing, but receive has set up the session.               *)
OnPingResponse(c) ==
    /\ Event(c, "PING_RESPONSE") \in events
    /\ events' = events \ {Event(c, "PING_RESPONSE")}
    /\ rows' = SetUp(c)
    /\ UNCHANGED <<link, answering, out, heartbeat, gaps, greeted, faults>>

(* default_route: queue_tablebeat_dispatch                                 *)
OnAct(c, a) ==
    /\ ActEvent(c, a) \in events
    /\ events' = events \ {ActEvent(c, a)}
    /\ rows' = SetUp(c)
    /\ tableQueue' = Append(tableQueue, a)
    /\ UNCHANGED <<link, answering, out, game, asks, announced, refused, gaps, greeted, faults>>

(* disconnect deletes the row it has just set up.  When the page was       *)
(* closed (any code but 1006) the heartbeat is told.                       *)
OnDisconnect(c) ==
    \E kind \in {"disconnect", "goodbye"} :
        /\ Event(c, kind) \in events
        /\ events' = events \ {Event(c, kind)}
        /\ rows' = [rows EXCEPT ![c] = NoRow]
        /\ tableQueue' = IF kind = "goodbye" THEN Append(tableQueue, Closed) ELSE tableQueue
        /\ UNCHANGED <<link, answering, out, game, asks, announced, refused, gaps, greeted, faults>>

-----------------------------------------------------------------------------
(* The heartbeat                                                           *)

(* controller.commit: a transaction ...                                    *)
Commit ==
    /\ announced = game /\ game < Len(asks)
    /\ game' = game + 1
    /\ UNCHANGED asks

(* ... for somebody else's message, or when a player's time is up, ...     *)
TableMoves ==
    /\ Commit
    /\ UNCHANGED <<link, rows, events, answering, out, tableQueue, announced, refused,
                   gaps, greeted, faults>>

(* ... or for a message of this user.                                      *)
Obey ==
    /\ tableQueue # <<>> /\ Commit
    /\ tableQueue' = Tail(tableQueue)
    /\ UNCHANGED <<link, rows, events, answering, out, announced, refused, gaps, greeted, faults>>

(* RejectedAction and InvalidAction are logged; nothing is sent.           *)
Refuse ==
    /\ tableQueue # <<>> /\ announced = game
    /\ tableQueue' = Tail(tableQueue)
    /\ refused' = refused \cup {Head(tableQueue)}
    /\ UNCHANGED <<link, rows, events, answering, out, game, asks, announced, gaps, greeted, faults>>

(* Mutant: a broadcast that does not belong to a commit.                   *)
AnnounceAnyTime ==
    /\ announced' = announced + 1
    /\ out' = Delivered({c \in Conns : HasRow(c)}, Broadcast(game))
    /\ gaps' = [c \in Conns |-> IF HasRow(c) THEN gaps[c] ELSE gaps[c] \cup {game}]
    /\ UNCHANGED <<link, rows, events, answering, tableQueue, game, asks, refused, greeted, faults>>

(* broadcast_to_sockets: to all rows of the table's path, active or not    *)
Announce ==
    /\ announced < game
    /\ announced' = game
    /\ out' = Delivered({c \in Conns : HasRow(c)}, Broadcast(game))
    /\ gaps' = [c \in Conns |-> IF HasRow(c) THEN gaps[c] ELSE gaps[c] \cup {game}]
    /\ UNCHANGED <<link, rows, events, answering, tableQueue, game, asks, refused, greeted, faults>>

-----------------------------------------------------------------------------
(* The network and time                                                    *)

(* A connection breaks; both ends will hear of it.                         *)
Cut(c) ==
    /\ link[c] = "open" /\ Fault("cut")
    /\ link' = [link EXCEPT ![c] = "cut"]
    /\ out' = [out EXCEPT ![c] = <<>>]
    /\ events' = events \cup {Event(c, "disconnect")}
    /\ UNCHANGED <<rows, answering, heartbeat, gaps, greeted>>

(* Five minutes pass without a message from a connection.                  *)
Age(c) ==
    /\ HasRow(c) /\ ~rows[c].old /\ Fault("silence")
    /\ rows' = [rows EXCEPT ![c].old = TRUE]
    /\ UNCHANGED <<link, events, answering, out, heartbeat, gaps, greeted>>

ServerInit(s) ==
    /\ link = [c \in Conns |-> IF c \in s.conns THEN "unused" ELSE "cut"]
    /\ rows = [c \in Conns |-> NoRow]
    /\ events = {}
    /\ answering = [c \in Conns |-> Idle]
    /\ out = [c \in Conns |-> <<>>]
    /\ tableQueue = <<>>
    /\ game = 1 /\ announced = 1
    /\ asks = s.asks
    /\ gaps = [c \in Conns |-> {}]
    /\ greeted = {} /\ refused = {} /\ faults = s.faults

Work(c) ==
    \/ Accept(c) \/ LoadGame(c) \/ Answer(c)
    \/ OnHello(c) \/ OnPingResponse(c) \/ OnDisconnect(c)
    \/ \E a \in Acts : OnAct(c, a)

Beat == TableMoves \/ Obey \/ Refuse \/ Announce
=============================================================================
