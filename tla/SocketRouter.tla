----------------------------- MODULE SocketRouter -----------------------------
(***************************************************************************)
(* The browser's end of a websocket: the SocketRouter of                   *)
(* core/js/websocket/main.js, one per open page.                           *)
(*                                                                         *)
(* A router has at most one connection.  It is ready when the server has   *)
(* answered the HELLO that it sends on every new connection; an action of  *)
(* the user waits for that in a queue, a control message (HELLO, PING) is  *)
(* sent at once.  When the connection closes the router waits some         *)
(* seconds and makes another one.  Messages are numbered as they arrive    *)
(* and dispatched to the redux store later, when the browser is idle.      *)
(***************************************************************************)
EXTENDS Sockets, SequencesExt

VARIABLES
    page,       \* a page is "closed", "open" or "left"
    socket,     \* the connection of a page, or NoSocket
    ready,      \* GOT_HELLO has been received
    queue,      \* the actions that wait for it
    timer,      \* disconnected_timeout is set
    recvSeqNum, \* number of the next message received
    inbox       \* messages that requestIdleCallback will dispatch

routerVars == <<page, socket, ready, queue, timer, recvSeqNum, inbox>>

NoSocket     == "no socket"
PingResponse == "PING_RESPONSE"

ASSUME RouterAssumption == NoSocket \notin Conns

RouterInit(s) ==
    /\ page = [p \in Pages |-> IF p \in s.pages THEN "closed" ELSE "left"]
    /\ socket = [p \in Pages |-> NoSocket]
    /\ ready = [p \in Pages |-> FALSE]
    /\ queue = [p \in Pages |-> <<>>]
    /\ timer = [p \in Pages |-> FALSE]
    /\ recvSeqNum = [p \in Pages |-> 0]
    /\ inbox = [p \in Pages |-> <<>>]

Unused == {c \in Conns : link[c] = "unused"}

(* What the server will see of a message that is sent on a connection: a   *)
(* browser that does not know yet that it is cut sends into the void.      *)
EventOf(c, m) == IF m \in Acts THEN ActEvent(c, m) ELSE Event(c, m)
Sent(c, ms)   == IF link[c] = "open" THEN events \cup {EventOf(c, m) : m \in ms} ELSE events

Restarted(p) == queue' = queue /\ timer' = [timer EXCEPT ![p] = FALSE]

(* _setupSocket: new WebSocket                                             *)
SetupSocket(p) ==
    \E c \in Unused :
        /\ socket' = [socket EXCEPT ![p] = c]
        /\ link' = [link EXCEPT ![c] = "open"]
        /\ events' = events \cup {Event(c, "connect")}
        /\ ready' = [ready EXCEPT ![p] = FALSE]
        /\ Restarted(p)

(* The constructor                                                         *)
Load(p) ==
    /\ page[p] = "closed"
    /\ page' = [page EXCEPT ![p] = "open"]
    /\ SetupSocket(p)
    /\ UNCHANGED <<rows, answering, out, heartbeat, gaps, greeted, faults, recvSeqNum, inbox>>

(* The timer of close goes off.                                            *)
Reopen(p) ==
    /\ page[p] = "open" /\ timer[p]
    /\ SetupSocket(p)
    /\ UNCHANGED <<rows, answering, out, heartbeat, gaps, greeted, faults, page, recvSeqNum, inbox>>

(* Mutant: an open connection is ready.                                    *)
OnOpenReady(p) ==
    LET c == socket[p] IN
    /\ c \in Conns /\ out[c] # <<>> /\ Head(out[c]) = Accepted
    /\ out' = [out EXCEPT ![c] = Tail(@)]
    /\ events' = Sent(c, {"HELLO"} \cup ToSet(queue[p]))
    /\ ready' = [ready EXCEPT ![p] = TRUE]
    /\ queue' = [queue EXCEPT ![p] = <<>>]
    /\ UNCHANGED <<link, rows, answering, heartbeat, gaps, greeted, faults,
                   page, socket, timer, recvSeqNum, inbox>>

(* send_json of an action: on the socket when ready, or queued.            *)
SendJson(p, m) ==
    IF ready[p]
    THEN events' = Sent(socket[p], {m}) /\ UNCHANGED queue
    ELSE queue' = [queue EXCEPT ![p] = Append(@, m)] /\ UNCHANGED events

(* send_json of a HELLO or a PING: ready or not, on the socket there is.   *)
(* (Both are sent by handlers of the socket's own events: what happens     *)
(* without a socket, nothing, does not come up.)                           *)
SendControl(p, m) == events' = Sent(socket[p], {m}) /\ UNCHANGED queue

(* The handshake is finished: _onopen says HELLO.  Its _flush does nothing *)
(* because ready is still false.                                           *)
OnOpen(p) ==
    LET c == socket[p] IN
    /\ c \in Conns /\ out[c] # <<>> /\ Head(out[c]) = Accepted
    /\ out' = [out EXCEPT ![c] = Tail(@)]
    /\ SendControl(p, "HELLO")
    /\ UNCHANGED <<link, rows, answering, heartbeat, gaps, greeted, faults,
                   page, socket, ready, timer, recvSeqNum, inbox>>

(* Mutant: the count of received messages starts again.                    *)
CloseForgetting(p) ==
    /\ timer' = [timer EXCEPT ![p] = TRUE]
    /\ ready' = [ready EXCEPT ![p] = FALSE]
    /\ socket' = [socket EXCEPT ![p] = NoSocket]
    /\ recvSeqNum' = [recvSeqNum EXCEPT ![p] = 0]

(* Mutant: only a connection that was ready is made again.                 *)
CloseOnlyWhenReady(p) ==
    /\ timer' = [timer EXCEPT ![p] = ready[p]]
    /\ ready' = [ready EXCEPT ![p] = FALSE]
    /\ socket' = [socket EXCEPT ![p] = NoSocket]
    /\ UNCHANGED recvSeqNum

(* close(reopen), from onclose; recv_seq_num goes on counting.             *)
Close(p) ==
    /\ timer' = [timer EXCEPT ![p] = TRUE]
    /\ ready' = [ready EXCEPT ![p] = FALSE]
    /\ socket' = [socket EXCEPT ![p] = NoSocket]
    /\ UNCHANGED recvSeqNum

OnClose(p) ==
    /\ socket[p] \in Conns /\ link[socket[p]] = "cut"
    /\ Close(p)
    /\ UNCHANGED <<serverVars, page, queue, inbox>>

(* The page is left: close(false), and the server sees a goodbye.          *)
Unload(p) ==
    /\ page[p] = "open" /\ Fault("leave")
    /\ page' = [page EXCEPT ![p] = "left"]
    /\ IF socket[p] \in Conns /\ link[socket[p]] = "open"
       THEN /\ link' = [link EXCEPT ![socket[p]] = "cut"]
            /\ out' = [out EXCEPT ![socket[p]] = <<>>]
            /\ events' = events \cup {Event(socket[p], "goodbye")}
       ELSE UNCHANGED <<link, out, events>>
    /\ ready' = [ready EXCEPT ![p] = FALSE]
    /\ socket' = [socket EXCEPT ![p] = NoSocket]
    /\ queue' = [queue EXCEPT ![p] = <<>>]
    /\ timer' = [timer EXCEPT ![p] = FALSE]
    /\ inbox' = [inbox EXCEPT ![p] = <<>>]
    /\ UNCHANGED <<rows, answering, heartbeat, gaps, greeted, recvSeqNum>>

(* _onmessage numbers a message and leaves it for an idle moment.          *)
Received(p, m) ==
    /\ out' = [out EXCEPT ![socket[p]] = Tail(@)]
    /\ recvSeqNum' = [recvSeqNum EXCEPT ![p] = @ + 1]
    /\ inbox' = [inbox EXCEPT ![p] = Append(@, [msg |-> m, seq |-> recvSeqNum[p]])]
    /\ UNCHANGED <<link, rows, answering, heartbeat, gaps, greeted, faults, page, socket, timer>>

Incoming(p) ==
    IF socket[p] \in Conns /\ out[socket[p]] # <<>> THEN Head(out[socket[p]]) ELSE Accepted

OnGamestate(p) ==
    /\ Incoming(p).type = "UPDATE_GAMESTATE"
    /\ Received(p, Incoming(p))
    /\ UNCHANGED <<events, ready, queue>>

(* Mutant: what is flushed stays in the queue.                             *)
OnGotHelloKeepingAll(p) ==
    /\ Incoming(p) = GotHello
    /\ Received(p, GotHello)
    /\ ready' = [ready EXCEPT ![p] = TRUE]
    /\ events' = Sent(socket[p], ToSet(queue[p]))
    /\ UNCHANGED queue

(* The queue is flushed.  The workers take events in any order, so the     *)
(* order in which _flush sends (the newest first) makes no difference.     *)
OnGotHello(p) ==
    /\ Incoming(p) = GotHello
    /\ Received(p, GotHello)
    /\ ready' = [ready EXCEPT ![p] = TRUE]
    /\ events' = Sent(socket[p], ToSet(queue[p]))
    /\ queue' = [queue EXCEPT ![p] = <<>>]

(* A PING is answered at once, also by a page that waits for its GOT_HELLO *)
(* (its type is PING too, PING_RESPONSE only tells the answer apart here). *)
OnPing(p) ==
    /\ Incoming(p) = Ping
    /\ Received(p, Ping)
    /\ SendControl(p, PingResponse)
    /\ UNCHANGED ready
=============================================================================
