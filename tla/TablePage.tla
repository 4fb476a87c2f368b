------------------------------- MODULE TablePage -------------------------------
(***************************************************************************)
(* The pages of a table that one user has open (core/js/pages/table.js):   *)
(* every page has a router (SocketRouter) and a view (TableView), all of   *)
(* them talk to the same workers and see what the same heartbeat announces *)
(* (Sockets).                                                              *)
(***************************************************************************)
EXTENDS SocketRouter

VARIABLES version, frames, batches, submitted, refreshed, skipped, issued

View == INSTANCE TableView WITH Screens <- Pages

viewVars == <<version, frames, batches, submitted, refreshed, skipped>>
vars == <<serverVars, routerVars, viewVars, issued>>

Nobody    == "nobody"
Elsewhere == "elsewhere"

ASSUME PageAssumption == Pages \cap {Nobody, Elsewhere} = {}

(* Bound: a page is only loaded, and a connection only lost, when there is *)
(* a connection left for everybody who waits for one.                      *)
Waiting == {p \in Pages : page[p] = "open" /\ (timer[p] \/ (socket[p] \in Conns /\ link[socket[p]] = "cut"))}
Spare   == Cardinality(Unused) > Cardinality(Waiting)

Init ==
    \E s \in Scenes :
        /\ ServerInit(s) /\ RouterInit(s) /\ View!ViewInit(s.refresh)
        /\ issued = [a \in Acts |-> IF a \in s.acts THEN Nobody ELSE Elsewhere]

(* Table.init: the page was rendered with the gamestate of this moment.    *)
OpenPage(p) ==
    /\ Spare /\ Load(p) /\ View!Mount(p, game)
    /\ UNCHANGED issued

(* The redux store gets a message; only gamestates matter to the view.     *)
Dispatch(p) ==
    /\ inbox[p] # <<>>
    /\ inbox' = [inbox EXCEPT ![p] = Tail(@)]
    /\ LET m == Head(inbox[p]).msg IN
       IF m.type = "UPDATE_GAMESTATE"
       THEN View!UpdateGamestate(p, Head(inbox[p]).seq, m.game, m.animated,
                                 asks[m.game] # "out")
       ELSE UNCHANGED viewVars
    /\ UNCHANGED <<serverVars, page, socket, ready, queue, timer, recvSeqNum, issued>>

(* The user clicks a button that the page shows, and the page shows them   *)
(* when the gamestate on it waits for the user.                            *)
Submit(p, a) ==
    /\ page[p] = "open" /\ issued[a] = Nobody
    /\ asks[View!Shown(p)] = "act"
    /\ View!SubmitAction(p)
    /\ issued' = [issued EXCEPT ![a] = p]
    /\ SendJson(p, a)
    /\ UNCHANGED <<link, rows, answering, out, heartbeat, gaps, greeted, faults,
                   page, socket, ready, timer, recvSeqNum, inbox>>

Browse(p) ==
    /\ page[p] = "open"
    /\ View!Refresh(p) \/ View!Frame(p) \/ View!Animate(p)
    /\ UNCHANGED <<serverVars, routerVars, issued>>

Leave(p) ==
    /\ Unload(p)
    /\ UNCHANGED <<viewVars, issued>>

Receive(p) ==
    /\ OnOpen(p) \/ OnGamestate(p) \/ OnGotHello(p) \/ OnPing(p)
    /\ UNCHANGED <<viewVars, issued>>

Reconnect(p) ==
    /\ OnClose(p) \/ Reopen(p)
    /\ UNCHANGED <<viewVars, issued>>

Server(c) ==
    /\ Work(c)
    /\ UNCHANGED <<routerVars, viewVars, issued>>

Table ==
    /\ Beat
    /\ UNCHANGED <<routerVars, viewVars, issued>>

Network(c) ==
    /\ (Spare /\ Cut(c)) \/ Age(c)
    /\ UNCHANGED <<routerVars, viewVars, issued>>

Next ==
    \/ \E p \in Pages : \/ OpenPage(p) \/ Dispatch(p) \/ Browse(p) \/ Leave(p)
                        \/ Receive(p) \/ Reconnect(p)
                        \/ \E a \in Acts : Submit(p, a)
    \/ \E c \in Conns : Server(c) \/ Network(c)
    \/ Table

(* Somebody on each side goes on: a worker takes an event or the heartbeat *)
(* announces what it has committed; a page dispatches, paints, reconnects. *)
ServerSide  == (Table /\ announced' # announced) \/ \E c \in Conns : Server(c)
BrowserSide == \E p \in Pages : \/ Dispatch(p) \/ Receive(p) \/ Reconnect(p)
                                \/ Browse(p) /\ UNCHANGED refreshed

Fairness == WF_vars(ServerSide) /\ WF_vars(BrowserSide)

Spec     == Init /\ [][Next]_vars
FairSpec == Spec /\ Fairness

-----------------------------------------------------------------------------
(* Properties                                                              *)

Games == DOMAIN asks

Messages == {Accepted, GotHello, Ping} \cup [type : {"UPDATE_GAMESTATE"},
                                            game : Games, animated : BOOLEAN]
BatchType == [from : Games, to : Games, after : Nat,
              phase : {"waiting", "running", "ended"}]

EventTypes ==
    {Event(c, kind) : c \in Conns,
                      kind \in {"connect", "disconnect", "goodbye", "HELLO", PingResponse}}
    \cup {ActEvent(c, a) : c \in Conns, a \in Acts}

(* Every variable keeps its type.                                          *)
TypeOK ==
    /\ link \in [Conns -> {"unused", "open", "cut"}]
    /\ rows \in [Conns -> [exists : BOOLEAN, active : BOOLEAN, old : BOOLEAN]]
    /\ events \subseteq EventTypes
    /\ answering \in [Conns -> [step : {"idle", "load", "send"}, game : Games \cup {0}]]
    /\ out \in [Conns -> Seq(Messages)]
    /\ tableQueue \in Seq(Acts \cup {Closed})
    /\ game \in Games /\ asks \in Seq({"act", "wait", "out"})
    /\ announced \in 1..game
    /\ gaps \in [Conns -> SUBSET (Games)]
    /\ greeted \subseteq Conns /\ refused \subseteq Acts \cup {Closed}
    /\ page \in [Pages -> {"closed", "open", "left"}]
    /\ socket \in [Pages -> Conns \cup {NoSocket}]
    /\ ready \in [Pages -> BOOLEAN] /\ timer \in [Pages -> BOOLEAN]
    /\ queue \in [Pages -> Seq(Acts)]
    /\ recvSeqNum \in [Pages -> Nat]
    /\ inbox \in [Pages -> Seq([msg : Messages, seq : Nat])]
    /\ version \in [Pages -> Nat \cup {-1}]
    /\ frames \in [Pages -> Seq(BatchType)]
    /\ batches \in [Pages -> Seq(BatchType)]
    /\ submitted \in [Pages -> BOOLEAN] /\ refreshed \in [Pages -> {"never", "due", "done"}]
    /\ skipped \in [Pages -> SUBSET (Games)]
    /\ issued \in [Acts -> Pages \cup {Nobody, Elsewhere}]

(* A page is at rest when it is connected and has heard, shown and         *)
(* animated everything there is.                                           *)
AtRest(p) ==
    /\ page[p] = "open" /\ ready[p]
    /\ socket[p] \in Conns /\ link[socket[p]] = "open"
    /\ out[socket[p]] = <<>> /\ answering[socket[p]] = Idle
    /\ inbox[p] = <<>> /\ frames[p] = <<>> /\ View!AllEnded(p)
    /\ announced = game

(* A page at rest shows the gamestate the table is in.  There are two      *)
(* exceptions: it was announced while the connection of the page had no    *)
(* row (what the connect handler sends later is not animated, so it does   *)
(* not make up for it), or its number was that of the empty                *)
(* UPDATE_GAMESTATE of the page.                                           *)
RestingPageIsCurrent ==
    \A p \in Pages :
        AtRest(p) => \/ View!Shown(p) = game
                     \/ game \in gaps[socket[p]]
                     \/ game \in skipped[p]

(* The animations of a gamestate are only passed over because of the empty *)
(* UPDATE_GAMESTATE, and only those of one.                                *)
SkippedOnceAtMost ==
    \A p \in Pages : skipped[p] # {} => refreshed[p] = "done" /\ Cardinality(skipped[p]) = 1

(* A page never animates towards an older gamestate than before, although  *)
(* the connect handler may send an old one after a new one was broadcast.  *)
(* (It may go back to the beginning of the one it shows: a page rendered   *)
(* between the commit and the broadcast of a gamestate replays it.)        *)
ViewNeverGoesBack ==
    [][\A p \in Pages : page[p] = "open" => View!Towards(p) <= View!Towards(p)']_vars

(* No action is sent on a connection whose HELLO the server has not        *)
(* answered, whatever waited in the queue when the connection opened and   *)
(* however many were lost before.  (The answer to a PING may be.)          *)
HelloComesFirst ==
    \A e \in events : e.kind = "ACT" => e.conn \in greeted

(* An action is in one place at a time: in the queue of a page, on its way *)
(* to a worker, on its way to the heartbeat, or refused; it is never sent  *)
(* again when a page reconnects.                                           *)
Places(a) ==
    {<<"queue", p>> : p \in {q \in Pages : a \in ToSet(queue[q])}}
    \cup {<<"event", c>> : c \in {d \in Conns : ActEvent(d, a) \in events}}
    \cup {<<"table", i>> : i \in {j \in DOMAIN tableQueue : tableQueue[j] = a}}
    \cup {<<"refused", r>> : r \in refused \cap {a}}

SentOnce == \A a \in Acts : Cardinality(Places(a)) <= 1

(* A connection that is alive, greeted or not, has a row, or somebody is   *)
(* about to give it one again: the sockets that cleanup_stale deletes for  *)
(* their silence are asked for a PING, and their answer creates the row.   *)
AliveHasRow ==
    \A p \in Pages :
        socket[p] \in Conns /\ link[socket[p]] = "open" =>
            \/ HasRow(socket[p])
            \/ answering[socket[p]] # Idle
            \/ Ping \in ToSet(out[socket[p]])
            \/ \E e \in events : e.conn = socket[p]

(* The user's buttons only stay away, when the table waits for the user,   *)
(* while an action of the page is on its way or after one was refused.     *)
Pending(a) == Places(a) # {}

ButtonsWaitForAnAnswer ==
    \A p \in Pages :
        (AtRest(p) /\ submitted[p] /\ asks[game] = "act" /\ game \notin gaps[socket[p]])
            => \E a \in Acts : issued[a] = p /\ Pending(a)

(* However connections break and in whatever order the workers take        *)
(* events, there is always a moment to come when every open page is        *)
(* connected, greeted, and shows all it has heard.                         *)
PagesComeToRest == []<>(\A p \in Pages : page[p] = "open" => AtRest(p))
=============================================================================
