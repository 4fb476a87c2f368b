------------------------------- MODULE TableBeat -------------------------------
(***************************************************************************)
(* The heartbeat processes of one table (poker/tablebeat.py) and the redis *)
(* list through which everybody else talks to the table                    *)
(* (poker/heartbeat_utils.py).                                             *)
(*                                                                         *)
(* A heartbeat loads the table once and then, in a loop, looks at the head *)
(* of the queue, dispatches the message to the controller it keeps in      *)
(* memory, commits the whole table, and pops the message.  Looking at the  *)
(* head is not one command: peek_redis_dispatch pops the message and       *)
(* pushes it back.  Web requests push messages, and start a heartbeat when *)
(* they find no process of one.  A process may be killed (SIGKILL, a       *)
(* crash) or terminated (SIGTERM, which Python turns into SystemExit, so   *)
(* that finally clauses still run) at any of its steps, and it pauses by   *)
(* itself when its table is empty.                                         *)
(*                                                                         *)
(* The state of the table is the sequence of messages applied to it, and   *)
(* version stands for table.modified, which every commit changes.          *)
(***************************************************************************)
EXTENDS Integers, Sequences, FiniteSets, SequencesExt

CONSTANTS
    Beats,      \* processes that may run table_heartbeat for this table
    Starters,   \* web requests and tasks that call start_tablebeat
    Messages,   \* actions that players send, each of them once
    MaxStarts,  \* bound: how many heartbeats are started
    MaxTicks,   \* bound: how often a beat wakes up without a message
    Stops       \* which of "KILL", "TERM" and "PAUSE" end a process

NoMessage == "no message"

ASSUME BeatAssumption ==
    /\ NoMessage \notin Messages
    /\ MaxStarts \in Nat /\ MaxTicks \in Nat
    /\ Stops \subseteq {"KILL", "TERM", "PAUSE"}

VARIABLES
    queue,      \* the redis list of the table
    log,        \* in the database: the messages applied to the table
    version,    \* in the database: table.modified
    pc,         \* what a beat does next
    hand,       \* the message a beat works on
    memLog,     \* the controller of a beat: the messages it has applied,
    memVersion, \* and the table.modified it last saw
    quitting,   \* a beat leaves its loop after the finally clause
    forking,    \* the starters that found no process and will fork one
    starts, ticks,
    sent, handled, stopped  \* history

db      == <<log, version>>
memory  == <<memLog, memVersion>>
control == <<forking, starts>>
history == <<sent, handled, stopped>>
vars == <<queue, db, pc, hand, memory, quitting, control, ticks, history>>

Running == {b \in Beats : pc[b] # "off"}

-----------------------------------------------------------------------------
(* The web side                                                            *)

(* queue_tablebeat_dispatch: rpush                                         *)
Send(m) ==
    /\ m \notin sent
    /\ sent' = sent \cup {m}
    /\ queue' = Append(queue, m)
    /\ UNCHANGED <<db, pc, hand, memory, quitting, control, ticks, handled, stopped>>

(* Mutant: a heartbeat is forked only for a table that never had one.      *)
FindNoBeatEver(s) ==
    /\ Running = {} /\ starts = 0 /\ s \notin forking
    /\ forking' = forking \cup {s}
    /\ UNCHANGED <<queue, db, pc, hand, memory, quitting, starts, ticks, history>>

(* start_tablebeat looks for the pid of a heartbeat of this table ...      *)
FindNoBeat(s) ==
    /\ Running = {} /\ s \notin forking
    /\ forking' = forking \cup {s}
    /\ UNCHANGED <<queue, db, pc, hand, memory, quitting, starts, ticks, history>>

(* ... and forks one when there is none.                                   *)
ForkBeat(s) ==
    /\ s \in forking /\ starts < MaxStarts
    /\ forking' = forking \ {s}
    /\ starts' = starts + 1
    /\ \E b \in Beats \ Running : pc' = [pc EXCEPT ![b] = "load"]
    /\ UNCHANGED <<queue, db, hand, memory, quitting, ticks, history>>

-----------------------------------------------------------------------------
(* The heartbeat                                                           *)

(* The controller is loaded and dispatch_timing_reset commits it.          *)
Load(b) ==
    /\ pc[b] = "load"
    /\ memLog' = [memLog EXCEPT ![b] = log]
    /\ memVersion' = [memVersion EXCEPT ![b] = version + 1]
    /\ version' = version + 1
    /\ quitting' = [quitting EXCEPT ![b] = FALSE]
    /\ hand' = [hand EXCEPT ![b] = NoMessage]
    /\ pc' = [pc EXCEPT ![b] = "peek"]
    /\ UNCHANGED <<queue, log, control, ticks, history>>

(* Mutant: what blpop returns when it times out is pushed back, too.       *)
PeekUnchecked(b) ==
    /\ pc[b] = "peek"
    /\ hand' = [hand EXCEPT ![b] = IF queue = <<>> THEN NoMessage ELSE Head(queue)]
    /\ queue' = IF queue = <<>> THEN queue ELSE Tail(queue)
    /\ pc' = [pc EXCEPT ![b] = "pushback"]
    /\ UNCHANGED <<db, memory, quitting, control, ticks, history>>

(* peek_redis_dispatch: blpop ...                                          *)
Peek(b) ==
    /\ pc[b] = "peek" /\ queue # <<>>
    /\ hand' = [hand EXCEPT ![b] = Head(queue)]
    /\ queue' = Tail(queue)
    /\ pc' = [pc EXCEPT ![b] = "pushback"]
    /\ UNCHANGED <<db, memory, quitting, control, ticks, history>>

(* Mutant: rpush instead of lpush.                                         *)
PushBackLast(b) ==
    /\ pc[b] = "pushback"
    /\ queue' = Append(queue, hand[b])
    /\ pc' = [pc EXCEPT ![b] = "dispatch"]
    /\ UNCHANGED <<db, hand, memory, quitting, control, ticks, history>>

(* ... and lpush.                                                          *)
PushBack(b) ==
    /\ pc[b] = "pushback"
    /\ queue' = <<hand[b]>> \o queue
    /\ pc' = [pc EXCEPT ![b] = "dispatch"]
    /\ UNCHANGED <<db, hand, memory, quitting, control, ticks, history>>

(* controller.commit() writes the whole table and its players from memory. *)
Commit(b, newLog) ==
    /\ memLog' = [memLog EXCEPT ![b] = newLog]
    /\ memVersion' = [memVersion EXCEPT ![b] = version + 1]
    /\ log' = newLog
    /\ version' = version + 1

(* blpop timed out: tablebeat_step plays bots and folds who is out of time *)
(* (or does nothing at all, and looks at table.modified all the same).     *)
Tick(b) ==
    /\ pc[b] = "peek" /\ queue = <<>> /\ ticks < MaxTicks
    /\ ticks' = ticks + 1
    /\ hand' = [hand EXCEPT ![b] = NoMessage]
    /\ Commit(b, memLog[b]) \/ UNCHANGED <<db, memory>>
    /\ pc' = [pc EXCEPT ![b] = "check"]
    /\ UNCHANGED <<queue, quitting, control, history>>

(* dispatch_kick_inactive_players, which looks first whether somebody is   *)
(* to be kicked, commits on its own.                                       *)
Kick(b) ==
    /\ pc[b] = "dispatch" /\ ticks < MaxTicks
    /\ ticks' = ticks + 1
    /\ Commit(b, memLog[b])
    /\ UNCHANGED <<queue, pc, hand, quitting, control, history>>

(* Nobody is seated, or nobody looks, or the tournament is over: the loop  *)
(* is left, also with a message at hand, which the finally clause pops.    *)
Pause(b) ==
    /\ "PAUSE" \in Stops
    /\ \/ pc[b] = "peek" /\ queue = <<>> /\ hand' = [hand EXCEPT ![b] = NoMessage]
       \/ pc[b] = "dispatch" /\ UNCHANGED hand
    /\ quitting' = [quitting EXCEPT ![b] = TRUE]
    /\ pc' = [pc EXCEPT ![b] = "pop"]
    /\ stopped' = stopped + 1
    /\ UNCHANGED <<queue, db, memory, control, ticks, sent, handled>>

(* The message is dispatched, and committed with all that step() did.      *)
Apply(b) ==
    /\ pc[b] = "dispatch"
    /\ Commit(b, Append(memLog[b], hand[b]))
    /\ handled' = [handled EXCEPT ![hand[b]] = @ + 1]
    /\ pc' = [pc EXCEPT ![b] = "check"]
    /\ UNCHANGED <<queue, hand, quitting, control, ticks, sent, stopped>>

(* RejectedAction and InvalidAction are logged; any other exception stops  *)
(* the process (POKER_PAUSE_ON_EXCEPTION).  Neither commits.               *)
Refuse(b, stops) ==
    /\ pc[b] = "dispatch"
    /\ handled' = [handled EXCEPT ![hand[b]] = @ + 1]
    /\ quitting' = [quitting EXCEPT ![b] = stops]
    /\ pc' = [pc EXCEPT ![b] = "pop"]
    /\ UNCHANGED <<queue, db, hand, memory, control, ticks, sent, stopped>>

(* After the step: if somebody else wrote the table, an exception stops    *)
(* the process.                                                            *)
CheckModified(b) ==
    /\ pc[b] = "check"
    /\ quitting' = [quitting EXCEPT ![b] = version # memVersion[b]]
    /\ pc' = [pc EXCEPT ![b] = "pop"]
    /\ UNCHANGED <<queue, db, hand, memory, control, ticks, history>>

(* Mutant: the assertion on the popped message is removed.                 *)
AfterLoopUnasserted(b, ok) == pc' = [pc EXCEPT ![b] = IF ~quitting[b] THEN "peek" ELSE "off"]

(* The finally clause pops the queue and asserts that it got the message   *)
(* back; blpop gives up on an empty queue after HEARTBEAT_POLL seconds.    *)
AfterLoop(b, ok) == pc' = [pc EXCEPT ![b] = IF ok /\ ~quitting[b] THEN "peek" ELSE "off"]

(* Mutant: a message whose dispatch stops the process stays in the queue.  *)
PopUnlessQuitting(b) ==
    /\ pc[b] = "pop"
    /\ \/ /\ hand[b] = NoMessage \/ quitting[b]
          /\ AfterLoop(b, TRUE) /\ UNCHANGED queue
       \/ /\ hand[b] # NoMessage /\ ~quitting[b] /\ queue # <<>>
          /\ queue' = Tail(queue)
          /\ AfterLoop(b, Head(queue) = hand[b])
       \/ /\ hand[b] # NoMessage /\ ~quitting[b] /\ queue = <<>>
          /\ AfterLoop(b, FALSE) /\ UNCHANGED queue
    /\ UNCHANGED <<db, hand, memory, quitting, control, ticks, history>>

Pop(b) ==
    /\ pc[b] = "pop"
    /\ \/ /\ hand[b] = NoMessage
          /\ AfterLoop(b, TRUE) /\ UNCHANGED queue
       \/ /\ hand[b] # NoMessage /\ queue # <<>>
          /\ queue' = Tail(queue)
          /\ AfterLoop(b, Head(queue) = hand[b])
       \/ /\ hand[b] # NoMessage /\ queue = <<>>
          /\ AfterLoop(b, FALSE) /\ UNCHANGED queue
    /\ UNCHANGED <<db, hand, memory, quitting, control, ticks, history>>

-----------------------------------------------------------------------------
(* Stopping a process                                                      *)

(* SIGKILL, or the machine goes down.                                      *)
Kill(b) ==
    /\ "KILL" \in Stops /\ b \in Running
    /\ pc' = [pc EXCEPT ![b] = "off"]
    /\ stopped' = stopped + 1
    /\ UNCHANGED <<queue, db, hand, memory, quitting, control, ticks, sent, handled>>

(* SIGTERM (stop_tablebeat) raises SystemExit: inside the try the finally  *)
(* clause still pops the message, elsewhere the process is gone.           *)
Terminate(b) ==
    /\ "TERM" \in Stops /\ b \in Running
    /\ stopped' = stopped + 1
    /\ IF pc[b] \in {"dispatch", "check"}
       THEN /\ pc' = [pc EXCEPT ![b] = "pop"]
            /\ quitting' = [quitting EXCEPT ![b] = TRUE]
       ELSE /\ pc' = [pc EXCEPT ![b] = "off"]
            /\ UNCHANGED quitting
    /\ UNCHANGED <<queue, db, hand, memory, control, ticks, sent, handled>>

-----------------------------------------------------------------------------
Init ==
    /\ queue = <<>> /\ log = <<>> /\ version = 0
    /\ pc = [b \in Beats |-> "off"]
    /\ hand = [b \in Beats |-> NoMessage]
    /\ memLog = [b \in Beats |-> <<>>] /\ memVersion = [b \in Beats |-> 0]
    /\ quitting = [b \in Beats |-> FALSE]
    /\ forking = {} /\ starts = 0 /\ ticks = 0
    /\ sent = {} /\ handled = [m \in Messages |-> 0]
    /\ stopped = 0

Beat(b) ==
    \/ Load(b) \/ Peek(b) \/ PushBack(b) \/ Tick(b) \/ Kick(b) \/ Pause(b)
    \/ Apply(b) \/ (\E stops \in BOOLEAN : Refuse(b, stops))
    \/ CheckModified(b) \/ Pop(b)

Start(s) == FindNoBeat(s) \/ ForkBeat(s)

Next ==
    \/ \E m \in Messages : Send(m)
    \/ \E s \in Starters : Start(s)
    \/ \E b \in Beats : Beat(b) \/ Kill(b) \/ Terminate(b)

Spec == Init /\ [][Next]_vars

(* A process that is not stopped goes on.  A table that is looked at has a *)
(* heartbeat started again: every page view, JOIN_TABLE and the AWAKEN of  *)
(* a frontend that hears nothing call start_tablebeat.                     *)
Fairness ==
    /\ \A b \in Beats : WF_vars(Beat(b))
    /\ \A s \in Starters : WF_vars(Start(s))

FairSpec == Spec /\ Fairness

-----------------------------------------------------------------------------
TypeOK ==
    /\ queue \in Seq(Messages) /\ log \in Seq(Messages)
    /\ version \in Nat /\ memVersion \in [Beats -> Nat]
    /\ pc \in [Beats -> {"off", "load", "peek", "pushback", "dispatch", "check", "pop"}]
    /\ hand \in [Beats -> Messages \cup {NoMessage}]
    /\ memLog \in [Beats -> Seq(Messages)]
    /\ quitting \in [Beats -> BOOLEAN]
    /\ forking \subseteq Starters
    /\ starts \in Nat /\ ticks \in Nat /\ stopped \in Nat
    /\ sent \subseteq Messages /\ handled \in [Messages -> Nat]

(* Where a message still is: in the queue or in the hand of a beat that    *)
(* has not pushed it back yet.                                             *)
Waiting(m) ==
    \/ \E i \in DOMAIN queue : queue[i] = m
    \/ \E b \in Beats : pc[b] = "pushback" /\ hand[b] = m

Lost == {m \in sent : ~Waiting(m) /\ handled[m] = 0}

(* tablebeat_loop's promise: peek, then pop once finished, to guarantee    *)
(* that a message is dispatched at least once.                             *)
AtLeastOnce == Lost = {}

(* The dispatches of a message after its first one.                        *)
Repeats == UNION {{m} \X (2..handled[m]) : m \in Messages}

(* A stop costs at most the one message the process works on: it is lost   *)
(* when it is between the pop and the push of a peek or is popped by the   *)
(* finally clause without having been dispatched, and dispatched again     *)
(* when it was committed and not popped.                                   *)
StopCostsOneMessage == Cardinality(Lost) + Cardinality(Repeats) <= stopped

(* When two requests each found no process and two heartbeats race for the *)
(* queue, one pops what the other one looked at, and what it did not       *)
(* dispatch itself.  Still no process that goes on has lost a message, and *)
(* one that has ended, in whatever way, has lost one at most.              *)
EachBeatLosesOneAtMost == Cardinality(Lost) <= starts - Cardinality(Running)

(* Even when two processes race for the queue a message is not multiplied: *)
(* each process dispatches it at most once.                                *)
OncePerProcess == \A m \in Messages : handled[m] <= starts

(* The comment on the check in tablebeat_loop: complain if someone else    *)
(* changes DB data besides the controller.  When a commit undoes what      *)
(* another process committed, the check that follows it should tell.       *)
OverwriteIsNoticed ==
    [][~IsPrefix(log, log') =>
          \E b \in Beats : pc'[b] = "check" /\ memVersion'[b] # version']_vars

(* The queue is a queue, for the one process that reads it: messages are   *)
(* applied in the order they came and a commit never undoes another one.   *)
Pending ==
    IF \E b \in Beats : pc[b] = "pushback"
    THEN <<hand[CHOOSE b \in Beats : pc[b] = "pushback"]>> \o queue
    ELSE queue

Q == INSTANCE MessageQueue WITH pending <- Pending, done <- log
ImplementsQueue == Q!QueueSpec

(* Every message is dispatched or lost with the process that worked on it: *)
(* none waits in the queue forever, though processes stop and restart.     *)
NoMessageWaitsForever ==
    \A m \in Messages :
        Waiting(m) ~> (~Waiting(m) \/ (starts = MaxStarts /\ Running = {}))

=============================================================================
