-------------------------------- MODULE Botbeat --------------------------------
(***************************************************************************)
(* The process that plays for the bots of all tables (poker/botbeat.py).   *)
(* A heartbeat of a table that finds a bot next puts the table on the list *)
(* of the bots' process (tablebeat_step, poker/tablebeat.py).  That takes  *)
(* a copy of the list, looks at one table after the other in the database, *)
(* and when it has a move it pushes it to the queue of that table.  It     *)
(* does not say which entry it takes off: it pops as many as it has put    *)
(* back at the end, and one for the move.                                  *)
(*                                                                         *)
(* A heartbeat is the one of TableBeat, without its stops in the middle    *)
(* and with an action for each of its two commands on the bots' list.  Of  *)
(* a game the model knows how many turns it has seen and whether a bot is  *)
(* next.                                                                   *)
(***************************************************************************)
EXTENDS Integers, Sequences, FiniteSets, SequencesExt

CONSTANTS
    Tables,
    LastTurn,   \* bound: how many turns a table sees; no bot is next in the last
    MaxStops,   \* bound: how often the bots' process crashes
    Starts      \* how much of the two bounds is used up in the beginning

ASSUME BotbeatAssumption ==
    /\ LastTurn \in [Tables -> Nat] /\ MaxStops \in Nat
    /\ Starts \subseteq [turn : [Tables -> Nat], stops : 0 .. MaxStops]

VARIABLES
    queue,      \* the redis list REDIS_BOTBEAT_KEY
    turn,       \* of a table: its turns so far,
    robot,      \* robot_is_next in what it has committed,
    rested,     \* the bot has waited as long as it wants to,
    inbox,      \* the moves in its queue, each the turn it was made for,
    beat,       \* where its heartbeat is
    pc,         \* where the bots' process is
    listed,     \* its copy of the list,
    i,          \* where in listed, then in delayed, it is,
    seen,       \* the turn of the table when it fetched it,
    delayed,    \* the tables whose bots want to wait,
    move,       \* the move it has, and
    stops       \* how often it has crashed

tableVars == <<turn, robot, rested, inbox>>
botVars   == <<pc, listed, i, seen, delayed, move, stops>>
vars      == <<queue, tableVars, beat, botVars>>

NoMove == <<>>

-----------------------------------------------------------------------------
(* The tables                                                              *)

NextTurn(t) ==
    /\ turn[t] < LastTurn[t]
    /\ turn' = [turn EXCEPT ![t] = @ + 1]
    /\ \E bot \in IF turn[t] + 1 = LastTurn[t] THEN {FALSE} ELSE BOOLEAN :
          robot' = [robot EXCEPT ![t] = bot]
    /\ rested' = [rested EXCEPT ![t] = FALSE]

SameTurn == UNCHANGED <<turn, robot, rested>>

(* get_delay: a bot wants some time to have passed since the last action.  *)
Rest(t) ==
    /\ robot[t] /\ ~rested[t]
    /\ rested' = [rested EXCEPT ![t] = TRUE]
    /\ UNCHANGED <<queue, turn, robot, inbox, beat, botVars>>

Goes(t, step) == beat' = [beat EXCEPT ![t] = step]

(* A message of a person is dispatched, and it is that person's turn; the  *)
(* model does not need to know how long it was in the queue.               *)
DispatchPerson(t) ==
    /\ beat[t] = "peek" /\ ~robot[t]
    /\ NextTurn(t) /\ Goes(t, "clock")
    /\ UNCHANGED <<queue, inbox, botVars>>

(* A bot's move is dispatched, committed and popped.  One for a turn that  *)
(* is over is rejected, or played all the same if the bot is next again.   *)
DispatchMove(t) ==
    /\ beat[t] = "peek" /\ inbox[t] # <<>>
    /\ \/ robot[t] /\ NextTurn(t) /\ Goes(t, "clock")
       \/ Head(inbox[t]) # turn[t] /\ SameTurn /\ Goes(t, "peek")
    /\ inbox' = [inbox EXCEPT ![t] = Tail(@)]
    /\ UNCHANGED <<queue, botVars>>

(* No message has come: dispatch_sit_in_for_bots may start a hand ...      *)
Idle(t) ==
    /\ beat[t] = "peek" /\ inbox[t] = <<>>
    /\ SameTurn \/ (~robot[t] /\ NextTurn(t))
    /\ Goes(t, "look")
    /\ UNCHANGED <<queue, inbox, botVars>>

(* Mutant: a table is only put on an empty list.                           *)
LookForAny(t) ==
    /\ beat[t] = "look"
    /\ Goes(t, IF robot[t] /\ queue = <<>> THEN "push" ELSE "clock")
    /\ UNCHANGED <<queue, tableVars, botVars>>

(* ... and if a bot is next and the table not on the list ...              *)
Look(t) ==
    /\ beat[t] = "look"
    /\ Goes(t, IF robot[t] /\ t \notin ToSet(queue) THEN "push" ELSE "clock")
    /\ UNCHANGED <<queue, tableVars, botVars>>

(* ... it is put there.                                                    *)
Push(t) ==
    /\ beat[t] = "push"
    /\ queue' = Append(queue, t)
    /\ Goes(t, "clock")
    /\ UNCHANGED <<tableVars, botVars>>

(* timed_dispatch: who is next may be out of time.                         *)
TimedDispatch(t) ==
    /\ beat[t] = "clock"
    /\ SameTurn \/ NextTurn(t)
    /\ Goes(t, "peek")
    /\ UNCHANGED <<queue, inbox, botVars>>

(* Nobody looks at the table any more, and what was at hand is popped; ... *)
Pause(t) ==
    /\ beat[t] = "peek"
    /\ inbox' = [inbox EXCEPT ![t] = IF @ = <<>> THEN @ ELSE Tail(@)]
    /\ Goes(t, "paused")
    /\ UNCHANGED <<queue, turn, robot, rested, botVars>>

(* ... somebody does again: dispatch_timing_reset starts the time anew.    *)
Awaken(t) ==
    /\ beat[t] = "paused"
    /\ rested' = [rested EXCEPT ![t] = FALSE]
    /\ Goes(t, "peek")
    /\ UNCHANGED <<queue, turn, robot, inbox, botVars>>

-----------------------------------------------------------------------------
(* botbeat_step                                                            *)

(* Mutant: the delayed tables of the last round are not forgotten.         *)
ListOnTop ==
    /\ pc = "list" /\ queue # <<>>
    /\ pc' = "fetch" /\ listed' = queue /\ i' = 1 /\ move' = NoMove
    /\ UNCHANGED <<queue, tableVars, beat, seen, delayed, stops>>

(* list_botbeat_dispatch; with an empty list there is nothing to do.       *)
List ==
    /\ pc = "list" /\ queue # <<>>
    /\ pc' = "fetch" /\ listed' = queue /\ i' = 1
    /\ delayed' = <<>> /\ move' = NoMove
    /\ UNCHANGED <<queue, tableVars, beat, seen, stops>>

(* The row of the table is read ...                                        *)
Fetch ==
    /\ pc = "fetch"
    /\ seen' = turn[listed[i]]
    /\ pc' = "think"
    /\ UNCHANGED <<queue, tableVars, beat, listed, i, delayed, move, stops>>

(* ... and then those of its players: if they have been saved in between,  *)
(* the two do not agree, and whatever comes of it is possible.             *)
Finds(isNext, hasRested) ==
    LET t == listed[i]
    IN  turn[t] = seen => robot[t] = isNext /\ (isNext => rested[t] = hasRested)

NextTable ==
    IF i < Len(listed) THEN pc' = "fetch" /\ i' = i + 1
    ELSE pc' = "rotate" /\ i' = 1

(* No bot is next: the table is neither delayed nor taken off the list.    *)
PassOver ==
    /\ pc = "think"
    /\ Finds(FALSE, FALSE) \/ Finds(FALSE, TRUE)
    /\ NextTable
    /\ UNCHANGED <<queue, tableVars, beat, listed, seen, delayed, move, stops>>

(* Mutant: what get_robot_move returns is delayed, not the table.          *)
DelayMove ==
    /\ pc = "think"
    /\ Finds(TRUE, FALSE)
    /\ delayed' = Append(delayed, NoMove)
    /\ NextTable
    /\ UNCHANGED <<queue, tableVars, beat, listed, seen, move, stops>>

(* get_robot_move returns None.                                            *)
Delay ==
    /\ pc = "think"
    /\ Finds(TRUE, FALSE)
    /\ delayed' = Append(delayed, listed[i])
    /\ NextTable
    /\ UNCHANGED <<queue, tableVars, beat, listed, seen, move, stops>>

(* It returns a move, and no other table is looked at.                     *)
Decide ==
    /\ pc = "think"
    /\ Finds(TRUE, TRUE)
    /\ move' = <<listed[i], seen>>
    /\ pc' = "rotate" /\ i' = 1
    /\ UNCHANGED <<queue, tableVars, beat, listed, seen, delayed, stops>>

(* Mutant: a table that is on the list is not put there again.             *)
RotateOnce ==
    /\ pc = "rotate" /\ i <= Len(delayed)
    /\ queue' = IF delayed[i] \in ToSet(queue) THEN queue ELSE Append(queue, delayed[i])
    /\ pc' = "collect"
    /\ UNCHANGED <<tableVars, beat, listed, i, seen, delayed, move, stops>>

(* Every delayed table is put at the end of the list ...                   *)
Rotate ==
    /\ pc = "rotate" /\ i <= Len(delayed)
    /\ queue' = Append(queue, delayed[i])
    /\ pc' = "collect"
    /\ UNCHANGED <<tableVars, beat, listed, i, seen, delayed, move, stops>>

(* pop_botbeat_dispatch; blpop returns None if nothing comes.              *)
Popped == IF queue = <<>> THEN queue ELSE Tail(queue)

(* ... and the first entry is taken off.                                   *)
Collect ==
    /\ pc = "collect"
    /\ queue' = Popped
    /\ i' = i + 1 /\ pc' = "rotate"
    /\ UNCHANGED <<tableVars, beat, listed, seen, delayed, move, stops>>

(* There was no move: it sleeps for a second.                              *)
Sleep ==
    /\ pc = "rotate" /\ i > Len(delayed) /\ move = NoMove
    /\ pc' = "list"
    /\ UNCHANGED <<queue, tableVars, beat, listed, i, seen, delayed, move, stops>>

(* queue_tablebeat_dispatch, and then an entry is taken off for the move.  *)
Send ==
    /\ pc = "rotate" /\ i > Len(delayed) /\ move # NoMove
    /\ inbox' = [inbox EXCEPT ![move[1]] = Append(@, move[2])]
    /\ pc' = "pop"
    /\ UNCHANGED <<queue, turn, robot, rested, beat, listed, i, seen, delayed, move, stops>>

Pop ==
    /\ pc = "pop"
    /\ queue' = Popped
    /\ pc' = "list"
    /\ UNCHANGED <<tableVars, beat, listed, i, seen, delayed, move, stops>>

(* It dies, of an exception, too, and supervisord starts it again.         *)
Crash ==
    /\ pc # "down" /\ stops < MaxStops
    /\ pc' = "down" /\ stops' = stops + 1
    /\ UNCHANGED <<queue, tableVars, beat, listed, i, seen, delayed, move>>

Restart ==
    /\ pc = "down"
    /\ pc' = "list" /\ delayed' = <<>>
    /\ UNCHANGED <<queue, tableVars, beat, listed, i, seen, move, stops>>

-----------------------------------------------------------------------------
Init ==
    /\ queue = <<>>
    /\ \E s \in Starts : turn = s.turn /\ stops = s.stops
    /\ robot \in [Tables -> BOOLEAN]
    /\ rested = [t \in Tables |-> FALSE]
    /\ inbox = [t \in Tables |-> <<>>]
    /\ beat = [t \in Tables |-> "peek"]
    /\ pc = "list" /\ listed = <<>> /\ i = 1 /\ seen = 0
    /\ delayed = <<>> /\ move = NoMove

Heartbeat(t) ==
    DispatchPerson(t) \/ DispatchMove(t) \/ Idle(t) \/ Look(t) \/ Push(t) \/ TimedDispatch(t)

BotbeatStep ==
    \/ List \/ Fetch \/ PassOver \/ Delay \/ Decide
    \/ Rotate \/ Collect \/ Sleep \/ Send \/ Pop

Next ==
    \/ \E t \in Tables : Rest(t) \/ Heartbeat(t) \/ Pause(t) \/ Awaken(t)
    \/ BotbeatStep \/ Crash \/ Restart

Spec == Init /\ [][Next]_vars

(* Heartbeats and the bots' process go on, a bot does not wait for ever.   *)
Fairness ==
    /\ \A t \in Tables : WF_vars(Heartbeat(t)) /\ WF_vars(Rest(t))
    /\ WF_vars(BotbeatStep \/ Restart)

FairSpec == Spec /\ Fairness

-----------------------------------------------------------------------------
(* Properties                                                              *)

TypeOK ==
    /\ queue \in Seq(Tables)
    /\ turn \in [Tables -> Nat]
    /\ robot \in [Tables -> BOOLEAN] /\ rested \in [Tables -> BOOLEAN]
    /\ inbox \in [Tables -> Seq(Nat)]
    /\ beat \in [Tables -> {"peek", "look", "push", "clock", "paused"}]
    /\ pc \in {"list", "fetch", "think", "rotate", "collect", "pop", "down"}
    /\ listed \in Seq(Tables) /\ delayed \in Seq(Tables)
    /\ i \in Nat /\ seen \in Nat
    /\ move \in {NoMove} \cup (Tables \X Nat)
    /\ stops \in 0 .. MaxStops

(* What the bots' process pops was on its copy of the list, in that order: *)
(* nothing that heartbeats have put on the list since is lost, and it does *)
(* not wait at an empty list.  So the pop for a move takes off the table   *)
(* of the move, if all before it on the list wanted to wait.               *)
PopsWhatWasListed ==
    pc \in {"collect", "pop"} =>
        LET k == IF pc = "collect" THEN i ELSE Len(delayed) + 1
        IN  queue # <<>> /\ k \in DOMAIN listed /\ Head(queue) = listed[k]

(* A table whose bot wanted to wait is still on the list after the round,  *)
(* although the pops do not say what they pop.                             *)
DelayedStayQueued == pc = "list" => ToSet(delayed) \subseteq ToSet(queue)

(* Bots' turns come to an end without the help of the clock.  A table sees *)
(* finitely many turns, so it is enough that no bot stays next for ever.   *)
BotsAreServed ==
    \A t \in Tables : robot[t] ~> (~robot[t] \/ beat[t] = "paused")
=============================================================================
