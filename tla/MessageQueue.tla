------------------------------ MODULE MessageQueue ------------------------------
(***************************************************************************)
(* What a table promises to the messages that players send it: they are    *)
(* applied in the order in which they came, one that was applied stays     *)
(* applied, and nothing is applied that is not at the head of the queue.   *)
(* A message may be applied again before it is taken off the queue, and a  *)
(* message may be dropped.                                                 *)
(***************************************************************************)
EXTENDS Sequences

CONSTANT Messages

VARIABLES pending, done

queueVars == <<pending, done>>

QueueInit == pending = <<>> /\ done = <<>>

Send(m) == pending' = Append(pending, m) /\ UNCHANGED done

ApplyHead ==
    /\ pending # <<>>
    /\ done' = Append(done, Head(pending))
    /\ UNCHANGED pending

DropHead ==
    /\ pending # <<>>
    /\ pending' = Tail(pending)
    /\ UNCHANGED done

QueueNext == (\E m \in Messages : Send(m)) \/ ApplyHead \/ DropHead

QueueSpec == QueueInit /\ [][QueueNext]_queueVars

=============================================================================
