------------------------------- MODULE MCBotbeat -------------------------------
(***************************************************************************)
(* Botbeat with two tables: one of them has a bot next twice, or each has  *)
(* once and the bots' process crashes.                                     *)
(***************************************************************************)
EXTENDS Botbeat, TLC

CONSTANTS a, b

MCLastTurn == (a :> 3) @@ (b :> 2)

MoreTurns == [turn |-> (a :> 1) @@ (b :> 1), stops |-> 1]
OneCrash  == [turn |-> (a :> 2) @@ (b :> 1), stops |-> 0]

MCStarts == {MoreTurns, OneCrash}
=============================================================================
