----------------------------- MODULE MCHoldemHand -----------------------------
(***************************************************************************)
(* Instances of HoldemHand for TLC: the stacks the tables open with, in    *)
(* the order of the seats.                                                 *)
(***************************************************************************)
EXTENDS HoldemHand

Stacks(chips) == {[p \in Seats |-> chips[p + 1]]}

(* Three players; the shortest is all-in with its small blind.             *)
ShortStacks == Stacks(<<1, 4, 3>>)

(* Five seats, one of them empty: two players with one chip, who cannot    *)
(* cover a big blind, and two who can.  One of these joins, once the other *)
(* three are already in, and may post blinds out of position.              *)
JoinerStacks == Stacks(<<1, 0, 1, 3, 3>>)

(* Five seats.  A big blind of one chip, two more who are already in, and  *)
(* one who joins and posts a whole big blind; or three players who are all *)
(* already in, with room for a raise and a re-raise.                       *)
RaiserStacks == Stacks(<<0, 1, 6, 6, 6>>) \cup Stacks(<<12, 12, 12, 0, 0>>)
===============================================================================
