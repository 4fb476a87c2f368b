------------------------------- MODULE SidePots -------------------------------
(***************************************************************************)
(* How the chips in the middle of the table are cut into a main pot and    *)
(* side pots, and how a pot is paid at a showdown:                         *)
(* PokerAccessor.sidepot_summary, sidepot_members, winners and             *)
(* showdown_winnings_for_pot of poker/accessors.py.                        *)
(*                                                                         *)
(* Everything is a pure operator of a "board": a record with the set of    *)
(* active players and, for each of them, the chips it put in the hand.     *)
(*   b.actives   players that are seated and not sitting out               *)
(*   b.wagers    live chips wagered in the hand (Player.wagers)            *)
(*   b.dead      dead small blinds (Player.dead_money)                     *)
(*   b.stack     chips left in front of the player                         *)
(*   b.folded    players whose last_action is in FOLD_OR_TOGGLE_PENDING    *)
(*   b.holding   players that still hold cards (showdown_players)          *)
(*   b.rank      value of the best hand of each player (hand_sortkey)      *)
(* An order is a function that gives a player its place in the acting      *)
(* order.  Chips are natural numbers: the amounts of the tables that are   *)
(* played have precision 0, so the smallest chip is 1 (round_wager is the  *)
(* floor).                                                                 *)
(***************************************************************************)
EXTENDS Integers, FiniteSetsExt, Functions

(* accessors.py current_pot(): all the chips contributed by active players *)
CurrentPot(b) ==
    SumFunctionOnSet([p \in b.actives |-> b.wagers[p] + b.dead[p]], b.actives)

(* Mutant: an all-in player is missed when another one is all-in for the   *)
(* same amount.                                                            *)
SidepotMembersBelowAll(b) ==
    {p \in b.actives : /\ b.wagers[p] > 0
                       /\ p \notin b.folded
                       /\ b.stack[p] = 0
                       /\ \A q \in b.actives \ {p} : b.wagers[p] < b.wagers[q]}

(* The players that cap a side pot: all-in for less than the top wager.    *)
SidepotMembers(b) ==
    {p \in b.actives : /\ b.wagers[p] > 0
                       /\ p \notin b.folded
                       /\ b.stack[p] = 0
                       /\ \E q \in b.actives : b.wagers[p] < b.wagers[q]}

TopWager(b) == Max({b.wagers[p] : p \in b.actives})

(* The wagers are cut into pots at the amounts some player is all-in for,  *)
(* and at the largest wager.  A pot is named for the amount that caps it.  *)
Caps(b) == {b.wagers[p] : p \in SidepotMembers(b)} \cup {TopWager(b)}

(* last_allin_amt: where the pot begins, the cap of the one before.        *)
Floor(b, cap) == Max({0} \cup {c \in Caps(b) : c < cap})

(* What player p adds to the pot.                                          *)
Slice(b, p, lower, cap) == Max({0, Min({b.wagers[p], cap}) - lower})

(* Mutant: the dead blinds of players who folded are forgotten.            *)
DeadMoneyOfHolders(b) == SumFunctionOnSet(b.dead, b.holding)

DeadMoney(b) == SumFunctionOnSet(b.dead, b.actives)

(* The dead money is in the first pot.                                     *)
PotAt(b, cap) ==
    LET lower == Floor(b, cap)
    IN  [cap          |-> cap,
         amt          |-> SumFunctionOnSet([p \in b.actives |-> Slice(b, p, lower, cap)],
                                           b.actives)
                          + (IF lower = 0 THEN DeadMoney(b) ELSE 0),
         contributors |-> {p \in b.actives : b.wagers[p] > lower}]

(* The pots; the one above the last all-in amount only exists if it is not *)
(* empty, and the others never are.                                        *)
SidepotSummary(b) == {pot \in {PotAt(b, cap) : cap \in Caps(b)} : pot.amt # 0}

(* winners(): of a non-empty set of players, those with the best hand.     *)
Winners(b, players) ==
    {p \in players : \A q \in players : b.rank[q] <= b.rank[p]}

(* The contributors of a pot that are still in the showdown.  When there   *)
(* is none, winners() pops from an empty list and the hand cannot end.     *)
Eligible(b, pot) == pot.contributors \cap b.holding

EveryPotHasAWinner(b) ==
    \A pot \in SidepotSummary(b) : Eligible(b, pot) # {}

(* Mutants: the chips that are left are dropped, or go to the winners that *)
(* come last in the order of position.                                     *)
PotWinningsRoundedDown(b, order, pot) ==
    LET paid == Winners(b, Eligible(b, pot))
    IN  [p \in b.actives |-> IF p \in paid THEN pot.amt \div Cardinality(paid) ELSE 0]

PotWinningsLastFirst(b, order, pot) ==
    LET paid   == Winners(b, Eligible(b, pot))
        n      == Cardinality(paid)
        extra  == {p \in paid : Cardinality({q \in paid : order[q] > order[p]}) < pot.amt % n}
    IN  [p \in b.actives |->
            IF p \notin paid THEN 0
            ELSE (pot.amt \div n) + (IF p \in extra THEN 1 ELSE 0)]

(* showdown_winnings_for_pot: an even split, and the chips that are left   *)
(* one by one to the winners that come first in the order of position.     *)
PotWinnings(b, order, pot) ==
    LET paid   == Winners(b, Eligible(b, pot))
        n      == Cardinality(paid)
        extra  == {p \in paid : Cardinality({q \in paid : order[q] < order[p]}) < pot.amt % n}
    IN  [p \in b.actives |->
            IF p \notin paid THEN 0
            ELSE (pot.amt \div n) + (IF p \in extra THEN 1 ELSE 0)]

(* showdown_wins_and_losses: what every player wins over all the pots.     *)
ShowdownWinnings(b, order) ==
    LET pots == SidepotSummary(b)
    IN  [p \in b.actives |->
            SumFunctionOnSet([pot \in pots |-> PotWinnings(b, order, pot)[p]], pots)]

(* no_showdown_wins_and_losses: the last player left takes every pot.      *)
UncontestedWinnings(b) ==
    LET pots  == SidepotSummary(b)
        total == SumFunctionOnSet([pot \in pots |-> pot.amt], pots)
    IN  [p \in b.actives |-> IF p \in b.holding THEN total ELSE 0]

=============================================================================
