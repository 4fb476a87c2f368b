-------------------------------- MODULE Showdown --------------------------------
(***************************************************************************)
(* The payment of a showdown (showdown_wins_and_losses), for every way the *)
(* betting of a hand can have ended, against a reference that knows no     *)
(* pots: every chip is shared, level by level, between the best hands      *)
(* among the players who bet that far.                                     *)
(***************************************************************************)
EXTENDS SidePots

CONSTANTS
    NumPlayers,  \* players dealt in, in acting order 1, 2, ...
    MaxWager,    \* bound: the most a player put in the hand
    MaxDead,     \* bound: the most a player posted dead
    MaxRank      \* bound: how many different hands there are

ASSUME ShowdownAssumption ==
    /\ NumPlayers \in 2 .. 6    \* the seats of a table; 60 is a multiple of every share
    /\ MaxWager \in Nat \ {0} /\ MaxDead \in Nat /\ MaxRank \in Nat \ {0}

VARIABLES b, won

vars == <<b, won>>

Players == 1 .. NumPlayers
Order   == [i \in Players |-> i]
Unpaid  == [p \in Players |-> 0]

-----------------------------------------------------------------------------
(* How betting ends: uncalled chips went back, so the largest wager was    *)
(* made twice; who is still in has matched it or is all-in; and of the     *)
(* players with the most chips in, one is still in (HoldemHand shows when  *)
(* this fails, and then end_hand raises).                                  *)
EndOfBetting(wagers, holding) ==
    LET top == Max({wagers[p] : p \in Players})
    IN  /\ top > 0
        /\ Cardinality(holding) > 1
        /\ \A p \in holding : wagers[p] > 0
        /\ Cardinality({p \in Players : wagers[p] = top}) > 1
        /\ \E p \in holding : wagers[p] = top

Board(wagers, dead, holding, rank) ==
    LET top == Max({wagers[p] : p \in Players})
    IN  [actives |-> Players, wagers |-> wagers, dead |-> dead, rank |-> rank,
         holding |-> holding, folded |-> Players \ holding,
         stack   |-> [p \in Players |-> IF p \in holding /\ wagers[p] < top THEN 0 ELSE 1]]

Init ==
    /\ \E wagers \in [Players -> 0 .. MaxWager], holding \in SUBSET Players :
          /\ EndOfBetting(wagers, holding)
          /\ \E dead \in [Players -> 0 .. MaxDead], rank \in [holding -> 1 .. MaxRank] :
                b = Board(wagers, dead, holding, rank)
    /\ won = Unpaid

Settle ==
    /\ won = Unpaid
    /\ won' = ShowdownWinnings(b, Order)
    /\ UNCHANGED b

Next == Settle
Spec == Init /\ [][Next]_vars

-----------------------------------------------------------------------------
Settled == won # Unpaid

(* end_hand's assertion: the payments are the pot, to the chip.            *)
PaysThePot == Settled => SumFunctionOnSet(won, Players) = CurrentPot(b)

(* The reference: what a player is owed in sixtieths of a chip.            *)
BetAtLeast(u) == {p \in Players : b.wagers[p] >= u}
BestAt(u) == Winners(b, BetAtLeast(u) \cap b.holding)
ShareAt(u, p) ==
    IF p \in BestAt(u) THEN (60 * Cardinality(BetAtLeast(u))) \div Cardinality(BestAt(u))
    ELSE 0
Owed(p) ==
    SumFunctionOnSet([u \in 1 .. MaxWager |-> IF BestAt(u) = {} THEN 0 ELSE ShareAt(u, p)],
                     1 .. MaxWager)
    + (IF p \in BestAt(1) THEN (60 * DeadMoney(b)) \div Cardinality(BestAt(1)) ELSE 0)

(* However many players are all-in for less, nobody gets a whole chip per  *)
(* pot more or less than its share: no player wins chips of a level that   *)
(* it did not bet, and no chip of a level goes past the best hand in it.   *)
FairShares ==
    Settled => \A p \in Players :
        LET error == 60 * won[p] - Owed(p)
            slack == 60 * Cardinality(SidepotSummary(b))
        IN  -slack < error /\ error < slack

(* Chips that do not divide go to the first players in position: between   *)
(* two equal hands that bet as much, the later one never gets more.        *)
OddChipsInPosition ==
    Settled => \A p, q \in b.holding :
        (p < q /\ b.rank[p] = b.rank[q] /\ b.wagers[p] = b.wagers[q]) => won[p] >= won[q]

=============================================================================
