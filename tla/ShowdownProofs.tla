----------------------------- MODULE ShowdownProofs -----------------------------
(***************************************************************************)
(* Proofs about the payment of a showdown, for any wagers, dead blinds and *)
(* hands, and so for any number of side pots: the payments add up to the   *)
(* pot, and the chips that do not divide go to the first in position.      *)
(***************************************************************************)
EXTENDS Showdown, SidePotsProofs

(* The board is one that betting can end with, and what is paid is paid by *)
(* the rules of the code.                                                  *)
Ended ==
    \E wagers \in [Players -> 0 .. MaxWager], holding \in SUBSET Players, dead \in [Players -> Nat] :
    \E rank \in [holding -> Nat] :
        EndOfBetting(wagers, holding) /\ b = Board(wagers, dead, holding, rank)

ShowdownInv == Ended /\ (Settled => won = ShowdownWinnings(b, Order))

-----------------------------------------------------------------------------
(* What a board at the end of the betting is: players that have wagered,   *)
(* in the order of their numbers, and somebody for every pot, because one  *)
(* of the largest wagers was made by a player who is still in.             *)
LEMMA EndedBoard ==
    ASSUME ShowdownAssumption, Ended
    PROVE  /\ IsBoard(b) /\ b.actives = Players
           /\ IsOrder(b, Order)
           /\ EveryPotHasAWinner(b)
<1>1. PICK wagers \in [Players -> 0 .. MaxWager], holding \in SUBSET Players, dead \in [Players -> Nat] :
      \E rank \in [holding -> Nat] :
        EndOfBetting(wagers, holding) /\ b = Board(wagers, dead, holding, rank)
  BY DEF Ended
<1>2. PICK rank \in [holding -> Nat] :
        EndOfBetting(wagers, holding) /\ b = Board(wagers, dead, holding, rank)
  BY <1>1
<1>3. /\ b.actives = Players /\ b.wagers = wagers /\ b.dead = dead /\ b.rank = rank
      /\ b.holding = holding
  BY <1>2 DEF Board
<1>4. NumPlayers \in Nat /\ 1 \in Players
  BY ShowdownAssumption DEF ShowdownAssumption, Players
<1>5. IsFiniteSet(Players)
  BY <1>4, FS_Interval DEF Players
<1>6. IsBoard(b)
  BY <1>3, <1>4, <1>5 DEF IsBoard
<1>7. IsOrder(b, Order)
  BY <1>3, <1>4 DEF IsOrder, Order, Players
<1>8. PICK h \in holding : wagers[h] = TopWager(b)
  <2>1. \E p \in holding : wagers[p] = Max({wagers[q] : q \in Players})
    BY <1>2 DEF EndOfBetting
  <2>2. TopWager(b) = Max({wagers[q] : q \in Players})
    BY <1>3 DEF TopWager
  <2> QED
    BY <2>1, <2>2
<1>9. TopWager(b) \in Nat /\ TopWager(b) > 0
  <2>1. TopWager(b) > 0
    BY <1>2, <1>3 DEF EndOfBetting, TopWager
  <2> QED
    BY <2>1, <1>6, TopOfWagers
<1>10. ASSUME NEW pot \in SidepotSummary(b) PROVE h \in Eligible(b, pot)
  <2>1. PICK cap \in Caps(b) : pot = PotAt(b, cap)
    BY DEF SidepotSummary
  <2>2. /\ Floor(b, cap) \in Nat
        /\ Floor(b, cap) = 0 \/ (Floor(b, cap) \in Caps(b) /\ Floor(b, cap) < cap)
    BY <1>6, FloorOfPot
  <2>3. cap \in Nat /\ cap <= TopWager(b)
    BY <1>6, CapsOfBoard
  <2>4. Floor(b, cap) < TopWager(b)
    BY <2>2, <2>3, <1>9
  <2>5. pot.contributors = {p \in b.actives : b.wagers[p] > Floor(b, cap)}
    BY <2>1 DEF PotAt
  <2>6. h \in Players /\ b.wagers[h] > Floor(b, cap)
    BY <2>4, <1>8, <1>3, <1>9, <2>2
  <2> QED
    BY <2>5, <2>6, <1>3 DEF Eligible
<1>11. EveryPotHasAWinner(b)
  BY <1>10 DEF EveryPotHasAWinner
<1> QED
  BY <1>3, <1>6, <1>7, <1>11

-----------------------------------------------------------------------------
(* The payment is made once, by the rules of the code.                     *)
LEMMA PaidByTheRules == Spec => []ShowdownInv
<1>1. Init => ShowdownInv
  <2> SUFFICES ASSUME Init PROVE ShowdownInv
    OBVIOUS
  <2>1. won = Unpaid
    BY DEF Init
  <2>2. PICK wagers \in [Players -> 0 .. MaxWager], holding \in SUBSET Players :
          /\ EndOfBetting(wagers, holding)
          /\ \E dead \in [Players -> 0 .. MaxDead], rank \in [holding -> 1 .. MaxRank] :
                b = Board(wagers, dead, holding, rank)
    BY DEF Init
  <2>3. PICK dead \in [Players -> 0 .. MaxDead], rank \in [holding -> 1 .. MaxRank] :
          b = Board(wagers, dead, holding, rank)
    BY <2>2
  <2>4. dead \in [Players -> Nat] /\ rank \in [holding -> Nat]
    BY ShowdownAssumption DEF ShowdownAssumption
  <2>5. Ended
    BY <2>2, <2>3, <2>4 DEF Ended
  <2> QED
    BY <2>1, <2>5 DEF ShowdownInv, Settled
<1>2. ShowdownInv /\ [Next]_vars => ShowdownInv'
  <2> SUFFICES ASSUME ShowdownInv, [Next]_vars PROVE ShowdownInv'
    OBVIOUS
  <2>1. CASE Settle
    BY <2>1 DEF ShowdownInv, Settle, Ended, Settled
  <2>2. CASE UNCHANGED vars
    BY <2>2 DEF ShowdownInv, vars, Ended, Settled
  <2> QED
    BY <2>1, <2>2 DEF Next
<1> QED
  BY <1>1, <1>2, PTL DEF Spec

-----------------------------------------------------------------------------
(* The payments of any showdown are the pot, to the chip: the assertion of *)
(* end_hand.                                                               *)
THEOREM ShowdownPaysThePot == Spec => []PaysThePot
<1>1. ShowdownInv => PaysThePot
  <2> SUFFICES ASSUME ShowdownInv, Settled PROVE SumFunctionOnSet(won, Players) = CurrentPot(b)
    BY DEF PaysThePot
  <2>1. IsBoard(b) /\ b.actives = Players /\ IsOrder(b, Order) /\ EveryPotHasAWinner(b)
    BY ShowdownAssumption, EndedBoard DEF ShowdownInv
  <2>2. won = ShowdownWinnings(b, Order)
    BY DEF ShowdownInv
  <2>3. SumFunctionOnSet(ShowdownWinnings(b, Order), b.actives) = CurrentPot(b)
    BY <2>1, ShowdownPaysAll
  <2> QED
    BY <2>1, <2>2, <2>3
<1> QED
  BY <1>1, PaidByTheRules, PTL

(* Of two players with equal hands who bet as much, the first in position  *)
(* never gets less: the chips that do not divide are its own.              *)
THEOREM FirstInPositionFirst == Spec => []OddChipsInPosition
<1>1. ShowdownInv => OddChipsInPosition
  <2> SUFFICES ASSUME ShowdownInv, Settled, NEW p \in b.holding, NEW q \in b.holding,
                      p < q, b.rank[p] = b.rank[q], b.wagers[p] = b.wagers[q]
               PROVE  won[p] >= won[q]
    BY DEF OddChipsInPosition
  <2>1. IsBoard(b) /\ b.actives = Players /\ IsOrder(b, Order) /\ EveryPotHasAWinner(b)
    BY ShowdownAssumption, EndedBoard DEF ShowdownInv
  <2>2. won = ShowdownWinnings(b, Order)
    BY DEF ShowdownInv
  <2>3. p \in Players /\ q \in Players
    BY <2>1 DEF IsBoard
  <2>4. Order[p] < Order[q]
    BY <2>3 DEF Order
  <2>5. ShowdownWinnings(b, Order)[q] <= ShowdownWinnings(b, Order)[p]
    BY <2>1, <2>4, FirstWinsNoLess
  <2>6. won[p] \in Nat /\ won[q] \in Nat
    BY <2>1, <2>2, <2>3, ShowdownPaysAll
  <2> QED
    BY <2>2, <2>5, <2>6
<1> QED
  BY <1>1, PaidByTheRules, PTL

(* Betting has ended: who is still in and has wagered less than the most   *)
(* is all-in, and so cuts a pot.                                           *)
LEMMA EndedCuts ==
    ASSUME ShowdownAssumption, Ended
    PROVE  /\ TopWager(b) \in 1 .. MaxWager
           /\ \A p \in b.holding : b.wagers[p] < TopWager(b) => b.wagers[p] \in Caps(b)
<1>1. PICK wagers \in [Players -> 0 .. MaxWager], holding \in SUBSET Players, dead \in [Players -> Nat] :
      \E rank \in [holding -> Nat] :
        EndOfBetting(wagers, holding) /\ b = Board(wagers, dead, holding, rank)
  BY DEF Ended
<1>2. PICK rank \in [holding -> Nat] :
        EndOfBetting(wagers, holding) /\ b = Board(wagers, dead, holding, rank)
  BY <1>1
<1>3. /\ b.actives = Players /\ b.wagers = wagers
      /\ b.holding = holding /\ b.folded = Players \ holding
      /\ \A p \in Players : p \in holding /\ wagers[p] < TopWager(b) => b.stack[p] = 0
  BY <1>2 DEF Board, TopWager
<1>4. IsBoard(b)
  BY EndedBoard
<1>5. TopWager(b) \in Nat /\ TopWager(b) > 0
  <2>1. TopWager(b) > 0
    BY <1>2, <1>3 DEF EndOfBetting, TopWager
  <2> QED
    BY <2>1, <1>4, TopOfWagers
<1>6. TopWager(b) <= MaxWager
  BY <1>3, <1>4, TopOfWagers, ShowdownAssumption DEF ShowdownAssumption
<1>7. ASSUME NEW p \in b.holding, b.wagers[p] < TopWager(b) PROVE b.wagers[p] \in Caps(b)
  <2>1. wagers[p] > 0
    BY <1>2, <1>3 DEF EndOfBetting
  <2>2. \E q \in b.actives : b.wagers[p] < b.wagers[q]
    BY <1>4, <1>7, TopOfWagers
  <2>3. p \in SidepotMembers(b)
    BY <2>1, <2>2, <1>3, <1>7 DEF SidepotMembers
  <2> QED
    BY <2>3 DEF Caps
<1> QED
  BY <1>5, <1>6, <1>7, ShowdownAssumption DEF ShowdownAssumption

(* The players in the showdown are the same on all levels of a pot.        *)
LEMMA LevelIsOfPot ==
    ASSUME ShowdownAssumption, Ended, NEW c \in Caps(b), NEW u \in Nat,
           Floor(b, c) < u, u <= c
    PROVE  BestAt(u) = Winners(b, Eligible(b, PotAt(b, c)))
<1>1. IsBoard(b) /\ b.actives = Players
  BY EndedBoard
<1>2. /\ Floor(b, c) \in Nat /\ c \in Nat /\ c <= TopWager(b) /\ TopWager(b) \in Nat
      /\ \A d \in Caps(b) : d < c => d <= Floor(b, c)
  BY <1>1, FloorOfPot, CapsOfBoard, TopOfWagers
<1>3. \A p \in Players : b.wagers[p] \in Nat
  BY <1>1 DEF IsBoard
<1>4. ASSUME NEW p \in b.holding
      PROVE  b.wagers[p] >= u <=> b.wagers[p] > Floor(b, c)
  <2>0. b.wagers[p] \in Nat
    BY <1>1, <1>3 DEF IsBoard
  <2>1. ASSUME b.wagers[p] < u PROVE b.wagers[p] <= Floor(b, c)
    <3>1. b.wagers[p] < c /\ b.wagers[p] < TopWager(b)
      BY <2>0, <2>1, <1>2
    <3>2. b.wagers[p] \in Caps(b)
      BY <3>1, EndedCuts
    <3> QED
      BY <3>1, <3>2, <1>2
  <2> QED
    BY <2>0, <2>1, <1>2
<1>5. b.holding \subseteq Players
  BY <1>1 DEF IsBoard
<1>6. BetAtLeast(u) \cap b.holding = Eligible(b, PotAt(b, c))
  <2>1. PotAt(b, c).contributors = {p \in Players : b.wagers[p] > Floor(b, c)}
    BY <1>1 DEF PotAt
  <2> QED
    BY <2>1, <1>4, <1>5 DEF BetAtLeast, Eligible
<1> QED
  BY <1>6 DEF BestAt

(* What a player is owed, pot by pot.                                      *)
PotShare(p, c) ==
    LET paid == Winners(b, Eligible(b, PotAt(b, c)))
    IN  IF p \in paid THEN 60 \div Cardinality(paid) ELSE 0

(* A pot's winners can share a number of sixtieths of chips.                *)
LEMMA SixtiethsDivide ==
    ASSUME NEW n \in 1 .. 6, NEW x \in Nat
    PROVE  (60 * x) \div n = (60 \div n) * x /\ (60 \div n) \in Nat
<1>1. CASE n = 1
  BY <1>1
<1>2. CASE n = 2
  BY <1>2
<1>3. CASE n = 3
  BY <1>3
<1>4. CASE n = 4
  BY <1>4
<1>5. CASE n = 5
  BY <1>5
<1>6. CASE n = 6
  BY <1>6
<1> QED
  BY <1>1, <1>2, <1>3, <1>4, <1>5, <1>6

(* The facts about a board that the payment has ended with.                *)
LEMMA PaidByPot ==
    ASSUME ShowdownAssumption, Ended, NEW p \in Players, NEW c \in Caps(b)
    PROVE  LET pot == PotAt(b, c)
               got == PotWinnings(b, Order, pot)[p]
           IN  /\ pot.amt \in Nat \ {0} /\ pot \in SidepotSummary(b)
               /\ PotShare(p, c) \in Nat
               /\ got \in Nat
               /\ -59 <= 60 * got - PotShare(p, c) * pot.amt
               /\ 60 * got - PotShare(p, c) * pot.amt <= 59
               /\ Cardinality(Winners(b, Eligible(b, pot))) \in 1 .. 6
<1> DEFINE pot == PotAt(b, c)
           paid == Winners(b, Eligible(b, pot))
           n == Cardinality(paid)
           got == PotWinnings(b, Order, pot)[p]
<1>1. IsBoard(b) /\ b.actives = Players /\ EveryPotHasAWinner(b)
  BY EndedBoard
<1>2. TopWager(b) > 0
  BY EndedCuts
<1>3. pot.amt \in Nat \ {0} /\ pot \in SidepotSummary(b)
  <2>1. pot.amt \in Nat \ {0}
    BY <1>1, <1>2, NoPotIsEmpty
  <2> QED
    BY <2>1 DEF SidepotSummary
<1>4. Eligible(b, pot) # {}
  BY <1>1, <1>3 DEF EveryPotHasAWinner
<1>5. Cardinality(b.actives) <= 6
  <2>1. NumPlayers \in 2 .. 6
    BY ShowdownAssumption DEF ShowdownAssumption
  <2>2. Cardinality(Players) = NumPlayers
    BY <2>1, FS_Interval DEF Players
  <2> QED
    BY <1>1, <2>1, <2>2
<1>6. /\ n \in 1 .. 6 /\ got \in Nat
      /\ IF p \in paid
         THEN -59 <= 60 * got - (60 \div n) * pot.amt /\ 60 * got - (60 \div n) * pot.amt <= 59
         ELSE got = 0
  <2> HIDE DEF pot
  <2>1. pot.amt \in Nat /\ p \in b.actives
    BY <1>1, <1>3
  <2> QED
    BY <2>1, <1>1, <1>4, <1>5, PotShareIsFair
<1>7. PotShare(p, c) = IF p \in paid THEN 60 \div n ELSE 0
  BY DEF PotShare
<1>8. (60 \div n) \in Nat
  <2> HIDE DEF n
  <2> QED
    BY <1>6, SixtiethsDivide
<1> HIDE DEF pot, paid, n, got
<1>9. /\ PotShare(p, c) \in Nat
      /\ -59 <= 60 * got - PotShare(p, c) * pot.amt /\ 60 * got - PotShare(p, c) * pot.amt <= 59
  <2>1. CASE p \in paid
    BY <2>1, <1>6, <1>7, <1>8
  <2>2. CASE p \notin paid
    <3>1. PotShare(p, c) = 0 /\ got = 0
      BY <2>2, <1>6, <1>7
    <3>2. 0 * pot.amt = 0
      BY <1>3
    <3> QED
      BY <3>1, <3>2
  <2> QED
    BY <2>1, <2>2
<1> QED
  BY <1>3, <1>6, <1>9 DEF pot, paid, n, got

(* A level's share is the share of its pot.                                *)
LEMMA ShareOfLevel ==
    ASSUME ShowdownAssumption, Ended, NEW p \in Players, NEW c \in Caps(b), NEW u \in Nat \ {0},
           Floor(b, c) < u, u <= c
    PROVE  /\ BestAt(u) # {}
           /\ ShareAt(u, p) = PotShare(p, c) * Cardinality(BetAtLeast(u))
           /\ Cardinality(BetAtLeast(u)) \in Nat
           /\ u = 1 => (IF p \in BestAt(1) THEN (60 * DeadMoney(b)) \div Cardinality(BestAt(1)) ELSE 0)
                         = PotShare(p, c) * DeadMoney(b)
<1> DEFINE paid == Winners(b, Eligible(b, PotAt(b, c)))
           n == Cardinality(paid)
           x == Cardinality(BetAtLeast(u))
<1>1. BestAt(u) = paid
  BY LevelIsOfPot
<1>2. n \in 1 .. 6
  BY PaidByPot
<1>3. x \in Nat /\ DeadMoney(b) \in Nat
  <2>1. IsBoard(b) /\ b.actives = Players
    BY EndedBoard
  <2>2. IsFiniteSet(Players) /\ BetAtLeast(u) \in SUBSET Players
    BY <2>1 DEF IsBoard, BetAtLeast
  <2>3. DeadMoney(b) \in Nat
    BY <2>1, SumIsNat DEF DeadMoney, IsBoard
  <2> QED
    BY <2>2, <2>3, FS_Subset, FS_CardinalityType
<1>4. paid # {}
  <2> HIDE DEF paid
  <2>1. CASE paid = {}
    BY <2>1, <1>2, FS_EmptySet
  <2> QED
    BY <2>1
<1>5. PotShare(p, c) = IF p \in paid THEN 60 \div n ELSE 0
  BY DEF PotShare
<1>6. ShareAt(u, p) = IF p \in paid THEN (60 * x) \div n ELSE 0
  BY <1>1 DEF ShareAt
<1> HIDE DEF paid, x
<1>7. 0 * x = 0 /\ 0 * DeadMoney(b) = 0
  BY <1>3
<1>8. /\ (60 * x) \div n = (60 \div n) * x
      /\ (60 * DeadMoney(b)) \div n = (60 \div n) * DeadMoney(b)
  <2> HIDE DEF n
  <2> QED
    BY <1>2, <1>3, SixtiethsDivide
<1>9. ShareAt(u, p) = PotShare(p, c) * x
  BY <1>5, <1>6, <1>7, <1>8
<1>10. ASSUME u = 1
       PROVE  (IF p \in BestAt(1) THEN (60 * DeadMoney(b)) \div Cardinality(BestAt(1)) ELSE 0)
                = PotShare(p, c) * DeadMoney(b)
  <2>1. BestAt(1) = paid
    BY <1>10, <1>1
  <2> QED
    BY <2>1, <1>5, <1>7, <1>8
<1> QED
  BY <1>1, <1>3, <1>4, <1>9, <1>10 DEF x

(* What a player is owed over all the levels is what he is owed over the   *)
(* pots.                                                                   *)
LEMMA OwedByPots ==
    ASSUME ShowdownAssumption, Ended, NEW p \in Players
    PROVE  Owed(p) = SumFunctionOnSet([c \in Caps(b) |-> PotShare(p, c) * PotAt(b, c).amt], Caps(b))
<1> DEFINE C == Caps(b)
           L == 1 .. MaxWager
           x(u) == Cardinality(BetAtLeast(u))
           inPot(u, c) == Floor(b, c) < u /\ u <= c
           count(c) == [u \in L |-> IF inPot(u, c) THEN x(u) ELSE 0]
           m == [u \in L |-> [c \in C |-> IF inPot(u, c) THEN PotShare(p, c) * x(u) ELSE 0]]
           f == [u \in L |-> IF BestAt(u) = {} THEN 0 ELSE ShareAt(u, p)]
           rows == [u \in L |-> SumFunctionOnSet([c \in C |-> m[u][c]], C)]
           cols == [c \in C |-> SumFunctionOnSet([u \in L |-> m[u][c]], L)]
           slices(c) == SumFunctionOnSet([q \in b.actives |-> Slice(b, q, Floor(b, c), c)], b.actives)
           dead == [c \in C |-> IF Floor(b, c) = 0 THEN PotShare(p, c) * DeadMoney(b) ELSE 0]
           owed == [c \in C |-> PotShare(p, c) * PotAt(b, c).amt]
           atOnce == IF p \in BestAt(1) THEN (60 * DeadMoney(b)) \div Cardinality(BestAt(1)) ELSE 0
<1>1. IsBoard(b) /\ b.actives = Players /\ IsFiniteSet(C) /\ IsFiniteSet(L) /\ MaxWager \in Nat
  <2>1. MaxWager \in Nat
    BY ShowdownAssumption DEF ShowdownAssumption
  <2>2. IsFiniteSet(1 .. MaxWager)
    BY <2>1, FS_Interval
  <2> QED
    BY <2>1, <2>2, EndedBoard, CapsOfBoard
<1>2. \A c \in C : c \in Nat /\ c <= MaxWager /\ Floor(b, c) \in Nat /\ PotShare(p, c) \in Nat
  <2>1. TopWager(b) \in 1 .. MaxWager
    BY EndedCuts
  <2>2. \A c \in C : c \in Nat /\ c <= TopWager(b) /\ Floor(b, c) \in Nat
    BY <1>1, CapsOfBoard, FloorOfPot
  <2> QED
    BY <1>1, <2>1, <2>2, PaidByPot
<1>3. \A u \in L : x(u) \in Nat
  <2>1. \A u \in L : BetAtLeast(u) \in SUBSET Players /\ IsFiniteSet(Players)
    BY <1>1 DEF BetAtLeast, IsBoard
  <2> QED
    BY <2>1, FS_Subset, FS_CardinalityType
<1>4. \A u \in L, c \in C : m[u][c] \in Nat
  BY <1>2, <1>3
<1>5. SumFunctionOnSet(rows, L) = SumFunctionOnSet(cols, C)
  <2>1. \A u \in L, c \in C : m[u][c] \in Int
    <3> HIDE DEF m, L, C
    <3> QED
      BY <1>4
  <2> HIDE DEF m, L, C
  <2> QED
    BY <1>1, <2>1, SumsSwap
<1>6. \A u \in L : f[u] \in Int /\ f[u] = rows[u]
  <2> SUFFICES ASSUME NEW u \in L
               PROVE  f[u] \in Int /\ f[u] = SumFunctionOnSet([c \in C |-> m[u][c]], C)
    OBVIOUS
  <2> DEFINE g == [c \in C |-> m[u][c]]
  <2>0. u \in Nat \ {0} /\ \A c \in C : g[c] \in Int
    BY <1>4
  <2>1. CASE u <= TopWager(b)
    <3>1. PICK c \in C : inPot(u, c) /\ \A d \in C \ {c} : ~inPot(u, d)
      BY <2>0, <2>1, <1>1, LevelHasCap
    <3>2. BestAt(u) # {} /\ ShareAt(u, p) = PotShare(p, c) * x(u)
      BY <2>0, <3>1, ShareOfLevel
    <3>3. f[u] = g[c]
      BY <3>1, <3>2
    <3>4. \A d \in C \ {c} : g[d] = 0
      BY <3>1
    <3> HIDE DEF g, C
    <3>5. SumFunctionOnSet(g, C) = g[c]
      BY <1>1, <2>0, <3>1, <3>4, SumOfOne
    <3> QED
      BY <2>0, <3>1, <3>3, <3>5 DEF g
  <2>2. CASE ~(u <= TopWager(b))
    <3>1. \A c \in C : ~inPot(u, c)
      <4>1. \A c \in C : c \in Nat /\ c <= TopWager(b) /\ TopWager(b) \in Nat
        BY <1>1, CapsOfBoard, TopOfWagers
      <4> QED
        BY <4>1, <2>0, <2>2
    <3>2. \A c \in C : g[c] = 0
      BY <3>1
    <3>3. BestAt(u) = {}
      <4>1. \A q \in Players : b.wagers[q] \in Nat /\ b.wagers[q] <= TopWager(b) /\ TopWager(b) \in Nat
        BY <1>1, TopOfWagers DEF IsBoard
      <4>2. BetAtLeast(u) = {}
        BY <4>1, <2>0, <2>2 DEF BetAtLeast
      <4> QED
        BY <4>2 DEF BestAt, Winners
    <3>4. f[u] = 0
      BY <3>3
    <3> HIDE DEF g, C
    <3>5. SumFunctionOnSet(g, C) = 0
      BY <1>1, <3>2, SumOfZeros
    <3> QED
      BY <3>4, <3>5 DEF g
  <2> QED
    BY <2>1, <2>2
<1>7. \A c \in C : cols[c] = PotShare(p, c) * slices(c) /\ slices(c) \in Nat
  <2> SUFFICES ASSUME NEW c \in C
               PROVE  /\ SumFunctionOnSet([u \in L |-> m[u][c]], L) = PotShare(p, c) * slices(c)
                      /\ slices(c) \in Nat
    OBVIOUS
  <2> DEFINE h == [u \in L |-> m[u][c]]
             g == count(c)
             k == PotShare(p, c)
  <2>1. k \in Int
    BY <1>2
  <2>2. \A u \in L : g[u] \in Nat /\ h[u] = k * g[u]
    <3> SUFFICES ASSUME NEW u \in L PROVE g[u] \in Nat /\ h[u] = k * g[u]
      OBVIOUS
    <3>1. k * 0 = 0
      BY <2>1
    <3> QED
      BY <1>3, <3>1
  <2>3. SumFunctionOnSet(g, L) = slices(c)
    <3>1. \A u \in 1 .. MaxWager : g[u] = IF Floor(b, c) < u /\ u <= c
                                          THEN Cardinality({q \in b.actives : b.wagers[q] >= u}) ELSE 0
      BY <1>1 DEF BetAtLeast
    <3>2. IsBoard(b) /\ c \in Caps(b) /\ MaxWager \in Nat /\ c <= MaxWager
      BY <1>1, <1>2
    <3> HIDE DEF g
    <3>3. SumFunctionOnSet(g, 1 .. MaxWager)
             = SumFunctionOnSet([q \in b.actives |-> Slice(b, q, Floor(b, c), c)], b.actives)
      BY <3>1, <3>2, PotByLevels
    <3> QED
      BY <1>1, <3>3
  <2> HIDE DEF h, g, k, L
  <2>4. SumFunctionOnSet(h, L) = k * SumFunctionOnSet(g, L)
    BY <1>1, <2>1, <2>2, SumScales
  <2>5. SumFunctionOnSet(g, L) \in Nat
    BY <1>1, <2>2, SumIsNat
  <2> QED
    BY <2>3, <2>4, <2>5 DEF h, k
<1>8. DeadMoney(b) \in Nat
  BY <1>1, SumIsNat DEF DeadMoney, IsBoard
<1>9. \A c \in C : dead[c] \in Nat
  BY <1>2, <1>8
<1>10. SumFunctionOnSet(dead, C) = atOnce
  <2>1. PICK c \in C : Floor(b, c) = 0 /\ \A d \in C \ {c} : Floor(b, d) # 0
    BY <1>1, FirstPot
  <2>2. Floor(b, c) < 1 /\ 1 <= c
    <3>1. TopWager(b) # 0 /\ (c = 0 => TopWager(b) = 0)
      BY <1>1, EndedCuts, CapsOfBoard
    <3> QED
      BY <2>1, <1>2, <3>1
  <2>3. atOnce = PotShare(p, c) * DeadMoney(b)
    BY <2>2, ShareOfLevel
  <2>4. dead[c] = atOnce /\ \A d \in C \ {c} : dead[d] = 0
    BY <2>1, <2>3
  <2> HIDE DEF dead, C, atOnce
  <2> QED
    BY <1>1, <1>9, <2>1, <2>4, SumOfOne
<1>11. \A c \in C : cols[c] \in Int /\ dead[c] \in Int /\ owed[c] = cols[c] + dead[c]
  <2> SUFFICES ASSUME NEW c \in C PROVE cols[c] \in Int /\ dead[c] \in Int /\ owed[c] = cols[c] + dead[c]
    OBVIOUS
  <2> DEFINE k == PotShare(p, c)
             s == slices(c)
             e == IF Floor(b, c) = 0 THEN DeadMoney(b) ELSE 0
  <2>1. PotAt(b, c).amt = s + e
    BY DEF PotAt
  <2>2. k \in Nat /\ s \in Nat /\ e \in Nat /\ cols[c] = k * s
    BY <1>2, <1>7, <1>8
  <2>3. dead[c] = k * e /\ dead[c] \in Nat
    <3>1. k * 0 = 0
      BY <2>2
    <3> QED
      BY <3>1, <1>9
  <2>4. owed[c] = k * PotAt(b, c).amt
    OBVIOUS
  <2> HIDE DEF k, s, e, cols, dead, owed
  <2>5. k * (s + e) = k * s + k * e /\ k * s \in Nat
    BY <2>2
  <2> QED
    BY <2>1, <2>2, <2>3, <2>4, <2>5
<1>12. SumFunctionOnSet(owed, C) = SumFunctionOnSet(cols, C) + SumFunctionOnSet(dead, C)
  <2> HIDE DEF owed, cols, dead, C
  <2> QED
    BY <1>1, <1>11, SumAdds
<1>13. SumFunctionOnSet(f, L) = SumFunctionOnSet(rows, L)
  <2> HIDE DEF f, rows, L
  <2> QED
    BY <1>1, <1>6, SumEqual
<1>14. Owed(p) = SumFunctionOnSet(f, L) + atOnce
  BY DEF Owed
<1>15. Owed(p) = SumFunctionOnSet(owed, C)
  <2> HIDE DEF owed, cols, dead, C, f, rows, L, atOnce
  <2> QED
    BY <1>5, <1>10, <1>12, <1>13, <1>14
<1> QED
  BY <1>15

(* There is a pot for every cap.                                           *)
LEMMA PotForEveryCap ==
    ASSUME ShowdownAssumption, Ended
    PROVE  /\ SidepotSummary(b) = {PotAt(b, c) : c \in Caps(b)}
           /\ Cardinality(SidepotSummary(b)) = Cardinality(Caps(b))
           /\ Cardinality(Caps(b)) \in Nat \ {0}
<1> DEFINE C == Caps(b)
           pots == SidepotSummary(b)
           P == [c \in C |-> PotAt(b, c)]
<1>1. IsFiniteSet(C) /\ C # {}
  <2>1. IsBoard(b)
    BY EndedBoard
  <2> QED
    BY <2>1, CapsOfBoard
<1>2. 1 \in Players
  BY ShowdownAssumption DEF ShowdownAssumption, Players
<1>3. pots = {PotAt(b, c) : c \in C}
  <2>1. \A c \in C : PotAt(b, c).amt # 0
    BY <1>2, PaidByPot
  <2> QED
    BY <2>1 DEF SidepotSummary
<1>4. \A c \in C : PotAt(b, c).cap = c
  BY DEF PotAt
<1>5. P \in Bijection(C, pots)
  <2>1. P \in Surjection(C, pots)
    BY <1>3 DEF Surjection
  <2>2. P \in Injection(C, pots)
    BY <1>3, <1>4 DEF Injection, IsInjective
  <2> QED
    BY <2>1, <2>2 DEF Bijection
<1>6. Cardinality(pots) = Cardinality(C)
  <2> HIDE DEF P, C, pots
  <2> QED
    BY <1>1, <1>5, FS_Bijection DEF ExistsBijection
<1>7. Cardinality(C) \in Nat /\ Cardinality(C) # 0
  BY <1>1, FS_CardinalityType, FS_EmptySet
<1> QED
  BY <1>3, <1>6, <1>7

(* Who is paid what he is owed for every pot, to less than a chip, is paid *)
(* what he is owed to less than a chip for each of the pots.               *)
LEMMA ErrorPerPot ==
    ASSUME ShowdownAssumption, Ended, NEW p \in Players
    PROVE  LET error == 60 * ShowdownWinnings(b, Order)[p] - Owed(p)
               slack == 60 * Cardinality(SidepotSummary(b))
           IN  -slack < error /\ error < slack
<1> DEFINE C == Caps(b)
           pots == SidepotSummary(b)
           P == [c \in C |-> PotAt(b, c)]
           got == [pot \in pots |-> PotWinnings(b, Order, pot)[p]]
           won1 == [c \in C |-> got[P[c]]]
           won12 == [c \in C |-> 60 * won1[c]]
           owed == [c \in C |-> PotShare(p, c) * PotAt(b, c).amt]
           err == [c \in C |-> won12[c] - owed[c]]
           most == [c \in C |-> 59]
           least == [c \in C |-> -59]
           n == Cardinality(C)
<1>1. /\ pots = {P[c] : c \in C} /\ Cardinality(pots) = n /\ n \in Nat \ {0}
      /\ IsFiniteSet(C)
  <2>1. IsBoard(b)
    BY EndedBoard
  <2>2. {P[c] : c \in C} = {PotAt(b, c) : c \in C}
    OBVIOUS
  <2> QED
    BY <2>1, <2>2, CapsOfBoard, PotForEveryCap
<1>2. \A c \in C : /\ won1[c] \in Nat /\ owed[c] \in Int
                   /\ -59 <= 60 * won1[c] - owed[c] /\ 60 * won1[c] - owed[c] <= 59
  <2> SUFFICES ASSUME NEW c \in C
               PROVE  /\ won1[c] \in Nat /\ owed[c] \in Int
                      /\ -59 <= 60 * won1[c] - owed[c] /\ 60 * won1[c] - owed[c] <= 59
    OBVIOUS
  <2> DEFINE pot == PotAt(b, c)
             k == PotShare(p, c)
             g == PotWinnings(b, Order, pot)[p]
  <2>1. /\ pot.amt \in Nat \ {0} /\ pot \in pots /\ k \in Nat /\ g \in Nat
        /\ -59 <= 60 * g - k * pot.amt /\ 60 * g - k * pot.amt <= 59
    BY PaidByPot
  <2>2. won1[c] = g
    BY <2>1
  <2>3. owed[c] = k * pot.amt
    OBVIOUS
  <2> HIDE DEF won1, owed, g, k, pot
  <2>4. k * pot.amt \in Int
    BY <2>1
  <2> QED
    BY <2>1, <2>2, <2>3, <2>4
<1>3. ShowdownWinnings(b, Order)[p] = SumFunctionOnSet(got, pots)
  <2>1. b.actives = Players
    BY EndedBoard
  <2> QED
    BY <2>1 DEF ShowdownWinnings
<1>4. SumFunctionOnSet(got, pots) = SumFunctionOnSet(won1, C)
  <2>1. \A c, d \in C : P[c] = P[d] => c = d
    <3>1. \A c \in C : P[c].cap = c
      BY DEF PotAt
    <3> QED
      BY <3>1
  <2>2. \A c \in C : got[P[c]] \in Int
    <3>1. \A c \in C : won1[c] = got[P[c]] /\ won1[c] \in Int
      <4>1. \A c \in C : won1[c] = got[P[c]]
        OBVIOUS
      <4> HIDE DEF won1, got, P
      <4> QED
        BY <4>1, <1>2
    <3> QED
      BY <3>1
  <2> HIDE DEF got, P, C, pots, won1
  <2>3. SumFunctionOnSet(got, {P[c] : c \in C}) = SumFunctionOnSet([c \in C |-> got[P[c]]], C)
    BY <1>1, <2>1, <2>2, SumOverImage
  <2> QED
    BY <1>1, <2>3 DEF won1
<1>5. SumFunctionOnSet(won12, C) = 60 * SumFunctionOnSet(won1, C)
  <2>1. \A c \in C : won1[c] \in Int /\ won12[c] = 60 * won1[c]
    BY <1>2
  <2> HIDE DEF won1, won12, C
  <2> QED
    BY <1>1, <2>1, SumScales
<1>6. Owed(p) = SumFunctionOnSet(owed, C)
  BY OwedByPots
<1>7. SumFunctionOnSet(won12, C) = SumFunctionOnSet(err, C) + SumFunctionOnSet(owed, C)
  <2>1. \A c \in C : err[c] \in Int /\ owed[c] \in Int /\ won12[c] = err[c] + owed[c]
    <3>1. \A c \in C : won12[c] = 60 * won1[c] /\ err[c] = won12[c] - owed[c]
      OBVIOUS
    <3> HIDE DEF won1, won12, owed, err
    <3> QED
      BY <1>2, <3>1
  <2> HIDE DEF err, owed, won12, C
  <2> QED
    BY <1>1, <2>1, SumAdds
<1>8. /\ SumFunctionOnSet(err, C) <= 59 * n /\ -59 * n <= SumFunctionOnSet(err, C)
      /\ SumFunctionOnSet(err, C) \in Int
  <2>1. \A c \in C : /\ err[c] \in Int /\ most[c] = 59 /\ least[c] = -59
                     /\ err[c] <= most[c] /\ least[c] <= err[c]
    <3>1. \A c \in C : err[c] = 60 * won1[c] - owed[c] /\ most[c] = 59 /\ least[c] = -59
      OBVIOUS
    <3> HIDE DEF won1, owed, err, most, least
    <3> QED
      BY <1>2, <3>1
  <2> HIDE DEF err, most, least, C, n
  <2>2. SumFunctionOnSet(err, C) <= SumFunctionOnSet(most, C)
    BY <1>1, <2>1, SumMonotone
  <2>3. SumFunctionOnSet(least, C) <= SumFunctionOnSet(err, C)
    BY <1>1, <2>1, SumMonotone
  <2>4. SumFunctionOnSet(most, C) = 59 * n
    BY <1>1, <2>1, SumOfConstant DEF n
  <2>5. SumFunctionOnSet(least, C) = -59 * n
    BY <1>1, <2>1, SumOfConstant DEF n
  <2>6. SumFunctionOnSet(err, C) \in Int
    BY <1>1, <2>1, SumIsInt
  <2> QED
    BY <2>2, <2>3, <2>4, <2>5, <2>6
<1>9. SumFunctionOnSet(owed, C) \in Int /\ SumFunctionOnSet(won1, C) \in Int
  <2>1. \A c \in C : owed[c] \in Int /\ won1[c] \in Int
    BY <1>2
  <2> HIDE DEF owed, won1, C
  <2> QED
    BY <1>1, <2>1, SumIsInt
<1> HIDE DEF C, pots, P, got, won1, won12, owed, err, most, least, n
<1>10. 60 * ShowdownWinnings(b, Order)[p] - Owed(p) = SumFunctionOnSet(err, C)
  BY <1>3, <1>4, <1>5, <1>6, <1>7, <1>8, <1>9
<1>11. Cardinality(SidepotSummary(b)) = n
  BY <1>1 DEF pots
<1> QED
  BY <1>1, <1>8, <1>10, <1>11

(* However many side pots there are, nobody is paid a whole chip per pot   *)
(* more or less than its share of the chips that it bet for, level by      *)
(* level, by the best hands among those who bet that far.                  *)
THEOREM SharesAreFair == Spec => []FairShares
<1>1. ShowdownInv => FairShares
  <2> SUFFICES ASSUME ShowdownInv, Settled, NEW p \in Players
               PROVE  LET error == 60 * won[p] - Owed(p)
                          slack == 60 * Cardinality(SidepotSummary(b))
                      IN  -slack < error /\ error < slack
    BY DEF FairShares
  <2>1. won = ShowdownWinnings(b, Order) /\ Ended
    BY DEF ShowdownInv
  <2> QED
    BY <2>1, ErrorPerPot, ShowdownAssumption
<1> QED
  BY <1>1, PaidByTheRules, PTL

=============================================================================
