---------------------------- MODULE SeatingProofs ----------------------------
(***************************************************************************)
(* Who is dealt in, who owes a big blind, where the button and the blinds  *)
(* go, and what becomes of the chips, for any number of players, seats and *)
(* requests.                                                               *)
(*                                                                         *)
(* The seats and the debts (IInv):                                         *)
(*   - the events between two hands only ever keep a player's debt, his    *)
(*     seat or his absence (RowKeeps, Follows), until the blinds move;     *)
(*   - when they are drawn anew, whoever is not dealt in owes (DrawnOwes); *)
(*     when they move on, whoever is passed does (RotatedOwes), and who    *)
(*     waits for the next hand cannot be passed, since the big blind would *)
(*     stop at him (NextBigNearest);                                       *)
(*   - who is dealt in and owes, posts (DealsOwes);                        *)
(*   - so every outcome of setup_hand is a GoodOutcome (SetupHandGood),    *)
(*     and a dispatch after any request keeps IInv (CommitKeeps).          *)
(*                                                                         *)
(* The positions (Placing):                                                *)
(*   - what comes before the blinds move takes players out of the game     *)
(*     (Rests), and brings in only who waited for the big blind and is the *)
(*     next there (BeforeBlinds, SetSittingBefore);                        *)
(*   - with the blinds in order and nobody waiting for them beyond someone *)
(*     who waits for the next hand, the small blind comes to where the big *)
(*     one was, or right before where it comes (SmallPlaces, BlindsMove),  *)
(*     and the button stays behind both (ButtonStaysBehind);               *)
(*   - so they stay in order (BlindsStayInOrder), and nobody comes in      *)
(*     between them (MovesChecked);                                        *)
(*   - when no hand is played, whoever is active sat in with too little,   *)
(*     or has the button, or is alone (Idle, NotEnoughIdle): that leaves   *)
(*     the checks of setup_hand just the failures that SanityChecksHold    *)
(*     names (SetupHandChecked, SetupHandPlaces).                          *)
(*                                                                         *)
(* The chips:                                                              *)
(*   - a rebuy moves chips from the balance to the stack, which counts for *)
(*     nobody when the player has no seat (RebuysChips); nothing else in   *)
(*     setup_hand moves any (NoChipsMove, SetupHandChips);                 *)
(*   - who joins is still there at the end of his dispatch (Fresh), and of *)
(*     two players of a hand one wins what the other loses (HandChips);    *)
(*   - so row by row, and by the sums of SidePotsProofs in all, chips are  *)
(*     lost just by who was away, or left before the rebuys (GoneIs).      *)
(***************************************************************************)
EXTENDS Seating, SidePotsProofs, FiniteSetTheorems, WellFoundedInduction, TLAPS

-----------------------------------------------------------------------------
(* The nearest                                                             *)

(* A function on a finite set has a least value.                           *)
LEMMA Least ==
    ASSUME NEW S, IsFiniteSet(S), S # {}, NEW d \in [S -> Int]
    PROVE  \E x \in S : \A y \in S : d[x] <= d[y]
<1> DEFINE below(x) == {y \in S : d[y] < d[x]}
           T        == {below(x) : x \in S}
<1>1. IsWellFoundedOn(StrictSubsetOrdering(S), SUBSET S)
  BY FS_StrictSubsetOrderingWellFounded, FS_FiniteSubsetsOfFinite
<1>2. T \subseteq SUBSET S /\ T # {}
  <2>1. T # {}
    <3>1. PICK x \in S : TRUE
      OBVIOUS
    <3>2. below(x) \in T
      OBVIOUS
    <3>. QED  BY <3>2
  <2>2. \A x \in S : below(x) \in SUBSET S
    OBVIOUS
  <2>3. T \subseteq SUBSET S
    <3>. HIDE DEF below
    <3>. QED  BY <2>2
  <2>. QED  BY <2>1, <2>3
<1>3. PICK A \in T : \A B \in T : ~(<<B, A>> \in StrictSubsetOrdering(S))
  <2>. HIDE DEF T
  <2>. QED  BY <1>1, <1>2, WFMin
<1>4. PICK x \in S : A = below(x)
  OBVIOUS
<1>5. ASSUME NEW y \in S, d[y] < d[x] PROVE FALSE
  <2>1. below(y) \subseteq below(x)
    BY <1>5
  <2>2. y \in below(x) /\ y \notin below(y)
    BY <1>5
  <2>3. <<below(y), below(x)>> \in StrictSubsetOrdering(S)
    BY <2>1, <2>2 DEF StrictSubsetOrdering
  <2>. QED  BY <2>3, <1>3, <1>4
<1>. QED  BY <1>5

LEMMA DistanceType ==
    ASSUME NEW i \in Int, NEW j \in Int
    PROVE  /\ Distance(i, j) \in Int /\ Distance(i, j) \in Nat
           /\ i # j => Distance(i, j) < NumSeats
BY BlindsAssumption DEF Distance

-----------------------------------------------------------------------------
(* Rooms                                                                   *)

Rows == {x \in PlayerRow : (x.seated <=> x.state # None) /\ (x.seated => x.pos \in Seats)}

Spots == Seats \cup {NoSeat}

IsRoom(r) == r \in [pl : [Players -> Rows], btn : Spots, sb : Spots, bb : Spots]

OnePerSeat(r) == \A p, q \in Seated(r) : r.pl[p].pos = r.pl[q].pos => p = q

(* A player does not move, does not come back, and does not forget a debt. *)
RowKeeps(x, y) ==
    /\ y.pos = x.pos
    /\ y.seated => x.seated
    /\ x.owesBb => y.owesBb

Keeps(r, s) == \A p \in Players : RowKeeps(r.pl[p], s.pl[p])

Stays(r, s) ==
    \A p \in Players : /\ s.pl[p].pos = r.pl[p].pos
                       /\ s.pl[p].seated => r.pl[p].seated

SameSpots(r, s) == s.btn = r.btn /\ s.sb = r.sb /\ s.bb = r.bb

(* Some of the players of r are changed to what f says.                    *)
Follows(r, s) == IsRoom(s) /\ Keeps(r, s) /\ SameSpots(r, s)

LEMMA RowOf == ASSUME NEW r, IsRoom(r), NEW p \in Players PROVE r.pl[p] \in Rows
BY DEF IsRoom

LEMMA RowKeepsSelf == ASSUME NEW x PROVE RowKeeps(x, x)
BY DEF RowKeeps

(* A room in which the rows of the players are replaced.                   *)
LEMMA Replaced ==
    ASSUME NEW r, IsRoom(r), NEW f \in [Players -> Rows]
    PROVE  /\ IsRoom([r EXCEPT !.pl = f])
           /\ SameSpots(r, [r EXCEPT !.pl = f])
           /\ [r EXCEPT !.pl = f].pl = f
           /\ (\A p \in Players : RowKeeps(r.pl[p], f[p])) => Keeps(r, [r EXCEPT !.pl = f])
BY DEF IsRoom, Keeps, SameSpots

(* Who stays has his seat to himself.                                      *)
LEMMA StaysInSeats ==
    ASSUME NEW r, NEW s, Stays(r, s), OnePerSeat(r)
    PROVE  OnePerSeat(s)
BY DEF Stays, OnePerSeat, Seated

LEMMA KeepsStays == ASSUME NEW r, NEW s, Keeps(r, s) PROVE Stays(r, s)
BY DEF Keeps, RowKeeps, Stays

LEMMA StaysTransitive ==
    ASSUME NEW r, NEW s, NEW t, Stays(r, s), Stays(s, t)
    PROVE  Stays(r, t)
BY DEF Stays

LEMMA KeepsTransitive ==
    ASSUME NEW r, NEW s, NEW t, Follows(r, s), Follows(s, t)
    PROVE  Follows(r, t)
BY DEF Follows, Keeps, RowKeeps, SameSpots

-----------------------------------------------------------------------------
(* The events of a player                                                  *)

(* One player sits in, out, leaves, or starts over.                        *)
LEMMA SitInRow ==
    ASSUME NEW x \in Rows, x.seated
    PROVE  SitInNow(x) \in Rows /\ RowKeeps(x, SitInNow(x))
<1>1. SitInNow(x) \in PlayerRow
  BY DEF SitInNow, Rows, PlayerRow, PlayingStates, In
<1>. QED  BY <1>1 DEF SitInNow, Rows, RowKeeps, PlayerRow, In, None

LEMMA SitOutRow ==
    ASSUME NEW x \in Rows, x.seated
    PROVE  SitOutNow(x) \in Rows /\ RowKeeps(x, SitOutNow(x))
<1>1. SitOutNow(x) \in PlayerRow
  BY DEF SitOutNow, Rows, PlayerRow, PlayingStates, Out
<1>. QED  BY <1>1 DEF SitOutNow, Rows, RowKeeps, PlayerRow, Out, None

LEMMA LeaveRow ==
    ASSUME NEW x \in Rows
    PROVE  LeaveNow(x) \in Rows /\ RowKeeps(x, LeaveNow(x))
<1>1. x.balance + x.stack \in Nat
  BY DEF PlayerRow, Rows
<1>2. LeaveNow(x) \in PlayerRow
  BY <1>1 DEF LeaveNow, Rows, PlayerRow, PlayingStates, None
<1>. QED  BY <1>2 DEF LeaveNow, Rows, RowKeeps, PlayerRow, None

LEMMA StartOverRow ==
    ASSUME NEW x \in Rows, x.seated
    PROVE  /\ StartOver(x) \in Rows
           /\ StartOver(x).pos = x.pos
           /\ StartOver(x).seated
           /\ StartOver(x).state = In \/ StartOver(x).owesBb
<1>1. StartOver(x) \in PlayerRow
  BY DEF StartOver, Rows, PlayerRow, PlayingStates, In, CanPlay
<1>. QED  BY <1>1 DEF StartOver, Rows, PlayerRow, In, None, CanPlay

(* Some players sit in, out, or leave.                                     *)
LEMMA SitInRooms ==
    ASSUME NEW r, IsRoom(r), NEW ps \in SUBSET Seated(r)
    PROVE  Follows(r, Each(r, ps, SitInNow))
<1> DEFINE f == [p \in Players |-> IF p \in ps THEN SitInNow(r.pl[p]) ELSE r.pl[p]]
<1>1. \A p \in Players : f[p] \in Rows /\ RowKeeps(r.pl[p], f[p])
  BY SitInRow, RowOf, RowKeepsSelf DEF Seated
<1>2. Each(r, ps, SitInNow) = [r EXCEPT !.pl = f]
  BY DEF Each
<1>3. f \in [Players -> Rows]
  BY <1>1
<1> HIDE DEF f
<1>. QED  BY <1>1, <1>2, <1>3, Replaced DEF Follows

LEMMA SitOutRooms ==
    ASSUME NEW r, IsRoom(r), NEW ps \in SUBSET Seated(r)
    PROVE  Follows(r, Each(r, ps, SitOutNow))
<1> DEFINE f == [p \in Players |-> IF p \in ps THEN SitOutNow(r.pl[p]) ELSE r.pl[p]]
<1>1. \A p \in Players : f[p] \in Rows /\ RowKeeps(r.pl[p], f[p])
  BY SitOutRow, RowOf, RowKeepsSelf DEF Seated
<1>2. Each(r, ps, SitOutNow) = [r EXCEPT !.pl = f]
  BY DEF Each
<1>3. f \in [Players -> Rows]
  BY <1>1
<1> HIDE DEF f
<1>. QED  BY <1>1, <1>2, <1>3, Replaced DEF Follows

LEMMA LeaveRooms ==
    ASSUME NEW r, IsRoom(r), NEW ps
    PROVE  Follows(r, Each(r, ps, LeaveNow))
<1> DEFINE f == [p \in Players |-> IF p \in ps THEN LeaveNow(r.pl[p]) ELSE r.pl[p]]
<1>1. \A p \in Players : f[p] \in Rows /\ RowKeeps(r.pl[p], f[p])
  BY LeaveRow, RowOf, RowKeepsSelf
<1>2. Each(r, ps, LeaveNow) = [r EXCEPT !.pl = f]
  BY DEF Each
<1>3. f \in [Players -> Rows]
  BY <1>1
<1> HIDE DEF f
<1>. QED  BY <1>1, <1>2, <1>3, Replaced DEF Follows

-----------------------------------------------------------------------------
(* Between hands                                                           *)

(* What queued_sitouts_and_boot_empty_stacks does.                         *)
LEMMA QueuedSitoutsFollows ==
    ASSUME NEW r, IsRoom(r)
    PROVE  Follows(r, QueuedSitouts(r))
<1> DEFINE queued(s) == {p \in Active(r) : r.pl[p].state = s}
           outs      == queued(OutPending) \cup ({p \in Active(r) : r.pl[p].stack = 0} \ queued(Leaving))
           s1        == Each(r, outs, SitOutNow)
<1>1. outs \in SUBSET Seated(r)
  BY DEF Seated, Active, IsActive
<1>2. Follows(r, s1)
  BY <1>1, SitOutRooms
<1>3. Follows(s1, Each(s1, queued(Leaving), LeaveNow))
  BY <1>2, LeaveRooms DEF Follows
<1>4. QueuedSitouts(r) = Each(s1, queued(Leaving), LeaveNow)
  BY DEF QueuedSitouts
<1>. QED  BY <1>2, <1>3, <1>4, KeepsTransitive

(* What set_sitting_given_blinds does.                                     *)
LEMMA SetSittingFollows ==
    ASSUME NEW r, IsRoom(r)
    PROVE  Follows(r, SetSittingGivenBlinds(r))
<1> DEFINE x(p)    == r.pl[p]
           takes   == {p \in Seated(r) : \/ x(p).state = AtBlinds
                                         \/ ~IsSittingOut(x(p)) /\ ~x(p).sitOutAtBlinds}
           reached == {p \in Seated(r) :
                         /\ x(p).pos # r.bb
                         /\ \A q \in takes : Distance(r.bb, x(p).pos) <= Distance(r.bb, x(q).pos)}
           ins     == {p \in reached : x(p).state = AtBlinds}
           outs    == {p \in reached : ~IsSittingOut(x(p)) /\ x(p).sitOutAtBlinds}
           s1      == Each(r, ins, SitInNow)
<1>1. ins \in SUBSET Seated(r) /\ outs \in SUBSET Seated(r)
  OBVIOUS
<1>2. Follows(r, s1)
  BY <1>1, SitInRooms
<1>3. outs \in SUBSET Seated(s1)
  <2>1. \A p \in Players : s1.pl[p].seated = r.pl[p].seated
    BY RowOf DEF Each, IsRoom, SitInNow, Rows, PlayerRow
  <2>. QED  BY <1>1, <2>1 DEF Seated
<1>4. Follows(s1, Each(s1, outs, SitOutNow))
  BY <1>2, <1>3, SitOutRooms DEF Follows
<1>5. SetSittingGivenBlinds(r) = Each(s1, outs, SitOutNow)
  BY DEF SetSittingGivenBlinds
<1>. QED  BY <1>2, <1>4, <1>5, KeepsTransitive

(* Who can play after everybody's wish is granted could play before, or    *)
(* was sat in with less than he owes.                                      *)
LEMMA NotEnoughWaits ==
    ASSUME NEW r, IsRoom(r), ~EnoughPlayers(r)
    PROVE  /\ IsRoom(NotEnough(r))
           /\ Keeps(r, NotEnough(r))
           /\ ~EnoughPlayers(NotEnough(r)) \/ SatInShort(NotEnough(r)) # {}
<1> DEFINE n == NotEnough(r)
           waiting(s) == {p \in Seated(r) : r.pl[p].state = s}
           locked     == IF Ready(r) = {} THEN r
                         ELSE [r EXCEPT !.btn = r.pl[CHOOSE p \in Ready(r) : TRUE].pos,
                                        !.sb = NoSeat, !.bb = NoSeat]
           s1 == Each(locked, waiting(OutPending), SitOutNow)
           s2 == Each(s1, waiting(InPending), SitInNow)
<1>1. n = Each(s2, waiting(Leaving), LeaveNow)
  BY DEF NotEnough
<1>2. IsRoom(locked) /\ locked.pl = r.pl
  <2>1. \A p \in Ready(r) : r.pl[p].pos \in Seats
    BY RowOf DEF Ready, Seated, Rows
  <2>2. Ready(r) # {} => (CHOOSE p \in Ready(r) : TRUE) \in Ready(r)
    OBVIOUS
  <2>. QED  BY <2>1, <2>2 DEF IsRoom, Spots
<1>3. waiting(OutPending) \in SUBSET Seated(locked)
  BY <1>2 DEF Seated
<1>4. Follows(locked, s1)
  BY <1>2, <1>3, SitOutRooms
<1>5. \A p \in Players : s1.pl[p] = IF p \in waiting(OutPending) THEN SitOutNow(r.pl[p]) ELSE r.pl[p]
  BY <1>2 DEF Each, IsRoom
<1>6. waiting(InPending) \in SUBSET Seated(s1)
  BY <1>5 DEF Seated, OutPending, InPending
<1>7. Follows(s1, s2)
  BY <1>4, <1>6, SitInRooms DEF Follows
<1>8. \A p \in Players : s2.pl[p] = IF p \in waiting(InPending) THEN SitInNow(s1.pl[p]) ELSE s1.pl[p]
  BY <1>4 DEF Each, IsRoom, Follows
<1>9. Follows(s2, n)
  BY <1>1, <1>7, LeaveRooms DEF Follows
<1>10. \A p \in Players : n.pl[p] = IF p \in waiting(Leaving) THEN LeaveNow(s2.pl[p]) ELSE s2.pl[p]
  <2>1. IsRoom(s2)
    BY <1>7 DEF Follows
  <2>. HIDE DEF n, s2
  <2>. QED  BY <1>1, <2>1 DEF Each, IsRoom
<1>11. Follows(locked, n)
  BY <1>4, <1>7, <1>9, KeepsTransitive
<1>12. ASSUME SatInShort(n) = {} PROVE Ready(n) \subseteq Ready(r)
  <2> SUFFICES ASSUME NEW p \in Players, n.pl[p].seated, CanPlay(n.pl[p])
               PROVE  r.pl[p].seated /\ CanPlay(r.pl[p])
    BY DEF Ready, Seated
  <2>1. r.pl[p].seated
    BY <1>2, <1>11 DEF Follows, Keeps, RowKeeps
  <2>2. CASE r.pl[p].state = OutPending
    BY <2>2, <2>1 DEF CanPlay
  <2>3. CASE r.pl[p].state = Leaving
    BY <2>3, <2>1 DEF CanPlay
  <2>4. CASE r.pl[p].state = InPending
    <3>1. n.pl[p] = SitInNow(r.pl[p])
      BY <2>1, <2>4, <1>5, <1>8, <1>10 DEF Seated, InPending, OutPending, Leaving
    <3>2. p \in Active(n) /\ MinAmtToPlay(n.pl[p]) = MinAmtToPlay(r.pl[p]) /\ n.pl[p].stack = r.pl[p].stack
      BY <3>1, <2>1, RowOf DEF Active, IsActive, IsSittingOut, SitInNow, MinAmtToPlay, Rows, PlayerRow, In, AtBlinds, Out, InPending
    <3>3. ~(n.pl[p].stack < MinAmtToPlay(n.pl[p]))
      BY <3>2, <1>12 DEF SatInShort
    <3>4. r.pl[p].stack \in Nat /\ MinAmtToPlay(r.pl[p]) \in Nat
      BY RowOf, BlindsAssumption DEF Rows, PlayerRow, MinAmtToPlay
    <3>. QED  BY <2>1, <2>4, <3>2, <3>3, <3>4 DEF CanPlay
  <2>5. CASE r.pl[p].state \notin {OutPending, Leaving, InPending}
    <3>1. n.pl[p] = r.pl[p]
      BY <2>5, <1>5, <1>8, <1>10 DEF Seated
    <3>. QED  BY <3>1, <2>1
  <2>. QED  BY <2>2, <2>3, <2>4, <2>5
<1>13. ASSUME SatInShort(n) = {} PROVE ~EnoughPlayers(n)
  <2>1. IsFiniteSet(Ready(r))
    BY FS_Subset, BlindsAssumption DEF Ready, Seated
  <2>2. Cardinality(Ready(n)) <= Cardinality(Ready(r)) /\ IsFiniteSet(Ready(n))
    BY <1>12, <1>13, <2>1, FS_Subset
  <2>3. Cardinality(Ready(n)) \in Nat /\ Cardinality(Ready(r)) \in Nat
    BY <2>1, <2>2, FS_CardinalityType
  <2>. QED  BY <2>2, <2>3 DEF EnoughPlayers
<1>. QED  BY <1>2, <1>11, <1>13 DEF Follows, Keeps

(* One rebuy: the checks keep it in its bounds.                            *)
LEMMA RebuyRow ==
    ASSUME NEW x \in Rows, NEW funds \in Nat, NEW y, y = RebuyUpdate(RebuyCheck(x), funds),
           y.balance >= 0
    PROVE  y \in Rows /\ RowKeeps(x, y)
<1> DEFINE c == RebuyCheck(x)
<1>1. c.rebuy \in 0 .. MaxBuyin /\ c = [x EXCEPT !.rebuy = c.rebuy]
  <2>1. x.stack \in Nat /\ x.rebuy \in 0 .. MaxBuyin /\ x.auto \in 0 .. MaxBuyin
    BY DEF Rows, PlayerRow
  <2>2. c = [x EXCEPT !.rebuy = IF x.rebuy > 0
                THEN IF LegalTotal(x.stack + x.rebuy) THEN x.rebuy ELSE 0
                ELSE IF LegalBuyin(x, x.auto - x.stack) THEN x.auto - x.stack ELSE 0]
    BY DEF RebuyCheck
  <2>3. c.rebuy = IF x.rebuy > 0
                THEN IF LegalTotal(x.stack + x.rebuy) THEN x.rebuy ELSE 0
                ELSE IF LegalBuyin(x, x.auto - x.stack) THEN x.auto - x.stack ELSE 0
    BY <2>2 DEF Rows, PlayerRow
  <2>4. c.rebuy \in 0 .. MaxBuyin
    BY <2>1, <2>3, BuyinAssumption, BlindsAssumption DEF LegalTotal, LegalBuyin
  <2>. QED  BY <2>2, <2>3, <2>4
<1>2. c \in Rows /\ RowKeeps(x, c)
  BY <1>1 DEF Rows, PlayerRow, RowKeeps
<1> HIDE DEF c
<1>3. CASE funds >= c.rebuy
  <2>1. y = [c EXCEPT !.stack = c.stack + c.rebuy, !.balance = c.balance - c.rebuy, !.rebuy = 0]
    BY <1>3 DEF RebuyUpdate, c
  <2>2. c.stack + c.rebuy \in Nat /\ c.balance - c.rebuy \in Int /\ 0 \in 0 .. MaxBuyin
    BY <1>2, BuyinAssumption DEF Rows, PlayerRow
  <2>3. y.balance = c.balance - c.rebuy
    BY <2>1, <1>2 DEF Rows, PlayerRow
  <2>4. c.balance - c.rebuy \in Nat
    BY <2>2, <2>3
  <2>. QED  BY <2>1, <2>2, <2>4, <1>2 DEF Rows, PlayerRow, RowKeeps
<1>4. CASE ~(funds >= c.rebuy)
  <2>1. y = [c EXCEPT !.rebuy = 0] /\ 0 \in 0 .. MaxBuyin
    BY <1>4, BuyinAssumption DEF RebuyUpdate, c
  <2>. QED  BY <2>1, <1>2 DEF Rows, PlayerRow, RowKeeps
<1>. QED  BY <1>3, <1>4

LEMMA RebuyBalance ==
    ASSUME NEW r, IsRoom(r), NEW db, NEW p \in Players
    PROVE  Rebuys(r, db).pl[p].balance \in Int
<1> DEFINE x == r.pl[p]
           c == RebuyCheck(x)
<1>1. x \in Rows /\ x.stack \in Int /\ x.auto \in Int /\ x.rebuy \in Int /\ x.balance \in Int
  <2>1. x \in Rows
    BY RowOf
  <2>. QED  BY <2>1 DEF Rows, PlayerRow
<1>2. Rebuys(r, db).pl[p] = RebuyUpdate(c, db.pl[p].balance)
  BY DEF Rebuys, IsRoom
<1>3. c.rebuy \in Int /\ c.balance = x.balance /\ c.balance \in Int
  <2>. HIDE DEF x
  <2>. QED  BY <1>1 DEF RebuyCheck, Rows, PlayerRow
<1>4. DOMAIN c = DOMAIN x /\ "balance" \in DOMAIN x
  <2>. HIDE DEF x
  <2>. QED  BY <1>1 DEF RebuyCheck, Rows, PlayerRow
<1>5. RebuyUpdate(c, db.pl[p].balance).balance \in {c.balance - c.rebuy, c.balance}
  <2>. HIDE DEF c
  <2>. QED  BY <1>1, <1>4 DEF RebuyUpdate, Rows, PlayerRow
<1> HIDE DEF x, c
<1>. QED  BY <1>2, <1>3, <1>5

(* All the rebuys, when nobody pays more than he has.                      *)
LEMMA RebuysFollow ==
    ASSUME NEW r, IsRoom(r), NEW db, IsRoom(db),
           \A p \in Players : Rebuys(r, db).pl[p].balance >= 0
    PROVE  Follows(r, Rebuys(r, db))
<1> DEFINE f == [p \in Players |-> RebuyUpdate(RebuyCheck(r.pl[p]), db.pl[p].balance)]
<1>1. Rebuys(r, db) = [r EXCEPT !.pl = f]
  BY DEF Rebuys
<1>2. Rebuys(r, db).pl = f
  BY <1>1 DEF IsRoom
<1>3. \A p \in Players : f[p] \in Rows /\ RowKeeps(r.pl[p], f[p])
  <2> TAKE p \in Players
  <2>1. r.pl[p] \in Rows /\ db.pl[p].balance \in Nat
    BY RowOf DEF Rows, PlayerRow
  <2>2. f[p].balance >= 0
    BY <1>2
  <2>. QED  BY <2>1, <2>2, RebuyRow
<1>4. f \in [Players -> Rows]
  BY <1>3
<1> HIDE DEF f
<1>. QED  BY <1>1, <1>3, <1>4, Replaced DEF Follows

-----------------------------------------------------------------------------
(* The next hand                                                           *)

(* Who waits for the next hand and kept his seat sits in.                  *)
LEMMA SitPendingInFollows ==
    ASSUME NEW r, NEW s, IsRoom(s), Seated(r) \in SUBSET Players, NEW at,
           \A p \in Seated(r) : r.pl[p].state = InPending => s.pl[p].seated
    PROVE  Follows(s, SitPendingIn(r, s, at))
<1>1. {p \in Seated(r) : r.pl[p].state = InPending} \ MustWait(r, at) \in SUBSET Seated(s)
  BY DEF Seated
<1>. QED  BY <1>1, SitInRooms DEF SitPendingIn

LEMMA PlacedRoom ==
    ASSUME NEW r, IsRoom(r), NEW at, at.btn \in Spots, at.sb \in Spots, at.bb \in Spots
    PROVE  /\ IsRoom(Placed(r, at)) /\ Placed(r, at).pl = r.pl
           /\ Placed(r, at).btn = at.btn /\ Placed(r, at).sb = at.sb /\ Placed(r, at).bb = at.bb
BY DEF IsRoom, Placed

(* Who is not active when the blinds are drawn anew owes a big blind.      *)
LEMMA DrawnOwes ==
    ASSUME NEW r, IsRoom(r), NEW at, at.btn \in Spots, at.sb \in Spots, at.bb \in Spots
    PROVE  /\ IsRoom(Drawn(r, at))
           /\ Stays(r, Drawn(r, at))
           /\ \A p \in Seated(Drawn(r, at)) \ Active(Drawn(r, at)) : Drawn(r, at).pl[p].owesBb
<1> DEFINE f == [p \in Players |-> IF p \in Seated(r) THEN StartOver(r.pl[p]) ELSE r.pl[p]]
           s == Each(r, Seated(r), StartOver)
           t == SitPendingIn(r, s, at)
<1>1. \A p \in Players :
         /\ f[p] \in Rows
         /\ f[p].pos = r.pl[p].pos /\ f[p].seated = r.pl[p].seated
         /\ f[p].seated => f[p].state = In \/ f[p].owesBb
  <2> TAKE p \in Players
  <2>1. CASE p \in Seated(r)
    BY <2>1, RowOf, StartOverRow DEF Seated
  <2>2. CASE p \notin Seated(r)
    <3>1. ~r.pl[p].seated /\ f[p] = r.pl[p]
      BY <2>2 DEF Seated
    <3>. QED  BY <3>1, RowOf
  <2>. QED  BY <2>1, <2>2
<1>2. s = [r EXCEPT !.pl = f]
  BY DEF Each
<1>3. f \in [Players -> Rows]
  BY <1>1
<1>4. IsRoom(s) /\ s.pl = f
  <2>. HIDE DEF f
  <2>. QED  BY <1>2, <1>3, Replaced
<1>5. Seated(r) \in SUBSET Players /\ \A p \in Seated(r) : s.pl[p].seated
  BY <1>1, <1>4 DEF Seated
<1>6. Follows(s, t)
  BY <1>4, <1>5, SitPendingInFollows
<1>7. \A p \in Players : t.pl[p] = f[p] \/ (p \in Seated(r) /\ t.pl[p] = SitInNow(f[p]))
  <2>. HIDE DEF f, s
  <2>. QED  BY <1>4 DEF SitPendingIn, Each, IsRoom, Seated
<1>8. IsRoom(t)
  BY <1>6 DEF Follows
<1>9. \A p \in Players : t.pl[p].seated /\ ~IsActive(t.pl[p]) => t.pl[p].owesBb
  <2> TAKE p \in Players
  <2>1. CASE t.pl[p] = f[p]
    BY <2>1, <1>1 DEF IsActive, IsSittingOut, In, AtBlinds, Out, InPending
  <2>2. CASE p \in Seated(r) /\ t.pl[p] = SitInNow(f[p])
    <3>1. f[p] \in Rows /\ f[p].seated
      BY <2>2, <1>1 DEF Seated
    <3>2. SitInNow(f[p]).seated /\ SitInNow(f[p]).state = In
      BY <3>1 DEF SitInNow, Rows, PlayerRow
    <3>. QED  BY <2>2, <3>2 DEF IsActive, IsSittingOut, In, AtBlinds, Out, InPending
  <2>. QED  BY <1>7, <2>1, <2>2
<1>10. Drawn(r, at) = Placed(t, at)
  BY DEF Drawn
<1>11. IsRoom(Drawn(r, at)) /\ Drawn(r, at).pl = t.pl
  BY <1>8, <1>10, PlacedRoom
<1>12. Stays(r, t)
  <2>1. \A p \in Players : t.pl[p].pos = f[p].pos /\ (t.pl[p].seated => f[p].seated)
    BY <1>4, <1>6 DEF Follows, Keeps, RowKeeps
  <2>. HIDE DEF f, t
  <2>. QED  BY <1>1, <2>1 DEF Stays
<1>13. Stays(r, Drawn(r, at))
  BY <1>11, <1>12 DEF Stays
<1>. QED  BY <1>9, <1>11, <1>13 DEF Seated, Active

(* The next seat of some players is one of theirs, and the nearest.        *)
LEMMA NextSeatNearest ==
    ASSUME NEW r, IsRoom(r), NEW i \in Int, NEW ps \in SUBSET Seated(r), ps # {}
    PROVE  /\ \E p \in ps : NextSeat(r, i, ps) = r.pl[p].pos
           /\ NextSeat(r, i, ps) \in Seats
           /\ \A q \in ps : Distance(i, NextSeat(r, i, ps)) <= Distance(i, r.pl[q].pos)
<1> DEFINE d  == [p \in ps |-> Distance(i, r.pl[p].pos)]
           at == {r.pl[p].pos : p \in ps}
<1>1. \A p \in ps : r.pl[p].pos \in Seats /\ r.pl[p].pos \in Int
  BY RowOf DEF Seated, Rows, Seats
<1>2. d \in [ps -> Int]
  <2>1. \A p \in ps : Distance(i, r.pl[p].pos) \in Int
    <3> TAKE p \in ps
    <3>1. r.pl[p].pos \in Int
      BY <1>1
    <3>. QED  BY <3>1, DistanceType
  <2>. QED  BY <2>1
<1>3. IsFiniteSet(ps)
  BY FS_Subset, BlindsAssumption DEF Seated
<1>4. PICK p \in ps : \A q \in ps : d[p] <= d[q]
  <2>. HIDE DEF d
  <2>. QED  BY <1>2, <1>3, Least
<1>5. r.pl[p].pos \in at /\ \A k \in at : Distance(i, r.pl[p].pos) <= Distance(i, k)
  BY <1>4
<1>6. NextSeat(r, i, ps) \in at /\ \A k \in at : Distance(i, NextSeat(r, i, ps)) <= Distance(i, k)
  <2>1. NextSeat(r, i, ps) = CHOOSE j \in at : \A k \in at : Distance(i, j) <= Distance(i, k)
    BY DEF NextSeat
  <2>. HIDE DEF at
  <2>. QED  BY <1>5, <2>1
<1>. QED  BY <1>1, <1>6

LEMMA EnoughAreReady ==
    ASSUME NEW r, EnoughPlayers(r)
    PROVE  Ready(r) # {}
<1>1. Ready(r) = {} => Cardinality(Ready(r)) = 0
  BY FS_EmptySet, Zenon
<1>. QED  BY <1>1 DEF EnoughPlayers

LEMMA PositionsFromBtnType ==
    ASSUME NEW r, IsRoom(r), EnoughPlayers(r), NEW btn \in Seats
    PROVE  /\ PositionsFromBtn(r, btn).btn \in Spots
           /\ PositionsFromBtn(r, btn).sb \in Spots
           /\ PositionsFromBtn(r, btn).bb \in Spots
<1> DEFINE next == NextSeat(r, btn, Ready(r))
<1>1. Ready(r) \in SUBSET Seated(r) /\ Ready(r) # {} /\ btn \in Int
  BY EnoughAreReady DEF Ready, Seats
<1>2. next \in Seats
  BY <1>1, NextSeatNearest
<1>3. next \in Int
  BY <1>2 DEF Seats
<1>4. NextSeat(r, next, Ready(r)) \in Seats
  <2>. HIDE DEF next
  <2>. QED  BY <1>1, <1>3, NextSeatNearest
<1>. QED  BY <1>2, <1>4 DEF PositionsFromBtn, Positions, Spots

(* The big blind stops at the first who is active or waits for the hand.   *)
LEMMA NextBigNearest ==
    ASSUME NEW r, IsRoom(r), r.bb \in Seats, Active(r) # {}
    PROVE  /\ NextBig(r) \in Seats
           /\ \A p \in MayPostBig(r) : Distance(r.bb, NextBig(r)) <= Distance(r.bb, r.pl[p].pos)
<1>1. MayPostBig(r) \in SUBSET Seated(r) /\ MayPostBig(r) # {} /\ r.bb \in Int
  BY DEF MayPostBig, Active, IsActive, Seated, Seats
<1>. QED  BY <1>1, NextSeatNearest DEF NextBig

(* The small blind finds a seat: the one before the big blind at least.    *)
LEMMA NextSmallType ==
    ASSUME NEW r, IsRoom(r), NextBig(r) \in Seats
    PROVE  NextSmall(r) \in Seats
<1> DEFINE S == {i \in Seats : HasSeat(r, i, Active(r)) \/ Clockwise(i, 1) = NextBig(r)}
           d == [i \in S |-> Distance(r.sb, i)]
<1>1. IsFiniteSet(S)
  <2>1. IsFiniteSet(Seats)
    BY FS_Interval, BlindsAssumption DEF Seats
  <2>2. S \in SUBSET Seats
    OBVIOUS
  <2>. HIDE DEF S
  <2>. QED  BY <2>1, <2>2, FS_Subset
<1>2. S # {}
  <2> DEFINE n == NextBig(r)
             j == IF n = 0 THEN NumSeats - 1 ELSE n - 1
  <2>1. j \in Seats /\ Clockwise(j, 1) = n
    BY BlindsAssumption DEF Seats, Clockwise
  <2>. QED  BY <2>1
<1>3. r.sb \in Int
  BY DEF IsRoom, Spots, Seats, NoSeat
<1>4. d \in [S -> Int] /\ \A j \in Seats : Distance(r.sb, j) \in Int
  <2>1. \A j \in Seats : Distance(r.sb, j) \in Int
    <3> TAKE j \in Seats
    <3>1. j \in Int
      BY DEF Seats
    <3>. QED  BY <3>1, <1>3, DistanceType
  <2>. QED  BY <2>1
<1>5. PICK i \in S : \A j \in S : d[i] <= d[j]
  <2>. HIDE DEF S, d
  <2>. QED  BY <1>1, <1>2, <1>4, Least
<1>6. ASSUME NEW j \in SeatsBetween(r.sb, i)
      PROVE  ~HasSeat(r, j, Active(r)) /\ Clockwise(j, 1) # NextBig(r)
  <2>1. j \in Seats /\ Distance(r.sb, j) < Distance(r.sb, i)
    BY DEF SeatsBetween
  <2>2. Distance(r.sb, j) \in Int /\ Distance(r.sb, i) \in Int
    BY <2>1, <1>4
  <2>3. j \notin S
    <3> SUFFICES ASSUME j \in S PROVE FALSE
      OBVIOUS
    <3>1. d[i] <= d[j] /\ d[i] = Distance(r.sb, i) /\ d[j] = Distance(r.sb, j)
      BY <1>5
    <3>. QED  BY <3>1, <2>1, <2>2
  <2>. QED  BY <2>1, <2>3
<1>7. i \in Seats /\ (HasSeat(r, i, Active(r)) \/ Clockwise(i, 1) = NextBig(r))
  BY <1>5
<1>8. \E k \in Seats :
        /\ HasSeat(r, k, Active(r)) \/ Clockwise(k, 1) = NextBig(r)
        /\ \A j \in SeatsBetween(r.sb, k) :
              ~HasSeat(r, j, Active(r)) /\ Clockwise(j, 1) # NextBig(r)
  <2>. HIDE DEF S, d
  <2>. QED  BY <1>6, <1>7
<1>. QED  BY <1>8 DEF NextSmall

LEMMA TwoOfTwo ==
    ASSUME NEW S, IsFiniteSet(S), Cardinality(S) = 2
    PROVE  \E p, q \in S : p # q
<1>1. S = {} => Cardinality(S) = 0
  BY FS_EmptySet, Zenon
<1>2. PICK p \in S : TRUE
  BY <1>1
<1>3. S = {p} => Cardinality(S) = 1
  BY FS_Singleton, Zenon
<1>4. S # {p}
  BY <1>3
<1>. QED  BY <1>2, <1>4

(* The button and the blinds are at seats when the sanity checks hold.     *)
LEMMA PositionsInRotationType ==
    ASSUME NEW r, IsRoom(r), OnePerSeat(r), r.bb \in Seats, Active(r) # {}, ~RotationFails(r)
    PROVE  /\ PositionsInRotation(r).btn \in Spots
           /\ PositionsInRotation(r).sb \in Spots
           /\ PositionsInRotation(r).bb \in Spots
           /\ PositionsInRotation(r).bb = NextBig(r)
<1>1. NextBig(r) \in Seats /\ NextSmall(r) \in Seats
  BY NextBigNearest, NextSmallType
<1>2. IsFiniteSet(Active(r)) /\ \A p \in Active(r) : p \in Seated(r) /\ r.pl[p].pos \in Seats
  BY FS_Subset, BlindsAssumption, RowOf DEF Active, IsActive, Seated, Rows
<1>3. CASE HeadsUp(r)
  <2>1. PICK p, q \in Active(r) : p # q
    BY <1>2, <1>3, TwoOfTwo DEF RotationFails
  <2>2. r.pl[p].pos # r.pl[q].pos
    BY <2>1, <1>2 DEF OnePerSeat
  <2>3. \E j \in Seats : j # NextBig(r) /\ HasSeat(r, j, Active(r))
    BY <2>1, <2>2, <1>2 DEF HasSeat
  <2>. QED  BY <1>1, <1>3, <2>3 DEF PositionsInRotation, Positions, Spots
<1>4. CASE ~HeadsUp(r)
  <2> DEFINE d == [p \in Active(r) |-> Distance(r.pl[p].pos, NextSmall(r))]
  <2>1. d \in [Active(r) -> Int]
    BY <1>1, <1>2, DistanceType DEF Seats
  <2>2. PICK p \in Active(r) : \A q \in Active(r) : d[p] <= d[q]
    <3>. HIDE DEF d
    <3>. QED  BY <2>1, <1>2, Least
  <2>3. \E j \in Seats :
           /\ HasSeat(r, j, Active(r))
           /\ \A k \in Seats : HasSeat(r, k, Active(r)) =>
                 Distance(j, NextSmall(r)) <= Distance(k, NextSmall(r))
    BY <2>2, <1>2 DEF HasSeat
  <2>. QED  BY <1>1, <1>4, <2>3 DEF PositionsInRotation, Positions, Spots
<1>. QED  BY <1>3, <1>4

(* What a player is charged with whom a blind passes                       *)
LEMMA DebtRow ==
    ASSUME NEW x \in Rows
    PROVE  /\ [x EXCEPT !.owesBb = TRUE] \in Rows /\ RowKeeps(x, [x EXCEPT !.owesBb = TRUE])
           /\ [x EXCEPT !.owesSb = TRUE] \in Rows /\ RowKeeps(x, [x EXCEPT !.owesSb = TRUE])
           /\ x.orbits < MaxOrbits =>
                 /\ [x EXCEPT !.orbits = x.orbits + 1] \in Rows
                 /\ RowKeeps(x, [x EXCEPT !.orbits = x.orbits + 1])
<1>1. x.orbits < MaxOrbits => x.orbits + 1 \in 0 .. MaxOrbits
  BY BlindsAssumption DEF Rows, PlayerRow
<1>. QED  BY <1>1 DEF Rows, PlayerRow, RowKeeps

(* Some players are charged with it.                                       *)
LEMMA OweBbRooms ==
    ASSUME NEW r, IsRoom(r), NEW ps
    PROVE  Follows(r, Each(r, ps, LAMBDA x : [x EXCEPT !.owesBb = TRUE]))
<1> DEFINE f == [p \in Players |-> IF p \in ps THEN [r.pl[p] EXCEPT !.owesBb = TRUE] ELSE r.pl[p]]
<1>1. \A p \in Players : f[p] \in Rows /\ RowKeeps(r.pl[p], f[p])
  <2> TAKE p \in Players
  <2>1. r.pl[p] \in Rows
    BY RowOf
  <2>2. CASE p \in ps
    BY <2>1, <2>2, DebtRow
  <2>3. CASE p \notin ps
    BY <2>1, <2>3, RowKeepsSelf
  <2>. QED  BY <2>2, <2>3
<1>2. Each(r, ps, LAMBDA x : [x EXCEPT !.owesBb = TRUE]) = [r EXCEPT !.pl = f]
  BY DEF Each
<1>3. f \in [Players -> Rows]
  BY <1>1
<1> HIDE DEF f
<1>. QED  BY <1>1, <1>2, <1>3, Replaced DEF Follows

LEMMA OweSbRooms ==
    ASSUME NEW r, IsRoom(r), NEW ps
    PROVE  Follows(r, Each(r, ps, LAMBDA x : [x EXCEPT !.owesSb = TRUE]))
<1> DEFINE f == [p \in Players |-> IF p \in ps THEN [r.pl[p] EXCEPT !.owesSb = TRUE] ELSE r.pl[p]]
<1>1. \A p \in Players : f[p] \in Rows /\ RowKeeps(r.pl[p], f[p])
  <2> TAKE p \in Players
  <2>1. r.pl[p] \in Rows
    BY RowOf
  <2>2. CASE p \in ps
    BY <2>1, <2>2, DebtRow
  <2>3. CASE p \notin ps
    BY <2>1, <2>3, RowKeepsSelf
  <2>. QED  BY <2>2, <2>3
<1>2. Each(r, ps, LAMBDA x : [x EXCEPT !.owesSb = TRUE]) = [r EXCEPT !.pl = f]
  BY DEF Each
<1>3. f \in [Players -> Rows]
  BY <1>1
<1> HIDE DEF f
<1>. QED  BY <1>1, <1>2, <1>3, Replaced DEF Follows

LEMMA OrbitRooms ==
    ASSUME NEW r, IsRoom(r), NEW ps,
           \A p \in Players : p \in ps => r.pl[p].orbits < MaxOrbits
    PROVE  Follows(r, Each(r, ps, LAMBDA x : [x EXCEPT !.orbits = @ + 1]))
<1> DEFINE f == [p \in Players |-> IF p \in ps THEN [r.pl[p] EXCEPT !.orbits = r.pl[p].orbits + 1] ELSE r.pl[p]]
<1>1. \A p \in Players : f[p] \in Rows /\ RowKeeps(r.pl[p], f[p])
  <2> TAKE p \in Players
  <2>1. r.pl[p] \in Rows
    BY RowOf
  <2>2. CASE p \in ps
    BY <2>1, <2>2, DebtRow
  <2>3. CASE p \notin ps
    BY <2>1, <2>3, RowKeepsSelf
  <2>. QED  BY <2>2, <2>3
<1>2. Each(r, ps, LAMBDA x : [x EXCEPT !.orbits = @ + 1]) = [r EXCEPT !.pl = f]
  BY DEF Each
<1>3. f \in [Players -> Rows]
  BY <1>1
<1> HIDE DEF f
<1>. QED  BY <1>1, <1>2, <1>3, Replaced DEF Follows

(* Whom the big blind passes owes it; the others keep their seats.         *)
LEMMA MissTheBlindsOwes ==
    ASSUME NEW r, IsRoom(r)
    PROVE  /\ Follows(r, MissTheBlinds(r))
           /\ \A p \in Players : r.pl[p].pos \in SkippedBig(r) => MissTheBlinds(r).pl[p].owesBb
           /\ \A p \in Seated(r) : r.pl[p].pos \notin SkippedBig(r) => MissTheBlinds(r).pl[p].seated
<1> DEFINE at(seats) == {p \in Players : r.pl[p].pos \in seats}
           bumped    == {p \in at(SkippedBig(r)) \cap Seated(r) : r.pl[p].orbits >= MaxOrbits}
           skipped   == (at(SkippedBig(r)) \cap Seated(r)) \ bumped
           small     == {p \in at(SkippedSmall(r)) : ~r.pl[p].owesBb}
           s1        == Each(r, at(SkippedBig(r)), LAMBDA x : [x EXCEPT !.owesBb = TRUE])
           s2        == Each(s1, bumped, LeaveNow)
           s3        == Each(s2, skipped, LAMBDA x : [x EXCEPT !.orbits = @ + 1])
           s4        == Each(s3, small, LAMBDA x : [x EXCEPT !.owesSb = TRUE])
<1>1. MissTheBlinds(r) = s4
  BY DEF MissTheBlinds
<1>2. Follows(r, s1)
  BY OweBbRooms
<1>3. \A p \in Players : s1.pl[p] = IF r.pl[p].pos \in SkippedBig(r)
                                   THEN [r.pl[p] EXCEPT !.owesBb = TRUE] ELSE r.pl[p]
  BY DEF Each, IsRoom
<1>4. Follows(s1, s2)
  <2>. HIDE DEF s1, bumped
  <2>. QED  BY <1>2, LeaveRooms DEF Follows
<1>5. \A p \in Players : s2.pl[p] = IF p \in bumped THEN LeaveNow(s1.pl[p]) ELSE s1.pl[p]
  <2>. HIDE DEF s1, bumped
  <2>. QED  BY <1>2 DEF Each, IsRoom, Follows
<1>6. \A p \in Players : p \in skipped => s2.pl[p].orbits < MaxOrbits
  <2> SUFFICES ASSUME NEW p \in Players, p \in skipped PROVE s2.pl[p].orbits < MaxOrbits
    OBVIOUS
  <2>1. s2.pl[p] = [r.pl[p] EXCEPT !.owesBb = TRUE]
    BY <1>3, <1>5
  <2>2. r.pl[p] \in Rows /\ r.pl[p].orbits \in Nat /\ ~(r.pl[p].orbits >= MaxOrbits)
    BY RowOf DEF Rows, PlayerRow
  <2>3. s2.pl[p].orbits = r.pl[p].orbits
    BY <2>1, <2>2 DEF Rows, PlayerRow
  <2>4. MaxOrbits \in Nat
    BY BlindsAssumption
  <2>. HIDE DEF s2, skipped, bumped
  <2>. QED  BY <2>2, <2>3, <2>4
<1>7. Follows(s2, s3)
  <2>. HIDE DEF s2, skipped
  <2>. QED  BY <1>4, <1>6, OrbitRooms DEF Follows
<1>8. \A p \in Players : s3.pl[p].seated = s2.pl[p].seated
  <2>1. IsRoom(s2)
    BY <1>4 DEF Follows
  <2>. HIDE DEF s2, skipped
  <2>. QED  BY <2>1, RowOf DEF Each, IsRoom, Rows, PlayerRow
<1>9. Follows(s3, s4)
  <2>. HIDE DEF s3, small
  <2>. QED  BY <1>7, OweSbRooms DEF Follows
<1>10. \A p \in Players : s4.pl[p].seated = s3.pl[p].seated
  <2>1. IsRoom(s3)
    BY <1>7 DEF Follows
  <2>. HIDE DEF s3, small
  <2>. QED  BY <2>1, RowOf DEF Each, IsRoom, Rows, PlayerRow
<1> HIDE DEF s1, s2, s3, s4
<1>11. Follows(s1, s4)
  BY <1>4, <1>7, <1>9, KeepsTransitive
<1>12. \A p \in Players : r.pl[p].pos \in SkippedBig(r) => s4.pl[p].owesBb
  <2> SUFFICES ASSUME NEW p \in Players, r.pl[p].pos \in SkippedBig(r) PROVE s4.pl[p].owesBb
    OBVIOUS
  <2>1. s1.pl[p].owesBb
    BY <1>3, RowOf DEF Rows, PlayerRow
  <2>. QED  BY <2>1, <1>11 DEF Follows, Keeps, RowKeeps
<1>13. \A p \in Seated(r) : r.pl[p].pos \notin SkippedBig(r) => s4.pl[p].seated
  <2> SUFFICES ASSUME NEW p \in Players, r.pl[p].seated, r.pl[p].pos \notin SkippedBig(r)
               PROVE  s4.pl[p].seated
    BY DEF Seated
  <2>1. s2.pl[p] = r.pl[p]
    BY <1>3, <1>5
  <2>. QED  BY <2>1, <1>8, <1>10
<1>. QED  BY <1>1, <1>2, <1>11, <1>12, <1>13, KeepsTransitive

(* The blinds move on: nobody forgets a debt, and whom they pass owes.     *)
LEMMA RotatedOwes ==
    ASSUME NEW r, IsRoom(r), OnePerSeat(r), r.bb \in Seats, Active(r) # {}, ~RotationFails(r)
    PROVE  /\ IsRoom(Rotated(r))
           /\ Keeps(r, Rotated(r))
           /\ \A p \in Players : r.pl[p].pos \in SeatsBetween(r.bb, Rotated(r).bb) =>
                 Rotated(r).pl[p].owesBb
<1> DEFINE at == PositionsInRotation(r)
           m  == MissTheBlinds(r)
           t  == SitPendingIn(r, m, at)
<1>1. Follows(r, m)
  BY MissTheBlindsOwes
<1>2. Seated(r) \in SUBSET Players
  BY DEF Seated
<1>3. \A p \in Seated(r) : r.pl[p].state = InPending => m.pl[p].seated
  <2> SUFFICES ASSUME NEW p \in Seated(r), r.pl[p].state = InPending PROVE m.pl[p].seated
    OBVIOUS
  <2>1. p \in MayPostBig(r)
    BY DEF MayPostBig
  <2>2. Distance(r.bb, NextBig(r)) <= Distance(r.bb, r.pl[p].pos) /\ NextBig(r) \in Seats
    BY <2>1, NextBigNearest
  <2>3. r.pl[p].pos \in Seats
    BY RowOf, <1>2 DEF Seated, Rows
  <2>4. Distance(r.bb, NextBig(r)) \in Int /\ Distance(r.bb, r.pl[p].pos) \in Int
    BY <2>2, <2>3, DistanceType DEF Seats
  <2>5. r.pl[p].pos \notin SkippedBig(r)
    BY <2>2, <2>4 DEF SkippedBig, SeatsBetween
  <2>. QED  BY <2>5, MissTheBlindsOwes
<1>4. Follows(m, t)
  <2>. HIDE DEF m
  <2>. QED  BY <1>1, <1>2, <1>3, SitPendingInFollows DEF Follows
<1>5. Follows(r, t)
  BY <1>1, <1>4, KeepsTransitive
<1>6. at.btn \in Spots /\ at.sb \in Spots /\ at.bb \in Spots /\ at.bb = NextBig(r)
  BY PositionsInRotationType
<1>7. Rotated(r) = Placed(t, at)
  BY DEF Rotated
<1>8. \A p \in Players : r.pl[p].pos \in SkippedBig(r) => t.pl[p].owesBb
  BY MissTheBlindsOwes, <1>4 DEF Follows, Keeps, RowKeeps
<1> HIDE DEF m, t, at
<1>9. IsRoom(Rotated(r)) /\ Rotated(r).pl = t.pl /\ Rotated(r).bb = NextBig(r)
  BY <1>5, <1>6, <1>7, PlacedRoom DEF Follows
<1>. QED  BY <1>5, <1>8, <1>9 DEF Follows, Keeps, SkippedBig

(* The blinds are posted and the cards dealt: nobody comes or goes.        *)
LEMMA PostAndDealRoom ==
    ASSUME NEW r, IsRoom(r)
    PROVE  /\ IsRoom(PostAndDeal(r)) /\ Stays(r, PostAndDeal(r)) /\ SameSpots(r, PostAndDeal(r))
           /\ Active(PostAndDeal(r)) = Active(r)
           /\ \A p \in Players : p \notin Active(r) => PostAndDeal(r).pl[p] = r.pl[p]
<1> DEFINE small == Active(r) \ BigBlindPlayers(r)
           x(p)  == [r.pl[p] EXCEPT !.owesBb = FALSE, !.orbits = 0]
           f == [p \in Players |-> IF p \in Active(r)
                                   THEN IF p \in small THEN [x(p) EXCEPT !.owesSb = FALSE] ELSE x(p)
                                   ELSE r.pl[p]]
<1>1. \A p \in Players :
         /\ f[p] \in Rows
         /\ f[p].pos = r.pl[p].pos /\ f[p].seated = r.pl[p].seated
         /\ f[p].state = r.pl[p].state
  <2> TAKE p \in Players
  <2>1. r.pl[p] \in Rows /\ 0 \in 0 .. MaxOrbits
    BY RowOf, BlindsAssumption
  <2>. QED  BY <2>1 DEF Rows, PlayerRow
<1>2. PostAndDeal(r) = [r EXCEPT !.pl = f]
  <2>1. PostAndDeal(r).pl = f
    BY DEF PostAndDeal, Each, IsRoom
  <2>2. PostAndDeal(r) = [r EXCEPT !.pl = PostAndDeal(r).pl]
    BY DEF PostAndDeal, Each, IsRoom
  <2>. QED  BY <2>1, <2>2
<1>3. f \in [Players -> Rows]
  BY <1>1
<1>4. \A p \in Players : p \notin Active(r) => f[p] = r.pl[p]
  OBVIOUS
<1> HIDE DEF f
<1>5. PostAndDeal(r).pl = f /\ IsRoom(PostAndDeal(r)) /\ SameSpots(r, PostAndDeal(r))
  BY <1>2, <1>3, Replaced
<1>6. Active(PostAndDeal(r)) = Active(r)
  BY <1>1, <1>5 DEF Active, IsActive, IsSittingOut
<1>7. Stays(r, PostAndDeal(r))
  BY <1>1, <1>5 DEF Stays
<1>. QED  BY <1>4, <1>5, <1>6, <1>7

(* A hand is dealt to the active players, and who owes posts.              *)
LEMMA DealsOwes ==
    ASSUME NEW r, IsRoom(r), NEW did, NEW o, o = Deals(r, did)
    PROVE  \/ o.did = "check"
           \/ /\ o.did = did
              /\ IsRoom(o.room) /\ Stays(r, o.room) /\ SameSpots(r, o.room)
              /\ o.dealt = Active(o.room) /\ o.dealt # {} /\ o.dealt = Active(r)
              /\ \A p \in Players : p \notin o.dealt => o.room.pl[p] = r.pl[p]
              /\ \A p \in o.dealt : r.pl[p].owesBb => p \in o.posted
<1>1. CASE BigBlindPlayers(r) = {}
  BY <1>1 DEF Deals, Fails, Outcome
<1>2. CASE BigBlindPlayers(r) # {}
  <2>1. o = Outcome(PostAndDeal(r), Active(r), Posting(r), did)
    BY <1>2 DEF Deals
  <2>2. o.room = PostAndDeal(r) /\ o.dealt = Active(r) /\ o.posted = Posting(r) /\ o.did = did
    BY <2>1 DEF Outcome
  <2>3. Active(r) # {}
    BY <1>2 DEF BigBlindPlayers
  <2>4. \A p \in Active(r) : r.pl[p].owesBb => p \in Posting(r)
    BY DEF Posting
  <2>. QED  BY <2>2, <2>3, <2>4, PostAndDealRoom
<1>. QED  BY <1>1, <1>2

-----------------------------------------------------------------------------
(* What a dispatch leaves of a room                                        *)

(* A hand is played by the active players, and there is one unless not     *)
(* enough can play.                                                        *)
HandIsPlayed(o) ==
    IF o.did = "waited"
    THEN o.dealt = {} /\ (~EnoughPlayers(o.room) \/ SatInShort(o.room) # {})
    ELSE o.dealt # {} /\ o.dealt = Active(o.room)

(* Who owed a big blind in r, or is passed by it, owes it still, or has    *)
(* posted it.                                                              *)
StillOwes(r, o) ==
    CASE o.did = "waited" -> Keeps(r, o.room)
      [] o.did = "drew" -> \A p \in Seated(o.room) \ o.dealt : o.room.pl[p].owesBb
      [] o.did = "rotated" ->
            \A p \in Seated(o.room) \ o.posted :
               r.pl[p].owesBb \/ r.pl[p].pos \in SeatsBetween(r.bb, o.room.bb) =>
                  o.room.pl[p].owesBb /\ p \notin o.dealt

GoodOutcome(r, o) ==
    /\ o.did \in Dids
    /\ o.did \notin Failures =>
          /\ o.did \in {"waited", "drew", "rotated"}
          /\ IsRoom(o.room) /\ OnePerSeat(o.room) /\ Stays(r, o.room)
          /\ HandIsPlayed(o)
          /\ StillOwes(r, o)

(* setup_hand, when the button is drawn or locked                          *)
LEMMA DrawsGood ==
    ASSUME NEW r, IsRoom(r), OnePerSeat(r), EnoughPlayers(r), NEW btn,
           NEW o, o = DrawsFrom(r, btn)
    PROVE  GoodOutcome(r, o)
<1>1. CASE ~HasSeat(r, btn, Ready(r))
  <2>1. o.did = "button"
    BY <1>1 DEF DrawsFrom, Fails, Outcome
  <2>. QED  BY <2>1 DEF GoodOutcome, Dids, Failures
<1>2. CASE HasSeat(r, btn, Ready(r))
  <2> DEFINE d == Drawn(r, PositionsFromBtn(r, btn))
  <2>1. btn \in Seats
    BY <1>2, RowOf DEF HasSeat, Ready, Seated, Rows
  <2>2. /\ IsRoom(d) /\ Stays(r, d)
        /\ \A p \in Seated(d) \ Active(d) : d.pl[p].owesBb
    BY <2>1, PositionsFromBtnType, DrawnOwes
  <2>3. o = Deals(d, "drew")
    BY <1>2 DEF DrawsFrom
  <2>. HIDE DEF d
  <2>4. CASE o.did = "check"
    BY <2>4 DEF GoodOutcome, Dids, Failures
  <2>5. CASE o.did # "check"
    <3>1. /\ o.did = "drew"
          /\ IsRoom(o.room) /\ Stays(d, o.room)
          /\ o.dealt = Active(o.room) /\ o.dealt # {} /\ o.dealt = Active(d)
          /\ \A p \in Players : p \notin o.dealt => o.room.pl[p] = d.pl[p]
      BY <2>2, <2>3, <2>5, DealsOwes
    <3>2. \A p \in Seated(o.room) \ o.dealt : o.room.pl[p].owesBb
      BY <2>2, <3>1 DEF Seated
    <3>3. Stays(r, o.room) /\ OnePerSeat(o.room)
      BY <2>2, <3>1, StaysTransitive, StaysInSeats
    <3>. QED  BY <3>1, <3>2, <3>3 DEF GoodOutcome, HandIsPlayed, StillOwes, Dids, Failures
  <2>. QED  BY <2>4, <2>5
<1>. QED  BY <1>1, <1>2

(* ... when the blinds move on                                             *)
LEMMA RotatesGood ==
    ASSUME NEW r, IsRoom(r), OnePerSeat(r), r.bb \in Seats, Active(r) # {},
           NEW o, o = Rotates(r)
    PROVE  GoodOutcome(r, o)
<1>1. CASE RotationFails(r) \/ ButtonRunsOntoBig(r)
  <2>1. o.did \in {"check", "onto"}
    BY <1>1 DEF Rotates, Fails, Outcome
  <2>. QED  BY <2>1 DEF GoodOutcome, Dids, Failures
<1>2. CASE ~RotationFails(r) /\ ~ButtonRunsOntoBig(r)
  <2> DEFINE d == Rotated(r)
  <2>1. /\ IsRoom(d) /\ Keeps(r, d)
        /\ \A p \in Players : r.pl[p].pos \in SeatsBetween(r.bb, d.bb) => d.pl[p].owesBb
    BY <1>2, RotatedOwes
  <2>2. o = Deals(d, "rotated")
    BY <1>2 DEF Rotates
  <2>. HIDE DEF d
  <2>3. CASE o.did = "check"
    BY <2>3 DEF GoodOutcome, Dids, Failures
  <2>4. CASE o.did # "check"
    <3>1. /\ o.did = "rotated"
          /\ IsRoom(o.room) /\ Stays(d, o.room) /\ SameSpots(d, o.room)
          /\ o.dealt = Active(o.room) /\ o.dealt # {} /\ o.dealt = Active(d)
          /\ \A p \in Players : p \notin o.dealt => o.room.pl[p] = d.pl[p]
          /\ \A p \in o.dealt : d.pl[p].owesBb => p \in o.posted
      BY <2>1, <2>2, <2>4, DealsOwes
    <3>2. ASSUME NEW p \in Players, p \notin o.posted,
                 r.pl[p].owesBb \/ r.pl[p].pos \in SeatsBetween(r.bb, o.room.bb)
          PROVE  o.room.pl[p].owesBb /\ p \notin o.dealt
      <4>1. d.pl[p].owesBb
        BY <2>1, <3>1, <3>2 DEF SameSpots, Keeps, RowKeeps
      <4>. QED  BY <3>1, <3>2, <4>1
    <3>3. Stays(r, o.room) /\ OnePerSeat(o.room)
      BY <2>1, <3>1, KeepsStays, StaysTransitive, StaysInSeats
    <3>4. StillOwes(r, o)
      BY <3>1, <3>2 DEF StillOwes, Seated
    <3>. QED  BY <3>1, <3>3, <3>4 DEF GoodOutcome, HandIsPlayed, Dids, Failures
  <2>. QED  BY <2>3, <2>4
<1>. QED  BY <1>1, <1>2

(* ... in one of these ways                                                *)
LEMMA StartsGood ==
    ASSUME NEW r, IsRoom(r), OnePerSeat(r), EnoughPlayers(r), NEW o \in StartsHand(r)
    PROVE  GoodOutcome(r, o)
<1>1. CASE FirstHand(r) \/ EffectivelyNewGame(r)
  <2>1. PICK i \in NewButtons(r) : o = DrawsFrom(r, i)
    BY <1>1 DEF StartsHand
  <2>. QED  BY <2>1, DrawsGood
<1>2. CASE ~FirstHand(r) /\ ~EffectivelyNewGame(r) /\ BtnIsLocked(r)
  <2>1. o = DrawsFrom(r, r.btn)
    BY <1>2 DEF StartsHand
  <2>. QED  BY <2>1, DrawsGood
<1>3. CASE ~FirstHand(r) /\ ~EffectivelyNewGame(r) /\ ~BtnIsLocked(r)
  <2>1. o = Rotates(r)
    BY <1>3 DEF StartsHand
  <2>2. r.bb \in Seats
    BY <1>3 DEF FirstHand, BtnIsLocked, IsRoom, Spots
  <2>3. Active(r) = {} => Cardinality(Active(r)) = 0
    BY FS_EmptySet, Zenon
  <2>4. Active(r) # {}
    BY <1>3, <2>3 DEF EffectivelyNewGame
  <2>. QED  BY <2>1, <2>2, <2>4, RotatesGood
<1>. QED  BY <1>1, <1>2, <1>3

(* ... and when there are not enough players                               *)
LEMMA WaitsGood ==
    ASSUME NEW r, NEW s, IsRoom(s), OnePerSeat(r), Keeps(r, s),
           ~EnoughPlayers(s) \/ SatInShort(s) # {}, NEW o, o = Waits(s)
    PROVE  GoodOutcome(r, o)
<1>1. o.did = "waited" /\ o.room = s /\ o.dealt = {}
  BY DEF Waits, Outcome
<1>2. Stays(r, s) /\ OnePerSeat(s)
  BY KeepsStays, StaysInSeats
<1>. QED  BY <1>1, <1>2 DEF GoodOutcome, HandIsPlayed, StillOwes, Dids, Failures

(* Events that keep the debts may come before.                             *)
LEMMA GoodAfter ==
    ASSUME NEW r, NEW s, Follows(r, s), NEW o, GoodOutcome(s, o)
    PROVE  GoodOutcome(r, o)
<1>1. Stays(r, s) /\ Keeps(r, s) /\ s.bb = r.bb
  BY KeepsStays DEF Follows, SameSpots
<1>2. CASE o.did \in Failures
  BY <1>2 DEF GoodOutcome
<1>3. CASE o.did \notin Failures
  <2>1. Stays(r, o.room)
    BY <1>1, <1>3, StaysTransitive DEF GoodOutcome
  <2>2. CASE o.did = "waited"
    <3>1. Keeps(s, o.room)
      BY <1>3, <2>2 DEF GoodOutcome, StillOwes
    <3>2. StillOwes(r, o)
      BY <1>1, <2>2, <3>1 DEF StillOwes, Keeps, RowKeeps
    <3>. QED  BY <1>3, <2>1, <3>2 DEF GoodOutcome
  <2>3. CASE o.did = "drew"
    BY <1>3, <2>1, <2>3 DEF GoodOutcome, StillOwes
  <2>4. CASE o.did = "rotated"
    <3>1. \A p \in Players : /\ s.pl[p].pos = r.pl[p].pos
                             /\ r.pl[p].owesBb => s.pl[p].owesBb
      BY <1>1 DEF Keeps, RowKeeps
    <3>2. StillOwes(r, o)
      BY <1>1, <1>3, <2>4, <3>1 DEF GoodOutcome, StillOwes, Seated
    <3>. QED  BY <1>3, <2>1, <3>2 DEF GoodOutcome
  <2>. QED  BY <1>3, <2>2, <2>3, <2>4 DEF GoodOutcome
<1>. QED  BY <1>2, <1>3

(* The whole of setup_hand                                                 *)
LEMMA SetupHandGood ==
    ASSUME NEW r, IsRoom(r), OnePerSeat(r), NEW db, IsRoom(db), NEW o \in SetupHand(r, db)
    PROVE  GoodOutcome(r, o)
<1> DEFINE paid == Rebuys(r, db)
           kept == QueuedSitouts(paid)
           sat  == IF NewRound(kept) THEN kept ELSE SetSittingGivenBlinds(kept)
<1>1. CASE \E p \in Players : paid.pl[p].balance < 0
  <2>1. o = Fails(r, "overdraft")
    BY <1>1 DEF SetupHand
  <2>2. o.did = "overdraft"
    BY <2>1 DEF Fails, Outcome
  <2>. QED  BY <2>2 DEF GoodOutcome, Dids, Failures
<1>2. CASE ~ \E p \in Players : paid.pl[p].balance < 0
  <2>1. \A p \in Players : paid.pl[p].balance >= 0
    <3>1. \A p \in Players : paid.pl[p].balance \in Int
      BY RebuyBalance
    <3>. HIDE DEF paid
    <3>. QED  BY <1>2, <3>1
  <2>2. Follows(r, paid)
    BY <2>1, RebuysFollow
  <2>3. Follows(paid, kept)
    <3>. HIDE DEF paid
    <3>. QED  BY <2>2, QueuedSitoutsFollows DEF Follows
  <2>4. Follows(kept, sat)
    <3>1. Follows(kept, kept)
      <4>. HIDE DEF kept
      <4>. QED  BY <2>3, RowKeepsSelf DEF Follows, Keeps, SameSpots
    <3>. HIDE DEF kept
    <3>. QED  BY <2>3, <3>1, SetSittingFollows DEF Follows
  <2>5. \/ NothingToDo(kept) /\ o = Waits(kept)
        \/ ~EnoughPlayers(kept) /\ o = Waits(NotEnough(kept))
        \/ ~EnoughPlayers(sat) /\ o = Waits(NotEnough(sat))
        \/ EnoughPlayers(sat) /\ o \in StartsHand(sat)
    <3>1. SetupHand(r, db) =
            IF \E p \in Players : paid.pl[p].balance < 0 THEN {Fails(r, "overdraft")}
            ELSE IF NothingToDo(kept) THEN {Waits(kept)}
            ELSE IF ~EnoughPlayers(kept) THEN {Waits(NotEnough(kept))}
            ELSE IF ~EnoughPlayers(sat) THEN {Waits(NotEnough(sat))}
            ELSE StartsHand(sat)
      BY DEF SetupHand
    <3>. HIDE DEF paid, kept, sat
    <3>. QED  BY <1>2, <3>1
  <2> HIDE DEF paid, kept, sat
  <2>6. Follows(r, kept) /\ Follows(r, sat)
    BY <2>2, <2>3, <2>4, KeepsTransitive
  <2>7. OnePerSeat(kept) /\ OnePerSeat(sat) /\ IsRoom(kept) /\ IsRoom(sat)
    BY <2>6, KeepsStays, StaysInSeats DEF Follows
  <2>8. CASE NothingToDo(kept) /\ o = Waits(kept)
    <3>1. Keeps(kept, kept) /\ ~EnoughPlayers(kept)
      BY <2>8, RowKeepsSelf DEF Keeps, NothingToDo
    <3>. QED  BY <2>6, <2>7, <2>8, <3>1, WaitsGood, GoodAfter
  <2>9. CASE ~EnoughPlayers(kept) /\ o = Waits(NotEnough(kept))
    BY <2>6, <2>7, <2>9, NotEnoughWaits, WaitsGood, GoodAfter
  <2>10. CASE ~EnoughPlayers(sat) /\ o = Waits(NotEnough(sat))
    BY <2>6, <2>7, <2>10, NotEnoughWaits, WaitsGood, GoodAfter
  <2>11. CASE EnoughPlayers(sat) /\ o \in StartsHand(sat)
    BY <2>6, <2>7, <2>11, StartsGood, GoodAfter
  <2>. QED  BY <2>5, <2>8, <2>9, <2>10, <2>11
<1>. QED  BY <1>1, <1>2

-----------------------------------------------------------------------------
(* The inductive invariant: players have different seats, whoever has      *)
(* missed a big blind owes it, and who owes one is not dealt in.           *)
Owed == \A p \in owing : room.pl[p].seated /\ room.pl[p].owesBb /\ p \notin dealt

IInv ==
    /\ scene \in Scenes
    /\ IsRoom(room) /\ OnePerSeat(room)
    /\ last \in Dids
    /\ ActiveAreDealt
    /\ owing \subseteq Players /\ Owed

(* What a request may make of the room: the big blind stays where it is,   *)
(* and whoever owed one or sits down owes one.                             *)
Carries(r) ==
    /\ r.bb = room.bb
    /\ \A p \in Players :
          r.pl[p].seated /\ (p \in owing \/ ~room.pl[p].seated) => r.pl[p].owesBb

(* A dispatch commits one of its outcomes or none.                         *)
LEMMA CommitKeeps ==
    ASSUME IInv, NEW r, IsRoom(r), OnePerSeat(r), Carries(r), NEW outcomes,
           \/ outcomes = SetupHand(r, room)
           \/ dealt # {} /\ dealt = Active(r) /\ outcomes = {Outcome(r, dealt, {}, "nothing")},
           Commit(outcomes)
    PROVE  IInv'
<1>1. PICK o \in outcomes :
        /\ last' = o.did
        /\ IF o.did \in Failures THEN UNCHANGED <<room, dealt, owing>>
           ELSE room' = o.room /\ dealt' = o.dealt /\ owing' = Missed(o)
        /\ UNCHANGED scene
  BY DEF Commit
<1>2. CASE o.did \in Failures
  BY <1>1, <1>2 DEF IInv, Owed, ActiveAreDealt, Suspended, Failures, Dids
<1>3. CASE o.did \notin Failures
  <2>1. room' = o.room /\ dealt' = o.dealt /\ owing' = Missed(o) /\ last' = o.did /\ scene' = scene
    BY <1>1, <1>3
  <2>2. CASE outcomes = SetupHand(r, room)
    <3>1. GoodOutcome(r, o)
      BY <2>2, SetupHandGood DEF IInv
    <3>2. /\ o.did \in {"waited", "drew", "rotated"} /\ o.did \in Dids
          /\ IsRoom(o.room) /\ OnePerSeat(o.room) /\ Stays(r, o.room)
          /\ HandIsPlayed(o)
          /\ StillOwes(r, o)
      BY <1>3, <3>1 DEF GoodOutcome
    <3>3. ActiveAreDealt'
      <4>1. CASE o.did = "waited"
        BY <2>1, <3>2, <4>1 DEF HandIsPlayed, ActiveAreDealt
      <4>2. CASE o.did # "waited"
        BY <2>1, <3>2, <4>2 DEF HandIsPlayed, ActiveAreDealt
      <4>. QED  BY <4>1, <4>2
    <3>4. ASSUME NEW p \in Missed(o)
          PROVE  p \in Players /\ o.room.pl[p].seated /\ o.room.pl[p].owesBb /\ p \notin o.dealt
      <4>1. p \in Seated(o.room) /\ p \in Players /\ o.room.pl[p].seated /\ p \notin o.posted
        BY DEF Missed, Seated
      <4>2. r.pl[p].seated /\ o.room.pl[p].pos = r.pl[p].pos
        BY <3>2, <4>1 DEF Stays
      <4>3. p \in owing \/ ~room.pl[p].seated => r.pl[p].owesBb
        BY <4>1, <4>2 DEF Carries
      <4>4. CASE o.did = "drew"
        <5>1. p \notin o.dealt
          BY <4>4 DEF Missed
        <5>. QED  BY <3>2, <4>1, <4>4, <5>1 DEF StillOwes
      <4>5. CASE o.did = "waited"
        <5>1. p \in owing \/ ~room.pl[p].seated
          BY <4>1, <4>5 DEF Missed, Seated
        <5>2. o.room.pl[p].owesBb
          BY <3>2, <4>1, <4>3, <4>5, <5>1 DEF StillOwes, Keeps, RowKeeps
        <5>. QED  BY <3>2, <4>1, <4>5, <5>2 DEF HandIsPlayed
      <4>6. CASE o.did = "rotated"
        <5>1. \/ p \in owing \/ ~room.pl[p].seated
              \/ o.room.pl[p].pos \in SeatsBetween(room.bb, o.room.bb)
          BY <4>1, <4>6 DEF Missed, Seated
        <5>2. r.pl[p].owesBb \/ r.pl[p].pos \in SeatsBetween(r.bb, o.room.bb)
          BY <4>2, <4>3, <5>1 DEF Carries
        <5>. QED  BY <3>2, <4>1, <4>6, <5>2 DEF StillOwes
      <4>. QED  BY <3>2, <4>4, <4>5, <4>6
    <3>5. Owed' /\ owing' \subseteq Players
      BY <2>1, <3>4 DEF Owed
    <3>. QED  BY <2>1, <3>2, <3>3, <3>5 DEF IInv
  <2>3. CASE dealt # {} /\ dealt = Active(r) /\ outcomes = {Outcome(r, dealt, {}, "nothing")}
    <3>1. o.room = r /\ o.dealt = dealt /\ o.posted = {} /\ o.did = "nothing"
      BY <2>3 DEF Outcome
    <3>2. ActiveAreDealt'
      BY <2>1, <2>3, <3>1 DEF ActiveAreDealt
    <3>3. ASSUME NEW p \in Missed(o)
          PROVE  p \in Players /\ r.pl[p].seated /\ r.pl[p].owesBb /\ p \notin dealt
      <4>1. p \in Players /\ r.pl[p].seated
        BY <3>1 DEF Missed, Seated
      <4>2. p \in owing \/ ~room.pl[p].seated
        BY <3>1, <4>1 DEF Missed, Seated
      <4>3. p \notin dealt
        BY <2>3, <4>2 DEF IInv, Owed, ActiveAreDealt, Active, IsActive
      <4>. QED  BY <4>1, <4>2, <4>3 DEF Carries
    <3>4. Owed' /\ owing' \subseteq Players
      BY <2>1, <3>1, <3>3 DEF Owed
    <3>. QED  BY <2>1, <3>1, <3>2, <3>4 DEF IInv, Dids
  <2>. QED  BY <2>2, <2>3
<1>. QED  BY <1>2, <1>3

(* A player who is not sent away before the next hand is dealt             *)
Fresh(x) == x.seated /\ x.state # Leaving /\ x.orbits < MaxOrbits

(* What a request may make of the row of a player                          *)
GoodRow(p, y) ==
    /\ y \in Rows
    /\ IsActive(y) <=> IsActive(room.pl[p])
    /\ IF room.pl[p].seated
       THEN /\ y.pos = room.pl[p].pos /\ (room.pl[p].owesBb => y.owesBb)
            /\ y.stack = room.pl[p].stack /\ (y.seated \/ IsSittingOut(room.pl[p]))
       ELSE /\ y.owesBb /\ \A q \in Seated(room) : room.pl[q].pos # y.pos
            /\ Fresh(y)
    /\ Owned(y) = Owned(room.pl[p])

(* The room that a request makes                                           *)
Asked(p, y) == [room EXCEPT !.pl[p] = y]

LEMMA AskedRoom ==
    ASSUME IInv, NEW p \in Players, NEW y, GoodRow(p, y)
    PROVE  LET r == Asked(p, y)
           IN  /\ IsRoom(r) /\ OnePerSeat(r) /\ Carries(r)
               /\ SameSpots(room, r) /\ Active(r) = Active(room)
               /\ \A q \in Seated(room) : r.pl[q].pos = room.pl[q].pos
<1> DEFINE r == Asked(p, y)
<1>1. IsRoom(room) /\ OnePerSeat(room)
  BY DEF IInv
<1>2. IsRoom(r) /\ SameSpots(room, r)
  BY <1>1 DEF IsRoom, GoodRow, Asked, SameSpots
<1>3. \A q \in Players : r.pl[q] = IF q = p THEN y ELSE room.pl[q]
  BY <1>1 DEF IsRoom, Asked
<1> HIDE DEF r
<1>4. OnePerSeat(r)
  <2> SUFFICES ASSUME NEW q \in Players, NEW t \in Players, r.pl[q].seated, r.pl[t].seated,
                      r.pl[q].pos = r.pl[t].pos, q # t
               PROVE  FALSE
    BY DEF OnePerSeat, Seated
  <2>1. CASE q # p /\ t # p
    BY <1>1, <1>3, <2>1 DEF OnePerSeat, Seated
  <2>2. CASE q = p /\ t # p
    BY <1>1, <1>3, <2>2 DEF OnePerSeat, Seated, GoodRow
  <2>3. CASE q # p /\ t = p
    BY <1>1, <1>3, <2>3 DEF OnePerSeat, Seated, GoodRow
  <2>. QED  BY <2>1, <2>2, <2>3
<1>5. Carries(r)
  BY <1>2, <1>3 DEF Carries, GoodRow, IInv, Owed, SameSpots
<1>6. Active(r) = Active(room)
  BY <1>3 DEF Active, GoodRow
<1>7. \A q \in Seated(room) : r.pl[q].pos = room.pl[q].pos
  BY <1>3 DEF Seated, GoodRow
<1>. QED  BY <1>2, <1>4, <1>5, <1>6, <1>7 DEF r

(* The dispatch of a request                                               *)
LEMMA RequestKeeps ==
    ASSUME IInv, NEW p \in Players, NEW y, GoodRow(p, y), Becomes(p, y)
    PROVE  IInv'
<1> DEFINE r == Asked(p, y)
<1>1. IsRoom(r) /\ OnePerSeat(r) /\ Carries(r) /\ Active(r) = Active(room)
  BY AskedRoom
<1>2. Commit(IF dealt = {} THEN SetupHand(r, room) ELSE {Outcome(r, dealt, {}, "nothing")})
  BY DEF Becomes, Step, Asked
<1> HIDE DEF r
<1>3. CASE dealt = {}
  BY <1>1, <1>2, <1>3, CommitKeeps
<1>4. CASE dealt # {}
  <2>1. dealt = Active(r)
    BY <1>1, <1>4 DEF IInv, ActiveAreDealt
  <2>. QED  BY <1>1, <1>2, <1>4, <2>1, CommitKeeps
<1>. QED  BY <1>3, <1>4

(* Every wish of a seated player                                           *)
LEMMA WishRows ==
    ASSUME IInv, NEW p \in Players, room.pl[p].seated
    PROVE  LET x == room.pl[p]
           IN  /\ GoodRow(p, IF IsSittingOut(x) THEN LeaveNow(x) ELSE LeaveSoon(x))
               /\ x.state \in {Out, AtBlinds, OutPending} => GoodRow(p, SitIn(x))
               /\ x.state \in {In, InPending, OutPending} => GoodRow(p, SitOut(x))
               /\ \A on \in BOOLEAN :
                     /\ x.state \in {Out, InPending, AtBlinds} => GoodRow(p, SitInAtBlinds(x, on))
                     /\ x.state \in {In, Leaving, OutPending} => GoodRow(p, SitOutAtBlinds(x, on))
               /\ x.state = Leaving => GoodRow(p, SitInNow(x))
<1> DEFINE x == room.pl[p]
<1>1. x \in Rows /\ x.seated
  BY RowOf DEF IInv
<1>2. ASSUME NEW y \in PlayerRow, y.seated, y.state # None, y.pos = x.pos, y.owesBb = x.owesBb,
             IsSittingOut(y) <=> IsSittingOut(x), y.stack = x.stack, y.balance = x.balance
      PROVE  GoodRow(p, y)
  <2>1. y \in Rows
    BY <1>1, <1>2 DEF Rows
  <2>. QED  BY <1>1, <1>2, <2>1 DEF GoodRow, IsActive, Owned
<1> HIDE DEF x
<1> USE DEF In, Out, InPending, AtBlinds, OutPending, Leaving, None
<1>3. x \in PlayerRow
  BY <1>1 DEF Rows
<1>4. GoodRow(p, IF IsSittingOut(x) THEN LeaveNow(x) ELSE LeaveSoon(x))
  <2>1. CASE IsSittingOut(x)
    <3>1. LeaveNow(x) \in Rows /\ LeaveNow(x).pos = x.pos /\ (x.owesBb => LeaveNow(x).owesBb)
      BY <1>1, LeaveRow DEF RowKeeps
    <3>2. /\ ~LeaveNow(x).seated /\ LeaveNow(x).stack = x.stack
          /\ LeaveNow(x).balance = x.balance + x.stack
      BY <1>3 DEF LeaveNow, PlayerRow
    <3>3. Owned(LeaveNow(x)) = Owned(x)
      <4>1. x.balance \in Nat /\ x.stack \in Nat
        BY <1>3 DEF PlayerRow
      <4>. QED  BY <1>1, <3>2, <4>1 DEF Owned
    <3>. QED  BY <1>1, <2>1, <3>1, <3>2, <3>3 DEF GoodRow, IsActive, x
  <2>2. CASE ~IsSittingOut(x)
    <3>1. LeaveSoon(x) \in PlayerRow
      BY <1>3 DEF LeaveSoon, PlayerRow, PlayingStates
    <3>2. /\ LeaveSoon(x).seated /\ LeaveSoon(x).state = Leaving
          /\ LeaveSoon(x).pos = x.pos /\ LeaveSoon(x).owesBb = x.owesBb
          /\ LeaveSoon(x).stack = x.stack /\ LeaveSoon(x).balance = x.balance
      BY <1>1, <1>3 DEF LeaveSoon, PlayerRow
    <3>. QED  BY <1>2, <2>2, <3>1, <3>2 DEF IsSittingOut
  <2>. QED  BY <2>1, <2>2
<1>5. ASSUME x.state \in {Out, AtBlinds, OutPending} PROVE GoodRow(p, SitIn(x))
  <2>1. SitIn(x) \in PlayerRow
    BY <1>3 DEF SitIn, PlayerRow, PlayingStates
  <2>2. /\ SitIn(x).seated /\ SitIn(x).pos = x.pos /\ SitIn(x).owesBb = x.owesBb
        /\ SitIn(x).stack = x.stack /\ SitIn(x).balance = x.balance
        /\ SitIn(x).state = IF x.state = OutPending THEN In ELSE InPending
    BY <1>1, <1>3 DEF SitIn, PlayerRow
  <2>. QED  BY <1>2, <1>5, <2>1, <2>2 DEF IsSittingOut
<1>6. ASSUME x.state \in {In, InPending, OutPending} PROVE GoodRow(p, SitOut(x))
  <2>1. SitOut(x) \in PlayerRow
    BY <1>3 DEF SitOut, SitOutNow, PlayerRow, PlayingStates
  <2>2. /\ SitOut(x).seated /\ SitOut(x).pos = x.pos /\ SitOut(x).owesBb = x.owesBb
        /\ SitOut(x).stack = x.stack /\ SitOut(x).balance = x.balance
        /\ SitOut(x).state = IF x.state = InPending THEN Out ELSE OutPending
    BY <1>1, <1>3 DEF SitOut, SitOutNow, PlayerRow
  <2>. QED  BY <1>2, <1>6, <2>1, <2>2 DEF IsSittingOut
<1>7. ASSUME NEW on \in BOOLEAN, x.state \in {Out, InPending, AtBlinds}
      PROVE  GoodRow(p, SitInAtBlinds(x, on))
  <2>1. SitInAtBlinds(x, on) \in PlayerRow
    BY <1>3 DEF SitInAtBlinds, PlayerRow, PlayingStates
  <2>2. /\ SitInAtBlinds(x, on).seated
        /\ SitInAtBlinds(x, on).pos = x.pos /\ SitInAtBlinds(x, on).owesBb = x.owesBb
        /\ SitInAtBlinds(x, on).stack = x.stack /\ SitInAtBlinds(x, on).balance = x.balance
        /\ SitInAtBlinds(x, on).state = IF on THEN AtBlinds ELSE Out
    BY <1>1, <1>3 DEF SitInAtBlinds, PlayerRow
  <2>. QED  BY <1>2, <1>7, <2>1, <2>2 DEF IsSittingOut
<1>8. ASSUME NEW on \in BOOLEAN, x.state \in {In, Leaving, OutPending}
      PROVE  GoodRow(p, SitOutAtBlinds(x, on))
  <2>1. SitOutAtBlinds(x, on) \in PlayerRow
    BY <1>3 DEF SitOutAtBlinds, PlayerRow, PlayingStates
  <2>2. /\ SitOutAtBlinds(x, on).seated
        /\ SitOutAtBlinds(x, on).pos = x.pos /\ SitOutAtBlinds(x, on).owesBb = x.owesBb
        /\ SitOutAtBlinds(x, on).stack = x.stack /\ SitOutAtBlinds(x, on).balance = x.balance
        /\ SitOutAtBlinds(x, on).state = In
    BY <1>1, <1>3, <1>8 DEF SitOutAtBlinds, PlayerRow
  <2>. QED  BY <1>2, <1>8, <2>1, <2>2 DEF IsSittingOut
<1>9. ASSUME x.state = Leaving PROVE GoodRow(p, SitInNow(x))
  <2>1. SitInNow(x) \in PlayerRow
    BY <1>3 DEF SitInNow, PlayerRow, PlayingStates
  <2>2. /\ SitInNow(x).seated /\ SitInNow(x).pos = x.pos /\ SitInNow(x).owesBb = x.owesBb
        /\ SitInNow(x).stack = x.stack /\ SitInNow(x).balance = x.balance
        /\ SitInNow(x).state = In
    BY <1>1, <1>3 DEF SitInNow, PlayerRow
  <2>. QED  BY <1>2, <1>9, <2>1, <2>2 DEF IsSittingOut
<1>. QED  BY <1>4, <1>5, <1>6, <1>7, <1>8, <1>9 DEF x

(* The row in which the old stack was cleared, before the buy-in is paid   *)
LEMMA BoughtInRow ==
    ASSUME NEW x \in PlayerRow, NEW amt \in Nat
    PROVE  /\ BoughtIn(x, amt) \in PlayerRow
           /\ BoughtIn(x, amt).seated = x.seated /\ BoughtIn(x, amt).pos = x.pos
           /\ BoughtIn(x, amt).state = x.state /\ BoughtIn(x, amt).owesBb = x.owesBb
           /\ BoughtIn(x, amt).orbits = x.orbits
           /\ BoughtIn(x, amt).balance + BoughtIn(x, amt).stack = x.balance
<1> DEFINE y == IF x.stack > 0 THEN [x EXCEPT !.stack = 0, !.rebuy = amt]
                ELSE [x EXCEPT !.rebuy = x.rebuy + amt]
<1>1. /\ y.stack = 0 /\ y.rebuy \in Nat /\ y.balance = x.balance
      /\ y = [x EXCEPT !.stack = y.stack, !.rebuy = y.rebuy]
  <2>1. x.stack \in Nat /\ x.rebuy \in Nat
    BY BuyinAssumption DEF PlayerRow
  <2>2. CASE x.stack > 0
    <3>1. y = [x EXCEPT !.stack = 0, !.rebuy = amt]
      BY <2>2
    <3>2. y.stack = 0 /\ y.rebuy = amt /\ y.balance = x.balance
      BY <3>1 DEF PlayerRow
    <3>. QED  BY <3>1, <3>2 DEF PlayerRow
  <2>3. CASE ~(x.stack > 0)
    <3>1. y = [x EXCEPT !.rebuy = x.rebuy + amt]
      BY <2>3
    <3>2. y.stack = x.stack /\ y.rebuy = x.rebuy + amt /\ y.balance = x.balance
      BY <3>1 DEF PlayerRow
    <3>3. x.stack = 0
      BY <2>1, <2>3
    <3>4. [x EXCEPT !.stack = x.stack] = x
      BY DEF PlayerRow
    <3>5. [x EXCEPT !.stack = x.stack, !.rebuy = y.rebuy] = [x EXCEPT !.rebuy = y.rebuy]
      <4>. HIDE DEF y
      <4>. QED  BY <3>4, Zenon
    <3>. HIDE DEF y
    <3>6. y = [x EXCEPT !.stack = y.stack, !.rebuy = y.rebuy]
      BY <3>1, <3>2, <3>5
    <3>7. y.stack = 0 /\ y.rebuy \in Nat
      BY <2>1, <3>2, <3>3
    <3>. QED  BY <3>2, <3>6, <3>7
  <2>. QED  BY <2>2, <2>3
<1>2. BoughtIn(x, amt) = RebuyUpdate(y, x.balance)
  BY DEF BoughtIn
<1> HIDE DEF y
<1>3. 0 \in 0 .. MaxBuyin /\ x.balance \in Nat
  BY BuyinAssumption DEF PlayerRow
<1>4. CASE x.balance >= y.rebuy
  <2>1. BoughtIn(x, amt) = [y EXCEPT !.stack = y.stack + y.rebuy, !.balance = y.balance - y.rebuy,
                                     !.rebuy = 0]
    BY <1>2, <1>4 DEF RebuyUpdate
  <2>2. /\ y.stack + y.rebuy \in Nat /\ y.balance - y.rebuy \in Nat
        /\ (y.balance - y.rebuy) + (y.stack + y.rebuy) = x.balance
    BY <1>1, <1>3, <1>4
  <2>3. BoughtIn(x, amt) = [x EXCEPT !.stack = y.stack + y.rebuy, !.balance = y.balance - y.rebuy,
                                     !.rebuy = 0]
    BY <1>1, <2>1 DEF PlayerRow
  <2>. QED  BY <1>3, <2>2, <2>3 DEF PlayerRow
<1>5. CASE ~(x.balance >= y.rebuy)
  <2>1. BoughtIn(x, amt) = [y EXCEPT !.rebuy = 0]
    BY <1>2, <1>5 DEF RebuyUpdate
  <2>2. BoughtIn(x, amt) = [x EXCEPT !.stack = y.stack, !.rebuy = 0]
    BY <1>1, <2>1 DEF PlayerRow
  <2>3. y.stack \in Nat /\ x.balance + y.stack = x.balance
    BY <1>1, <1>3
  <2>. QED  BY <1>3, <2>2, <2>3 DEF PlayerRow
<1>. QED  BY <1>4, <1>5

LEMMA BuyinForType ==
    ASSUME NEW x \in PlayerRow, NEW pref
    PROVE  BuyinFor(x, pref) \in Nat
<1>1. x.stack \in Nat /\ LeastBuyin(x, pref) \in Nat
  BY BuyinAssumption DEF LeastBuyin, LegalTotal, PlayerRow
<1>2. \E n \in {x.stack, LeastBuyin(x, pref)} : \A m \in {x.stack, LeastBuyin(x, pref)} : n >= m
  BY <1>1
<1>3. BuyinFor(x, pref) \in {x.stack, LeastBuyin(x, pref)}
  BY <1>2 DEF BuyinFor, Max
<1>. QED  BY <1>1, <1>3

(* Who joins owes a big blind and is not active in the hand that is on.    *)
LEMMA JoinRow ==
    ASSUME IInv, NEW p \in Players, JoinTable(p)
    PROVE  \E y : GoodRow(p, y) /\ Becomes(p, y)
<1> DEFINE x == room.pl[p]
<1>1. x \in Rows /\ x \in PlayerRow
  BY RowOf DEF IInv, Rows
<1>2. PICK i \in Seats \ {room.pl[q].pos : q \in Seated(room)},
           state \in scene.sitting, pref \in scene.prefs :
        Becomes(p, BoughtIn([TakeSeat(x, i) EXCEPT
                               !.state = state,
                               !.auto = IF LegalTotal(pref) THEN pref ELSE x.auto],
                            BuyinFor(x, pref)))
  BY DEF JoinTable
<1> DEFINE auto == IF LegalTotal(pref) THEN pref ELSE x.auto
           z    == [TakeSeat(x, i) EXCEPT !.state = state, !.auto = auto]
           y    == BoughtIn(z, BuyinFor(x, pref))
<1>3. ~x.seated
  BY DEF JoinTable
<1>4. state \in {Out, AtBlinds, InPending}
  BY ScenesAssumption DEF IInv
<1> HIDE DEF x
<1>5. auto \in 0 .. MaxBuyin
  BY <1>1, BuyinAssumption DEF PlayerRow, LegalTotal
<1> HIDE DEF auto
<1>6. i \in Seats \cup {NoSeat} /\ 0 \in 0 .. MaxOrbits /\ state \in PlayingStates
  BY <1>4, BlindsAssumption DEF PlayingStates
<1>7. z = [x EXCEPT !.seated = TRUE, !.pos = i, !.owesBb = TRUE, !.orbits = 0, !.state = state,
                    !.auto = auto]
  BY <1>1 DEF TakeSeat, PlayerRow
<1> HIDE DEF z
<1>8. z \in PlayerRow
  BY <1>1, <1>5, <1>6, <1>7, TRUE \in BOOLEAN DEF PlayerRow
<1>9. /\ z.seated /\ z.pos = i /\ z.owesBb /\ z.state = state
      /\ z.orbits = 0 /\ z.balance = x.balance
  BY <1>1, <1>7 DEF PlayerRow
<1> HIDE DEF z
<1>10. /\ y \in PlayerRow
       /\ y.seated /\ y.pos = i /\ y.owesBb /\ y.state = state
       /\ y.orbits = 0 /\ y.balance + y.stack = x.balance
  BY <1>1, <1>8, <1>9, BuyinForType, BoughtInRow
<1> HIDE DEF y
<1>11. y \in Rows
  BY <1>4, <1>10 DEF Rows, None, Out, AtBlinds, InPending
<1>12. ~IsActive(y) /\ ~IsActive(room.pl[p])
  BY <1>3, <1>4, <1>10 DEF IsActive, IsSittingOut, x
<1>13. \A q \in Seated(room) : room.pl[q].pos # y.pos
  BY <1>10
<1>14. Owned(y) = Owned(x) /\ Fresh(y)
  <2>1. x.balance \in Nat
    BY <1>1 DEF PlayerRow
  <2>2. Owned(y) = Owned(x)
    BY <1>3, <1>10, <2>1 DEF Owned
  <2>3. MaxOrbits \in Nat \ {0}
    BY BlindsAssumption
  <2>. QED  BY <1>4, <1>10, <2>2, <2>3 DEF Fresh, Leaving, Out, AtBlinds, InPending
<1>15. GoodRow(p, y)
  BY <1>3, <1>10, <1>11, <1>12, <1>13, <1>14 DEF GoodRow, x
<1>16. Becomes(p, y)
  BY <1>2 DEF y, z, auto, x
<1>. QED  BY <1>15, <1>16

(* Who buys chips or sets his auto-rebuy does only that.                   *)
LEMMA ChipRows ==
    ASSUME IInv, NEW p \in Players, room.pl[p].seated
    PROVE  /\ \A amt \in 0 .. MaxBuyin : GoodRow(p, [room.pl[p] EXCEPT !.auto = amt])
           /\ \A amt \in Nat : room.pl[p].rebuy + amt <= MaxBuyin =>
                 GoodRow(p, [room.pl[p] EXCEPT !.rebuy = room.pl[p].rebuy + amt])
<1>1. room.pl[p] \in Rows
  BY RowOf DEF IInv
<1>2. ASSUME NEW amt \in 0 .. MaxBuyin PROVE GoodRow(p, [room.pl[p] EXCEPT !.auto = amt])
  BY <1>1 DEF GoodRow, Rows, PlayerRow, IsActive, IsSittingOut, Owned
<1>3. ASSUME NEW amt \in Nat, room.pl[p].rebuy + amt <= MaxBuyin
      PROVE  GoodRow(p, [room.pl[p] EXCEPT !.rebuy = room.pl[p].rebuy + amt])
  <2>1. room.pl[p].rebuy + amt \in 0 .. MaxBuyin
    BY <1>1, <1>3, BuyinAssumption DEF Rows, PlayerRow
  <2>. QED  BY <1>1, <2>1 DEF GoodRow, Rows, PlayerRow, IsActive, IsSittingOut, Owned
<1>. QED  BY <1>2, <1>3

LEMMA BuyRow ==
    ASSUME IInv, NEW p \in Players, Buy(p)
    PROVE  \E y : GoodRow(p, y) /\ Becomes(p, y)
<1>1. room.pl[p] \in Rows /\ room.pl[p].seated
  BY RowOf DEF IInv, Buy
<1>2. PICK amt \in 1 .. MaxBuyin :
        /\ \E now \in StackNow(p) : LegalBuyin([room.pl[p] EXCEPT !.stack = now], amt)
        /\ Becomes(p, [room.pl[p] EXCEPT !.rebuy = room.pl[p].rebuy + amt])
  BY DEF Buy
<1>3. PICK now \in StackNow(p) : LegalBuyin([room.pl[p] EXCEPT !.stack = now], amt)
  BY <1>2
<1>4. now \in Nat
  <2>1. room.pl[p].stack \in Nat
    BY <1>1 DEF Rows, PlayerRow
  <2>. QED  BY <2>1 DEF StackNow
<1>5. now + room.pl[p].rebuy + amt <= MaxBuyin /\ room.pl[p].rebuy \in Nat
  BY <1>1, <1>3, BuyinAssumption DEF Rows, PlayerRow, LegalBuyin, LegalTotal
<1>6. room.pl[p].rebuy + amt <= MaxBuyin /\ amt \in Nat
  BY <1>4, <1>5, BuyinAssumption
<1>. QED  BY <1>1, <1>2, <1>6, ChipRows

(* Nobody loses more than his stack.                                       *)
LEMMA LossType ==
    ASSUME IInv, NEW p \in Players, NEW kind \in scene.lost
    PROVE  /\ Loss(room.pl[p], kind) \in Nat
           /\ Loss(room.pl[p], kind) <= room.pl[p].stack
<1> DEFINE x == room.pl[p]
<1>1. x.stack \in Nat /\ BigBlind \in Nat
  BY RowOf, BlindsAssumption DEF IInv, Rows, PlayerRow
<1>2. kind \in {"nothing", "blind", "all"}
  BY ScenesAssumption DEF IInv
<1> HIDE DEF x
<1>3. \E n \in {BigBlind, x.stack} : \A m \in {BigBlind, x.stack} : n <= m
  BY <1>1
<1>4. /\ Min({BigBlind, x.stack}) \in {BigBlind, x.stack}
      /\ \A m \in {BigBlind, x.stack} : Min({BigBlind, x.stack}) <= m
  BY <1>3 DEF Min
<1>5. Loss(x, kind) \in Nat /\ Loss(x, kind) <= x.stack
  BY <1>1, <1>2, <1>4 DEF Loss
<1>. QED  BY <1>5 DEF x

(* A hand ends: only chips change hands.                                   *)
LEMMA HandRoom ==
    ASSUME IInv, NEW r \in AfterHand
    PROVE  /\ IsRoom(r) /\ OnePerSeat(r) /\ Carries(r) /\ SameSpots(room, r)
           /\ \A p \in Players : /\ r.pl[p].pos = room.pl[p].pos
                                /\ r.pl[p].state = room.pl[p].state
                                /\ r.pl[p].seated = room.pl[p].seated
<1>1. PICK ps \in {pair \in dealt \X dealt : pair[1] # pair[2]}, kind \in scene.lost :
        r = Paid(ps[1], ps[2], Loss(room.pl[ps[2]], kind))
  BY DEF AfterHand
<1> DEFINE w == ps[1]
           l == ps[2]
           amt == Loss(room.pl[ps[2]], kind)
<1>2. w \in Players /\ l \in Players /\ w # l
  <2>1. dealt \subseteq Players
    BY DEF IInv, ActiveAreDealt, Active
  <2>. QED  BY <2>1
<1>3. amt \in Nat /\ amt <= room.pl[l].stack
  BY <1>2, LossType
<1> DEFINE won  == [room.pl[w] EXCEPT !.stack = room.pl[w].stack + amt]
           paid == [room.pl[l] EXCEPT !.stack = room.pl[l].stack - amt]
           f    == [room.pl EXCEPT ![w] = won, ![l] = paid]
<1> HIDE DEF w, l, amt
<1>4. IsRoom(room) /\ OnePerSeat(room)
  BY DEF IInv
<1>5. room.pl[w] \in Rows /\ room.pl[l] \in Rows
  BY <1>2, <1>4, RowOf
<1>6. /\ won \in Rows /\ RowKeeps(room.pl[w], won)
      /\ won.state = room.pl[w].state /\ won.seated = room.pl[w].seated
  <2>1. room.pl[w].stack + amt \in Nat
    BY <1>3, <1>5 DEF Rows, PlayerRow
  <2>. QED  BY <1>5, <2>1 DEF Rows, PlayerRow, RowKeeps
<1>7. /\ paid \in Rows /\ RowKeeps(room.pl[l], paid)
      /\ paid.state = room.pl[l].state /\ paid.seated = room.pl[l].seated
  <2>1. room.pl[l].stack - amt \in Nat
    BY <1>3, <1>5 DEF Rows, PlayerRow
  <2>. QED  BY <1>5, <2>1 DEF Rows, PlayerRow, RowKeeps
<1>8. r = [room EXCEPT !.pl = f]
  <2>1. r = Paid(w, l, amt)
    BY <1>1 DEF w, l, amt
  <2> DEFINE g == [room.pl EXCEPT ![w].stack = @ + amt, ![l].stack = @ - amt]
  <2>2. r = [room EXCEPT !.pl = g]
    BY <2>1 DEF Paid
  <2>3. \A p \in Players : g[p] = f[p]
    BY <1>2, <1>4 DEF IsRoom
  <2>4. DOMAIN g = Players /\ DOMAIN f = Players
    BY <1>4 DEF IsRoom
  <2>5. g = f
    BY <2>3, <2>4
  <2>. HIDE DEF g, f
  <2>. QED  BY <2>2, <2>5
<1> HIDE DEF won, paid
<1>9. \A p \in Players : /\ f[p] \in Rows /\ RowKeeps(room.pl[p], f[p])
                          /\ f[p].state = room.pl[p].state /\ f[p].seated = room.pl[p].seated
  <2> TAKE p \in Players
  <2>1. f[p] = IF p = l THEN paid ELSE IF p = w THEN won ELSE room.pl[p]
    BY <1>2, <1>4 DEF IsRoom
  <2>. HIDE DEF f
  <2>. QED  BY <1>4, <1>6, <1>7, <2>1, RowOf, RowKeepsSelf
<1>10. f \in [Players -> Rows]
  BY <1>2, <1>4, <1>6, <1>7 DEF IsRoom
<1> HIDE DEF f
<1>11. Follows(room, r) /\ r.pl = f
  BY <1>4, <1>8, <1>9, <1>10, Replaced DEF Follows
<1>12. OnePerSeat(r)
  BY <1>4, <1>11, KeepsStays, StaysInSeats DEF Follows
<1>13. Carries(r)
  BY <1>11 DEF Carries, Follows, Keeps, RowKeeps, SameSpots, IInv, Owed
<1>. QED  BY <1>9, <1>11, <1>12, <1>13 DEF Follows, RowKeeps

LEMMA HandKeeps ==
    ASSUME IInv, HandEnds
    PROVE  IInv'
<1>1. PICK r \in AfterHand : Commit(SetupHand(r, room))
  BY DEF HandEnds
<1>. QED  BY <1>1, HandRoom, CommitKeeps

(* A step is a request, for one player, or the end of a hand.              *)
LEMMA NextIs ==
    ASSUME IInv, Next
    PROVE  \/ \E p \in Players : \E y : GoodRow(p, y) /\ Becomes(p, y)
           \/ HandEnds
<1>1. ASSUME NEW p \in Players, JoinTable(p) PROVE \E y : GoodRow(p, y) /\ Becomes(p, y)
  BY <1>1, JoinRow
<1>2. ASSUME NEW p \in Players, Buy(p) PROVE \E y : GoodRow(p, y) /\ Becomes(p, y)
  BY <1>2, BuyRow
<1>3. ASSUME NEW p \in Players, LeaveSeat(p) PROVE \E y : GoodRow(p, y) /\ Becomes(p, y)
  BY <1>3, WishRows DEF LeaveSeat
<1>4. ASSUME NEW p \in Players, AskSitIn(p) PROVE \E y : GoodRow(p, y) /\ Becomes(p, y)
  <2>1. room.pl[p].state \in {Out, AtBlinds, OutPending} /\ room.pl[p].seated
        /\ Becomes(p, SitIn(room.pl[p]))
    BY <1>4 DEF AskSitIn
  <2>. QED  BY <2>1, WishRows
<1>5. ASSUME NEW p \in Players, AskSitOut(p) PROVE \E y : GoodRow(p, y) /\ Becomes(p, y)
  <2>1. room.pl[p].state \in {In, InPending, OutPending} /\ room.pl[p].seated
        /\ Becomes(p, SitOut(room.pl[p]))
    BY <1>5 DEF AskSitOut
  <2>. QED  BY <2>1, WishRows
<1>6. ASSUME NEW p \in Players, AskSitInAtBlinds(p) PROVE \E y : GoodRow(p, y) /\ Becomes(p, y)
  <2>1. room.pl[p].seated /\ room.pl[p].state \in {Out, InPending, AtBlinds}
    BY <1>6 DEF AskSitInAtBlinds
  <2>2. PICK on \in BOOLEAN : Becomes(p, SitInAtBlinds(room.pl[p], on))
    BY <1>6 DEF AskSitInAtBlinds
  <2>. QED  BY <2>1, <2>2, WishRows
<1>7. ASSUME NEW p \in Players, AskSitOutAtBlinds(p) PROVE \E y : GoodRow(p, y) /\ Becomes(p, y)
  <2>1. room.pl[p].seated /\ room.pl[p].state \in {In, Leaving, OutPending}
    BY <1>7 DEF AskSitOutAtBlinds
  <2>2. PICK on \in BOOLEAN : Becomes(p, SitOutAtBlinds(room.pl[p], on))
    BY <1>7 DEF AskSitOutAtBlinds
  <2>. QED  BY <2>1, <2>2, WishRows
<1>8. ASSUME NEW p \in Players, Stay(p) PROVE \E y : GoodRow(p, y) /\ Becomes(p, y)
  BY <1>8, WishRows DEF Stay
<1>9. ASSUME NEW p \in Players, SetAutoRebuy(p) PROVE \E y : GoodRow(p, y) /\ Becomes(p, y)
  <2>1. PICK amt \in {0} \cup (MinBuyin .. MaxBuyin) : Becomes(p, [room.pl[p] EXCEPT !.auto = amt])
    BY <1>9 DEF SetAutoRebuy
  <2>2. amt \in 0 .. MaxBuyin
    BY BuyinAssumption
  <2>. QED  BY <1>9, <2>1, <2>2, ChipRows DEF SetAutoRebuy
<1>10. ASSUME NEW p \in Players, TimeOut(p) PROVE \E y : GoodRow(p, y) /\ Becomes(p, y)
  <2>1. p \in Active(room) /\ room.pl[p].state # Leaving /\ Becomes(p, SitOut(room.pl[p]))
    BY <1>10 DEF TimeOut, IInv, ActiveAreDealt
  <2>2. room.pl[p].seated /\ room.pl[p].state \in {In, OutPending}
    BY <2>1, RowOf DEF IInv, Active, IsActive, IsSittingOut, Rows, PlayerRow, PlayingStates
  <2>. QED  BY <2>1, <2>2, WishRows
<1>. QED  BY <1>1, <1>2, <1>3, <1>4, <1>5, <1>6, <1>7, <1>8, <1>9, <1>10 DEF Next

(* Every request, and the end of a hand, keep the invariant.               *)
LEMMA NextKeeps ==
    ASSUME IInv, Next
    PROVE  IInv'
BY NextIs, RequestKeeps, HandKeeps

-----------------------------------------------------------------------------
(* The table when it is created                                            *)
LEMMA CreatedRoom ==
    ASSUME scene \in Scenes
    PROVE  IsRoom(Created) /\ OnePerSeat(Created)
<1> DEFINE there(p) == [Stranger EXCEPT !.seated = TRUE, !.pos = scene.seats[p], !.state = In,
                                        !.stack = scene.stack]
           f == [p \in Players |-> IF p \in DOMAIN scene.seats THEN there(p) ELSE Stranger]
<1>1. /\ scene.seats \in UNION {[ps -> Seats] : ps \in SUBSET Players}
      /\ IsInjective(scene.seats)
      /\ scene.stack \in Nat /\ scene.purse \in Nat
  BY ScenesAssumption
<1>2. \A p \in DOMAIN scene.seats : scene.seats[p] \in Seats
  BY <1>1
<1>3. Stranger \in PlayerRow
  BY <1>1, BuyinAssumption, BlindsAssumption DEF Stranger, PlayerRow, PlayingStates
<1>4. Stranger \in Rows /\ ~Stranger.seated
  BY <1>3 DEF Rows, Stranger
<1>5. ASSUME NEW p \in DOMAIN scene.seats PROVE there(p) \in Rows /\ there(p).pos = scene.seats[p]
  <2>1. there(p) \in PlayerRow
    BY <1>1, <1>2, <1>3 DEF PlayerRow, PlayingStates
  <2>2. there(p).seated /\ there(p).state = In /\ there(p).pos = scene.seats[p]
    BY <1>3 DEF PlayerRow
  <2>. QED  BY <1>2, <2>1, <2>2 DEF Rows, In, None
<1>6. Created = [pl |-> f, btn |-> NoSeat, sb |-> NoSeat, bb |-> NoSeat]
  BY DEF Created
<1> HIDE DEF there
<1>7. f \in [Players -> Rows]
  BY <1>4, <1>5
<1>8. \A p \in Players : f[p].seated => p \in DOMAIN scene.seats /\ f[p].pos = scene.seats[p]
  BY <1>4, <1>5
<1> HIDE DEF f
<1>9. IsRoom(Created) /\ Created.pl = f
  BY <1>6, <1>7 DEF IsRoom, Spots
<1>10. OnePerSeat(Created)
  BY <1>1, <1>8, <1>9 DEF OnePerSeat, Seated, IsInjective
<1>. QED  BY <1>9, <1>10

(* ... and after the dispatch that follows, the invariant holds.           *)
LEMMA InitHolds ==
    ASSUME Init
    PROVE  IInv
<1>1. scene \in Scenes /\ owing = {}
  BY DEF Init
<1>2. PICK o \in SetupHand(Created, Created) :
        /\ last = o.did
        /\ IF o.did \in Failures THEN room = Created /\ dealt = {}
           ELSE room = o.room /\ dealt = o.dealt
  BY DEF Init
<1>3. IsRoom(Created) /\ OnePerSeat(Created)
  BY <1>1, CreatedRoom
<1>4. GoodOutcome(Created, o)
  BY <1>3, SetupHandGood
<1>5. Owed /\ owing \subseteq Players
  BY <1>1 DEF Owed
<1>6. CASE o.did \in Failures
  BY <1>1, <1>2, <1>3, <1>5, <1>6 DEF IInv, ActiveAreDealt, Suspended, Dids
<1>7. CASE o.did \notin Failures
  <2>1. room = o.room /\ dealt = o.dealt
    BY <1>2, <1>7
  <2>2. ActiveAreDealt
    BY <1>4, <1>7, <2>1 DEF GoodOutcome, HandIsPlayed, ActiveAreDealt
  <2>. QED  BY <1>1, <1>2, <1>4, <1>5, <1>7, <2>1, <2>2 DEF GoodOutcome, IInv
<1>. QED  BY <1>6, <1>7

LEMMA StutterKeeps ==
    ASSUME IInv, UNCHANGED vars
    PROVE  IInv'
BY DEF IInv, Owed, vars, ActiveAreDealt, Suspended

(* IInv holds of the table, whatever is asked and whoever wins.            *)
THEOREM SeatsAndDebts == Spec => []IInv
<1>1. Init => IInv
  BY InitHolds
<1>2. IInv /\ [Next]_vars => IInv'
  BY NextKeeps, StutterKeeps
<1>. QED  BY <1>1, <1>2, PTL DEF Spec

(* The rows of the players and the positions of a table have their types,  *)
(* and who is dealt in or has missed a blind has a seat.                   *)
THEOREM TypeCorrect == Spec => []TypeOK
<1>1. ASSUME IInv PROVE TypeOK
  <2>1. IsRoom(room) /\ last \in Dids
    BY <1>1 DEF IInv
  <2>2. room.pl \in [Players -> PlayerRow]
    BY <2>1 DEF IsRoom, Rows
  <2>3. \A p \in Players : room.pl[p].seated <=> room.pl[p].state # None
    BY <2>1, RowOf DEF Rows
  <2>4. {room.btn, room.sb, room.bb} \subseteq Seats \cup {NoSeat}
    BY <2>1 DEF IsRoom, Spots
  <2>5. dealt \subseteq Seated(room)
    BY <1>1 DEF IInv, ActiveAreDealt, Active, IsActive, Seated
  <2>6. owing \subseteq Seated(room)
    BY <1>1 DEF IInv, Owed, Seated
  <2>. QED  BY <2>1, <2>2, <2>3, <2>4, <2>5, <2>6 DEF TypeOK
<1>. QED  BY <1>1, SeatsAndDebts, PTL

(* A hand is always played by just the active players, for any number of   *)
(* seats and players: nobody becomes or ceases to be one in the middle of  *)
(* it (is_predeal and the betting count on that); and when no hand is      *)
(* played, not enough could play one, or someone sat in with less than he  *)
(* owes.                                                                   *)
THEOREM HandsOfActivePlayers == Spec => []ActiveAreDealt
<1>1. IInv => ActiveAreDealt
  BY DEF IInv
<1>. QED  BY <1>1, SeatsAndDebts, PTL

(* For any number of players and whatever they ask, nobody whom the big    *)
(* blind has passed is dealt in before he has posted one.                  *)
THEOREM NoFreeHands == Spec => []MissedBlindIsPosted
<1>1. IInv => MissedBlindIsPosted
  BY DEF IInv, Owed, MissedBlindIsPosted
<1>. QED  BY <1>1, SeatsAndDebts, PTL

-----------------------------------------------------------------------------
(* Around the table                                                        *)

(* From a seat to another, without the remainder                           *)
LEMMA DistanceIs ==
    ASSUME NEW i \in Seats, NEW j \in Seats
    PROVE  Distance(i, j) = IF i < j THEN j - i ELSE j - i + NumSeats
<1>1. NumSeats \in Nat /\ NumSeats > 1 /\ i \in 0 .. NumSeats - 1 /\ j \in 0 .. NumSeats - 1
  BY BlindsAssumption DEF Seats
<1>2. CASE i = j
  BY <1>1, <1>2 DEF Distance
<1>3. CASE i < j
  <2>1. (j - i) % NumSeats = j - i
    BY <1>1, <1>3
  <2>. QED  BY <1>1, <1>3, <2>1 DEF Distance
<1>4. CASE j < i
  <2>1. (j - i) % NumSeats = j - i + NumSeats
    BY <1>1, <1>4
  <2>. QED  BY <1>1, <1>4, <2>1 DEF Distance
<1>. QED  BY <1>1, <1>2, <1>3, <1>4

LEMMA ClockwiseIs ==
    ASSUME NEW i \in Seats
    PROVE  Clockwise(i, 1) = IF i = NumSeats - 1 THEN 0 ELSE i + 1
<1>1. NumSeats \in Nat /\ NumSeats > 1 /\ i \in 0 .. NumSeats - 1
  BY BlindsAssumption DEF Seats
<1>. QED  BY <1>1 DEF Clockwise

(* Two players have different seats, and two are at least two.             *)
LEMMA TwoAtLeast ==
    ASSUME NEW S, IsFiniteSet(S), Cardinality(S) > 1
    PROVE  \E p, q \in S : p # q
<1>1. S = {} => Cardinality(S) = 0
  BY FS_EmptySet, Zenon
<1>2. PICK p \in S : TRUE
  BY <1>1
<1>3. S = {p} => Cardinality(S) = 1
  BY FS_Singleton, Zenon
<1>4. S # {p}
  BY <1>3
<1>. QED  BY <1>2, <1>4

LEMMA FewAreOne ==
    ASSUME NEW S, \A p, q \in S : p = q
    PROVE  IsFiniteSet(S) /\ Cardinality(S) <= 1
<1>1. CASE S = {}
  BY <1>1, FS_EmptySet
<1>2. CASE S # {}
  <2>1. PICK p \in S : TRUE
    BY <1>2
  <2>2. S = {p}
    BY <2>1
  <2>3. IsFiniteSet({p}) /\ Cardinality({p}) = 1
    BY FS_Singleton
  <2>. QED  BY <2>2, <2>3
<1>. QED  BY <1>1, <1>2

LEMMA PlayersFinite ==
    ASSUME NEW S, S \subseteq Players
    PROVE  IsFiniteSet(S) /\ Cardinality(S) \in Nat
BY FS_Subset, FS_CardinalityType, BlindsAssumption

-----------------------------------------------------------------------------
(* What is left of a room when it comes to the blinds                      *)

(* The events before only take players out of the game.                    *)
Rests(r, s) ==
    \A p \in Players :
       /\ s.pl[p].pos = r.pl[p].pos
       /\ s.pl[p].seated => r.pl[p].seated
       /\ IsActive(s.pl[p]) => IsActive(r.pl[p])
       /\ s.pl[p].state \in {InPending, AtBlinds} => s.pl[p].state = r.pl[p].state

LEMMA RestsTransitive ==
    ASSUME NEW r, NEW s, NEW t, Rests(r, s), Rests(s, t)
    PROVE  Rests(r, t)
BY DEF Rests

LEMMA RebuysRest ==
    ASSUME NEW r, IsRoom(r), NEW db
    PROVE  Rests(r, Rebuys(r, db))
<1> SUFFICES ASSUME NEW p \in Players
             PROVE  /\ Rebuys(r, db).pl[p].pos = r.pl[p].pos
                    /\ Rebuys(r, db).pl[p].seated = r.pl[p].seated
                    /\ Rebuys(r, db).pl[p].state = r.pl[p].state
  BY DEF Rests, IsActive, IsSittingOut
<1> DEFINE x == r.pl[p]
           c == RebuyCheck(x)
<1>1. x \in Rows
  BY RowOf
<1> HIDE DEF x
<1>2. c.pos = x.pos /\ c.seated = x.seated /\ c.state = x.state /\ DOMAIN c = DOMAIN x
  BY <1>1 DEF RebuyCheck, Rows, PlayerRow
<1>3. DOMAIN x = {"seated", "pos", "state", "sitOutAtBlinds", "owesSb", "owesBb", "orbits",
                  "stack", "rebuy", "auto", "balance"}
  BY <1>1 DEF Rows, PlayerRow
<1> DEFINE y == RebuyUpdate(c, db.pl[p].balance)
<1> HIDE DEF c
<1>4. y.pos = c.pos /\ y.seated = c.seated /\ y.state = c.state
  BY <1>2, <1>3 DEF RebuyUpdate
<1>5. Rebuys(r, db).pl[p] = y
  BY DEF Rebuys, IsRoom, c, x
<1>. QED  BY <1>2, <1>4, <1>5 DEF x

LEMMA QueuedSitoutsRest ==
    ASSUME NEW r, IsRoom(r)
    PROVE  Rests(r, QueuedSitouts(r))
<1> DEFINE queued(s) == {p \in Active(r) : r.pl[p].state = s}
           outs      == queued(OutPending) \cup ({p \in Active(r) : r.pl[p].stack = 0} \ queued(Leaving))
           s1        == Each(r, outs, SitOutNow)
           t         == Each(s1, queued(Leaving), LeaveNow)
<1>1. QueuedSitouts(r) = t
  BY DEF QueuedSitouts
<1>2. \A p \in Players : s1.pl[p] = IF p \in outs THEN SitOutNow(r.pl[p]) ELSE r.pl[p]
  <2>. HIDE DEF outs
  <2>. QED  BY DEF Each, IsRoom
<1>3. \A p \in Players : t.pl[p] = IF p \in queued(Leaving) THEN LeaveNow(s1.pl[p]) ELSE s1.pl[p]
  <2>1. outs \in SUBSET Seated(r)
    BY DEF Seated, Active, IsActive
  <2>2. IsRoom(s1)
    <3>. HIDE DEF outs
    <3>. QED  BY <2>1, SitOutRooms DEF Follows
  <2>. HIDE DEF s1, queued
  <2>. QED  BY <2>2 DEF Each, IsRoom
<1>4. \A p \in outs : p \notin queued(Leaving) /\ p \in Players
  BY DEF Leaving, OutPending, Active
<1> HIDE DEF s1, t, outs
<1>5. ASSUME NEW p \in Players
      PROVE  t.pl[p] \in {r.pl[p], SitOutNow(r.pl[p]), LeaveNow(r.pl[p])} /\ (t.pl[p] # r.pl[p] => IsActive(r.pl[p]))
  <2>1. p \in outs => IsActive(r.pl[p])
    BY DEF outs, Active
  <2>2. p \in queued(Leaving) => IsActive(r.pl[p])
    BY DEF Active
  <2>. QED  BY <1>2, <1>3, <1>4, <2>1, <2>2
<1>6. ASSUME NEW p \in Players
      PROVE  /\ t.pl[p].pos = r.pl[p].pos
             /\ t.pl[p].seated => r.pl[p].seated
             /\ IsActive(t.pl[p]) => IsActive(r.pl[p])
             /\ t.pl[p].state \in {InPending, AtBlinds} => t.pl[p].state = r.pl[p].state
  <2>1. r.pl[p] \in Rows
    BY RowOf
  <2>2. CASE t.pl[p] = r.pl[p]
    BY <2>2
  <2>3. CASE t.pl[p] = SitOutNow(r.pl[p]) /\ IsActive(r.pl[p])
    BY <2>1, <2>3 DEF SitOutNow, Rows, PlayerRow, Out, InPending, AtBlinds
  <2>4. CASE t.pl[p] = LeaveNow(r.pl[p]) /\ IsActive(r.pl[p])
    BY <2>1, <2>4 DEF LeaveNow, Rows, PlayerRow, None, InPending, AtBlinds
  <2>. QED  BY <1>5, <2>2, <2>3, <2>4
<1>. QED  BY <1>1, <1>6 DEF Rests

(* Before the blinds: who plays did before, or waited for the big blind    *)
(* and is the next one; and who waits for the next hand did before.        *)
Comes(r, s, p) ==
    /\ r.pl[p].state = AtBlinds /\ r.pl[p].pos # r.bb
    /\ \A t \in Active(s) : Distance(r.bb, r.pl[p].pos) <= Distance(r.bb, s.pl[t].pos)

BeforeBlinds(r, s) ==
    /\ IsRoom(s) /\ OnePerSeat(s) /\ SameSpots(r, s)
    /\ \A p \in Players :
          /\ s.pl[p].pos = r.pl[p].pos
          /\ s.pl[p].seated => r.pl[p].seated
          /\ s.pl[p].state = InPending => r.pl[p].state = InPending
    /\ \A p \in Active(s) : p \in Active(r) \/ Comes(r, s, p)

(* What set_sitting_given_blinds makes of a room                           *)
LEMMA SetSittingBefore ==
    ASSUME NEW r, IsRoom(r), OnePerSeat(r), r.bb \in Seats
    PROVE  BeforeBlinds(r, SetSittingGivenBlinds(r))
<1> DEFINE x(p)    == r.pl[p]
           takes   == {p \in Seated(r) : \/ x(p).state = AtBlinds
                                         \/ ~IsSittingOut(x(p)) /\ ~x(p).sitOutAtBlinds}
           reached == {p \in Seated(r) :
                         /\ x(p).pos # r.bb
                         /\ \A q \in takes : Distance(r.bb, x(p).pos) <= Distance(r.bb, x(q).pos)}
           ins     == {p \in reached : x(p).state = AtBlinds}
           outs    == {p \in reached : ~IsSittingOut(x(p)) /\ x(p).sitOutAtBlinds}
           s1      == Each(r, ins, SitInNow)
           s       == Each(s1, outs, SitOutNow)
<1>1. s = SetSittingGivenBlinds(r)
  BY DEF SetSittingGivenBlinds
<1>2. Follows(r, s)
  BY <1>1, SetSittingFollows
<1>3. \A p \in Players : s1.pl[p] = IF p \in ins THEN SitInNow(r.pl[p]) ELSE r.pl[p]
  <2>. HIDE DEF ins
  <2>. QED  BY DEF Each, IsRoom
<1>4. \A p \in Players : s.pl[p] = IF p \in outs THEN SitOutNow(s1.pl[p]) ELSE s1.pl[p]
  <2>1. ins \in SUBSET Seated(r)
    OBVIOUS
  <2>2. IsRoom(s1)
    <3>. HIDE DEF ins
    <3>. QED  BY <2>1, SitInRooms DEF Follows
  <2>. HIDE DEF s1, outs
  <2>. QED  BY <2>2 DEF Each, IsRoom
<1>5. \A p \in Players : p \in ins => p \notin outs
  BY DEF IsSittingOut, AtBlinds
<1> HIDE DEF s1, s
<1>6. ASSUME NEW p \in Players
      PROVE  s.pl[p] = IF p \in ins THEN SitInNow(r.pl[p])
                       ELSE IF p \in outs THEN SitOutNow(r.pl[p]) ELSE r.pl[p]
  <2>. HIDE DEF ins, outs
  <2>. QED  BY <1>3, <1>4, <1>5
<1>7. ASSUME NEW p \in Players
      PROVE  s.pl[p].state = InPending => r.pl[p].state = InPending
  <2>1. r.pl[p] \in Rows
    BY RowOf
  <2>2. SitInNow(r.pl[p]).state = In /\ SitOutNow(r.pl[p]).state = Out
    BY <2>1 DEF SitInNow, SitOutNow, Rows, PlayerRow
  <2>. HIDE DEF ins, outs
  <2>. QED  BY <1>6, <2>2 DEF In, Out, InPending
<1>8. ASSUME NEW p \in Active(s)
      PROVE  p \in Players /\ p \notin outs /\ (p \in ins \/ p \in Active(r))
  <2>1. p \in Players /\ r.pl[p] \in Rows /\ IsActive(s.pl[p])
    BY RowOf DEF Active
  <2>2. SitOutNow(r.pl[p]).state = Out
    BY <2>1 DEF SitOutNow, Rows, PlayerRow
  <2>. HIDE DEF ins, outs
  <2>3. p \notin ins => p \notin outs
    BY <1>6, <2>1, <2>2 DEF IsActive, IsSittingOut
  <2>4. p \notin ins => p \in Active(r)
    BY <1>6, <2>1, <2>3 DEF Active
  <2>. QED  BY <1>5, <2>1, <2>3, <2>4
<1>9. ASSUME NEW p \in Players, p \in ins
      PROVE  Comes(r, s, p)
  <2>1. r.pl[p].state = AtBlinds /\ r.pl[p].pos # r.bb /\ p \in Players /\ p \in takes
    BY <1>9
  <2>2. ASSUME NEW t \in Active(s)
        PROVE  Distance(r.bb, r.pl[p].pos) <= Distance(r.bb, r.pl[t].pos)
    <3>1. t \in Players /\ t \notin outs /\ (t \in ins \/ t \in Active(r))
      BY <1>8
    <3>2. CASE t \in takes
      BY <1>9, <3>2
    <3>3. CASE t \notin takes
      <4>1. t \in Active(r) /\ t \in Seated(r) /\ ~IsSittingOut(x(t)) /\ x(t).sitOutAtBlinds
        <5>1. t \notin ins
          BY <3>3
        <5>2. t \in Active(r)
          BY <3>1, <5>1
        <5>3. x(t).sitOutAtBlinds \in BOOLEAN
          BY <3>1, RowOf DEF Rows, PlayerRow
        <5>. QED  BY <3>1, <3>3, <5>2, <5>3 DEF Active, IsActive, Seated
      <4>2. t \notin reached
        BY <3>1, <4>1
      <4>3. x(t).pos \in Seats /\ x(p).pos \in Seats /\ x(p).pos \in Int /\ x(t).pos \in Int /\ r.bb \in Int
        BY <4>1, <2>1, RowOf DEF Seated, Rows, Seats
      <4>4. CASE x(t).pos = r.bb
        <5>1. Distance(r.bb, x(t).pos) = NumSeats /\ Distance(r.bb, x(p).pos) < NumSeats
          BY <4>3, <4>4, <2>1, DistanceType DEF Distance
        <5>2. NumSeats \in Int
          BY BlindsAssumption
        <5>3. Distance(r.bb, x(p).pos) \in Int
          BY <4>3, DistanceType
        <5>. QED  BY <5>1, <5>2, <5>3
      <4>5. CASE x(t).pos # r.bb
        <5>1. PICK q \in takes : ~(Distance(r.bb, x(t).pos) <= Distance(r.bb, x(q).pos))
          <6>. HIDE DEF takes
          <6>. QED  BY <4>1, <4>2, <4>5
        <5>2. Distance(r.bb, x(p).pos) <= Distance(r.bb, x(q).pos)
          BY <1>9, <5>1
        <5>3. x(q).pos \in Int
          BY <5>1, RowOf DEF Seated, Rows, Seats
        <5>4. Distance(r.bb, x(t).pos) \in Int /\ Distance(r.bb, x(q).pos) \in Int /\ Distance(r.bb, x(p).pos) \in Int
          BY <4>3, <5>3, DistanceType
        <5>. QED  BY <5>1, <5>2, <5>4
      <4>. QED  BY <4>4, <4>5
    <3>. QED  BY <3>2, <3>3
  <2>3. \A t \in Active(s) : s.pl[t].pos = r.pl[t].pos
    BY <1>2 DEF Follows, Keeps, RowKeeps, Active
  <2>. QED  BY <2>1, <2>2, <2>3 DEF Comes
<1>10. \A p \in Active(s) : p \in Active(r) \/ Comes(r, s, p)
  <2>. HIDE DEF ins, outs
  <2>. QED  BY <1>8, <1>9
<1>11. OnePerSeat(s)
  BY <1>2, KeepsStays, StaysInSeats DEF Follows
<1>12. BeforeBlinds(r, s)
  BY <1>2, <1>7, <1>10, <1>11 DEF BeforeBlinds, Follows, Keeps, RowKeeps
<1>. QED  BY <1>1, <1>12

(* What came before that                                                   *)
LEMMA BeforeAfterRest ==
    ASSUME NEW r, NEW s, NEW t, Rests(r, s), SameSpots(r, s), BeforeBlinds(s, t)
    PROVE  BeforeBlinds(r, t)
<1>1. SameSpots(r, t)
  BY DEF SameSpots, BeforeBlinds
<1>2. ASSUME NEW p \in Players
      PROVE  /\ t.pl[p].pos = r.pl[p].pos
             /\ t.pl[p].seated => r.pl[p].seated
             /\ t.pl[p].state = InPending => r.pl[p].state = InPending
  BY DEF Rests, BeforeBlinds
<1>3. ASSUME NEW p \in Active(t) PROVE p \in Active(r) \/ Comes(r, t, p)
  <2>1. p \in Players /\ (p \in Active(s) \/ Comes(s, t, p))
    BY DEF BeforeBlinds, Active
  <2>2. p \in Active(s) => p \in Active(r)
    BY <2>1 DEF Rests, Active
  <2>3. Comes(s, t, p) => Comes(r, t, p)
    BY <2>1 DEF Comes, Rests, SameSpots
  <2>. QED  BY <2>1, <2>2, <2>3
<1>. QED  BY <1>1, <1>2, <1>3 DEF BeforeBlinds

-----------------------------------------------------------------------------
(* Where the button and the blinds move                                    *)

(* The seats of those who play                                             *)
Taken(r) == {r.pl[p].pos : p \in Active(r)}

LEMMA TakenSeats ==
    ASSUME NEW r, IsRoom(r)
    PROVE  /\ Taken(r) \subseteq Seats
           /\ \A j : HasSeat(r, j, Active(r)) <=> j \in Taken(r)
           /\ Active(r) \subseteq Seated(r)
<1>1. \A p \in Active(r) : p \in Players /\ r.pl[p].seated
  BY DEF Active, IsActive
<1>2. \A p \in Active(r) : r.pl[p].pos \in Seats
  BY <1>1, RowOf DEF Rows
<1>. QED  BY <1>1, <1>2 DEF Taken, HasSeat, Seated

(* The big blind comes to another seat, of someone who plays or waits.     *)
LEMMA NextBigIs ==
    ASSUME NEW r, IsRoom(r), OnePerSeat(r), r.bb \in Seats,
           NEW p1 \in Active(r), NEW p2 \in Active(r), p1 # p2
    PROVE  /\ NextBig(r) \in Seats /\ NextBig(r) # r.bb
           /\ \E p \in MayPostBig(r) : r.pl[p].pos = NextBig(r)
           /\ \A p \in MayPostBig(r) : Distance(r.bb, NextBig(r)) <= Distance(r.bb, r.pl[p].pos)
           /\ ~(MayPostBig(r) \subseteq {p \in Players : r.pl[p].pos = r.bb})
<1>1. MayPostBig(r) \in SUBSET Seated(r) /\ MayPostBig(r) # {} /\ r.bb \in Int
  BY DEF MayPostBig, Active, IsActive, Seated, Seats
<1>2. /\ NextBig(r) \in Seats
      /\ \E p \in MayPostBig(r) : r.pl[p].pos = NextBig(r)
      /\ \A p \in MayPostBig(r) : Distance(r.bb, NextBig(r)) <= Distance(r.bb, r.pl[p].pos)
  BY <1>1, NextSeatNearest DEF NextBig
<1>3. PICK p \in Active(r) : r.pl[p].pos # r.bb /\ p \in Players
  BY TakenSeats DEF OnePerSeat, Active
<1>4. NextBig(r) # r.bb
  <2>1. p \in MayPostBig(r) /\ r.pl[p].pos \in Seats
    BY <1>3, TakenSeats DEF MayPostBig, Taken
  <2>2. Distance(r.bb, r.pl[p].pos) < NumSeats
    BY <1>3, <2>1, DistanceType DEF Seats
  <2>3. r.bb \in Int /\ NextBig(r) \in Int /\ r.pl[p].pos \in Int /\ NumSeats \in Int
    BY <1>2, <2>1, BlindsAssumption DEF Seats
  <2>4. Distance(r.bb, NextBig(r)) \in Int /\ Distance(r.bb, r.pl[p].pos) \in Int
    BY <2>3, DistanceType
  <2>5. Distance(r.bb, NextBig(r)) <= Distance(r.bb, r.pl[p].pos)
    BY <1>2, <2>1
  <2>6. Distance(r.bb, NextBig(r)) < NumSeats
    BY <2>2, <2>3, <2>4, <2>5
  <2>7. Distance(r.bb, r.bb) = NumSeats
    BY DEF Distance
  <2>. QED  BY <2>6, <2>7, BlindsAssumption
<1>5. ~(MayPostBig(r) \subseteq {q \in Players : r.pl[q].pos = r.bb})
  BY <1>3 DEF MayPostBig
<1>. QED  BY <1>2, <1>4, <1>5

(* The small blind comes to the first of them, or right before the big.    *)
LEMMA NextSmallIs ==
    ASSUME NEW r, IsRoom(r), NextBig(r) \in Seats
    PROVE  /\ NextSmall(r) \in Seats
           /\ NextSmall(r) \in Taken(r) \/ Clockwise(NextSmall(r), 1) = NextBig(r)
           /\ \A j \in SeatsBetween(r.sb, NextSmall(r)) :
                 j \notin Taken(r) /\ Clockwise(j, 1) # NextBig(r)
<1> DEFINE S == {i \in Seats : i \in Taken(r) \/ Clockwise(i, 1) = NextBig(r)}
           d == [i \in S |-> Distance(r.sb, i)]
<1>1. IsFiniteSet(S)
  <2>1. IsFiniteSet(Seats)
    BY FS_Interval, BlindsAssumption DEF Seats
  <2>2. S \in SUBSET Seats
    OBVIOUS
  <2>. HIDE DEF S
  <2>. QED  BY <2>1, <2>2, FS_Subset
<1>2. S # {}
  <2> DEFINE n == NextBig(r)
             j == IF n = 0 THEN NumSeats - 1 ELSE n - 1
  <2>1. j \in Seats
    BY BlindsAssumption DEF Seats
  <2>2. Clockwise(j, 1) = n
    BY <2>1, ClockwiseIs, BlindsAssumption DEF Seats
  <2>. QED  BY <2>1, <2>2
<1>3. r.sb \in Int
  BY DEF IsRoom, Spots, Seats, NoSeat
<1>4. \A j \in Seats : Distance(r.sb, j) \in Int
  <2> TAKE j \in Seats
  <2>1. j \in Int
    BY DEF Seats
  <2>. QED  BY <2>1, <1>3, DistanceType
<1>5. d \in [S -> Int]
  BY <1>4
<1>6. PICK i \in S : \A j \in S : d[i] <= d[j]
  <2>. HIDE DEF S, d
  <2>. QED  BY <1>1, <1>2, <1>5, Least
<1>7. ASSUME NEW j \in SeatsBetween(r.sb, i)
      PROVE  j \notin Taken(r) /\ Clockwise(j, 1) # NextBig(r)
  <2>1. j \in Seats /\ Distance(r.sb, j) < Distance(r.sb, i)
    BY DEF SeatsBetween
  <2>2. Distance(r.sb, j) \in Int /\ Distance(r.sb, i) \in Int
    BY <2>1, <1>4
  <2>3. j \notin S
    <3> SUFFICES ASSUME j \in S PROVE FALSE
      OBVIOUS
    <3>1. d[i] <= d[j] /\ d[i] = Distance(r.sb, i) /\ d[j] = Distance(r.sb, j)
      BY <1>6
    <3>. QED  BY <3>1, <2>1, <2>2
  <2>. QED  BY <2>1, <2>3
<1>8. \A j : HasSeat(r, j, Active(r)) <=> j \in Taken(r)
  BY TakenSeats
<1>9. i \in Seats /\ (HasSeat(r, i, Active(r)) \/ Clockwise(i, 1) = NextBig(r))
  BY <1>6, <1>8
<1> DEFINE Good(k) == /\ HasSeat(r, k, Active(r)) \/ Clockwise(k, 1) = NextBig(r)
                      /\ \A j \in SeatsBetween(r.sb, k) :
                            ~HasSeat(r, j, Active(r)) /\ Clockwise(j, 1) # NextBig(r)
<1>10. Good(i)
  <2>. HIDE DEF S, d
  <2>. QED  BY <1>7, <1>8, <1>9
<1>11. NextSmall(r) = CHOOSE k \in Seats : Good(k)
  BY DEF NextSmall
<1>12. NextSmall(r) \in Seats /\ Good(NextSmall(r))
  <2>. HIDE DEF Good, S, d
  <2>. QED  BY <1>9, <1>10, <1>11
<1>. QED  BY <1>8, <1>12

(* Two who play heads up, one where the big blind comes                    *)
LEMMA HeadsUpIf ==
    ASSUME NEW r, IsRoom(r), OnePerSeat(r), NEW p, NEW q, p # q,
           Active(r) = {p, q}, r.pl[p].pos = NextBig(r)
    PROVE  HeadsUp(r)
<1>1. p \in Seated(r) /\ IsActive(r.pl[p])
  BY DEF Seated, Active, IsActive
<1>2. ASSUME NEW t \in Seated(r), r.pl[t].pos = NextBig(r), r.pl[t].state = InPending PROVE FALSE
  <2>1. t = p
    BY <1>1, <1>2 DEF OnePerSeat
  <2>. QED  BY <1>1, <1>2, <2>1 DEF IsActive, IsSittingOut
<1>3. ActiveWithPendingAt(r, NextBig(r)) = {p, q}
  BY <1>2 DEF ActiveWithPendingAt
<1>4. Cardinality({p, q}) = 2
  <2>1. IsFiniteSet({p}) /\ Cardinality({p}) = 1
    BY FS_Singleton
  <2>2. Cardinality({p} \cup {q}) = Cardinality({p}) + 1
    BY <2>1, FS_AddElement
  <2>3. {p, q} = {p} \cup {q}
    OBVIOUS
  <2>. QED  BY <2>1, <2>2, <2>3
<1>. QED  BY <1>3, <1>4 DEF HeadsUp

(* All who play are there or at one other seat.                            *)
LEMMA HeadsUpOfTwoSeats ==
    ASSUME NEW r, IsRoom(r), OnePerSeat(r), NEW i, Taken(r) \subseteq {i, NextBig(r)},
           NEW p1 \in Active(r), NEW p2 \in Active(r), p1 # p2
    PROVE  HeadsUp(r)
<1> DEFINE n == NextBig(r)
<1>1. \A p, q \in Active(r) : r.pl[p].pos = r.pl[q].pos => p = q
  BY TakenSeats DEF OnePerSeat
<1>2. \A p \in Active(r) : r.pl[p].pos \in {i, n}
  BY DEF Taken
<1> HIDE DEF n
<1>3. r.pl[p1].pos # r.pl[p2].pos
  BY <1>1
<1>4. CASE r.pl[p1].pos = n
  <2>1. Active(r) = {p1, p2}
    BY <1>1, <1>2, <1>3, <1>4
  <2>. QED  BY <1>4, <2>1, HeadsUpIf DEF n
<1>5. CASE r.pl[p2].pos = n
  <2>1. Active(r) = {p2, p1}
    BY <1>1, <1>2, <1>3, <1>5
  <2>. QED  BY <1>5, <2>1, HeadsUpIf DEF n
<1>. QED  BY <1>2, <1>3, <1>4, <1>5

(* ... and the other way round                                             *)
LEMMA HeadsUpAre ==
    ASSUME NEW r, IsRoom(r), OnePerSeat(r), r.bb \in Seats, HeadsUp(r),
           NEW p1 \in Active(r), NEW p2 \in Active(r), p1 # p2
    PROVE  /\ Active(r) = {p1, p2} /\ Cardinality(Active(r)) = 2
           /\ NextBig(r) \in Taken(r)
           /\ Cardinality(ActiveWithPendingAt(r, NextBig(r))) = 2
<1> DEFINE S == ActiveWithPendingAt(r, NextBig(r))
<1>1. Cardinality(S) = 2
  BY DEF HeadsUp
<1>2. Active(r) \subseteq S /\ S \subseteq Players
  BY DEF ActiveWithPendingAt, Active, Seated
<1>3. IsFiniteSet(S)
  BY <1>2, PlayersFinite
<1>4. Cardinality({p1, p2}) = 2 /\ {p1, p2} \subseteq S
  <2>1. IsFiniteSet({p1}) /\ Cardinality({p1}) = 1
    BY FS_Singleton
  <2>2. Cardinality({p1} \cup {p2}) = Cardinality({p1}) + 1
    BY <2>1, FS_AddElement
  <2>3. {p1, p2} = {p1} \cup {p2}
    OBVIOUS
  <2>. QED  BY <1>2, <2>1, <2>2, <2>3
<1>5. {p1, p2} = S
  <2>. HIDE DEF S
  <2>1. Cardinality(S) = Cardinality({p1, p2}) => S = {p1, p2}
    BY <1>3, <1>4, FS_Subset
  <2>. QED  BY <1>1, <1>4, <2>1
<1>6. Active(r) = {p1, p2}
  BY <1>2, <1>5
<1>7. PICK t \in MayPostBig(r) : r.pl[t].pos = NextBig(r)
  BY NextBigIs
<1>8. t \in S
  BY <1>7 DEF MayPostBig, ActiveWithPendingAt
<1>9. NextBig(r) \in Taken(r)
  BY <1>5, <1>6, <1>7, <1>8 DEF Taken
<1>. QED  BY <1>1, <1>4, <1>6, <1>9

(* The sanity checks on the big blind                                      *)
LEMMA TwoDoNotFail ==
    ASSUME NEW r, IsRoom(r), OnePerSeat(r), r.bb \in Seats,
           NEW p1 \in Active(r), NEW p2 \in Active(r), p1 # p2
    PROVE  ~RotationFails(r)
BY NextBigIs, HeadsUpAre DEF RotationFails

(* The positions of the next hand                                          *)
LEMMA PositionsAre ==
    ASSUME NEW r, IsRoom(r), OnePerSeat(r), r.bb \in Seats,
           NEW p1 \in Active(r), NEW p2 \in Active(r), p1 # p2
    PROVE  LET at == PositionsInRotation(r)
           IN  /\ at.bb = NextBig(r)
               /\ at.btn \in Taken(r)
               /\ IF HeadsUp(r) THEN at.sb = at.btn /\ at.btn # NextBig(r)
                  ELSE /\ at.sb = NextSmall(r)
                       /\ \A j \in Taken(r) : Distance(at.btn, at.sb) <= Distance(j, at.sb)
<1>1. NextBig(r) \in Seats /\ NextSmall(r) \in Seats
  BY NextBigIs, NextSmallIs
<1>2. /\ IsFiniteSet(Active(r)) /\ Taken(r) \subseteq Seats
      /\ \A j : HasSeat(r, j, Active(r)) <=> j \in Taken(r)
  BY PlayersFinite, TakenSeats DEF Active
<1>3. CASE HeadsUp(r)
  <2>1. r.pl[p1].pos # r.pl[p2].pos
    BY TakenSeats DEF OnePerSeat
  <2>2. \E j \in Seats : j # NextBig(r) /\ HasSeat(r, j, Active(r))
    BY <2>1, <1>2 DEF Taken
  <2>. QED  BY <1>2, <1>3, <2>2 DEF PositionsInRotation, Positions
<1>4. CASE ~HeadsUp(r)
  <2> DEFINE d == [p \in Active(r) |-> Distance(r.pl[p].pos, NextSmall(r))]
             Good(j) == /\ HasSeat(r, j, Active(r))
                        /\ \A k \in Seats : HasSeat(r, k, Active(r)) =>
                              Distance(j, NextSmall(r)) <= Distance(k, NextSmall(r))
  <2>1. ASSUME NEW p \in Active(r) PROVE Distance(r.pl[p].pos, NextSmall(r)) \in Int
    <3>1. r.pl[p].pos \in Int /\ NextSmall(r) \in Int
      BY <1>1, <1>2 DEF Seats, Taken
    <3>. QED  BY <3>1, DistanceType
  <2>2. d \in [Active(r) -> Int]
    BY <2>1
  <2>3. PICK p \in Active(r) : \A q \in Active(r) : d[p] <= d[q]
    <3>. HIDE DEF d
    <3>. QED  BY <2>2, <1>2, Least
  <2>4. r.pl[p].pos \in Seats /\ Good(r.pl[p].pos)
    BY <2>3, <1>2 DEF HasSeat, Taken
  <2> DEFINE b == CHOOSE j \in Seats : Good(j)
  <2>5. b \in Seats /\ Good(b)
    <3>. HIDE DEF Good
    <3>. QED  BY <2>4
  <2>6. PositionsInRotation(r) = Positions(b, NextSmall(r), NextBig(r))
    BY <1>4 DEF PositionsInRotation
  <2>7. b \in Taken(r) /\ \A j \in Taken(r) : Distance(b, NextSmall(r)) <= Distance(j, NextSmall(r))
    BY <1>2, <2>5
  <2>. HIDE DEF b
  <2>. QED  BY <1>4, <2>6, <2>7 DEF Positions
<1>. QED  BY <1>3, <1>4

(* The small blind moves from sb to s, the big blind from bb to n, and the *)
(* players are at the seats A, none of them before n, nor between sb and   *)
(* bb unless n has come there: s is at bb or before n.                     *)
LEMMA SmallPlaces ==
    ASSUME NEW bb \in Seats, NEW sb \in Seats, NEW n \in Seats, NEW s \in Seats,
           sb # bb, n # bb, NEW A \in SUBSET Seats,
           \A a \in A : Distance(bb, n) <= Distance(bb, a),
           s \in A \/ Clockwise(s, 1) = n,
           \A j \in SeatsBetween(sb, s) : j \notin A /\ Clockwise(j, 1) # n,
           \A a \in A : a \in SeatsBetween(sb, bb) => a = n /\ Distance(bb, sb) < Distance(bb, n),
           ~(Clockwise(sb, 1) = n /\ n \in A)
    PROVE  /\ s # n
           /\ s = bb \/ Clockwise(s, 1) = n
           /\ bb \in A => s = bb \/ sb \in SeatsBetween(bb, n)
<1>1. /\ NumSeats \in Int /\ NumSeats > 1
      /\ bb \in Int /\ 0 <= bb /\ bb < NumSeats
      /\ sb \in Int /\ 0 <= sb /\ sb < NumSeats
      /\ n \in Int /\ 0 <= n /\ n < NumSeats
      /\ s \in Int /\ 0 <= s /\ s < NumSeats
  BY BlindsAssumption DEF Seats
<1> DEFINE prev == IF n = 0 THEN NumSeats - 1 ELSE n - 1
<1>2. prev \in Seats /\ prev \in Int /\ prev # n
  BY <1>1 DEF Seats
<1>3. \A j \in Seats : Clockwise(j, 1) = n <=> j = prev
  <2> TAKE j \in Seats
  <2>1. Clockwise(j, 1) = IF j = NumSeats - 1 THEN 0 ELSE j + 1
    BY ClockwiseIs
  <2>. QED  BY <1>1, <2>1 DEF Seats
<1>4. Distance(bb, n) = IF bb < n THEN n - bb ELSE n - bb + NumSeats
  BY DistanceIs
<1>5. Distance(bb, sb) = IF bb < sb THEN sb - bb ELSE sb - bb + NumSeats
  BY DistanceIs
<1>6. Distance(bb, s) = IF bb < s THEN s - bb ELSE s - bb + NumSeats
  BY DistanceIs
<1>7. Distance(sb, s) = IF sb < s THEN s - sb ELSE s - sb + NumSeats
  BY DistanceIs
<1>8. Distance(sb, bb) = IF sb < bb THEN bb - sb ELSE bb - sb + NumSeats
  BY DistanceIs
<1>9. Distance(sb, prev) = IF sb < prev THEN prev - sb ELSE prev - sb + NumSeats
  BY <1>2, DistanceIs
<1>10. Distance(sb, s) <= Distance(sb, prev)
  <2>1. prev \notin SeatsBetween(sb, s)
    BY <1>2, <1>3
  <2>2. prev # s => ~(Distance(sb, prev) < Distance(sb, s))
    BY <2>1, <1>2 DEF SeatsBetween
  <2>. QED  BY <1>1, <1>2, <1>7, <1>9, <2>2
<1>11. s \in A => Distance(bb, n) <= Distance(bb, s)
  OBVIOUS
<1>12. s \in A => \/ s = bb \/ Distance(sb, bb) <= Distance(sb, s)
                  \/ s = n /\ Distance(bb, sb) < Distance(bb, n)
  <2>1. ASSUME s \in A, s \in SeatsBetween(sb, bb) PROVE s = n /\ Distance(bb, sb) < Distance(bb, n)
    BY <2>1
  <2>2. s # bb /\ s \notin SeatsBetween(sb, bb) => ~(Distance(sb, s) < Distance(sb, bb))
    BY DEF SeatsBetween
  <2>. QED  BY <1>1, <1>7, <1>8, <2>1, <2>2
<1>13. bb \in A => Distance(sb, s) <= Distance(sb, bb)
  <2>1. bb \in A => bb \notin SeatsBetween(sb, s)
    OBVIOUS
  <2>2. bb # s /\ bb \notin SeatsBetween(sb, s) => ~(Distance(sb, bb) < Distance(sb, s))
    BY DEF SeatsBetween
  <2>. QED  BY <1>1, <1>7, <1>8, <2>1, <2>2
<1>14. s \in A \/ s = prev
  BY <1>3
<1>15. sb = prev => n \notin A
  BY <1>3
<1>16. s # n /\ (s = bb \/ s = prev)
  <2>1. CASE s = prev
    BY <2>1, <1>2
  <2>2. CASE s \in A /\ Distance(bb, sb) < Distance(bb, n)
    BY <2>2, <1>1, <1>2, <1>4, <1>5, <1>6, <1>7, <1>8, <1>9, <1>10, <1>11, <1>12, <1>15
  <2>3. CASE s \in A /\ ~(Distance(bb, sb) < Distance(bb, n))
    BY <2>3, <1>1, <1>2, <1>4, <1>5, <1>6, <1>7, <1>8, <1>9, <1>10, <1>11, <1>12
  <2>. QED  BY <1>14, <2>1, <2>2, <2>3
<1>17. bb \in A => s = bb \/ sb \in SeatsBetween(bb, n)
  <2>1. CASE Distance(bb, sb) < Distance(bb, n)
    <3>1. sb # n
      BY <2>1, <1>1, <1>4, <1>5
    <3>. QED  BY <2>1, <3>1 DEF SeatsBetween
  <2>2. CASE ~(Distance(bb, sb) < Distance(bb, n))
    BY <2>2, <1>1, <1>2, <1>4, <1>5, <1>6, <1>7, <1>8, <1>9, <1>13, <1>16
  <2>. QED  BY <2>1, <2>2
<1>. QED  BY <1>2, <1>3, <1>16, <1>17

(* The way back from the small blind to the last player leads past the     *)
(* big one only if nobody else plays.                                      *)
LEMMA NobodyElse ==
    ASSUME NEW bb \in Seats, NEW n \in Seats, NEW s \in Seats, NEW b \in Seats, n # bb,
           NEW A \in SUBSET Seats,
           \A a \in A : Distance(bb, n) <= Distance(bb, a),
           \A a \in A : Distance(b, s) <= Distance(a, s),
           s = bb \/ Distance(bb, s) < Distance(bb, n),
           Distance(n, s) <= Distance(b, s)
    PROVE  A \subseteq {s, n}
<1> SUFFICES ASSUME NEW a \in A, a # s, a # n PROVE FALSE
  OBVIOUS
<1>1. /\ NumSeats \in Int /\ NumSeats > 1
      /\ bb \in Int /\ 0 <= bb /\ bb < NumSeats
      /\ n \in Int /\ 0 <= n /\ n < NumSeats
      /\ s \in Int /\ 0 <= s /\ s < NumSeats
      /\ b \in Int /\ 0 <= b /\ b < NumSeats
      /\ a \in Int /\ 0 <= a /\ a < NumSeats /\ a \in Seats
  BY BlindsAssumption DEF Seats
<1>2. Distance(bb, n) = IF bb < n THEN n - bb ELSE n - bb + NumSeats
  BY DistanceIs
<1>3. Distance(bb, a) = IF bb < a THEN a - bb ELSE a - bb + NumSeats
  BY <1>1, DistanceIs
<1>4. Distance(bb, s) = IF bb < s THEN s - bb ELSE s - bb + NumSeats
  BY DistanceIs
<1>5. Distance(n, s) = IF n < s THEN s - n ELSE s - n + NumSeats
  BY DistanceIs
<1>6. Distance(b, s) = IF b < s THEN s - b ELSE s - b + NumSeats
  BY DistanceIs
<1>7. Distance(a, s) = IF a < s THEN s - a ELSE s - a + NumSeats
  BY <1>1, DistanceIs
<1>8. Distance(bb, n) <= Distance(bb, a) /\ Distance(b, s) <= Distance(a, s)
  OBVIOUS
<1>. QED  BY <1>1, <1>2, <1>3, <1>4, <1>5, <1>6, <1>7, <1>8

(* Seats at the same distance are the same.                                *)
LEMMA DistanceDiffers ==
    ASSUME NEW i \in Seats, NEW j \in Seats, NEW k \in Seats, Distance(i, j) = Distance(i, k)
    PROVE  j = k
<1>1. /\ NumSeats \in Int /\ NumSeats > 1
      /\ i \in Int /\ 0 <= i /\ i < NumSeats
      /\ j \in Int /\ 0 <= j /\ j < NumSeats
      /\ k \in Int /\ 0 <= k /\ k < NumSeats
  BY BlindsAssumption DEF Seats
<1>2. Distance(i, j) = IF i < j THEN j - i ELSE j - i + NumSeats
  BY DistanceIs
<1>3. Distance(i, k) = IF i < k THEN k - i ELSE k - i + NumSeats
  BY DistanceIs
<1>4. CASE i < j /\ i < k
  <2>1. j - i = k - i
    BY <1>2, <1>3, <1>4
  <2>. QED  BY <1>1, <2>1
<1>5. CASE ~(i < j) /\ ~(i < k)
  <2>1. j - i + NumSeats = k - i + NumSeats
    BY <1>2, <1>3, <1>5
  <2>. QED  BY <1>1, <2>1
<1>6. CASE i < j /\ ~(i < k)
  <2>1. j - i = k - i + NumSeats
    BY <1>2, <1>3, <1>6
  <2>. QED  BY <1>1, <1>6, <2>1
<1>7. CASE ~(i < j) /\ i < k
  <2>1. j - i + NumSeats = k - i
    BY <1>2, <1>3, <1>7
  <2>. QED  BY <1>1, <1>7, <2>1
<1>. QED  BY <1>1, <1>4, <1>5, <1>6, <1>7

(* Who is between the small blind and the big one is beyond the small one. *)
LEMMA BetweenIsBeyond ==
    ASSUME NEW bb \in Seats, NEW sb \in Seats, sb # bb, NEW j \in SeatsBetween(sb, bb)
    PROVE  Distance(bb, sb) < Distance(bb, j)
<1>1. j \in Seats /\ j # bb /\ Distance(sb, j) < Distance(sb, bb)
  BY DEF SeatsBetween
<1>2. /\ NumSeats \in Int /\ NumSeats > 1
      /\ bb \in Int /\ 0 <= bb /\ bb < NumSeats
      /\ sb \in Int /\ 0 <= sb /\ sb < NumSeats
      /\ j \in Int /\ 0 <= j /\ j < NumSeats
  BY <1>1, BlindsAssumption DEF Seats
<1>3. Distance(bb, sb) = IF bb < sb THEN sb - bb ELSE sb - bb + NumSeats
  BY DistanceIs
<1>4. Distance(bb, j) = IF bb < j THEN j - bb ELSE j - bb + NumSeats
  BY <1>1, DistanceIs
<1>5. Distance(sb, j) = IF sb < j THEN j - sb ELSE j - sb + NumSeats
  BY <1>1, DistanceIs
<1>6. Distance(sb, bb) = IF sb < bb THEN bb - sb ELSE bb - sb + NumSeats
  BY DistanceIs
<1>. QED  BY <1>1, <1>2, <1>3, <1>4, <1>5, <1>6

-----------------------------------------------------------------------------
(* The blinds after a hand                                                 *)

(* Who waited for the big blind and does not get it sits beyond someone    *)
(* who waits for the next hand.                                            *)
LEMMA PendingBefore ==
    ASSUME NEW r, IsRoom(r), NEW s, BeforeBlinds(r, s), r.bb \in Seats,
           NEW p1 \in Active(s), NEW p2 \in Active(s), p1 # p2,
           NEW q \in Active(s), q \notin Active(r), s.pl[q].pos # NextBig(s)
    PROVE  /\ SmallMayPassBig(r)
           /\ \E m \in Seated(s) : /\ s.pl[m].state = InPending /\ s.pl[m].pos = NextBig(s)
                                   /\ Distance(r.bb, NextBig(s)) < Distance(r.bb, s.pl[q].pos)
           /\ NextBig(s) \notin Taken(s)
<1>1. /\ IsRoom(s) /\ OnePerSeat(s) /\ s.bb = r.bb /\ Comes(r, s, q)
      /\ q \in Players /\ s.pl[q].seated /\ r.pl[q].seated /\ s.pl[q].pos = r.pl[q].pos
  BY DEF BeforeBlinds, SameSpots, Active, IsActive
<1>2. PICK m \in MayPostBig(s) : s.pl[m].pos = NextBig(s)
  BY <1>1, NextBigIs
<1>3. NextBig(s) \in Seats /\ Distance(r.bb, NextBig(s)) <= Distance(r.bb, s.pl[q].pos)
  <2>1. q \in MayPostBig(s)
    BY DEF MayPostBig
  <2>. QED  BY <1>1, <2>1, NextBigIs
<1>4. s.pl[q].pos \in Seats
  BY <1>1, RowOf DEF Rows
<1>5. Distance(r.bb, NextBig(s)) < Distance(r.bb, s.pl[q].pos)
  <2>1. Distance(r.bb, NextBig(s)) # Distance(r.bb, s.pl[q].pos)
    BY <1>3, <1>4, DistanceDiffers
  <2>2. r.bb \in Int /\ NextBig(s) \in Int /\ s.pl[q].pos \in Int
    BY <1>3, <1>4 DEF Seats
  <2>3. Distance(r.bb, NextBig(s)) \in Int /\ Distance(r.bb, s.pl[q].pos) \in Int
    BY <2>2, DistanceType
  <2>. QED  BY <1>3, <2>1, <2>3
<1>6. NextBig(s) \notin Taken(s)
  <2> SUFFICES ASSUME NEW t \in Active(s), s.pl[t].pos = NextBig(s) PROVE FALSE
    BY DEF Taken
  <2>1. Distance(r.bb, s.pl[q].pos) <= Distance(r.bb, NextBig(s))
    BY <1>1 DEF Comes
  <2>2. r.bb \in Int /\ NextBig(s) \in Int /\ s.pl[q].pos \in Int
    BY <1>3, <1>4 DEF Seats
  <2>3. Distance(r.bb, NextBig(s)) \in Int /\ Distance(r.bb, s.pl[q].pos) \in Int
    BY <2>2, DistanceType
  <2>. QED  BY <1>5, <2>1, <2>3
<1>7. m \in Seated(s) /\ s.pl[m].state = InPending
  BY <1>2, <1>6 DEF MayPostBig, Taken
<1>8. m \in Seated(r) /\ r.pl[m].state = InPending /\ r.pl[m].pos = NextBig(s)
  BY <1>2, <1>7 DEF BeforeBlinds, Seated
<1>9. NextBig(s) \in SeatsBetween(r.bb, r.pl[q].pos)
  BY <1>1, <1>3, <1>5 DEF SeatsBetween
<1>10. q \in Seated(r) /\ r.pl[q].state = AtBlinds
  BY <1>1 DEF Seated, Comes
<1>11. SmallMayPassBig(r)
  BY <1>8, <1>9, <1>10 DEF SmallMayPassBig
<1>. QED  BY <1>2, <1>5, <1>6, <1>7, <1>11

(* When the blinds are in order, and nobody waits beyond someone who       *)
(* waits, they move in order.                                              *)
LEMMA BlindsMove ==
    ASSUME NEW r, IsRoom(r), OnePerSeat(r), NEW s, BeforeBlinds(r, s), r.bb \in Seats, r.sb \in Seats,
           NEW p1 \in Active(s), NEW p2 \in Active(s), p1 # p2,
           BlindsInOrder(r), ~SmallMayPassBig(r), ~HeadsUp(s)
    PROVE  /\ NextSmall(s) # NextBig(s)
           /\ NextSmall(s) = r.bb \/ Clockwise(NextSmall(s), 1) = NextBig(s)
           /\ r.bb \in Taken(s) => NextSmall(s) = r.bb \/ r.sb \in SeatsBetween(r.bb, NextBig(s))
<1> DEFINE n == NextBig(s)
           bb == r.bb
           sb == r.sb
<1>1. IsRoom(s) /\ OnePerSeat(s) /\ s.bb = bb /\ s.sb = sb
  BY DEF BeforeBlinds, SameSpots
<1>2. n \in Seats /\ n # bb /\ Taken(s) \in SUBSET Seats
  BY <1>1, NextBigIs, TakenSeats
<1>3. \A a \in Taken(s) : Distance(bb, n) <= Distance(bb, a)
  <2>1. \A p \in Active(s) : p \in MayPostBig(s)
    BY DEF MayPostBig
  <2>. QED  BY <1>1, <2>1, NextBigIs DEF Taken
<1>4. /\ NextSmall(s) \in Seats
      /\ NextSmall(s) \in Taken(s) \/ Clockwise(NextSmall(s), 1) = n
      /\ \A j \in SeatsBetween(sb, NextSmall(s)) : j \notin Taken(s) /\ Clockwise(j, 1) # n
  BY <1>1, <1>2, NextSmallIs
<1>5. ASSUME NEW p \in Active(s), s.pl[p].pos \in SeatsBetween(sb, bb)
      PROVE  s.pl[p].pos = n /\ Comes(r, s, p)
  <2>1. p \notin Active(r)
    BY <1>5 DEF BlindsInOrder, BeforeBlinds, Active
  <2>2. s.pl[p].pos = n
    BY <2>1, PendingBefore
  <2>. QED  BY <2>1, <2>2 DEF BeforeBlinds
<1>6. ASSUME Clockwise(sb, 1) = n, n \in Taken(s) PROVE FALSE
  <2>1. PICK q \in Active(s) : s.pl[q].pos = n
    BY <1>6 DEF Taken
  <2>2. n \in SeatsBetween(sb, bb)
    <3>1. Distance(sb, n) = IF sb < n THEN n - sb ELSE n - sb + NumSeats
      BY <1>2, DistanceIs
    <3>2. Distance(sb, bb) = IF sb < bb THEN bb - sb ELSE bb - sb + NumSeats
      BY DistanceIs
    <3>3. Clockwise(sb, 1) = IF sb = NumSeats - 1 THEN 0 ELSE sb + 1
      BY ClockwiseIs
    <3>4. sb # bb /\ NumSeats \in Int /\ NumSeats > 1 /\ sb \in 0 .. NumSeats - 1 /\ bb \in 0 .. NumSeats - 1
          /\ n \in 0 .. NumSeats - 1
      BY <1>2, BlindsAssumption DEF Seats, BlindsInOrder
    <3>5. Distance(sb, n) < Distance(sb, bb)
      <4>. HIDE DEF n, bb, sb
      <4>. QED  BY <1>2, <1>6, <3>1, <3>2, <3>3, <3>4
    <3>. QED  BY <1>2, <3>5 DEF SeatsBetween
  <2>3. Comes(r, s, q)
    BY <1>5, <2>1, <2>2
  <2>4. ASSUME NEW p \in Active(s), p # q PROVE s.pl[p].pos = bb
    <3>1. s.pl[p].pos # n /\ s.pl[p].pos \in Seats
      BY <1>1, <2>1, <2>4, TakenSeats DEF OnePerSeat, Taken
    <3>2. s.pl[p].pos \notin SeatsBetween(sb, bb)
      BY <1>5, <3>1
    <3>3. Distance(bb, n) <= Distance(bb, s.pl[p].pos)
      BY <1>3 DEF Taken
    <3> DEFINE x == s.pl[p].pos
    <3>4. Distance(bb, n) = IF bb < n THEN n - bb ELSE n - bb + NumSeats
      BY <1>2, DistanceIs
    <3>5. Distance(bb, x) = IF bb < x THEN x - bb ELSE x - bb + NumSeats
      BY <3>1, DistanceIs
    <3>6. Distance(sb, x) = IF sb < x THEN x - sb ELSE x - sb + NumSeats
      BY <3>1, DistanceIs
    <3>7. Distance(sb, bb) = IF sb < bb THEN bb - sb ELSE bb - sb + NumSeats
      BY DistanceIs
    <3>8. Clockwise(sb, 1) = IF sb = NumSeats - 1 THEN 0 ELSE sb + 1
      BY ClockwiseIs
    <3>9. /\ NumSeats \in Int /\ NumSeats > 1 /\ sb \in 0 .. NumSeats - 1 /\ bb \in 0 .. NumSeats - 1
          /\ n \in 0 .. NumSeats - 1 /\ x \in 0 .. NumSeats - 1
      BY <1>2, <3>1, BlindsAssumption DEF Seats
    <3>10. x = bb \/ ~(Distance(sb, x) < Distance(sb, bb))
      BY <3>1, <3>2 DEF SeatsBetween
    <3>11. x # n /\ n # bb /\ sb # bb
      BY <1>2, <3>1 DEF BlindsInOrder
    <3>. HIDE DEF x, n, bb, sb
    <3>12. x = bb
      BY <1>6, <3>3, <3>4, <3>5, <3>6, <3>7, <3>8, <3>9, <3>10, <3>11 DEF x
    <3>. QED  BY <3>12 DEF x
  <2>5. PICK p \in Active(s) : p # q
    OBVIOUS
  <2>6. Active(s) = {q, p}
    BY <1>1, <2>4, <2>5, TakenSeats DEF OnePerSeat
  <2>. QED  BY <1>1, <2>1, <2>5, <2>6, HeadsUpIf
<1>7. ASSUME NEW a \in Taken(s), a \in SeatsBetween(sb, bb)
      PROVE  a = n /\ Distance(bb, sb) < Distance(bb, n)
  <2>1. PICK q \in Active(s) : s.pl[q].pos = a
    BY DEF Taken
  <2>2. a = n /\ Comes(r, s, q)
    BY <1>5, <1>7, <2>1
  <2>3. Distance(bb, sb) < Distance(bb, n)
    BY <1>2, <1>7, <2>2, BetweenIsBeyond DEF BlindsInOrder
  <2>. QED  BY <2>2, <2>3
<1>8. sb # bb
  BY DEF BlindsInOrder
<1> HIDE DEF n, bb, sb
<1>9. /\ NextSmall(s) # n
      /\ NextSmall(s) = bb \/ Clockwise(NextSmall(s), 1) = n
      /\ bb \in Taken(s) => NextSmall(s) = bb \/ sb \in SeatsBetween(bb, n)
  <2>1. bb \in Seats /\ sb \in Seats
    BY DEF bb, sb
  <2> DEFINE ss == NextSmall(s)
             A  == Taken(s)
  <2>. HIDE DEF ss, A
  <2>2. /\ ss # n
        /\ ss = bb \/ Clockwise(ss, 1) = n
        /\ bb \in A => ss = bb \/ sb \in SeatsBetween(bb, n)
    <3>1. ss \in Seats /\ A \in SUBSET Seats
      BY <1>2, <1>4 DEF ss, A
    <3>2. \A a \in A : Distance(bb, n) <= Distance(bb, a)
      BY <1>3 DEF A
    <3>3. ss \in A \/ Clockwise(ss, 1) = n
      BY <1>4 DEF ss, A
    <3>4. \A j \in SeatsBetween(sb, ss) : j \notin A /\ Clockwise(j, 1) # n
      BY <1>4 DEF ss, A
    <3>5. \A a \in A : a \in SeatsBetween(sb, bb) => a = n /\ Distance(bb, sb) < Distance(bb, n)
      BY <1>7 DEF A
    <3>6. ~(Clockwise(sb, 1) = n /\ n \in A)
      BY <1>6 DEF A
    <3>. QED  BY <1>2, <1>8, <2>1, <3>1, <3>2, <3>3, <3>4, <3>5, <3>6, SmallPlaces
  <2>. QED  BY <2>2 DEF ss, A
<1>. QED  BY <1>9 DEF n, bb, sb

(* ... and the button does not run onto the big blind.                     *)
LEMMA ButtonStaysBehind ==
    ASSUME NEW r, IsRoom(r), OnePerSeat(r), NEW s, BeforeBlinds(r, s), r.bb \in Seats, r.sb \in Seats,
           NEW p1 \in Active(s), NEW p2 \in Active(s), p1 # p2,
           BlindsInOrder(r), ~SmallMayPassBig(r)
    PROVE  ~ButtonRunsOntoBig(s)
<1> SUFFICES ASSUME ButtonRunsOntoBig(s) PROVE FALSE
  OBVIOUS
<1> DEFINE n  == NextBig(s)
           bb == r.bb
           ss == NextSmall(s)
           b  == PositionsInRotation(s).btn
<1>1. IsRoom(s) /\ OnePerSeat(s) /\ s.bb = bb
  BY DEF BeforeBlinds, SameSpots
<1>2. ~HeadsUp(s)
  BY DEF ButtonRunsOntoBig
<1>3. n \in Seats /\ n # bb /\ ss \in Seats /\ Taken(s) \in SUBSET Seats
  BY <1>1, NextBigIs, NextSmallIs, TakenSeats
<1>4. b \in Taken(s) /\ \A a \in Taken(s) : Distance(b, ss) <= Distance(a, ss)
  BY <1>1, <1>2, PositionsAre
<1>5. ss # n /\ (ss = bb \/ Clockwise(ss, 1) = n)
  BY <1>2, BlindsMove
<1>6. \A a \in Taken(s) : Distance(bb, n) <= Distance(bb, a)
  <2>1. \A p \in Active(s) : p \in MayPostBig(s)
    BY DEF MayPostBig
  <2>. QED  BY <1>1, <2>1, NextBigIs DEF Taken
<1>7. Distance(n, ss) <= Distance(b, ss)
  <2>1. Distance(n, ss) \in 2 .. Distance(b, ss)
    BY DEF ButtonRunsOntoBig
  <2>2. Distance(n, ss) \in Int /\ Distance(b, ss) \in Int
    <3>1. n \in Int /\ ss \in Int /\ b \in Int
      BY <1>3, <1>4 DEF Seats
    <3>. QED  BY <3>1, DistanceType
  <2>. HIDE DEF n, ss, b
  <2>. QED  BY <2>1, <2>2
<1>8. ss = bb \/ Distance(bb, ss) < Distance(bb, n)
  <2> SUFFICES ASSUME ss # bb PROVE Distance(bb, ss) < Distance(bb, n)
    OBVIOUS
  <2>1. Distance(bb, n) = IF bb < n THEN n - bb ELSE n - bb + NumSeats
    BY <1>3, DistanceIs
  <2>2. Distance(bb, ss) = IF bb < ss THEN ss - bb ELSE ss - bb + NumSeats
    BY <1>3, DistanceIs
  <2>3. Clockwise(ss, 1) = IF ss = NumSeats - 1 THEN 0 ELSE ss + 1
    BY <1>3, ClockwiseIs
  <2>4. /\ NumSeats \in Int /\ NumSeats > 1 /\ ss \in 0 .. NumSeats - 1 /\ bb \in 0 .. NumSeats - 1
        /\ n \in 0 .. NumSeats - 1
    BY <1>3, BlindsAssumption DEF Seats
  <2>. HIDE DEF n, ss, bb
  <2>. QED  BY <1>3, <1>5, <2>1, <2>2, <2>3, <2>4
<1>9. Taken(s) \subseteq {ss, n}
  <2>1. bb \in Seats
    OBVIOUS
  <2> DEFINE A == Taken(s)
  <2>2. A \in SUBSET Seats /\ b \in Seats /\ (\A a \in A : Distance(bb, n) <= Distance(bb, a))
        /\ (\A a \in A : Distance(b, ss) <= Distance(a, ss))
    BY <1>3, <1>4, <1>6
  <2>. HIDE DEF n, ss, bb, b, A
  <2>3. A \subseteq {ss, n}
    BY <1>3, <1>7, <1>8, <2>1, <2>2, NobodyElse
  <2>. QED  BY <2>3 DEF A
<1>. QED  BY <1>1, <1>2, <1>9, HeadsUpOfTwoSeats

(* Who is charged or bumped does not come in, and the others stay.         *)
LEMMA MissTheBlindsStates ==
    ASSUME NEW r, IsRoom(r), NEW p \in Players
    PROVE  /\ MissTheBlinds(r).pl[p].state \in {r.pl[p].state, None}
           /\ r.pl[p].seated /\ r.pl[p].pos \notin SkippedBig(r) =>
                 MissTheBlinds(r).pl[p].state = r.pl[p].state
<1> DEFINE at(seats) == {q \in Players : r.pl[q].pos \in seats}
           bumped    == {q \in at(SkippedBig(r)) \cap Seated(r) : r.pl[q].orbits >= MaxOrbits}
           skipped   == (at(SkippedBig(r)) \cap Seated(r)) \ bumped
           small     == {q \in at(SkippedSmall(r)) : ~r.pl[q].owesBb}
           s1        == Each(r, at(SkippedBig(r)), LAMBDA x : [x EXCEPT !.owesBb = TRUE])
           s2        == Each(s1, bumped, LeaveNow)
           s3        == Each(s2, skipped, LAMBDA x : [x EXCEPT !.orbits = @ + 1])
           s4        == Each(s3, small, LAMBDA x : [x EXCEPT !.owesSb = TRUE])
<1>1. MissTheBlinds(r) = s4
  BY DEF MissTheBlinds
<1>2. DOMAIN r.pl = Players /\ DOMAIN s1.pl = Players /\ DOMAIN s2.pl = Players /\ DOMAIN s3.pl = Players
  BY DEF Each, IsRoom
<1>3. "pl" \in DOMAIN r /\ "pl" \in DOMAIN s1 /\ "pl" \in DOMAIN s2 /\ "pl" \in DOMAIN s3
  BY DEF Each, IsRoom
<1>4. s1.pl[p] = IF p \in at(SkippedBig(r)) THEN [r.pl[p] EXCEPT !.owesBb = TRUE] ELSE r.pl[p]
  BY DEF Each, IsRoom
<1>5. s2.pl[p] = IF p \in bumped THEN LeaveNow(s1.pl[p]) ELSE s1.pl[p]
  <2>. HIDE DEF s1, bumped
  <2>. QED  BY <1>2, <1>3 DEF Each
<1>6. s3.pl[p] = IF p \in skipped THEN [s2.pl[p] EXCEPT !.orbits = @ + 1] ELSE s2.pl[p]
  <2>. HIDE DEF s2, skipped
  <2>. QED  BY <1>2, <1>3 DEF Each
<1>7. s4.pl[p] = IF p \in small THEN [s3.pl[p] EXCEPT !.owesSb = TRUE] ELSE s3.pl[p]
  <2>. HIDE DEF s3, small
  <2>. QED  BY <1>2, <1>3 DEF Each
<1>8. p \in bumped => r.pl[p].pos \in SkippedBig(r)
  OBVIOUS
<1> HIDE DEF at, bumped, skipped, small, s1, s2, s3, s4
<1>9. r.pl[p] \in Rows
  BY RowOf
<1>10. "state" \in DOMAIN s1.pl[p] /\ s1.pl[p].state = r.pl[p].state
  BY <1>4, <1>9 DEF Rows, PlayerRow
<1>11. /\ "state" \in DOMAIN s2.pl[p]
       /\ s2.pl[p].state = IF p \in bumped THEN None ELSE r.pl[p].state
  BY <1>5, <1>10 DEF LeaveNow
<1>12. "state" \in DOMAIN s3.pl[p] /\ s3.pl[p].state = s2.pl[p].state
  BY <1>6, <1>11
<1>13. s4.pl[p].state = s3.pl[p].state
  BY <1>7, <1>12
<1>. QED  BY <1>1, <1>8, <1>11, <1>12, <1>13

(* The big blind passes nobody who plays or waits for the next hand.       *)
LEMMA NotSkipped ==
    ASSUME NEW r, IsRoom(r), r.bb \in Seats, Active(r) # {}, NEW p \in MayPostBig(r)
    PROVE  r.pl[p].pos \notin SkippedBig(r)
<1>1. Distance(r.bb, NextBig(r)) <= Distance(r.bb, r.pl[p].pos) /\ NextBig(r) \in Seats
  BY NextBigNearest
<1>2. r.pl[p].pos \in Seats
  BY RowOf DEF MayPostBig, Active, IsActive, Seated, Rows
<1>3. Distance(r.bb, NextBig(r)) \in Int /\ Distance(r.bb, r.pl[p].pos) \in Int
  <2>1. r.bb \in Int /\ NextBig(r) \in Int /\ r.pl[p].pos \in Int
    BY <1>1, <1>2 DEF Seats
  <2>. QED  BY <2>1, DistanceType
<1>. QED  BY <1>1, <1>3 DEF SkippedBig, SeatsBetween

Pending(r) == {p \in Seated(r) : r.pl[p].state = InPending}

(* Who plays when the blinds have moved on                                 *)
LEMMA RotatedPlayers ==
    ASSUME NEW r, IsRoom(r), OnePerSeat(r), r.bb \in Seats,
           NEW p1 \in Active(r), NEW p2 \in Active(r), p1 # p2
    PROVE  LET at == PositionsInRotation(r)
           IN  /\ Active(Rotated(r)) = Active(r) \cup (Pending(r) \ MustWait(r, at))
               /\ Rotated(r).btn = at.btn /\ Rotated(r).sb = at.sb /\ Rotated(r).bb = at.bb
               /\ \A p \in Players : Rotated(r).pl[p].pos = r.pl[p].pos
<1> DEFINE at == PositionsInRotation(r)
           m  == MissTheBlinds(r)
           in == Pending(r) \ MustWait(r, at)
           t  == SitPendingIn(r, m, at)
<1>1. Active(r) # {} /\ ~RotationFails(r)
  BY TwoDoNotFail
<1>2. Follows(r, m)
  BY MissTheBlindsOwes
<1>3. t.pl = [p \in Players |-> IF p \in in THEN SitInNow(m.pl[p]) ELSE m.pl[p]]
  <2>. HIDE DEF m, at
  <2>. QED  BY <1>2 DEF SitPendingIn, Pending, Each, Follows, IsRoom
<1>4. at.btn \in Spots /\ at.sb \in Spots /\ at.bb \in Spots /\ IsRoom(Rotated(r)) /\ Keeps(r, Rotated(r))
  BY <1>1, PositionsInRotationType, RotatedOwes
<1>5. Rotated(r) = Placed(t, at)
  BY DEF Rotated
<1>6. IsRoom(t)
  <2>1. Seated(r) \in SUBSET Players
    BY DEF Seated
  <2>2. \A p \in Seated(r) : r.pl[p].state = InPending => m.pl[p].seated
    <3>1. \A p \in Seated(r) : r.pl[p].state = InPending => r.pl[p].pos \notin SkippedBig(r)
      BY <1>1, NotSkipped DEF MayPostBig
    <3>. QED  BY <3>1, MissTheBlindsOwes
  <2>. HIDE DEF m, at
  <2>. QED  BY <1>2, <2>1, <2>2, SitPendingInFollows DEF Follows
<1>7. Rotated(r).btn = at.btn /\ Rotated(r).sb = at.sb /\ Rotated(r).bb = at.bb /\ Rotated(r).pl = t.pl
  <2>. HIDE DEF t, at
  <2>. QED  BY <1>4, <1>5, <1>6, PlacedRoom
<1>8. ASSUME NEW p \in Players
      PROVE  IsActive(t.pl[p]) <=> p \in Active(r) \/ p \in in
  <2>1. m.pl[p] \in Rows /\ r.pl[p] \in Rows /\ (m.pl[p].seated => r.pl[p].seated)
    BY <1>2, RowOf DEF Follows, Keeps, RowKeeps
  <2>2. m.pl[p].state \in {r.pl[p].state, None}
    BY MissTheBlindsStates
  <2>3. p \in MayPostBig(r) => m.pl[p].state = r.pl[p].state /\ m.pl[p].seated
    <3>1. p \in MayPostBig(r) => r.pl[p].pos \notin SkippedBig(r) /\ p \in Seated(r)
      BY <1>1, NotSkipped DEF MayPostBig, Active, IsActive, Seated
    <3>. QED  BY <3>1, MissTheBlindsStates, MissTheBlindsOwes DEF Seated
  <2>4. p \in in => p \in MayPostBig(r) /\ r.pl[p].state = InPending
    BY DEF MayPostBig, Pending
  <2>. HIDE DEF m, in, t
  <2>5. CASE p \in in
    <3>1. t.pl[p] = SitInNow(m.pl[p]) /\ m.pl[p].seated
      BY <1>3, <2>3, <2>4, <2>5
    <3>2. SitInNow(m.pl[p]).state = In /\ SitInNow(m.pl[p]).seated = m.pl[p].seated
      BY <2>1 DEF SitInNow, Rows, PlayerRow
    <3>. QED  BY <2>5, <3>1, <3>2 DEF IsActive, IsSittingOut, In, Out, InPending, AtBlinds
  <2>6. CASE p \notin in
    <3>1. t.pl[p] = m.pl[p]
      BY <1>3, <2>6
    <3>2. p \in Active(r) => IsActive(m.pl[p])
      BY <2>3 DEF MayPostBig, Active, IsActive, IsSittingOut
    <3>3. IsActive(m.pl[p]) => m.pl[p].state = r.pl[p].state /\ r.pl[p].seated
      BY <2>1, <2>2 DEF IsActive, Rows
    <3>4. IsActive(m.pl[p]) => p \in Active(r)
      BY <3>3 DEF Active, IsActive, IsSittingOut
    <3>. QED  BY <2>6, <3>1, <3>2, <3>4
  <2>. QED  BY <2>5, <2>6
<1>9. in \subseteq Players
  BY DEF Pending, Seated
<1>10. Active(Rotated(r)) = Active(r) \cup in
  <2>. HIDE DEF t, in
  <2>. QED  BY <1>7, <1>8, <1>9 DEF Active
<1>11. \A p \in Players : Rotated(r).pl[p].pos = r.pl[p].pos
  BY <1>4 DEF Keeps, RowKeeps
<1>. QED  BY <1>7, <1>10, <1>11

(* Somebody plays where the big blind comes: who waits there sits in.      *)
LEMMA BigBlindPlays ==
    ASSUME NEW r, IsRoom(r), OnePerSeat(r), r.bb \in Seats,
           NEW p1 \in Active(r), NEW p2 \in Active(r), p1 # p2
    PROVE  /\ \A m \in Pending(r) : r.pl[m].pos = NextBig(r) => m \notin MustWait(r, PositionsInRotation(r))
           /\ BigBlindPlayers(Rotated(r)) # {}
<1> DEFINE at == PositionsInRotation(r)
<1>1. at.bb = NextBig(r) /\ at.btn \in Taken(r)
  BY PositionsAre
<1>2. ASSUME NEW m \in Pending(r), r.pl[m].pos = NextBig(r)
      PROVE  NextBig(r) \notin Taken(r) /\ m \notin MustWait(r, at)
  <2>1. NextBig(r) \notin Taken(r)
    <3> SUFFICES ASSUME NEW t \in Active(r), r.pl[t].pos = NextBig(r) PROVE FALSE
      BY DEF Taken
    <3>1. t = m
      BY <1>2, TakenSeats DEF OnePerSeat, Pending
    <3>. QED  BY <3>1 DEF Pending, Active, IsActive, IsSittingOut
  <2>2. Cardinality(ActiveWithPendingAt(r, NextBig(r))) # 2
    BY <2>1, HeadsUpAre DEF HeadsUp
  <2>3. r.pl[m].pos \notin {at.btn} \cup SeatsBetween(at.btn, at.bb)
    BY <1>1, <1>2, <2>1 DEF SeatsBetween
  <2>. HIDE DEF at
  <2>. QED  BY <1>1, <2>1, <2>2, <2>3 DEF MustWait
<1>3. PICK p \in MayPostBig(r) : r.pl[p].pos = NextBig(r)
  BY NextBigIs
<1>4. p \in Active(r) \/ p \in Pending(r)
  BY DEF MayPostBig, Pending
<1>5. p \in Active(Rotated(r)) /\ Rotated(r).bb = NextBig(r)
  BY <1>1, <1>2, <1>3, <1>4, RotatedPlayers
<1>6. Rotated(r).pl[p].pos = NextBig(r)
  <2>1. p \in Players
    BY <1>4 DEF Active, Pending, Seated
  <2>. QED  BY <1>3, <2>1, RotatedPlayers
<1>7. p \in BigBlindPlayers(Rotated(r))
  BY <1>5, <1>6 DEF BigBlindPlayers
<1>. QED  BY <1>2, <1>7

LEMMA BlindsStayInOrder ==
    ASSUME NEW r, IsRoom(r), OnePerSeat(r), NEW s, BeforeBlinds(r, s), r.bb \in Seats, r.sb \in Seats,
           r.btn \in Seats,
           NEW p1 \in Active(s), NEW p2 \in Active(s), p1 # p2,
           BlindsInOrder(r), ~SmallMayPassBig(r)
    PROVE  BlindsInOrder(Rotated(s))
<1> DEFINE at == PositionsInRotation(s)
           n  == NextBig(s)
           bb == r.bb
<1>1. IsRoom(s) /\ OnePerSeat(s) /\ s.bb = bb /\ s.btn = r.btn
  BY DEF BeforeBlinds, SameSpots
<1>2. n \in Seats /\ n # bb
  BY <1>1, NextBigIs
<1>3. /\ Active(Rotated(s)) = Active(s) \cup (Pending(s) \ MustWait(s, at))
      /\ Rotated(s).sb = at.sb /\ Rotated(s).bb = at.bb
      /\ \A p \in Players : Rotated(s).pl[p].pos = s.pl[p].pos
  BY <1>1, RotatedPlayers
<1>4. at.bb = n
  BY <1>1, PositionsAre
<1>5. CASE HeadsUp(s)
  <2>1. at.btn \in Taken(s) /\ at.sb = at.btn /\ at.btn # n
    BY <1>1, <1>5, PositionsAre
  <2>2. Active(s) = {p1, p2} /\ n \in Taken(s) /\ Cardinality(ActiveWithPendingAt(s, n)) = 2
    BY <1>1, <1>5, HeadsUpAre
  <2>3. Pending(s) \ MustWait(s, at) = {}
    <3>1. ~NewRound(s)
      BY <1>1 DEF NewRound, FirstHand, BtnIsLocked, Seats, NoSeat
    <3>. HIDE DEF at, n
    <3>. QED  BY <1>4, <2>2, <3>1 DEF MustWait, Pending
  <2>4. \A p \in Active(s) : s.pl[p].pos \in {at.btn, n} /\ p \in Players
    <3>. HIDE DEF at, n
    <3>. QED  BY <2>1, <2>2 DEF Taken, Active
  <2>5. ASSUME NEW p \in Active(Rotated(s)), Rotated(s).pl[p].pos \in SeatsBetween(at.btn, n)
        PROVE  FALSE
    <3>1. p \in Active(s) /\ p \in Players
      BY <1>3, <2>3, <2>4
    <3>2. at.btn \in SeatsBetween(at.btn, n)
      <4>1. s.pl[p].pos = at.btn \/ s.pl[p].pos = n
        BY <2>4, <3>1
      <4>2. n \notin SeatsBetween(at.btn, n)
        BY DEF SeatsBetween
      <4>. HIDE DEF at, n
      <4>. QED  BY <1>3, <2>5, <3>1, <4>1, <4>2
    <3>3. at.btn \in Seats /\ n \in Seats
      BY <1>1, <1>2, <2>1, TakenSeats
    <3>4. Distance(at.btn, n) < NumSeats /\ Distance(at.btn, n) \in Int
      <4>1. at.btn \in Int /\ n \in Int
        BY <3>3 DEF Seats
      <4>. QED  BY <2>1, <4>1, DistanceType
    <3>5. Distance(at.btn, at.btn) = NumSeats /\ NumSeats \in Int
      BY BlindsAssumption DEF Distance
    <3>6. Distance(at.btn, at.btn) < Distance(at.btn, n)
      BY <3>2 DEF SeatsBetween
    <3>. HIDE DEF at, n
    <3>. QED  BY <3>4, <3>5, <3>6
  <2>. HIDE DEF at, n
  <2>. QED  BY <1>3, <1>4, <2>1, <2>5 DEF BlindsInOrder
<1>6. CASE ~HeadsUp(s)
  <2> DEFINE ss == NextSmall(s)
  <2>1. at.sb = ss /\ ss \in Seats
    BY <1>1, <1>2, <1>6, PositionsAre, NextSmallIs
  <2>2. ss # n /\ (ss = bb \/ Clockwise(ss, 1) = n)
    BY <1>6, BlindsMove
  <2>3. ASSUME NEW p \in Active(Rotated(s)), Rotated(s).pl[p].pos \in SeatsBetween(ss, n)
        PROVE  FALSE
    <3>1. p \in MayPostBig(s)
      BY <1>3 DEF MayPostBig, Pending
    <3>2. Rotated(s).pl[p].pos = s.pl[p].pos
      BY <1>3, <3>1 DEF MayPostBig, Active, Seated
    <3> DEFINE x == s.pl[p].pos
    <3>3. Distance(bb, n) <= Distance(bb, x)
      BY <1>1, <3>1, NextBigIs
    <3>4. x \in Seats /\ x # n /\ Distance(ss, x) < Distance(ss, n)
      BY <2>3, <3>2 DEF SeatsBetween
    <3>5. Distance(bb, n) = IF bb < n THEN n - bb ELSE n - bb + NumSeats
      BY <1>2, DistanceIs
    <3>6. Distance(bb, x) = IF bb < x THEN x - bb ELSE x - bb + NumSeats
      BY <3>4, DistanceIs
    <3>7. Distance(ss, x) = IF ss < x THEN x - ss ELSE x - ss + NumSeats
      BY <2>1, <3>4, DistanceIs
    <3>8. Distance(ss, n) = IF ss < n THEN n - ss ELSE n - ss + NumSeats
      BY <1>2, <2>1, DistanceIs
    <3>9. Clockwise(ss, 1) = IF ss = NumSeats - 1 THEN 0 ELSE ss + 1
      BY <2>1, ClockwiseIs
    <3>10. /\ NumSeats \in Int /\ NumSeats > 1 /\ ss \in 0 .. NumSeats - 1 /\ bb \in 0 .. NumSeats - 1
           /\ n \in 0 .. NumSeats - 1 /\ x \in 0 .. NumSeats - 1
      BY <1>2, <2>1, <3>4, BlindsAssumption DEF Seats
    <3>. HIDE DEF ss, n, bb, x
    <3>. QED  BY <2>2, <3>3, <3>4, <3>5, <3>6, <3>7, <3>8, <3>9, <3>10
  <2>. HIDE DEF at, n, ss
  <2>. QED  BY <1>3, <1>4, <2>1, <2>2, <2>3 DEF BlindsInOrder
<1>. QED  BY <1>5, <1>6

(* The small blind of a hand is at a player's seat, or before the big one. *)
SmallIsPlaced(r) == HasSeat(r, r.sb, Active(r)) \/ Clockwise(r.sb, 1) = r.bb

(* Who posted the big blind and plays on posts the small one.              *)
LEMMA BigGetsSmall ==
    ASSUME NEW r, IsRoom(r), OnePerSeat(r), NEW s, BeforeBlinds(r, s), r.bb \in Seats, r.sb \in Seats,
           NEW p1 \in Active(s), NEW p2 \in Active(s), p1 # p2,
           BlindsInOrder(r), SmallIsPlaced(r), ~ButtonRunsOntoBig(s), r.bb \in Taken(s)
    PROVE  PositionsInRotation(s).sb = r.bb \/ r.sb \in SeatsBetween(r.bb, NextBig(s))
<1> DEFINE at == PositionsInRotation(s)
           n  == NextBig(s)
           bb == r.bb
           sb == r.sb
<1>1. IsRoom(s) /\ OnePerSeat(s) /\ s.bb = bb /\ s.sb = sb
  BY DEF BeforeBlinds, SameSpots
<1>2. n \in Seats /\ n # bb /\ Taken(s) \in SUBSET Seats
  BY <1>1, NextBigIs, TakenSeats
<1>3. CASE HeadsUp(s)
  <2>1. at.btn \in Taken(s) /\ at.sb = at.btn /\ at.btn # n
    BY <1>1, <1>3, PositionsAre
  <2>2. Active(s) = {p1, p2} /\ n \in Taken(s)
    BY <1>1, <1>3, HeadsUpAre
  <2>3. Taken(s) = {s.pl[p1].pos, s.pl[p2].pos}
    BY <2>2 DEF Taken
  <2>4. at.sb = bb
    <3>. HIDE DEF at, n
    <3>. QED  BY <1>2, <2>1, <2>2, <2>3
  <2>. QED  BY <2>4
<1>4. CASE ~HeadsUp(s)
  <2> SUFFICES ASSUME at.sb # bb, sb \notin SeatsBetween(bb, n) PROVE FALSE
    OBVIOUS
  <2> DEFINE ss == NextSmall(s)
             b  == at.btn
  <2>1. at.sb = ss /\ b \in Taken(s) /\ \A a \in Taken(s) : Distance(b, ss) <= Distance(a, ss)
    BY <1>1, <1>4, PositionsAre
  <2>2. /\ ss \in Seats
        /\ ss \in Taken(s) \/ Clockwise(ss, 1) = n
        /\ \A j \in SeatsBetween(sb, ss) : j \notin Taken(s) /\ Clockwise(j, 1) # n
    BY <1>1, <1>2, NextSmallIs
  <2>3. sb # bb /\ ss # bb
    BY <2>1 DEF BlindsInOrder
  <2>4. Distance(bb, n) = IF bb < n THEN n - bb ELSE n - bb + NumSeats
    BY <1>2, DistanceIs
  <2>5. Distance(bb, sb) = IF bb < sb THEN sb - bb ELSE sb - bb + NumSeats
    BY DistanceIs
  <2>6. Distance(bb, ss) = IF bb < ss THEN ss - bb ELSE ss - bb + NumSeats
    BY <2>2, DistanceIs
  <2>7. Distance(n, ss) = IF n < ss THEN ss - n ELSE ss - n + NumSeats
    BY <1>2, <2>2, DistanceIs
  <2>8. Distance(sb, ss) = IF sb < ss THEN ss - sb ELSE ss - sb + NumSeats
    BY <2>2, DistanceIs
  <2>9. Distance(sb, bb) = IF sb < bb THEN bb - sb ELSE bb - sb + NumSeats
    BY DistanceIs
  <2>10. /\ NumSeats \in Int /\ NumSeats > 1 /\ ss \in 0 .. NumSeats - 1 /\ bb \in 0 .. NumSeats - 1
         /\ n \in 0 .. NumSeats - 1 /\ sb \in 0 .. NumSeats - 1
    BY <1>2, <2>2, BlindsAssumption DEF Seats
  <2>11. Clockwise(ss, 1) = IF ss = NumSeats - 1 THEN 0 ELSE ss + 1
    BY <2>2, ClockwiseIs
  <2>12. ss \in SeatsBetween(sb, bb)
    <3>1. bb \notin SeatsBetween(sb, ss)
      BY <2>2
    <3>2. ~(Distance(sb, bb) < Distance(sb, ss))
      BY <2>3, <3>1 DEF SeatsBetween
    <3>3. Distance(sb, ss) < Distance(sb, bb)
      <4>. HIDE DEF bb, sb, ss
      <4>. QED  BY <2>3, <2>8, <2>9, <2>10, <3>2
    <3>. QED  BY <2>2, <2>3, <3>3 DEF SeatsBetween
  <2>13. Distance(bb, sb) < Distance(bb, ss)
    BY <2>3, <2>12, BetweenIsBeyond
  <2>14. Distance(bb, n) <= Distance(bb, sb)
    <3>1. sb = n \/ ~(Distance(bb, sb) < Distance(bb, n))
      BY DEF SeatsBetween
    <3>. HIDE DEF bb, sb, n
    <3>. QED  BY <2>4, <2>5, <2>10, <3>1
  <2>15. ss \in Taken(s) /\ ss # n
    <3>. HIDE DEF bb, sb, n, ss
    <3>. QED  BY <1>2, <2>2, <2>3, <2>4, <2>5, <2>6, <2>10, <2>11, <2>13, <2>14
  <2>16. PICK t \in Active(s) : s.pl[t].pos = ss
    BY <2>15 DEF Taken
  <2>17. t \notin Active(r)
    BY <2>12, <2>16 DEF BlindsInOrder, BeforeBlinds, Active
  <2>18. Comes(r, s, t) /\ r.pl[t].pos = ss
    BY <2>16, <2>17 DEF BeforeBlinds, Active
  <2>19. PICK m \in Seated(s) : s.pl[m].state = InPending /\ s.pl[m].pos = n
    BY <2>15, <2>16, <2>17, PendingBefore
  <2>20. Distance(bb, ss) <= Distance(bb, b)
    BY <2>1, <2>18 DEF Comes, Taken
  <2>21. b \in Seats /\ b \in 0 .. NumSeats - 1
    BY <1>2, <2>1 DEF Seats
  <2>22. Distance(bb, b) = IF bb < b THEN b - bb ELSE b - bb + NumSeats
    BY <2>21, DistanceIs
  <2>23. Distance(b, ss) = IF b < ss THEN ss - b ELSE ss - b + NumSeats
    BY <2>2, <2>21, DistanceIs
  <2>24. Distance(n, ss) <= Distance(b, ss)
    <3>. HIDE DEF bb, sb, n, ss, b
    <3>. QED  BY <1>2, <2>3, <2>4, <2>5, <2>6, <2>7, <2>10, <2>13, <2>14, <2>20, <2>21, <2>22, <2>23
  <2>25. ~(Distance(n, ss) \in 2 .. Distance(b, ss))
    BY <1>4, <2>1 DEF ButtonRunsOntoBig
  <2>26. sb = n /\ Distance(n, ss) = 1
    <3>. HIDE DEF bb, sb, n, ss, b
    <3>1. Distance(n, ss) = 1
      BY <2>7, <2>10, <2>15, <2>21, <2>23, <2>24, <2>25
    <3>. QED  BY <1>2, <2>3, <2>4, <2>5, <2>6, <2>7, <2>10, <2>13, <2>14, <2>15, <3>1
  <2>27. CASE HasSeat(r, sb, Active(r))
    <3>1. PICK u \in Active(r) : r.pl[u].pos = sb
      BY <2>27 DEF HasSeat
    <3>2. m \in Seated(r) /\ r.pl[m].state = InPending /\ r.pl[m].pos = sb
      BY <2>19, <2>26 DEF BeforeBlinds, Seated
    <3>3. u = m
      BY <3>1, <3>2, TakenSeats DEF OnePerSeat
    <3>. QED  BY <3>2, <3>3 DEF Active, IsActive, IsSittingOut
  <2>28. CASE Clockwise(sb, 1) = bb
    <3>1. Clockwise(sb, 1) = IF sb = NumSeats - 1 THEN 0 ELSE sb + 1
      BY ClockwiseIs
    <3>2. Distance(sb, ss) < Distance(sb, bb)
      BY <2>12 DEF SeatsBetween
    <3>. HIDE DEF bb, sb, n, ss, b
    <3>. QED  BY <2>3, <2>8, <2>9, <2>10, <2>28, <3>1, <3>2
  <2>. QED  BY <2>27, <2>28 DEF SmallIsPlaced
<1>. QED  BY <1>3, <1>4

(* Who waited for the big blind and gets it is not on the button.          *)
LEMMA NobodyOnButton ==
    ASSUME NEW r, IsRoom(r), OnePerSeat(r), NEW s, BeforeBlinds(r, s), r.bb \in Seats, r.sb \in Seats,
           NEW p1 \in Active(s), NEW p2 \in Active(s), p1 # p2,
           SmallIsPlaced(r), ~ButtonRunsOntoBig(s),
           NEW q \in Active(s), q \notin Active(r), s.pl[q].pos = NextBig(s)
    PROVE  PositionsInRotation(s).btn # NextBig(s)
<1> SUFFICES ASSUME PositionsInRotation(s).btn = NextBig(s) PROVE FALSE
  OBVIOUS
<1> DEFINE n  == NextBig(s)
           bb == r.bb
           sb == r.sb
           ss == NextSmall(s)
<1>1. IsRoom(s) /\ OnePerSeat(s) /\ s.bb = bb /\ s.sb = sb
  BY DEF BeforeBlinds, SameSpots
<1>2. n \in Seats /\ n # bb /\ ss \in Seats /\ Taken(s) \in SUBSET Seats
  BY <1>1, NextBigIs, NextSmallIs, TakenSeats
<1>3. ~HeadsUp(s)
  BY <1>1, PositionsAre
<1>4. ~(Distance(n, ss) \in 2 .. Distance(n, ss))
  BY <1>3 DEF ButtonRunsOntoBig
<1>5. /\ NumSeats \in Int /\ NumSeats > 1 /\ ss \in 0 .. NumSeats - 1 /\ bb \in 0 .. NumSeats - 1
      /\ n \in 0 .. NumSeats - 1 /\ sb \in 0 .. NumSeats - 1
  BY <1>2, BlindsAssumption DEF Seats
<1>6. Distance(n, ss) = IF n < ss THEN ss - n ELSE ss - n + NumSeats
  BY <1>2, DistanceIs
<1>7. Distance(sb, ss) = IF sb < ss THEN ss - sb ELSE ss - sb + NumSeats
  BY <1>2, DistanceIs
<1>8. Distance(sb, n) = IF sb < n THEN n - sb ELSE n - sb + NumSeats
  BY <1>2, DistanceIs
<1>9. Distance(n, ss) = 1
  <2>. HIDE DEF bb, sb, n, ss
  <2>. QED  BY <1>4, <1>5, <1>6
<1>10. n \in Taken(s)
  BY DEF Taken
<1>11. sb = n
  <2>1. n \notin SeatsBetween(sb, ss)
    BY <1>1, <1>2, <1>10, NextSmallIs
  <2>2. n = ss \/ ~(Distance(sb, n) < Distance(sb, ss))
    BY <1>2, <2>1 DEF SeatsBetween
  <2>. HIDE DEF bb, sb, n, ss
  <2>. QED  BY <1>5, <1>6, <1>7, <1>8, <1>9, <2>2
<1>12. Clockwise(sb, 1) = bb
  <2> SUFFICES ASSUME NEW u \in Active(r), r.pl[u].pos = sb PROVE FALSE
    BY DEF SmallIsPlaced, HasSeat
  <2>1. q \in Seated(r) /\ r.pl[q].pos = sb
    BY <1>11 DEF BeforeBlinds, Seated, Active, IsActive
  <2>2. u = q
    BY <2>1, TakenSeats DEF OnePerSeat
  <2>. QED  BY <2>2
<1>13. ASSUME NEW a \in Taken(s) PROVE a \in {bb, n}
  <2>1. Distance(bb, n) <= Distance(bb, a)
    <3>1. \A p \in Active(s) : p \in MayPostBig(s)
      BY DEF MayPostBig
    <3>. QED  BY <1>1, <3>1, NextBigIs DEF Taken
  <2>2. Distance(bb, n) = IF bb < n THEN n - bb ELSE n - bb + NumSeats
    BY <1>2, DistanceIs
  <2>3. Distance(bb, a) = IF bb < a THEN a - bb ELSE a - bb + NumSeats
    BY <1>2, DistanceIs
  <2>4. Clockwise(sb, 1) = IF sb = NumSeats - 1 THEN 0 ELSE sb + 1
    BY ClockwiseIs
  <2>5. a \in 0 .. NumSeats - 1
    BY <1>2 DEF Seats
  <2>. HIDE DEF bb, sb, n, ss
  <2>. QED  BY <1>2, <1>5, <1>11, <1>12, <2>1, <2>2, <2>3, <2>4, <2>5
<1>14. Taken(s) \subseteq {bb, n}
  BY <1>13
<1>. QED  BY <1>1, <1>3, <1>14, HeadsUpOfTwoSeats

-----------------------------------------------------------------------------
(* The sanity checks of setup_hand                                         *)

(* Where the button and the blinds are when a hand is played, and for whom *)
TwoPlay(r) == \E p, q \in Active(r) : p # q
InPlace(r) == {r.btn, r.sb, r.bb} \subseteq Seats /\ SmallIsPlaced(r) /\ TwoPlay(r)

LEMMA ActiveAreReady ==
    ASSUME NEW r, IsRoom(r)
    PROVE  Active(r) \subseteq Ready(r)
<1> SUFFICES ASSUME NEW p \in Active(r) PROVE p \in Ready(r)
  OBVIOUS
<1>1. p \in Players /\ IsActive(r.pl[p]) /\ r.pl[p] \in Rows
  BY RowOf DEF Active
<1>. QED  BY <1>1 DEF Ready, Seated, IsActive, IsSittingOut, CanPlay, Rows, PlayerRow, PlayingStates

(* Dealing changes nobody's seat, and not who plays.                       *)
LEMMA DealsInPlace ==
    ASSUME NEW d, IsRoom(d), BigBlindPlayers(d) # {}, InPlace(d), NEW did, NEW o, o = Deals(d, did)
    PROVE  /\ o.did = did /\ InPlace(o.room) /\ o.dealt = Active(d) /\ Active(o.room) = Active(d)
           /\ o.room.btn = d.btn /\ o.room.sb = d.sb /\ o.room.bb = d.bb
           /\ \A p \in Players : o.room.pl[p].pos = d.pl[p].pos
<1>1. o.room = PostAndDeal(d) /\ o.did = did /\ o.dealt = Active(d)
  BY DEF Deals, Outcome
<1>2. Active(o.room) = Active(d) /\ SameSpots(d, o.room) /\ Stays(d, o.room)
  BY <1>1, PostAndDealRoom
<1>3. \A p \in Players : o.room.pl[p].pos = d.pl[p].pos
  BY <1>2 DEF Stays
<1>4. HasSeat(d, d.sb, Active(d)) => HasSeat(o.room, o.room.sb, Active(o.room))
  <2> SUFFICES ASSUME NEW p \in Active(d), d.pl[p].pos = d.sb
               PROVE  HasSeat(o.room, o.room.sb, Active(o.room))
    BY DEF HasSeat
  <2>1. p \in Players
    BY DEF Active
  <2>. QED  BY <1>2, <1>3, <2>1 DEF HasSeat, SameSpots
<1>5. InPlace(o.room)
  BY <1>2, <1>4 DEF InPlace, SmallIsPlaced, SameSpots, TwoPlay
<1>. QED  BY <1>1, <1>2, <1>3, <1>5 DEF SameSpots

(* Who can play plays when the blinds are drawn anew.                      *)
LEMMA DrawnPlay ==
    ASSUME NEW r, IsRoom(r), NEW at, at.btn \in Spots, at.sb \in Spots, at.bb \in Spots
    PROVE  LET d == Drawn(r, at)
           IN  /\ IsRoom(d) /\ Ready(r) \subseteq Active(d)
               /\ d.btn = at.btn /\ d.sb = at.sb /\ d.bb = at.bb
               /\ \A p \in Players : d.pl[p].pos = r.pl[p].pos
<1> DEFINE d == Drawn(r, at)
           f == [p \in Players |-> IF p \in Seated(r) THEN StartOver(r.pl[p]) ELSE r.pl[p]]
           s == Each(r, Seated(r), StartOver)
           t == SitPendingIn(r, s, at)
<1>1. IsRoom(d) /\ Stays(r, d)
  BY DrawnOwes
<1>2. ASSUME NEW p \in Players PROVE f[p] \in Rows /\ (p \in Seated(r) => f[p].seated)
  <2>1. CASE p \in Seated(r)
    BY <2>1, RowOf, StartOverRow DEF Seated
  <2>2. CASE p \notin Seated(r)
    BY <2>2, RowOf
  <2>. QED  BY <2>1, <2>2
<1>3. s = [r EXCEPT !.pl = f]
  BY DEF Each
<1>4. f \in [Players -> Rows]
  BY <1>2
<1>5. IsRoom(s) /\ s.pl = f
  <2>. HIDE DEF f
  <2>. QED  BY <1>3, <1>4, Replaced
<1>6. Seated(r) \in SUBSET Players /\ \A p \in Seated(r) : s.pl[p].seated
  BY <1>2, <1>5 DEF Seated
<1>7. IsRoom(t)
  <2>. HIDE DEF s
  <2>. QED  BY <1>5, <1>6, SitPendingInFollows DEF Follows
<1>8. d = Placed(t, at)
  BY DEF Drawn
<1>9. d.pl = t.pl /\ d.btn = at.btn /\ d.sb = at.sb /\ d.bb = at.bb
  <2>. HIDE DEF t, d
  <2>. QED  BY <1>7, <1>8, PlacedRoom
<1>10. \A p \in Players : t.pl[p] = f[p] \/ (p \in Seated(r) /\ t.pl[p] = SitInNow(f[p]))
  <2>. HIDE DEF f, s
  <2>. QED  BY <1>5 DEF SitPendingIn, Each, IsRoom, Seated
<1>11. ASSUME NEW p \in Ready(r) PROVE p \in Active(d)
  <2>1. p \in Players /\ p \in Seated(r) /\ CanPlay(r.pl[p]) /\ r.pl[p] \in Rows /\ r.pl[p].seated
    BY RowOf DEF Ready, Seated
  <2>2. f[p] = StartOver(r.pl[p]) /\ f[p] \in Rows
    BY <1>2, <2>1
  <2>3. f[p].state = In /\ f[p].seated
    BY <2>1, <2>2 DEF StartOver, Rows, PlayerRow
  <2>. HIDE DEF f, t
  <2>4. SitInNow(f[p]).state = In /\ SitInNow(f[p]).seated
    BY <2>2, <2>3 DEF SitInNow, Rows, PlayerRow
  <2>5. t.pl[p].state = In /\ t.pl[p].seated
    BY <1>10, <2>1, <2>3, <2>4
  <2>. HIDE DEF d
  <2>. QED  BY <1>9, <2>1, <2>5 DEF Active, IsActive, IsSittingOut, In, Out, InPending, AtBlinds
<1>12. \A p \in Players : d.pl[p].pos = r.pl[p].pos
  BY <1>1 DEF Stays
<1> HIDE DEF d
<1>13. IsRoom(d) /\ Ready(r) \subseteq Active(d)
  BY <1>1, <1>11
<1>14. /\ IsRoom(d) /\ Ready(r) \subseteq Active(d)
       /\ d.btn = at.btn /\ d.sb = at.sb /\ d.bb = at.bb
       /\ \A p \in Players : d.pl[p].pos = r.pl[p].pos
  BY <1>9, <1>12, <1>13
<1>. QED  BY <1>14 DEF d

(* Drawing the blinds fails only if nobody sits at the button.             *)
LEMMA DrawsChecked ==
    ASSUME NEW r, IsRoom(r), OnePerSeat(r), EnoughPlayers(r), NEW btn,
           NEW o, o = DrawsFrom(r, btn)
    PROVE  /\ o.did \in {"button", "drew"}
           /\ o.did = "button" => ~HasSeat(r, btn, Ready(r))
           /\ o.did = "drew" => InPlace(o.room)
<1>1. CASE ~HasSeat(r, btn, Ready(r))
  <2>1. o.did = "button"
    BY <1>1 DEF DrawsFrom, Fails, Outcome
  <2>. QED  BY <1>1, <2>1
<1>2. CASE HasSeat(r, btn, Ready(r))
  <2> DEFINE at == PositionsFromBtn(r, btn)
             d  == Drawn(r, at)
             next == NextSeat(r, btn, Ready(r))
  <2>1. btn \in Seats
    BY <1>2, RowOf DEF HasSeat, Ready, Seated, Rows
  <2>2. Ready(r) \in SUBSET Seated(r) /\ Ready(r) # {} /\ btn \in Int /\ Ready(r) \subseteq Players
    BY <2>1, EnoughAreReady DEF Ready, Seats, Seated
  <2>3. next \in Seats /\ \E p \in Ready(r) : next = r.pl[p].pos
    BY <2>2, NextSeatNearest
  <2>4. /\ NextSeat(r, next, Ready(r)) \in Seats
        /\ \E p \in Ready(r) : NextSeat(r, next, Ready(r)) = r.pl[p].pos
    <3>1. next \in Int
      BY <2>3 DEF Seats
    <3>. HIDE DEF next
    <3>. QED  BY <2>2, <3>1, NextSeatNearest
  <2>5. \E p \in Ready(r) : btn = r.pl[p].pos
    BY <1>2 DEF HasSeat
  <2>6. /\ at.btn = btn /\ at.sb \in Seats /\ at.bb \in Seats
        /\ \E p \in Ready(r) : at.sb = r.pl[p].pos
        /\ \E p \in Ready(r) : at.bb = r.pl[p].pos
    <3>. HIDE DEF next
    <3>. QED  BY <2>1, <2>3, <2>4, <2>5 DEF PositionsFromBtn, Positions, next
  <2>7. o = Deals(d, "drew")
    BY <1>2 DEF DrawsFrom
  <2>. HIDE DEF at
  <2>8. /\ IsRoom(d) /\ Ready(r) \subseteq Active(d)
        /\ d.btn = at.btn /\ d.sb = at.sb /\ d.bb = at.bb
        /\ \A p \in Players : d.pl[p].pos = r.pl[p].pos
    BY <2>1, <2>6, DrawnPlay DEF Spots
  <2>. HIDE DEF d
  <2>9. BigBlindPlayers(d) # {}
    <3>1. PICK p \in Ready(r) : at.bb = r.pl[p].pos
      BY <2>6
    <3>. QED  BY <2>2, <2>8, <3>1 DEF BigBlindPlayers
  <2>10. InPlace(d)
    <3>1. PICK p \in Ready(r) : at.sb = r.pl[p].pos
      BY <2>6
    <3>2. TwoPlay(d)
      <4>1. IsFiniteSet(Ready(r)) /\ Cardinality(Ready(r)) > 1
        BY <2>2, PlayersFinite DEF EnoughPlayers
      <4>2. \E p1, p2 \in Ready(r) : p1 # p2
        BY <4>1, TwoAtLeast
      <4>. QED  BY <2>8, <4>2 DEF TwoPlay
    <3>. QED  BY <2>1, <2>2, <2>6, <2>8, <3>1, <3>2 DEF InPlace, SmallIsPlaced, HasSeat
  <2>11. o.did = "drew" /\ InPlace(o.room)
    BY <2>7, <2>8, <2>9, <2>10, DealsInPlace
  <2>. QED  BY <2>11
<1>. QED  BY <1>1, <1>2

(* Moving them fails only if the button runs onto the big blind.           *)
LEMMA RotatesChecked ==
    ASSUME NEW r, IsRoom(r), OnePerSeat(r), r.bb \in Seats,
           NEW p1 \in Active(r), NEW p2 \in Active(r), p1 # p2,
           NEW o, o = Rotates(r)
    PROVE  /\ o.did = IF ButtonRunsOntoBig(r) THEN "onto" ELSE "rotated"
           /\ o.did = "rotated" =>
                 /\ InPlace(o.room)
                 /\ o.dealt = Active(Rotated(r)) /\ Active(o.room) = Active(Rotated(r))
                 /\ o.room.btn = Rotated(r).btn /\ o.room.sb = Rotated(r).sb /\ o.room.bb = Rotated(r).bb
                 /\ \A p \in Players : o.room.pl[p].pos = r.pl[p].pos
<1>1. ~RotationFails(r)
  BY TwoDoNotFail
<1>2. CASE ButtonRunsOntoBig(r)
  BY <1>1, <1>2 DEF Rotates, Fails, Outcome
<1>3. CASE ~ButtonRunsOntoBig(r)
  <2> DEFINE at == PositionsInRotation(r)
             d  == Rotated(r)
  <2>1. o = Deals(d, "rotated")
    BY <1>1, <1>3 DEF Rotates
  <2>2. IsRoom(d) /\ BigBlindPlayers(d) # {}
    BY <1>1, RotatedOwes, BigBlindPlays
  <2>3. /\ Active(r) \subseteq Active(d)
        /\ d.btn = at.btn /\ d.sb = at.sb /\ d.bb = at.bb
        /\ \A p \in Players : d.pl[p].pos = r.pl[p].pos
    BY RotatedPlayers
  <2>4. /\ at.bb = NextBig(r) /\ at.btn \in Taken(r) /\ NextBig(r) \in Seats
        /\ at.sb \in Taken(r) \/ (at.sb \in Seats /\ Clockwise(at.sb, 1) = at.bb)
    <3>1. NextBig(r) \in Seats
      BY NextBigIs
    <3>. QED  BY <3>1, PositionsAre, NextSmallIs
  <2>. HIDE DEF at, d
  <2>5. InPlace(d)
    <3>1. Taken(r) \subseteq Seats
      BY TakenSeats
    <3>2. at.sb \in Taken(r) => HasSeat(d, d.sb, Active(d))
      <4> SUFFICES ASSUME NEW p \in Active(r), at.sb = r.pl[p].pos PROVE HasSeat(d, d.sb, Active(d))
        BY DEF Taken
      <4>1. p \in Players
        BY DEF Active
      <4>2. p \in Active(d)
        BY <2>3
      <4>3. d.pl[p].pos = d.sb
        BY <2>3, <4>1
      <4>. QED  BY <4>2, <4>3 DEF HasSeat
    <3>3. TwoPlay(d)
      BY <2>3 DEF TwoPlay
    <3>. QED  BY <2>3, <2>4, <3>1, <3>2, <3>3 DEF InPlace, SmallIsPlaced
  <2>6. /\ o.did = "rotated" /\ InPlace(o.room) /\ o.dealt = Active(d) /\ Active(o.room) = Active(d)
        /\ o.room.btn = d.btn /\ o.room.sb = d.sb /\ o.room.bb = d.bb
        /\ \A p \in Players : o.room.pl[p].pos = d.pl[p].pos
    BY <2>1, <2>2, <2>5, DealsInPlace
  <2>. QED  BY <1>3, <2>3, <2>6 DEF d
<1>. QED  BY <1>2, <1>3

(* When no hand is played after one, whoever is active sat in with less    *)
(* than he owes; when the button is locked, he does, or he sits there, or  *)
(* he is the only one.                                                     *)
Idle(r) ==
    /\ r.bb \in Seats => Active(r) \subseteq SatInShort(r)
    /\ BtnIsLocked(r) => \/ Cardinality(Active(r)) <= 1
                         \/ \A p \in Active(r) : p \in SatInShort(r) \/ r.pl[p].pos = r.btn

LEMMA NotEnoughIdle ==
    ASSUME NEW r, IsRoom(r), ~EnoughPlayers(r)
    PROVE  Idle(NotEnough(r))
<1> DEFINE n == NotEnough(r)
           waiting(s) == {p \in Seated(r) : r.pl[p].state = s}
           one        == CHOOSE p \in Ready(r) : TRUE
           locked     == IF Ready(r) = {} THEN r
                         ELSE [r EXCEPT !.btn = r.pl[one].pos, !.sb = NoSeat, !.bb = NoSeat]
           s1 == Each(locked, waiting(OutPending), SitOutNow)
           s2 == Each(s1, waiting(InPending), SitInNow)
<1>1. n = Each(s2, waiting(Leaving), LeaveNow)
  BY DEF NotEnough
<1>2. locked.pl = r.pl /\ DOMAIN r.pl = Players /\ DOMAIN locked = {"pl", "btn", "sb", "bb"}
  BY DEF IsRoom
<1>3. /\ Ready(r) = {} => locked = r
      /\ Ready(r) # {} => locked.btn = r.pl[one].pos /\ locked.bb = NoSeat
  BY DEF IsRoom
<1> HIDE DEF locked
<1>4. /\ DOMAIN s1.pl = Players /\ DOMAIN s2.pl = Players
      /\ DOMAIN s1 = {"pl", "btn", "sb", "bb"} /\ DOMAIN s2 = {"pl", "btn", "sb", "bb"}
  <2>1. DOMAIN s1.pl = Players /\ DOMAIN s1 = {"pl", "btn", "sb", "bb"}
    BY <1>2 DEF Each
  <2>. HIDE DEF s1
  <2>. QED  BY <2>1 DEF Each
<1>5. s1.btn = locked.btn /\ s1.bb = locked.bb /\ s2.btn = s1.btn /\ s2.bb = s1.bb
      /\ n.btn = s2.btn /\ n.bb = s2.bb
  <2>1. s1.btn = locked.btn /\ s1.bb = locked.bb
    BY <1>2 DEF Each
  <2>2. s2.btn = s1.btn /\ s2.bb = s1.bb
    <3>. HIDE DEF s1
    <3>. QED  BY <1>4 DEF Each
  <2>3. n.btn = s2.btn /\ n.bb = s2.bb
    <3>. HIDE DEF s2, n
    <3>. QED  BY <1>1, <1>4 DEF Each
  <2>. QED  BY <2>1, <2>2, <2>3
<1>6. \A p \in Players : s1.pl[p] = IF p \in waiting(OutPending) THEN SitOutNow(r.pl[p]) ELSE r.pl[p]
  BY <1>2 DEF Each
<1>7. \A p \in Players : s2.pl[p] = IF p \in waiting(InPending) THEN SitInNow(s1.pl[p]) ELSE s1.pl[p]
  <2>. HIDE DEF s1
  <2>. QED  BY <1>4 DEF Each
<1>8. \A p \in Players : n.pl[p] = IF p \in waiting(Leaving) THEN LeaveNow(s2.pl[p]) ELSE s2.pl[p]
  <2>. HIDE DEF s2, n
  <2>. QED  BY <1>1, <1>4 DEF Each
<1> HIDE DEF n, s1, s2
<1>9. ASSUME NEW p \in Active(n)
      PROVE  n.pl[p].pos = r.pl[p].pos /\ (p \in Ready(r) \/ p \in SatInShort(n))
  <2>1. p \in Players /\ IsActive(n.pl[p]) /\ r.pl[p] \in Rows
    BY RowOf DEF Active
  <2>2. p \notin waiting(Leaving)
    <3> SUFFICES ASSUME p \in waiting(Leaving) PROVE FALSE
      OBVIOUS
    <3>1. p \notin waiting(OutPending) /\ p \notin waiting(InPending)
      BY DEF Leaving, OutPending, InPending
    <3>2. n.pl[p] = LeaveNow(r.pl[p])
      BY <1>6, <1>7, <1>8, <2>1, <3>1
    <3>. QED  BY <2>1, <3>2 DEF LeaveNow, IsActive, Rows, PlayerRow
  <2>3. p \notin waiting(OutPending)
    <3> SUFFICES ASSUME p \in waiting(OutPending) PROVE FALSE
      OBVIOUS
    <3>1. p \notin waiting(InPending)
      BY DEF OutPending, InPending
    <3>2. n.pl[p] = SitOutNow(r.pl[p])
      BY <1>6, <1>7, <1>8, <2>1, <2>2, <3>1
    <3>. QED  BY <2>1, <3>2 DEF SitOutNow, IsActive, IsSittingOut, Rows, PlayerRow
  <2>4. n.pl[p] = IF p \in waiting(InPending) THEN SitInNow(r.pl[p]) ELSE r.pl[p]
    BY <1>6, <1>7, <1>8, <2>1, <2>2, <2>3
  <2>5. CASE p \notin waiting(InPending)
    <3>1. p \in Active(r)
      BY <2>1, <2>4, <2>5 DEF Active
    <3>. QED  BY <2>4, <2>5, <3>1, ActiveAreReady
  <2>6. CASE p \in waiting(InPending)
    <3>1. /\ n.pl[p].pos = r.pl[p].pos /\ n.pl[p].stack = r.pl[p].stack
          /\ MinAmtToPlay(n.pl[p]) = MinAmtToPlay(r.pl[p])
      BY <2>1, <2>4, <2>6 DEF SitInNow, MinAmtToPlay, Rows, PlayerRow
    <3>2. p \in Ready(r) \/ ~(r.pl[p].stack >= MinAmtToPlay(r.pl[p]))
      BY <2>6 DEF Ready, Seated, CanPlay
    <3>3. r.pl[p].stack \in Int /\ MinAmtToPlay(r.pl[p]) \in Int
      <4>1. r.pl[p].stack \in Int
        BY <2>1 DEF Rows, PlayerRow
      <4>2. MinAmtToPlay(r.pl[p]) \in Int
        BY BlindsAssumption DEF MinAmtToPlay
      <4>. QED  BY <4>1, <4>2
    <3>. HIDE DEF waiting
    <3>. QED  BY <3>1, <3>2, <3>3 DEF SatInShort
  <2>. QED  BY <2>5, <2>6
<1>10. CASE Ready(r) = {}
  <2>1. \A p \in Active(n) : p \in SatInShort(n)
    BY <1>9, <1>10
  <2>. QED  BY <2>1 DEF Idle, n
<1>11. CASE Ready(r) # {}
  <2>1. \A p \in Ready(r) : p = one
    <3>1. IsFiniteSet(Ready(r)) /\ one \in Ready(r)
      BY <1>11, PlayersFinite DEF Ready, Seated
    <3>2. ASSUME NEW p \in Ready(r), p # one PROVE FALSE
      <4>1. IsFiniteSet({one}) /\ Cardinality({one}) = 1
        BY FS_Singleton
      <4>2. Cardinality({one} \cup {p}) = 2 /\ {one} \cup {p} \subseteq Ready(r)
        <5>1. p \notin {one}
          BY <3>2
        <5>2. Cardinality({one} \cup {p}) = Cardinality({one}) + 1
          BY <4>1, <5>1, FS_AddElement
        <5>. QED  BY <3>1, <4>1, <5>2
      <4>3. Cardinality({one} \cup {p}) <= Cardinality(Ready(r))
        BY <3>1, <4>2, FS_Subset
      <4>4. Cardinality(Ready(r)) \in Nat
        BY <3>1, FS_CardinalityType
      <4>. QED  BY <4>2, <4>3, <4>4 DEF EnoughPlayers
    <3>. QED  BY <3>2
  <2>2. n.bb \notin Seats
    BY <1>3, <1>5, <1>11 DEF NoSeat, Seats
  <2>3. n.btn = r.pl[one].pos
    BY <1>3, <1>5, <1>11
  <2>4. ASSUME NEW p \in Active(n) PROVE p \in SatInShort(n) \/ n.pl[p].pos = n.btn
    <3>1. p \in Ready(r) => p = one
      BY <2>1
    <3>. QED  BY <1>9, <2>3, <3>1
  <2>. QED  BY <2>2, <2>4 DEF Idle, n
<1>. QED  BY <1>10, <1>11 DEF n

(* What starts a hand: the blinds are drawn, or they move on with two who  *)
(* play; or nobody who could play sits at the locked button.               *)
LEMMA StartsChecked ==
    ASSUME NEW r, IsRoom(r), OnePerSeat(r), EnoughPlayers(r), NEW o \in StartsHand(r)
    PROVE  \/ o.did = "drew" /\ InPlace(o.room)
           \/ /\ o.did = "button" /\ BtnIsLocked(r) /\ Cardinality(Active(r)) > 1
              /\ \A p \in Active(r) : r.pl[p].pos # r.btn
           \/ /\ ~NewRound(r) /\ r.bb \in Seats /\ o = Rotates(r)
              /\ \E p1, p2 \in Active(r) : p1 # p2
<1>1. Active(r) \subseteq Ready(r) /\ IsFiniteSet(Active(r)) /\ Cardinality(Active(r)) \in Nat
  BY ActiveAreReady, PlayersFinite DEF Active
<1>2. CASE FirstHand(r) \/ EffectivelyNewGame(r)
  <2>1. PICK i \in NewButtons(r) : o = DrawsFrom(r, i)
    BY <1>2 DEF StartsHand
  <2>2. HasSeat(r, i, Ready(r))
    BY <1>1 DEF NewButtons, HasSeat
  <2>. QED  BY <2>1, <2>2, DrawsChecked
<1>3. CASE ~FirstHand(r) /\ ~EffectivelyNewGame(r) /\ BtnIsLocked(r)
  <2>1. o = DrawsFrom(r, r.btn)
    BY <1>3 DEF StartsHand
  <2>2. Cardinality(Active(r)) > 1
    BY <1>1, <1>3 DEF EffectivelyNewGame
  <2>3. o.did = "button" => \A p \in Active(r) : r.pl[p].pos # r.btn
    BY <1>1, <2>1, DrawsChecked DEF HasSeat
  <2>. QED  BY <1>3, <2>1, <2>2, <2>3, DrawsChecked
<1>4. CASE ~FirstHand(r) /\ ~EffectivelyNewGame(r) /\ ~BtnIsLocked(r)
  <2>1. o = Rotates(r)
    BY <1>4 DEF StartsHand
  <2>2. Cardinality(Active(r)) > 1
    BY <1>1, <1>4 DEF EffectivelyNewGame
  <2>3. r.bb \in Seats /\ ~NewRound(r)
    BY <1>4 DEF FirstHand, BtnIsLocked, NewRound, IsRoom, Spots
  <2>. QED  BY <1>1, <2>1, <2>2, <2>3, TwoAtLeast
<1>. QED  BY <1>2, <1>3, <1>4

(* The blinds move on, after what comes before they do.                    *)
MovesOn(r, s, o) ==
    /\ BeforeBlinds(r, s) /\ o = Rotates(s)
    /\ \E p1, p2 \in Active(s) : p1 # p2

(* setup_hand: what its checks find, and where it leaves the positions     *)
LEMMA SetupHandChecked ==
    ASSUME NEW r, IsRoom(r), OnePerSeat(r), NEW db, IsRoom(db), NEW o \in SetupHand(r, db)
    PROVE  \/ o.did = "overdraft"
           \/ o.did = "waited" /\ Idle(o.room)
           \/ o.did = "drew" /\ InPlace(o.room)
           \/ /\ o.did = "button" /\ BtnIsLocked(r)
              /\ Cardinality({p \in Active(r) : r.pl[p].pos # r.btn}) > 1
           \/ r.bb \in Seats /\ r.btn # NoSeat /\ \E s : MovesOn(r, s, o)
<1> DEFINE paid == Rebuys(r, db)
           kept == QueuedSitouts(paid)
           sat  == IF NewRound(kept) THEN kept ELSE SetSittingGivenBlinds(kept)
<1>1. CASE \E p \in Players : paid.pl[p].balance < 0
  <2>1. o = Fails(r, "overdraft")
    BY <1>1 DEF SetupHand
  <2>. QED  BY <2>1 DEF Fails, Outcome
<1>2. CASE ~ \E p \in Players : paid.pl[p].balance < 0
  <2>1. \A p \in Players : paid.pl[p].balance >= 0
    <3>1. \A p \in Players : paid.pl[p].balance \in Int
      BY RebuyBalance
    <3>. HIDE DEF paid
    <3>. QED  BY <1>2, <3>1
  <2>2. Follows(r, paid) /\ Rests(r, paid)
    BY <2>1, RebuysFollow, RebuysRest
  <2>3. Follows(paid, kept) /\ Rests(paid, kept)
    <3>. HIDE DEF paid
    <3>. QED  BY <2>2, QueuedSitoutsFollows, QueuedSitoutsRest DEF Follows
  <2>4. Follows(kept, sat)
    <3>1. Follows(kept, kept)
      <4>. HIDE DEF kept
      <4>. QED  BY <2>3, RowKeepsSelf DEF Follows, Keeps, SameSpots
    <3>. HIDE DEF kept
    <3>. QED  BY <2>3, <3>1, SetSittingFollows DEF Follows
  <2>5. \/ NothingToDo(kept) /\ o = Waits(kept)
        \/ ~EnoughPlayers(kept) /\ o = Waits(NotEnough(kept))
        \/ ~EnoughPlayers(sat) /\ o = Waits(NotEnough(sat))
        \/ EnoughPlayers(sat) /\ o \in StartsHand(sat)
    <3>1. SetupHand(r, db) =
            IF \E p \in Players : paid.pl[p].balance < 0 THEN {Fails(r, "overdraft")}
            ELSE IF NothingToDo(kept) THEN {Waits(kept)}
            ELSE IF ~EnoughPlayers(kept) THEN {Waits(NotEnough(kept))}
            ELSE IF ~EnoughPlayers(sat) THEN {Waits(NotEnough(sat))}
            ELSE StartsHand(sat)
      BY DEF SetupHand
    <3>. HIDE DEF paid, kept, sat
    <3>. QED  BY <1>2, <3>1
  <2>6. sat = IF NewRound(kept) THEN kept ELSE SetSittingGivenBlinds(kept)
    OBVIOUS
  <2> HIDE DEF paid, kept, sat
  <2>7. Follows(r, kept) /\ Follows(r, sat) /\ Rests(r, kept)
    BY <2>2, <2>3, <2>4, KeepsTransitive, RestsTransitive
  <2>8. OnePerSeat(kept) /\ OnePerSeat(sat) /\ IsRoom(kept) /\ IsRoom(sat)
    BY <2>7, KeepsStays, StaysInSeats DEF Follows
  <2>9. SameSpots(r, kept) /\ SameSpots(r, sat) /\ SameSpots(kept, sat)
    BY <2>4, <2>7 DEF Follows
  <2>10. CASE NothingToDo(kept) /\ o = Waits(kept)
    <3>1. o.did = "waited" /\ o.room = kept
      BY <2>10 DEF Waits, Outcome
    <3>2. Active(kept) \subseteq Ready(kept)
      BY <2>8, ActiveAreReady
    <3>3. IsFiniteSet(Ready(kept)) /\ Cardinality(Ready(kept)) \in Nat /\ Cardinality(Active(kept)) \in Nat
      BY PlayersFinite DEF Ready, Seated, Active
    <3>4. Cardinality(Active(kept)) <= Cardinality(Ready(kept))
      BY <3>2, <3>3, FS_Subset
    <3>5. Cardinality(Active(kept)) <= 1
      BY <2>10, <3>3, <3>4 DEF NothingToDo, EnoughPlayers
    <3>6. kept.bb \in Seats => Ready(kept) = {}
      BY <2>10 DEF NothingToDo, BtnIsLocked, NoSeat, Seats
    <3>7. Idle(kept)
      BY <3>2, <3>5, <3>6 DEF Idle
    <3>. QED  BY <3>1, <3>7
  <2>11. ASSUME NEW n, IsRoom(n), ~EnoughPlayers(n), o = Waits(NotEnough(n))
         PROVE  o.did = "waited" /\ Idle(o.room)
    <3>1. Idle(NotEnough(n))
      BY <2>11, NotEnoughIdle
    <3>. QED  BY <2>11, <3>1 DEF Waits, Outcome
  <2>12. CASE EnoughPlayers(sat) /\ o \in StartsHand(sat)
    <3>1. CASE o.did = "drew" /\ InPlace(o.room)
      BY <3>1
    <3>2. CASE /\ o.did = "button" /\ BtnIsLocked(sat) /\ Cardinality(Active(sat)) > 1
               /\ \A p \in Active(sat) : sat.pl[p].pos # sat.btn
      <4>1. BtnIsLocked(r) /\ BtnIsLocked(kept)
        BY <2>9, <3>2 DEF SameSpots, BtnIsLocked
      <4>2. sat = kept
        BY <2>6, <4>1 DEF NewRound
      <4> DEFINE away == {p \in Active(r) : r.pl[p].pos # r.btn}
      <4>3. Active(sat) \subseteq away
        BY <2>7, <2>9, <3>2, <4>2 DEF Rests, Active, SameSpots
      <4>4. IsFiniteSet(away) /\ Cardinality(away) \in Nat /\ Cardinality(Active(sat)) \in Nat
        BY PlayersFinite DEF Active
      <4>5. Cardinality(away) > 1
        <5>. HIDE DEF away
        <5>1. Cardinality(Active(sat)) <= Cardinality(away)
          BY <4>3, <4>4, FS_Subset
        <5>. QED  BY <3>2, <4>4, <5>1
      <4>. QED  BY <3>2, <4>1, <4>5
    <3>3. CASE /\ ~NewRound(sat) /\ sat.bb \in Seats /\ o = Rotates(sat)
               /\ \E p1, p2 \in Active(sat) : p1 # p2
      <4>1. ~NewRound(kept) /\ ~NewRound(r) /\ kept.bb \in Seats /\ r.bb \in Seats
        BY <2>9, <3>3 DEF SameSpots, NewRound, FirstHand, BtnIsLocked
      <4>2. BeforeBlinds(kept, sat)
        BY <2>6, <2>8, <4>1, SetSittingBefore
      <4>3. BeforeBlinds(r, sat)
        BY <2>7, <2>9, <4>2, BeforeAfterRest
      <4>4. r.btn # NoSeat
        BY <4>1 DEF NewRound, FirstHand
      <4>. QED  BY <3>3, <4>1, <4>3, <4>4 DEF MovesOn
    <3>. QED  BY <2>8, <2>12, <3>1, <3>2, <3>3, StartsChecked
  <2>. QED  BY <2>5, <2>8, <2>10, <2>11, <2>12
<1>. QED  BY <1>1, <1>2

(* When they do, somebody played before.                                   *)
LEMMA SomebodyPlays ==
    ASSUME NEW r, IsRoom(r), r.bb \in Seats, NEW s, NEW o, MovesOn(r, s, o)
    PROVE  Active(r) # {}
<1> SUFFICES ASSUME Active(r) = {} PROVE FALSE
  OBVIOUS
<1>1. PICK p1 \in Active(s), p2 \in Active(s) : p1 # p2
  BY DEF MovesOn
<1>2. Comes(r, s, p1) /\ Comes(r, s, p2) /\ IsRoom(s) /\ OnePerSeat(s)
  BY <1>1 DEF MovesOn, BeforeBlinds
<1>3. p1 \in Seated(s) /\ p2 \in Seated(s) /\ s.pl[p1].pos \in Seats /\ s.pl[p2].pos \in Seats
  BY <1>1, <1>2, TakenSeats DEF Taken
<1>4. r.pl[p1].pos = s.pl[p1].pos /\ r.pl[p2].pos = s.pl[p2].pos
  BY <1>3 DEF MovesOn, BeforeBlinds, Seated
<1>5. /\ Distance(r.bb, s.pl[p1].pos) <= Distance(r.bb, s.pl[p2].pos)
      /\ Distance(r.bb, s.pl[p2].pos) <= Distance(r.bb, s.pl[p1].pos)
  BY <1>1, <1>2, <1>4 DEF Comes
<1>6. r.bb \in Int /\ s.pl[p1].pos \in Int /\ s.pl[p2].pos \in Int
  BY <1>3 DEF Seats
<1>7. Distance(r.bb, s.pl[p1].pos) \in Int /\ Distance(r.bb, s.pl[p2].pos) \in Int
  BY <1>6, DistanceType
<1>8. Distance(r.bb, s.pl[p1].pos) = Distance(r.bb, s.pl[p2].pos)
  BY <1>5, <1>7
<1>9. s.pl[p1].pos = s.pl[p2].pos
  BY <1>3, <1>8, DistanceDiffers
<1>. QED  BY <1>1, <1>2, <1>3, <1>9 DEF OnePerSeat

(* A move of the blinds fails or leaves everything in its place.           *)
LEMMA MovesInPlace ==
    ASSUME NEW r, r.bb \in Seats, NEW s, NEW o, MovesOn(r, s, o)
    PROVE  /\ o.did = IF ButtonRunsOntoBig(s) THEN "onto" ELSE "rotated"
           /\ o.did = "rotated" =>
                 /\ InPlace(o.room)
                 /\ o.dealt = Active(Rotated(s)) /\ Active(o.room) = Active(Rotated(s))
                 /\ o.room.btn = Rotated(s).btn /\ o.room.sb = Rotated(s).sb /\ o.room.bb = Rotated(s).bb
                 /\ \A p \in Players : o.room.pl[p].pos = s.pl[p].pos
<1>1. IsRoom(s) /\ OnePerSeat(s) /\ s.bb \in Seats /\ o = Rotates(s)
  BY DEF MovesOn, BeforeBlinds, SameSpots
<1>2. PICK p1 \in Active(s), p2 \in Active(s) : p1 # p2
  BY DEF MovesOn
<1>. QED  BY <1>1, <1>2, RotatesChecked

(* When the positions were in place, the checks of the move hold, the      *)
(* blinds move as they should and nobody comes in between them.            *)
LEMMA MovesChecked ==
    ASSUME NEW r, IsRoom(r), OnePerSeat(r), InPlace(r), NEW s, NEW o, MovesOn(r, s, o)
    PROVE  /\ o.did = "onto" => SmallMayPassBig(r) \/ ~BlindsInOrder(r)
           /\ o.did = "rotated" /\ BlindsInOrder(r) =>
                 /\ \A p \in Active(r) \cap o.dealt :
                       r.pl[p].pos = r.bb =>
                          o.room.sb = r.bb \/ r.sb \in SeatsBetween(r.bb, o.room.bb)
                 /\ BlindsInOrder(o.room) \/ SmallMayPassBig(r)
           /\ o.did = "rotated" =>
                 \A p \in o.dealt \ Active(r) :
                    \/ o.room.pl[p].pos \notin {o.room.btn} \cup SeatsBetween(o.room.btn, o.room.bb)
                    \/ /\ r.pl[p].state = AtBlinds
                       /\ \E q \in o.dealt \ Active(r) :
                             o.room.pl[q].pos = o.room.bb /\ r.pl[q].state = InPending
<1> DEFINE at == PositionsInRotation(s)
<1>1. r.bb \in Seats /\ r.sb \in Seats /\ r.btn \in Seats /\ SmallIsPlaced(r)
  BY DEF InPlace
<1>2. /\ BeforeBlinds(r, s) /\ IsRoom(s) /\ OnePerSeat(s)
      /\ s.btn = r.btn /\ s.sb = r.sb /\ s.bb = r.bb
  BY DEF MovesOn, BeforeBlinds, SameSpots
<1>3. PICK p1 \in Active(s), p2 \in Active(s) : p1 # p2
  BY DEF MovesOn
<1>4. o.did = IF ButtonRunsOntoBig(s) THEN "onto" ELSE "rotated"
  BY <1>1, MovesInPlace
<1>5. o.did = "rotated" =>
        /\ o.dealt = Active(Rotated(s)) /\ Active(o.room) = Active(Rotated(s))
        /\ o.room.btn = Rotated(s).btn /\ o.room.sb = Rotated(s).sb /\ o.room.bb = Rotated(s).bb
        /\ \A p \in Players : o.room.pl[p].pos = s.pl[p].pos
  BY <1>1, MovesInPlace
<1>6. /\ Active(Rotated(s)) = Active(s) \cup (Pending(s) \ MustWait(s, at))
      /\ Rotated(s).btn = at.btn /\ Rotated(s).sb = at.sb /\ Rotated(s).bb = at.bb
      /\ \A p \in Players : Rotated(s).pl[p].pos = s.pl[p].pos
  BY <1>1, <1>2, <1>3, RotatedPlayers
<1>7. at.bb = NextBig(s)
  BY <1>1, <1>2, <1>3, PositionsAre
<1>8. ASSUME o.did = "onto", BlindsInOrder(r), ~SmallMayPassBig(r) PROVE FALSE
  <2>1. ~ButtonRunsOntoBig(s)
    BY <1>1, <1>2, <1>3, <1>8, ButtonStaysBehind
  <2>. QED  BY <1>4, <1>8, <2>1
<1>9. ASSUME o.did = "rotated", BlindsInOrder(r), NEW p \in Active(r), p \in o.dealt, r.pl[p].pos = r.bb
      PROVE  o.room.sb = r.bb \/ r.sb \in SeatsBetween(r.bb, o.room.bb)
  <2>1. p \in Players /\ r.pl[p].state # InPending
    BY DEF Active, IsActive, IsSittingOut
  <2>2. p \notin Pending(s)
    BY <1>2, <2>1 DEF Pending, BeforeBlinds
  <2>3. p \in Active(s) /\ s.pl[p].pos = r.bb
    BY <1>2, <1>5, <1>6, <1>9, <2>1, <2>2 DEF BeforeBlinds
  <2>4. r.bb \in Taken(s)
    BY <2>3 DEF Taken
  <2>5. ~ButtonRunsOntoBig(s)
    BY <1>4, <1>9
  <2>6. at.sb = r.bb \/ r.sb \in SeatsBetween(r.bb, NextBig(s))
    BY <1>1, <1>2, <1>3, <1>9, <2>4, <2>5, BigGetsSmall
  <2>. HIDE DEF at
  <2>. QED  BY <1>5, <1>6, <1>7, <1>9, <2>6
<1>10. ASSUME o.did = "rotated", BlindsInOrder(r), ~SmallMayPassBig(r) PROVE BlindsInOrder(o.room)
  <2>1. BlindsInOrder(Rotated(s))
    BY <1>1, <1>2, <1>3, <1>10, BlindsStayInOrder
  <2>2. ASSUME NEW p \in Active(o.room)
        PROVE  o.room.pl[p].pos \notin SeatsBetween(o.room.sb, o.room.bb)
    <3>1. p \in Players /\ p \in Active(Rotated(s))
      BY <1>5, <1>10 DEF Active
    <3>2. o.room.pl[p].pos = Rotated(s).pl[p].pos
      BY <1>5, <1>6, <1>10, <3>1
    <3>3. o.room.sb = Rotated(s).sb /\ o.room.bb = Rotated(s).bb
      BY <1>5, <1>10
    <3>4. Rotated(s).pl[p].pos \notin SeatsBetween(Rotated(s).sb, Rotated(s).bb)
      BY <2>1, <3>1 DEF BlindsInOrder
    <3>. QED  BY <3>2, <3>3, <3>4
  <2>. QED  BY <1>5, <1>10, <2>1, <2>2 DEF BlindsInOrder
<1>11. ASSUME o.did = "rotated", NEW p \in o.dealt, p \notin Active(r)
       PROVE  \/ o.room.pl[p].pos \notin {o.room.btn} \cup SeatsBetween(o.room.btn, o.room.bb)
              \/ /\ r.pl[p].state = AtBlinds
                 /\ \E q \in o.dealt \ Active(r) :
                       o.room.pl[q].pos = o.room.bb /\ r.pl[q].state = InPending
  <2>1. p \in Players /\ p \in Active(s) \cup (Pending(s) \ MustWait(s, at))
    BY <1>5, <1>6, <1>11 DEF Active, Pending, Seated
  <2>2. o.room.btn = at.btn /\ o.room.bb = at.bb /\ o.room.pl[p].pos = s.pl[p].pos
    BY <1>5, <1>6, <1>11, <2>1
  <2>3. CASE p \in Active(s) /\ s.pl[p].pos # NextBig(s)
    <3>1. r.pl[p].state = AtBlinds
      BY <1>2, <1>11, <2>3 DEF BeforeBlinds, Comes
    <3>2. PICK m \in Seated(s) : s.pl[m].state = InPending /\ s.pl[m].pos = NextBig(s)
      BY <1>1, <1>2, <1>3, <1>11, <2>3, PendingBefore
    <3>3. m \in Players /\ m \in Pending(s)
      BY <3>2 DEF Pending, Seated
    <3>4. m \notin MustWait(s, at)
      BY <1>1, <1>2, <1>3, <3>2, <3>3, BigBlindPlays
    <3>5. m \in o.dealt
      BY <1>5, <1>6, <1>11, <3>3, <3>4
    <3>6. r.pl[m].state = InPending
      BY <1>2, <3>2, <3>3 DEF BeforeBlinds
    <3>7. m \notin Active(r)
      BY <3>6 DEF Active, IsActive, IsSittingOut
    <3>8. o.room.pl[m].pos = o.room.bb
      BY <1>5, <1>7, <1>11, <2>2, <3>2, <3>3
    <3>. QED  BY <3>1, <3>5, <3>6, <3>7, <3>8
  <2>4. CASE p \in Active(s) /\ s.pl[p].pos = NextBig(s)
    <3>1. ~ButtonRunsOntoBig(s)
      BY <1>4, <1>11
    <3>2. at.btn # NextBig(s)
      BY <1>1, <1>2, <1>3, <1>11, <2>4, <3>1, NobodyOnButton
    <3>3. s.pl[p].pos \notin SeatsBetween(at.btn, at.bb)
      BY <1>7, <2>4 DEF SeatsBetween
    <3>. HIDE DEF at
    <3>. QED  BY <2>2, <2>4, <3>2, <3>3
  <2>5. CASE p \in Pending(s) /\ p \notin MustWait(s, at)
    <3>1. ~NewRound(s)
      BY <1>1, <1>2 DEF NewRound, FirstHand, BtnIsLocked, NoSeat, Seats
    <3>2. s.pl[p].pos \notin {at.btn} \cup SeatsBetween(at.btn, at.bb)
      BY <2>5, <3>1 DEF MustWait, Pending
    <3>. QED  BY <2>2, <3>2
  <2>. QED  BY <2>1, <2>3, <2>4, <2>5
<1>. QED  BY <1>8, <1>9, <1>10, <1>11

-----------------------------------------------------------------------------
(* The inductive invariant of the positions                                *)
Placing ==
    /\ dealt # {} => InPlace(room)
    /\ dealt = {} /\ ~Suspended => Idle(room)
    /\ SanityChecksHold

(* What comes before setup_hand leaves the active players where they are;  *)
(* the end of a hand changes only chips.                                   *)
SameSeats(r) ==
    /\ SameSpots(room, r) /\ Active(r) = Active(room)
    /\ \A p \in Seated(room) : r.pl[p].pos = room.pl[p].pos

OnlyChips(r) ==
    \A p \in Players : /\ r.pl[p].pos = room.pl[p].pos
                       /\ r.pl[p].state = room.pl[p].state
                       /\ r.pl[p].seated = room.pl[p].seated

LEMMA OnlyChipsSame ==
    ASSUME NEW r, SameSpots(room, r), OnlyChips(r)
    PROVE  /\ SameSeats(r)
           /\ InPlace(room) => InPlace(r)
           /\ SmallMayPassBig(r) => SmallMayPassBig(room)
           /\ BlindsInOrder(r) <=> BlindsInOrder(room)
<1>1. Active(r) = Active(room) /\ Seated(r) = Seated(room)
  BY DEF OnlyChips, Active, Seated, IsActive, IsSittingOut
<1>2. SameSeats(r)
  BY <1>1 DEF SameSeats, OnlyChips, Seated
<1>3. HasSeat(room, room.sb, Active(room)) => HasSeat(r, r.sb, Active(r))
  BY <1>1 DEF HasSeat, OnlyChips, SameSpots, Active
<1>4. InPlace(room) => InPlace(r)
  BY <1>1, <1>3 DEF InPlace, SmallIsPlaced, SameSpots, TwoPlay
<1>5. SmallMayPassBig(r) => SmallMayPassBig(room)
  <2> SUFFICES ASSUME NEW p \in Seated(r), NEW q \in Seated(r),
                      r.pl[p].state = InPending, r.pl[q].state = AtBlinds,
                      r.pl[p].pos \in SeatsBetween(r.bb, r.pl[q].pos)
               PROVE  SmallMayPassBig(room)
    BY DEF SmallMayPassBig
  <2>1. p \in Players /\ q \in Players
    BY DEF Seated
  <2>2. /\ room.pl[p].state = InPending /\ room.pl[q].state = AtBlinds
        /\ room.pl[p].pos \in SeatsBetween(room.bb, room.pl[q].pos)
    BY <2>1 DEF OnlyChips, SameSpots
  <2>. QED  BY <1>1, <2>2 DEF SmallMayPassBig
<1>6. \A p \in Active(room) : r.pl[p].pos = room.pl[p].pos
  BY DEF OnlyChips, Active
<1>7. BlindsInOrder(r) <=> BlindsInOrder(room)
  BY <1>1, <1>6 DEF BlindsInOrder, SameSpots
<1>. QED  BY <1>2, <1>4, <1>5, <1>7

(* setup_hand, with no hand played before it or at the end of one          *)
LEMMA SetupHandPlaces ==
    ASSUME IInv, Placing, ~Suspended,
           NEW r, IsRoom(r), OnePerSeat(r), SameSeats(r), dealt # {} => OnlyChips(r),
           NEW o \in SetupHand(r, room)
    PROVE  /\ o.did \in {"overdraft", "waited", "drew", "button", "onto", "rotated"}
           /\ o.did = "waited" => Idle(o.room)
           /\ o.did \in {"drew", "rotated"} => InPlace(o.room)
           /\ o.did = "button" => BtnIsLocked(room) /\ Cardinality(SatInShort(room)) > 1
           /\ o.did = "onto" => \/ SmallMayPassBig(room) \/ ~BlindsInOrder(room)
                                \/ dealt = {} /\ SatInShort(room) # {}
<1>1. IsRoom(room) /\ SameSpots(room, r) /\ Active(r) = Active(room)
  BY DEF IInv, SameSeats
<1>2. CASE o.did = "overdraft"
  BY <1>2
<1>3. CASE o.did = "waited" /\ Idle(o.room)
  BY <1>3
<1>4. CASE o.did = "drew" /\ InPlace(o.room)
  BY <1>4
<1>5. CASE /\ o.did = "button" /\ BtnIsLocked(r)
           /\ Cardinality({p \in Active(r) : r.pl[p].pos # r.btn}) > 1
  <2> DEFINE away == {p \in Active(r) : r.pl[p].pos # r.btn}
  <2>1. BtnIsLocked(room)
    BY <1>1, <1>5 DEF BtnIsLocked, SameSpots
  <2>2. dealt = {}
    BY <2>1 DEF Placing, InPlace, BtnIsLocked, NoSeat, Seats
  <2>3. Idle(room)
    BY <2>2 DEF Placing
  <2>4. away \subseteq Active(room)
    BY <1>1
  <2>5. /\ Cardinality(away) \in Nat /\ IsFiniteSet(Active(room)) /\ Cardinality(Active(room)) \in Nat
        /\ IsFiniteSet(SatInShort(room)) /\ Cardinality(SatInShort(room)) \in Nat
    BY PlayersFinite DEF Active, SatInShort
  <2>6. \A p \in away : p \in Seated(room) /\ room.pl[p].pos # room.btn
    BY <1>1, <2>4 DEF SameSeats, SameSpots, Active, IsActive, Seated
  <2>7. Cardinality(away) > 1
    BY <1>5
  <2> HIDE DEF away
  <2>8. Cardinality(Active(room)) > 1
    <3>1. Cardinality(away) <= Cardinality(Active(room))
      BY <2>4, <2>5, FS_Subset
    <3>. QED  BY <2>5, <2>7, <3>1
  <2>9. \A p \in Active(room) : p \in SatInShort(room) \/ room.pl[p].pos = room.btn
    BY <2>1, <2>3, <2>5, <2>8 DEF Idle
  <2>10. away \subseteq SatInShort(room)
    BY <2>4, <2>6, <2>9
  <2>11. Cardinality(SatInShort(room)) > 1
    <3>1. Cardinality(away) <= Cardinality(SatInShort(room))
      BY <2>5, <2>10, FS_Subset
    <3>. QED  BY <2>5, <2>7, <3>1
  <2>. QED  BY <1>5, <2>1, <2>11
<1>6. CASE r.bb \in Seats /\ \E s : MovesOn(r, s, o)
  <2>1. PICK s : MovesOn(r, s, o)
    BY <1>6
  <2>2. /\ o.did = IF ButtonRunsOntoBig(s) THEN "onto" ELSE "rotated"
        /\ o.did = "rotated" => InPlace(o.room)
    BY <1>6, <2>1, MovesInPlace
  <2>3. CASE dealt # {}
    <3>1. /\ InPlace(r)
          /\ SmallMayPassBig(r) => SmallMayPassBig(room)
          /\ BlindsInOrder(r) <=> BlindsInOrder(room)
      BY <1>1, <2>3, OnlyChipsSame DEF Placing
    <3>2. o.did = "onto" => SmallMayPassBig(r) \/ ~BlindsInOrder(r)
      BY <2>1, <3>1, MovesChecked
    <3>. QED  BY <2>2, <3>1, <3>2
  <2>4. CASE dealt = {}
    <3>1. Active(room) # {}
      BY <1>1, <1>6, <2>1, SomebodyPlays
    <3>2. Active(room) \subseteq SatInShort(room)
      BY <1>1, <1>6, <2>4 DEF Placing, Idle, SameSpots
    <3>. QED  BY <2>2, <2>4, <3>1, <3>2
  <2>. QED  BY <2>3, <2>4
<1>7. IsRoom(r) /\ OnePerSeat(r) /\ IsRoom(room)
  BY <1>1
<1>. QED  BY <1>2, <1>3, <1>4, <1>5, <1>6, <1>7, SetupHandChecked

(* A dispatch commits one of its outcomes or none.                         *)
LEMMA CommitPlaces ==
    ASSUME IInv, Placing,
           NEW r, IsRoom(r), OnePerSeat(r), SameSeats(r), dealt # {} => OnlyChips(r),
           Commit(SetupHand(r, room))
    PROVE  Placing'
<1>1. PICK o \in SetupHand(r, room) :
        /\ ~Suspended
        /\ last' = o.did
        /\ IF o.did \in Failures THEN UNCHANGED <<room, dealt, owing>>
           ELSE room' = o.room /\ dealt' = o.dealt /\ owing' = Missed(o)
  BY DEF Commit
<1>2. /\ o.did \in {"overdraft", "waited", "drew", "button", "onto", "rotated"}
      /\ o.did = "waited" => Idle(o.room)
      /\ o.did \in {"drew", "rotated"} => InPlace(o.room)
      /\ o.did = "button" => BtnIsLocked(room) /\ Cardinality(SatInShort(room)) > 1
      /\ o.did = "onto" => \/ SmallMayPassBig(room) \/ ~BlindsInOrder(room)
                           \/ dealt = {} /\ SatInShort(room) # {}
  BY <1>1, SetupHandPlaces
<1>3. CASE o.did \in Failures
  <2>1. room' = room /\ dealt' = dealt /\ last' = o.did
    BY <1>1, <1>3
  <2>2. (dealt # {} => InPlace(room))'
    BY <2>1 DEF Placing
  <2>3. Suspended'
    BY <1>3, <2>1 DEF Suspended
  <2>4. SanityChecksHold'
    BY <1>2, <2>1 DEF SanityChecksHold
  <2>. QED  BY <2>2, <2>3, <2>4 DEF Placing
<1>4. CASE o.did \notin Failures
  <2>1. room' = o.room /\ dealt' = o.dealt /\ last' = o.did
    BY <1>1, <1>4
  <2>2. o.did \in {"waited", "drew", "rotated"}
    BY <1>2, <1>4 DEF Failures
  <2>3. GoodOutcome(r, o)
    BY <1>1, SetupHandGood DEF IInv
  <2>4. IF o.did = "waited" THEN o.dealt = {} ELSE o.dealt # {}
    BY <1>4, <2>3 DEF GoodOutcome, HandIsPlayed
  <2>5. SanityChecksHold'
    BY <2>1, <2>2 DEF SanityChecksHold
  <2>6. (dealt # {} => InPlace(room))' /\ (dealt = {} /\ ~Suspended => Idle(room))'
    BY <1>2, <2>1, <2>2, <2>4
  <2>. QED  BY <2>5, <2>6 DEF Placing
<1>. QED  BY <1>3, <1>4

(* ... during a hand there is nothing more to do.                          *)
LEMMA RequestPlaces ==
    ASSUME IInv, Placing, NEW p \in Players, NEW y, GoodRow(p, y), Becomes(p, y)
    PROVE  /\ Placing'
           /\ dealt # {} => last' = "nothing"
<1> DEFINE r == Asked(p, y)
<1>1. /\ IsRoom(r) /\ OnePerSeat(r) /\ SameSpots(room, r) /\ Active(r) = Active(room)
      /\ \A q \in Seated(room) : r.pl[q].pos = room.pl[q].pos
  BY AskedRoom
<1>2. Commit(IF dealt = {} THEN SetupHand(r, room) ELSE {Outcome(r, dealt, {}, "nothing")})
  BY DEF Becomes, Step, Asked
<1> HIDE DEF r
<1>3. SameSeats(r)
  BY <1>1 DEF SameSeats
<1>4. CASE dealt = {}
  BY <1>1, <1>2, <1>3, <1>4, CommitPlaces
<1>5. CASE dealt # {}
  <2>1. Commit({Outcome(r, dealt, {}, "nothing")})
    BY <1>2, <1>5
  <2>2. room' = r /\ dealt' = dealt /\ last' = "nothing"
    BY <2>1 DEF Commit, Outcome, Failures
  <2>3. InPlace(room)
    BY <1>5 DEF Placing
  <2>4. HasSeat(room, room.sb, Active(room)) => HasSeat(r, r.sb, Active(r))
    <3> SUFFICES ASSUME NEW q \in Active(room), room.pl[q].pos = room.sb
                 PROVE  HasSeat(r, r.sb, Active(r))
      BY DEF HasSeat
    <3>1. q \in Seated(room)
      BY DEF Active, Seated, IsActive
    <3>. QED  BY <1>1, <3>1 DEF HasSeat, SameSpots
  <2>5. InPlace(r)
    BY <1>1, <2>3, <2>4 DEF InPlace, SmallIsPlaced, SameSpots, TwoPlay
  <2>. QED  BY <1>5, <2>2, <2>5 DEF Placing, SanityChecksHold
<1>. QED  BY <1>4, <1>5

LEMMA NextPlaces ==
    ASSUME IInv, Placing, Next
    PROVE  Placing'
<1>1. ASSUME NEW p \in Players, NEW y, GoodRow(p, y), Becomes(p, y) PROVE Placing'
  BY <1>1, RequestPlaces
<1>2. CASE HandEnds
  <2>1. PICK r \in AfterHand : Commit(SetupHand(r, room))
    BY <1>2 DEF HandEnds
  <2>2. IsRoom(r) /\ OnePerSeat(r) /\ SameSpots(room, r) /\ OnlyChips(r)
    BY HandRoom DEF OnlyChips
  <2>3. SameSeats(r)
    BY <2>2, OnlyChipsSame
  <2>. QED  BY <2>1, <2>2, <2>3, CommitPlaces
<1>. QED  BY <1>1, <1>2, NextIs

LEMMA InitPlaces ==
    ASSUME Init
    PROVE  Placing
<1>1. PICK o \in SetupHand(Created, Created) :
        /\ last = o.did
        /\ IF o.did \in Failures THEN room = Created /\ dealt = {}
           ELSE room = o.room /\ dealt = o.dealt
  BY DEF Init
<1>2. IsRoom(Created) /\ OnePerSeat(Created) /\ Created.btn = NoSeat
  BY CreatedRoom DEF Init, Created
<1>3. GoodOutcome(Created, o)
  BY <1>2, SetupHandGood
<1>4. \/ o.did = "overdraft"
      \/ o.did = "waited" /\ Idle(o.room)
      \/ o.did = "drew" /\ InPlace(o.room)
  BY <1>2, SetupHandChecked DEF BtnIsLocked
<1>5. CASE o.did = "overdraft"
  BY <1>1, <1>5 DEF Placing, Suspended, Failures, SanityChecksHold
<1>6. CASE o.did # "overdraft"
  <2>1. o.did \notin Failures
    BY <1>4, <1>6 DEF Failures
  <2>2. room = o.room /\ dealt = o.dealt /\ last = o.did
    BY <1>1, <2>1
  <2>3. IF o.did = "waited" THEN o.dealt = {} ELSE o.dealt # {}
    BY <1>3, <2>1 DEF GoodOutcome, HandIsPlayed
  <2>. QED  BY <1>4, <1>6, <2>2, <2>3 DEF Placing, SanityChecksHold
<1>. QED  BY <1>5, <1>6

LEMMA StutterPlaces ==
    ASSUME Placing, UNCHANGED vars
    PROVE  Placing'
BY DEF Placing, vars, SanityChecksHold, Suspended

LEMMA PlacesStay == Spec => []Placing
<1>1. Init => Placing
  BY InitPlaces
<1>2. IInv /\ Placing /\ [Next]_vars => Placing'
  BY NextPlaces, StutterPlaces
<1>. QED  BY <1>1, <1>2, SeatsAndDebts, PTL DEF Spec

(* None of the sanity checks that start a hand fails for any number of     *)
(* players and seats, whatever is asked, but in the cases that the         *)
(* property names: the exceptions of next_bb_location_info,                *)
(* btn_sb_locations and post_blinds suspend no other table.                *)
THEOREM ChecksHold == Spec => []SanityChecksHold
<1>1. Placing => SanityChecksHold
  BY DEF Placing
<1>. QED  BY <1>1, PlacesStay, PTL

(* A hand always has two players: nobody plays on alone when the others    *)
(* leave, sit out or lose everything (enough_players_to_play).             *)
THEOREM HandsOfTwo == Spec => [](dealt # {} => \E p, q \in dealt : p # q)
<1>1. IInv /\ Placing => (dealt # {} => \E p, q \in dealt : p # q)
  BY DEF IInv, Placing, InPlace, TwoPlay, ActiveAreDealt
<1>. QED  BY <1>1, SeatsAndDebts, PlacesStay, PTL

(* setup_hand always comes to an end, if only to wait.                     *)
LEMMA SetupHandEnds ==
    ASSUME NEW r, NEW db
    PROVE  SetupHand(r, db) # {}
<1>1. ASSUME NEW s, EnoughPlayers(s) PROVE NewButtons(s) # {}
  <2>1. Ready(s) # {}
    BY <1>1, EnoughAreReady
  <2>2. Active(s) = {} => Cardinality(Active(s)) = 0
    BY FS_EmptySet, Zenon
  <2>. QED  BY <2>1, <2>2 DEF NewButtons
<1>2. ASSUME NEW s, EnoughPlayers(s) PROVE StartsHand(s) # {}
  <2>1. PICK i \in NewButtons(s) : TRUE
    BY <1>1, <1>2
  <2>. QED  BY <2>1 DEF StartsHand
<1> DEFINE paid == Rebuys(r, db)
           kept == QueuedSitouts(paid)
           sat  == IF NewRound(kept) THEN kept ELSE SetSittingGivenBlinds(kept)
<1>3. SetupHand(r, db) =
        IF \E p \in Players : paid.pl[p].balance < 0 THEN {Fails(r, "overdraft")}
        ELSE IF NothingToDo(kept) THEN {Waits(kept)}
        ELSE IF ~EnoughPlayers(kept) THEN {Waits(NotEnough(kept))}
        ELSE IF ~EnoughPlayers(sat) THEN {Waits(NotEnough(sat))}
        ELSE StartsHand(sat)
  BY DEF SetupHand
<1>. HIDE DEF paid, kept, sat
<1>. QED  BY <1>2, <1>3

(* Whenever a hand is played it can end and the table go on, which is the  *)
(* assumption of FairSpec that the hands of a table that is not suspended  *)
(* may be required to end.                                                 *)
THEOREM HandsCanEnd == Spec => [](dealt # {} => \E r \in AfterHand : SetupHand(r, room) # {})
<1>1. IInv /\ (dealt # {} => \E p, q \in dealt : p # q) =>
        (dealt # {} => \E r \in AfterHand : SetupHand(r, room) # {})
  <2> SUFFICES ASSUME IInv, NEW p \in dealt, NEW q \in dealt, p # q
               PROVE  \E r \in AfterHand : SetupHand(r, room) # {}
    OBVIOUS
  <2>1. PICK kind \in scene.lost : TRUE
    BY ScenesAssumption DEF IInv
  <2>2. Paid(p, q, Loss(room.pl[q], kind)) \in AfterHand
    <3>1. <<p, q>> \in {pair \in dealt \X dealt : pair[1] # pair[2]}
      OBVIOUS
    <3>. QED  BY <2>1, <3>1 DEF AfterHand
  <2>. QED  BY <2>2, SetupHandEnds
<1>. QED  BY <1>1, SeatsAndDebts, HandsOfTwo, PTL

(* What a hand leaves to the next                                          *)
LEMMA HandMoves ==
    ASSUME IInv, Placing, Next, dealt # {}, last' = "rotated"
    PROVE  /\ BlindsInOrder(room) =>
                 /\ \A p \in dealt \cap dealt' :
                       room.pl[p].pos = room.bb =>
                          room'.sb = room.bb \/ room.sb \in SeatsBetween(room.bb, room'.bb)
                 /\ BlindsInOrder(room') \/ SmallMayPassBig(room)
           /\ \A p \in dealt' \ dealt :
                 \/ room'.pl[p].pos \notin {room'.btn} \cup SeatsBetween(room'.btn, room'.bb)
                 \/ /\ room.pl[p].state = AtBlinds
                    /\ \E q \in dealt' \ dealt :
                          room'.pl[q].pos = room'.bb /\ room.pl[q].state = InPending
<1>1. PICK r \in AfterHand : Commit(SetupHand(r, room))
  BY NextIs, RequestPlaces DEF HandEnds
<1>2. IsRoom(r) /\ OnePerSeat(r) /\ SameSpots(room, r) /\ OnlyChips(r) /\ IsRoom(room)
  BY <1>1, HandRoom DEF OnlyChips, IInv
<1>3. /\ SameSeats(r) /\ InPlace(r)
      /\ SmallMayPassBig(r) => SmallMayPassBig(room)
      /\ BlindsInOrder(r) <=> BlindsInOrder(room)
  BY <1>2, OnlyChipsSame DEF Placing
<1>4. PICK o \in SetupHand(r, room) :
        /\ last' = o.did
        /\ IF o.did \in Failures THEN UNCHANGED <<room, dealt, owing>>
           ELSE room' = o.room /\ dealt' = o.dealt /\ owing' = Missed(o)
  BY <1>1 DEF Commit
<1>5. o.did = "rotated" /\ room' = o.room /\ dealt' = o.dealt
  BY <1>4 DEF Failures
<1>6. PICK s : MovesOn(r, s, o)
  BY <1>2, <1>5, SetupHandChecked
<1>7. dealt = Active(r) /\ r.bb = room.bb /\ r.sb = room.sb
  BY <1>2, <1>3 DEF SameSeats, SameSpots, IInv, ActiveAreDealt
<1>8. dealt' \subseteq Players /\ dealt \subseteq Players
  <2>1. \A p \in dealt' : p \in Players
    <3>1. GoodOutcome(r, o)
      BY <1>2, SetupHandGood
    <3>. QED  BY <1>5, <3>1 DEF GoodOutcome, HandIsPlayed, Failures, Active
  <2>. QED  BY <1>7, <2>1 DEF Active
<1>9. \A p \in Players : r.pl[p].pos = room.pl[p].pos /\ r.pl[p].state = room.pl[p].state
  BY <1>2 DEF OnlyChips
<1>10. BlindsInOrder(r) =>
         /\ \A p \in Active(r) \cap o.dealt :
               r.pl[p].pos = r.bb => o.room.sb = r.bb \/ r.sb \in SeatsBetween(r.bb, o.room.bb)
         /\ BlindsInOrder(o.room) \/ SmallMayPassBig(r)
  BY <1>2, <1>3, <1>5, <1>6, MovesChecked
<1>11. \A p \in o.dealt \ Active(r) :
          \/ o.room.pl[p].pos \notin {o.room.btn} \cup SeatsBetween(o.room.btn, o.room.bb)
          \/ /\ r.pl[p].state = AtBlinds
             /\ \E q \in o.dealt \ Active(r) :
                   o.room.pl[q].pos = o.room.bb /\ r.pl[q].state = InPending
  BY <1>2, <1>3, <1>5, <1>6, MovesChecked
<1>12. BlindsInOrder(room) =>
         /\ \A p \in dealt \cap dealt' :
               room.pl[p].pos = room.bb =>
                  room'.sb = room.bb \/ room.sb \in SeatsBetween(room.bb, room'.bb)
         /\ BlindsInOrder(room') \/ SmallMayPassBig(room)
  BY <1>3, <1>5, <1>7, <1>8, <1>9, <1>10
<1>13. ASSUME NEW p \in dealt' \ dealt
       PROVE  \/ room'.pl[p].pos \notin {room'.btn} \cup SeatsBetween(room'.btn, room'.bb)
              \/ /\ room.pl[p].state = AtBlinds
                 /\ \E q \in dealt' \ dealt :
                       room'.pl[q].pos = room'.bb /\ room.pl[q].state = InPending
  BY <1>5, <1>7, <1>8, <1>9, <1>11
<1>. QED  BY <1>12, <1>13

(* For any number of seats: who posted the big blind and plays on posts    *)
(* the small one, and the blinds stay in order, unless one who waits for   *)
(* the next hand takes the big blind from one who waits for it.            *)
THEOREM SmallFollowsBig == Spec => SmallBlindFollowsBig
<1>1. IInv /\ Placing /\ [Next]_vars =>
        [dealt # {} /\ last' = "rotated" /\ BlindsInOrder(room) =>
           /\ \A p \in dealt \cap dealt' :
                 room.pl[p].pos = room.bb =>
                    room'.sb = room.bb \/ room.sb \in SeatsBetween(room.bb, room'.bb)
           /\ BlindsInOrder(room') \/ SmallMayPassBig(room)]_vars
  BY HandMoves
<1>. QED  BY <1>1, SeatsAndDebts, PlacesStay, PTL DEF Spec, SmallBlindFollowsBig

(* ... and nobody comes in on the button or between it and the big blind   *)
(* (must_wait_to_sit_in_players), but in the case that the property names. *)
THEOREM NobodyGoesFirst == Spec => NobodyJumpsIn
<1>1. IInv /\ Placing /\ [Next]_vars =>
        [dealt # {} /\ last' = "rotated" =>
          \A p \in dealt' \ dealt :
             \/ room'.pl[p].pos \notin {room'.btn} \cup SeatsBetween(room'.btn, room'.bb)
             \/ /\ room.pl[p].state = AtBlinds
                /\ \E q \in dealt' \ dealt :
                      room'.pl[q].pos = room'.bb /\ room.pl[q].state = InPending]_vars
  BY HandMoves
<1>. QED  BY <1>1, SeatsAndDebts, PlacesStay, PTL DEF Spec, NobodyJumpsIn

-----------------------------------------------------------------------------
(* The chips                                                               *)

(* No chips move: what each user owns stays, and so does an old stack in   *)
(* the row of who has no seat.                                             *)
OwnsSame(x, y) ==
    /\ Owned(y) = Owned(x)
    /\ ~x.seated => ~y.seated /\ y.stack = x.stack

NoChipsMove(r, s) == \A p \in Players : OwnsSame(r.pl[p], s.pl[p])

(* Who is not sent away has his seat at the end, or may not be sent away.  *)
Remain(r, s)     == \A p \in Players : Fresh(r.pl[p]) => s.pl[p].seated
RemainFresh(r, s) == \A p \in Players : Fresh(r.pl[p]) => Fresh(s.pl[p])

LEMMA OwnsRows ==
    ASSUME NEW x \in Rows
    PROVE  /\ OwnsSame(x, x)
           /\ OwnsSame(x, SitInNow(x)) /\ SitInNow(x).seated = x.seated
           /\ Fresh(x) => Fresh(SitInNow(x))
           /\ OwnsSame(x, SitOutNow(x)) /\ SitOutNow(x).seated = x.seated
           /\ Fresh(x) => Fresh(SitOutNow(x))
           /\ x.seated => OwnsSame(x, LeaveNow(x))
           /\ OwnsSame(x, StartOver(x)) /\ StartOver(x).seated = x.seated
<1>1. x \in PlayerRow /\ x.balance \in Nat /\ x.stack \in Nat
  BY DEF Rows, PlayerRow
<1>2. OwnsSame(x, x)
  BY DEF OwnsSame
<1>3. ASSUME NEW y, y.seated = x.seated, y.stack = x.stack, y.balance = x.balance
      PROVE  OwnsSame(x, y)
  BY <1>3 DEF OwnsSame, Owned
<1>4. /\ SitInNow(x).seated = x.seated /\ SitInNow(x).stack = x.stack
      /\ SitInNow(x).balance = x.balance /\ SitInNow(x).state = In /\ SitInNow(x).orbits = x.orbits
  BY <1>1 DEF SitInNow, PlayerRow
<1>5. /\ SitOutNow(x).seated = x.seated /\ SitOutNow(x).stack = x.stack
      /\ SitOutNow(x).balance = x.balance /\ SitOutNow(x).state = Out /\ SitOutNow(x).orbits = x.orbits
  BY <1>1 DEF SitOutNow, PlayerRow
<1>6. /\ StartOver(x).seated = x.seated /\ StartOver(x).stack = x.stack
      /\ StartOver(x).balance = x.balance
  BY <1>1 DEF StartOver, PlayerRow
<1>7. /\ ~LeaveNow(x).seated /\ LeaveNow(x).balance = x.balance + x.stack
  BY <1>1 DEF LeaveNow, PlayerRow
<1>8. x.seated => OwnsSame(x, LeaveNow(x))
  <2>1. x.seated => Owned(LeaveNow(x)) = Owned(x)
    BY <1>1, <1>7 DEF Owned
  <2>. QED  BY <2>1 DEF OwnsSame
<1>9. Fresh(x) => Fresh(SitInNow(x)) /\ Fresh(SitOutNow(x))
  BY <1>4, <1>5 DEF Fresh, In, Out, Leaving
<1>. QED  BY <1>2, <1>3, <1>4, <1>5, <1>6, <1>8, <1>9

LEMMA OwnsTransitive ==
    ASSUME NEW x, NEW y, NEW z, OwnsSame(x, y), OwnsSame(y, z)
    PROVE  OwnsSame(x, z)
BY DEF OwnsSame

LEMMA NoChipsMoveOn ==
    ASSUME NEW r, NEW s, NEW t, NoChipsMove(r, s), NoChipsMove(s, t)
    PROVE  NoChipsMove(r, t)
BY OwnsTransitive DEF NoChipsMove

(* queued_sitouts_and_boot_empty_stacks                                    *)
LEMMA QueuedSitoutsChips ==
    ASSUME NEW r, IsRoom(r)
    PROVE  NoChipsMove(r, QueuedSitouts(r)) /\ RemainFresh(r, QueuedSitouts(r))
<1> DEFINE queued(s) == {p \in Active(r) : r.pl[p].state = s}
           outs      == queued(OutPending) \cup ({p \in Active(r) : r.pl[p].stack = 0} \ queued(Leaving))
           s1        == Each(r, outs, SitOutNow)
           t         == Each(s1, queued(Leaving), LeaveNow)
<1>1. QueuedSitouts(r) = t
  BY DEF QueuedSitouts
<1>2. \A p \in Players : s1.pl[p] = IF p \in outs THEN SitOutNow(r.pl[p]) ELSE r.pl[p]
  <2>. HIDE DEF outs
  <2>. QED  BY DEF Each, IsRoom
<1>3. \A p \in Players : t.pl[p] = IF p \in queued(Leaving) THEN LeaveNow(s1.pl[p]) ELSE s1.pl[p]
  <2>1. outs \in SUBSET Seated(r)
    BY DEF Seated, Active, IsActive
  <2>2. IsRoom(s1)
    <3>. HIDE DEF outs
    <3>. QED  BY <2>1, SitOutRooms DEF Follows
  <2>. HIDE DEF s1, queued
  <2>. QED  BY <2>2 DEF Each, IsRoom
<1>4. \A p \in outs : p \notin queued(Leaving)
  BY DEF Leaving, OutPending
<1>5. \A p \in queued(Leaving) : r.pl[p].seated /\ ~Fresh(r.pl[p])
  BY DEF Active, IsActive, Fresh
<1> HIDE DEF s1, t, outs, queued
<1>6. ASSUME NEW p \in Players
      PROVE  OwnsSame(r.pl[p], t.pl[p]) /\ (Fresh(r.pl[p]) => Fresh(t.pl[p]))
  <2>1. r.pl[p] \in Rows
    BY RowOf
  <2>2. CASE p \in queued(Leaving)
    <3>1. t.pl[p] = LeaveNow(r.pl[p])
      BY <1>2, <1>3, <1>4, <2>2
    <3>. QED  BY <1>5, <2>1, <2>2, <3>1, OwnsRows
  <2>3. CASE p \notin queued(Leaving)
    BY <1>2, <1>3, <2>1, <2>3, OwnsRows DEF Fresh
  <2>. QED  BY <2>2, <2>3
<1>. QED  BY <1>1, <1>6 DEF NoChipsMove, RemainFresh

(* set_sitting_given_blinds                                                *)
LEMMA SetSittingChips ==
    ASSUME NEW r, IsRoom(r)
    PROVE  NoChipsMove(r, SetSittingGivenBlinds(r)) /\ RemainFresh(r, SetSittingGivenBlinds(r))
<1> DEFINE x(p)    == r.pl[p]
           takes   == {p \in Seated(r) : \/ x(p).state = AtBlinds
                                         \/ ~IsSittingOut(x(p)) /\ ~x(p).sitOutAtBlinds}
           reached == {p \in Seated(r) :
                         /\ x(p).pos # r.bb
                         /\ \A q \in takes : Distance(r.bb, x(p).pos) <= Distance(r.bb, x(q).pos)}
           ins     == {p \in reached : x(p).state = AtBlinds}
           outs    == {p \in reached : ~IsSittingOut(x(p)) /\ x(p).sitOutAtBlinds}
           s1      == Each(r, ins, SitInNow)
           t       == Each(s1, outs, SitOutNow)
<1>1. SetSittingGivenBlinds(r) = t
  BY DEF SetSittingGivenBlinds
<1>2. \A p \in Players : s1.pl[p] = IF p \in ins THEN SitInNow(r.pl[p]) ELSE r.pl[p]
  <2>. HIDE DEF ins
  <2>. QED  BY DEF Each, IsRoom
<1>3. \A p \in Players : t.pl[p] = IF p \in outs THEN SitOutNow(s1.pl[p]) ELSE s1.pl[p]
  <2>1. ins \in SUBSET Seated(r)
    OBVIOUS
  <2>2. IsRoom(s1)
    <3>. HIDE DEF ins
    <3>. QED  BY <2>1, SitInRooms DEF Follows
  <2>. HIDE DEF s1, outs
  <2>. QED  BY <2>2 DEF Each, IsRoom
<1>4. \A p \in ins : p \notin outs
  BY DEF IsSittingOut
<1> HIDE DEF s1, t, ins, outs
<1>5. ASSUME NEW p \in Players
      PROVE  OwnsSame(r.pl[p], t.pl[p]) /\ (Fresh(r.pl[p]) => Fresh(t.pl[p]))
  <2>1. r.pl[p] \in Rows
    BY RowOf
  <2>2. t.pl[p] \in {r.pl[p], SitInNow(r.pl[p]), SitOutNow(r.pl[p])}
    BY <1>2, <1>3, <1>4
  <2>. QED  BY <2>1, <2>2, OwnsRows DEF Fresh
<1>. QED  BY <1>1, <1>5 DEF NoChipsMove, RemainFresh

(* lock_btn_to_active_player and all_pending_sitting_actions               *)
LEMMA NotEnoughChips ==
    ASSUME NEW r, IsRoom(r)
    PROVE  NoChipsMove(r, NotEnough(r)) /\ Remain(r, NotEnough(r))
<1> DEFINE n == NotEnough(r)
           waiting(s) == {p \in Seated(r) : r.pl[p].state = s}
           locked     == IF Ready(r) = {} THEN r
                         ELSE [r EXCEPT !.btn = r.pl[CHOOSE p \in Ready(r) : TRUE].pos,
                                        !.sb = NoSeat, !.bb = NoSeat]
           s1 == Each(locked, waiting(OutPending), SitOutNow)
           s2 == Each(s1, waiting(InPending), SitInNow)
<1>1. n = Each(s2, waiting(Leaving), LeaveNow)
  BY DEF NotEnough
<1>2. "pl" \in DOMAIN locked /\ locked.pl = r.pl /\ DOMAIN r.pl = Players
  BY DEF IsRoom
<1>3. /\ "pl" \in DOMAIN s1 /\ DOMAIN s1.pl = Players
      /\ \A p \in Players : s1.pl[p] = IF p \in waiting(OutPending) THEN SitOutNow(r.pl[p]) ELSE r.pl[p]
  <2>. HIDE DEF waiting, locked
  <2>. QED  BY <1>2 DEF Each
<1>4. /\ "pl" \in DOMAIN s2 /\ DOMAIN s2.pl = Players
      /\ \A p \in Players : s2.pl[p] = IF p \in waiting(InPending) THEN SitInNow(s1.pl[p]) ELSE s1.pl[p]
  <2>. HIDE DEF waiting, s1
  <2>. QED  BY <1>3 DEF Each
<1>5. \A p \in Players : n.pl[p] = IF p \in waiting(Leaving) THEN LeaveNow(s2.pl[p]) ELSE s2.pl[p]
  <2>. HIDE DEF waiting, s2, n
  <2>. QED  BY <1>1, <1>4 DEF Each
<1>6. \A p \in Players :
         \/ p \in waiting(Leaving) /\ p \notin waiting(OutPending) /\ p \notin waiting(InPending)
         \/ p \notin waiting(Leaving) /\ ~(p \in waiting(OutPending) /\ p \in waiting(InPending))
  BY DEF Leaving, OutPending, InPending
<1>7. \A p \in waiting(Leaving) : r.pl[p].seated /\ ~Fresh(r.pl[p])
  BY DEF Seated, Fresh
<1> HIDE DEF n, s1, s2, waiting
<1>8. ASSUME NEW p \in Players
      PROVE  OwnsSame(r.pl[p], n.pl[p]) /\ (Fresh(r.pl[p]) => n.pl[p].seated)
  <2>1. r.pl[p] \in Rows
    BY RowOf
  <2>2. CASE p \in waiting(Leaving)
    <3>1. n.pl[p] = LeaveNow(r.pl[p])
      BY <1>3, <1>4, <1>5, <1>6, <2>2
    <3>. QED  BY <1>7, <2>1, <2>2, <3>1, OwnsRows
  <2>3. CASE p \notin waiting(Leaving)
    <3>1. n.pl[p] \in {r.pl[p], SitInNow(r.pl[p]), SitOutNow(r.pl[p])}
      BY <1>3, <1>4, <1>5, <1>6, <2>3
    <3>. QED  BY <2>1, <3>1, OwnsRows DEF Fresh
  <2>. QED  BY <2>2, <2>3
<1>. QED  BY <1>8 DEF NoChipsMove, Remain, n

(* Only what it owes changes in a row that owes a big blind from now on.   *)
LEMMA OwesBigRow ==
    ASSUME NEW x \in Rows
    PROVE  LET y == [x EXCEPT !.owesBb = TRUE]
           IN  /\ y \in Rows /\ y.seated = x.seated
               /\ y.stack = x.stack /\ y.balance = x.balance
BY DEF Rows, PlayerRow

(* Who is passed by the big blind too often leaves with his stack.         *)
LEMMA MissTheBlindsChips ==
    ASSUME NEW r, IsRoom(r)
    PROVE  NoChipsMove(r, MissTheBlinds(r)) /\ Remain(r, MissTheBlinds(r))
<1> DEFINE at(seats) == {q \in Players : r.pl[q].pos \in seats}
           bumped    == {q \in at(SkippedBig(r)) \cap Seated(r) : r.pl[q].orbits >= MaxOrbits}
           skipped   == (at(SkippedBig(r)) \cap Seated(r)) \ bumped
           small     == {q \in at(SkippedSmall(r)) : ~r.pl[q].owesBb}
           s1        == Each(r, at(SkippedBig(r)), LAMBDA x : [x EXCEPT !.owesBb = TRUE])
           s2        == Each(s1, bumped, LeaveNow)
           s3        == Each(s2, skipped, LAMBDA x : [x EXCEPT !.orbits = @ + 1])
           s4        == Each(s3, small, LAMBDA x : [x EXCEPT !.owesSb = TRUE])
<1>1. MissTheBlinds(r) = s4
  BY DEF MissTheBlinds
<1>2. DOMAIN r.pl = Players /\ DOMAIN s1.pl = Players /\ DOMAIN s2.pl = Players /\ DOMAIN s3.pl = Players
  BY DEF Each, IsRoom
<1>3. "pl" \in DOMAIN r /\ "pl" \in DOMAIN s1 /\ "pl" \in DOMAIN s2 /\ "pl" \in DOMAIN s3
  BY DEF Each, IsRoom
<1>4. \A p \in Players : s1.pl[p] = IF p \in at(SkippedBig(r)) THEN [r.pl[p] EXCEPT !.owesBb = TRUE]
                                    ELSE r.pl[p]
  BY DEF Each, IsRoom
<1>5. \A p \in Players : s2.pl[p] = IF p \in bumped THEN LeaveNow(s1.pl[p]) ELSE s1.pl[p]
  <2>. HIDE DEF s1, bumped
  <2>. QED  BY <1>2, <1>3 DEF Each
<1>6. \A p \in Players : s3.pl[p] = IF p \in skipped THEN [s2.pl[p] EXCEPT !.orbits = @ + 1]
                                    ELSE s2.pl[p]
  <2>. HIDE DEF s2, skipped
  <2>. QED  BY <1>2, <1>3 DEF Each
<1>7. \A p \in Players : s4.pl[p] = IF p \in small THEN [s3.pl[p] EXCEPT !.owesSb = TRUE]
                                    ELSE s3.pl[p]
  <2>. HIDE DEF s3, small
  <2>. QED  BY <1>2, <1>3 DEF Each
<1>8. \A p \in bumped : r.pl[p].seated /\ r.pl[p].orbits >= MaxOrbits
  BY DEF Seated
<1> HIDE DEF at, bumped, skipped, small, s1, s2, s3, s4
<1>9. ASSUME NEW p \in Players
      PROVE  OwnsSame(r.pl[p], s4.pl[p]) /\ (Fresh(r.pl[p]) => s4.pl[p].seated)
  <2>1. r.pl[p] \in Rows
    BY RowOf
  <2>2. /\ s1.pl[p] \in Rows /\ s1.pl[p].seated = r.pl[p].seated
        /\ s1.pl[p].stack = r.pl[p].stack /\ s1.pl[p].balance = r.pl[p].balance
    BY <1>4, <2>1, OwesBigRow
  <2>3. OwnsSame(r.pl[p], s1.pl[p])
    BY <2>2 DEF OwnsSame, Owned
  <2>4. /\ OwnsSame(s1.pl[p], s2.pl[p]) /\ s2.pl[p] \in Rows
        /\ s2.pl[p].seated \/ p \in bumped \/ ~s1.pl[p].seated
    BY <1>5, <1>8, <2>2, OwnsRows, LeaveRow
  <2>5. DOMAIN s2.pl[p] = {"seated", "pos", "state", "sitOutAtBlinds", "owesSb", "owesBb", "orbits",
                           "stack", "rebuy", "auto", "balance"}
    BY <2>4 DEF Rows, PlayerRow
  <2>6. /\ DOMAIN s3.pl[p] = DOMAIN s2.pl[p] /\ s3.pl[p].seated = s2.pl[p].seated
        /\ s3.pl[p].stack = s2.pl[p].stack /\ s3.pl[p].balance = s2.pl[p].balance
    BY <1>6, <2>5
  <2>7. /\ s4.pl[p].seated = s3.pl[p].seated
        /\ s4.pl[p].stack = s3.pl[p].stack /\ s4.pl[p].balance = s3.pl[p].balance
    BY <1>7, <2>5, <2>6
  <2>8. OwnsSame(s2.pl[p], s4.pl[p])
    BY <2>6, <2>7 DEF OwnsSame, Owned
  <2>9. OwnsSame(r.pl[p], s4.pl[p])
    BY <2>3, <2>4, <2>8, OwnsTransitive
  <2>10. Fresh(r.pl[p]) => p \notin bumped
    <3>1. r.pl[p].orbits \in Nat /\ MaxOrbits \in Nat
      BY <2>1, BlindsAssumption DEF Rows, PlayerRow
    <3>. QED  BY <1>8, <3>1 DEF Fresh
  <2>. QED  BY <2>2, <2>4, <2>6, <2>7, <2>9, <2>10 DEF Fresh
<1>. QED  BY <1>1, <1>9 DEF NoChipsMove, Remain

(* Who waits for the next hand sits in: that is all.                       *)
LEMMA SitPendingInChips ==
    ASSUME NEW r, NEW s, IsRoom(s), NEW at
    PROVE  /\ NoChipsMove(s, SitPendingIn(r, s, at))
           /\ \A p \in Players : SitPendingIn(r, s, at).pl[p].seated = s.pl[p].seated
<1> DEFINE in == {p \in Seated(r) : r.pl[p].state = InPending} \ MustWait(r, at)
           t  == SitPendingIn(r, s, at)
<1>1. \A p \in Players : t.pl[p] = IF p \in in THEN SitInNow(s.pl[p]) ELSE s.pl[p]
  BY DEF SitPendingIn, Each, IsRoom
<1> HIDE DEF in, t
<1>2. ASSUME NEW p \in Players
      PROVE  OwnsSame(s.pl[p], t.pl[p]) /\ t.pl[p].seated = s.pl[p].seated
  <2>1. s.pl[p] \in Rows
    BY RowOf
  <2>. QED  BY <1>1, <2>1, OwnsRows
<1>. QED  BY <1>2 DEF NoChipsMove, t

LEMMA RotatedChips ==
    ASSUME NEW r, IsRoom(r)
    PROVE  NoChipsMove(r, Rotated(r)) /\ Remain(r, Rotated(r))
<1> DEFINE at == PositionsInRotation(r)
           m  == MissTheBlinds(r)
           t  == SitPendingIn(r, m, at)
<1>1. IsRoom(m)
  BY MissTheBlindsOwes DEF Follows
<1>2. NoChipsMove(r, m) /\ Remain(r, m)
  BY MissTheBlindsChips
<1>3. NoChipsMove(m, t) /\ \A p \in Players : t.pl[p].seated = m.pl[p].seated
  <2>. HIDE DEF m, at
  <2>. QED  BY <1>1, SitPendingInChips
<1>4. Rotated(r).pl = t.pl
  <2>1. "pl" \in DOMAIN t
    BY <1>1 DEF SitPendingIn, Each, IsRoom
  <2>. QED  BY <2>1 DEF Rotated, Placed
<1> HIDE DEF m, at, t
<1>5. NoChipsMove(r, t) /\ Remain(r, t)
  BY <1>2, <1>3, NoChipsMoveOn DEF Remain
<1>. QED  BY <1>4, <1>5 DEF NoChipsMove, Remain

LEMMA DrawnChips ==
    ASSUME NEW r, IsRoom(r), NEW at
    PROVE  NoChipsMove(r, Drawn(r, at)) /\ Remain(r, Drawn(r, at))
<1> DEFINE s == Each(r, Seated(r), StartOver)
           f == [p \in Players |-> IF p \in Seated(r) THEN StartOver(r.pl[p]) ELSE r.pl[p]]
           t == SitPendingIn(r, s, at)
<1>1. \A p \in Players : f[p] \in Rows /\ OwnsSame(r.pl[p], f[p]) /\ f[p].seated = r.pl[p].seated
  BY RowOf, StartOverRow, OwnsRows DEF Seated
<1>2. s = [r EXCEPT !.pl = f]
  BY DEF Each
<1>3. f \in [Players -> Rows]
  BY <1>1
<1>4. IsRoom(s) /\ s.pl = f
  <2>. HIDE DEF f
  <2>. QED  BY <1>2, <1>3, Replaced
<1>5. NoChipsMove(s, t) /\ \A p \in Players : t.pl[p].seated = s.pl[p].seated
  <2>. HIDE DEF s
  <2>. QED  BY <1>4, SitPendingInChips
<1>6. Drawn(r, at).pl = t.pl
  <2>1. "pl" \in DOMAIN t
    BY <1>4 DEF SitPendingIn, Each, IsRoom
  <2>. QED  BY <2>1 DEF Drawn, Placed
<1> HIDE DEF s, f, t
<1>7. NoChipsMove(r, s)
  BY <1>1, <1>4 DEF NoChipsMove
<1>8. NoChipsMove(r, t)
  BY <1>5, <1>7, NoChipsMoveOn
<1>9. Remain(r, t)
  BY <1>1, <1>4, <1>5 DEF Remain, Fresh
<1>. QED  BY <1>6, <1>8, <1>9 DEF NoChipsMove, Remain

LEMMA PostAndDealChips ==
    ASSUME NEW r, IsRoom(r)
    PROVE  /\ NoChipsMove(r, PostAndDeal(r))
           /\ \A p \in Players : PostAndDeal(r).pl[p].seated = r.pl[p].seated
<1> DEFINE small == Active(r) \ BigBlindPlayers(r)
           s1    == Each(r, Active(r), LAMBDA x : [x EXCEPT !.owesBb = FALSE, !.orbits = 0])
           t     == Each(s1, small, LAMBDA x : [x EXCEPT !.owesSb = FALSE])
<1>1. PostAndDeal(r) = t
  BY DEF PostAndDeal
<1>2. /\ "pl" \in DOMAIN s1 /\ DOMAIN s1.pl = Players
      /\ \A p \in Players : s1.pl[p] = IF p \in Active(r)
                                       THEN [r.pl[p] EXCEPT !.owesBb = FALSE, !.orbits = 0]
                                       ELSE r.pl[p]
  BY DEF Each, IsRoom
<1>3. \A p \in Players : t.pl[p] = IF p \in small THEN [s1.pl[p] EXCEPT !.owesSb = FALSE] ELSE s1.pl[p]
  <2>. HIDE DEF s1, small
  <2>. QED  BY <1>2 DEF Each
<1> HIDE DEF s1, small, t
<1>4. ASSUME NEW p \in Players
      PROVE  OwnsSame(r.pl[p], t.pl[p]) /\ t.pl[p].seated = r.pl[p].seated
  <2>1. r.pl[p] \in Rows
    BY RowOf
  <2>2. DOMAIN r.pl[p] = {"seated", "pos", "state", "sitOutAtBlinds", "owesSb", "owesBb", "orbits",
                          "stack", "rebuy", "auto", "balance"}
    BY <2>1 DEF Rows, PlayerRow
  <2>3. /\ DOMAIN s1.pl[p] = DOMAIN r.pl[p] /\ s1.pl[p].seated = r.pl[p].seated
        /\ s1.pl[p].stack = r.pl[p].stack /\ s1.pl[p].balance = r.pl[p].balance
    BY <1>2, <2>2
  <2>4. /\ t.pl[p].seated = s1.pl[p].seated
        /\ t.pl[p].stack = s1.pl[p].stack /\ t.pl[p].balance = s1.pl[p].balance
    BY <1>3, <2>2, <2>3
  <2>. QED  BY <2>3, <2>4 DEF OwnsSame, Owned
<1>. QED  BY <1>1, <1>4 DEF NoChipsMove

(* setup_hand after the rebuys                                             *)
OutcomeKeepsChips(r, o) ==
    o.did \notin Failures => NoChipsMove(r, o.room) /\ Remain(r, o.room)

LEMMA DealsChips ==
    ASSUME NEW r, NEW d, IsRoom(d), NoChipsMove(r, d), Remain(r, d),
           NEW did, NEW o, o = Deals(d, did)
    PROVE  OutcomeKeepsChips(r, o)
<1>1. CASE BigBlindPlayers(d) = {}
  BY <1>1 DEF Deals, Fails, Outcome, OutcomeKeepsChips, Failures
<1>2. CASE BigBlindPlayers(d) # {}
  <2>1. o.room = PostAndDeal(d)
    BY <1>2 DEF Deals, Outcome
  <2>2. NoChipsMove(r, o.room)
    BY <2>1, PostAndDealChips, NoChipsMoveOn
  <2>3. Remain(r, o.room)
    BY <2>1, PostAndDealChips DEF Remain
  <2>. QED  BY <2>2, <2>3 DEF OutcomeKeepsChips
<1>. QED  BY <1>1, <1>2

LEMMA DrawsChips ==
    ASSUME NEW r, IsRoom(r), EnoughPlayers(r), NEW btn, NEW o, o = DrawsFrom(r, btn)
    PROVE  OutcomeKeepsChips(r, o)
<1>1. CASE ~HasSeat(r, btn, Ready(r))
  BY <1>1 DEF DrawsFrom, Fails, Outcome, OutcomeKeepsChips, Failures
<1>2. CASE HasSeat(r, btn, Ready(r))
  <2> DEFINE d == Drawn(r, PositionsFromBtn(r, btn))
  <2>1. btn \in Seats
    BY <1>2, RowOf DEF HasSeat, Ready, Seated, Rows
  <2>2. IsRoom(d)
    BY <2>1, PositionsFromBtnType, DrawnOwes
  <2>3. NoChipsMove(r, d) /\ Remain(r, d)
    BY DrawnChips
  <2>4. o = Deals(d, "drew")
    BY <1>2 DEF DrawsFrom
  <2>. HIDE DEF d
  <2>. QED  BY <2>2, <2>3, <2>4, DealsChips
<1>. QED  BY <1>1, <1>2

LEMMA RotatesChips ==
    ASSUME NEW r, IsRoom(r), OnePerSeat(r), r.bb \in Seats, Active(r) # {},
           NEW o, o = Rotates(r)
    PROVE  OutcomeKeepsChips(r, o)
<1>1. CASE RotationFails(r) \/ ButtonRunsOntoBig(r)
  BY <1>1 DEF Rotates, Fails, Outcome, OutcomeKeepsChips, Failures
<1>2. CASE ~RotationFails(r) /\ ~ButtonRunsOntoBig(r)
  <2>1. IsRoom(Rotated(r))
    BY <1>2, RotatedOwes
  <2>2. NoChipsMove(r, Rotated(r)) /\ Remain(r, Rotated(r))
    BY RotatedChips
  <2>3. o = Deals(Rotated(r), "rotated")
    BY <1>2 DEF Rotates
  <2>. QED  BY <2>1, <2>2, <2>3, DealsChips
<1>. QED  BY <1>1, <1>2

LEMMA StartsChips ==
    ASSUME NEW r, IsRoom(r), OnePerSeat(r), EnoughPlayers(r), NEW o \in StartsHand(r)
    PROVE  OutcomeKeepsChips(r, o)
<1>1. CASE FirstHand(r) \/ EffectivelyNewGame(r)
  <2>1. PICK i \in NewButtons(r) : o = DrawsFrom(r, i)
    BY <1>1 DEF StartsHand
  <2>. QED  BY <2>1, DrawsChips
<1>2. CASE ~FirstHand(r) /\ ~EffectivelyNewGame(r) /\ BtnIsLocked(r)
  <2>1. o = DrawsFrom(r, r.btn)
    BY <1>2 DEF StartsHand
  <2>. QED  BY <2>1, DrawsChips
<1>3. CASE ~FirstHand(r) /\ ~EffectivelyNewGame(r) /\ ~BtnIsLocked(r)
  <2>1. o = Rotates(r)
    BY <1>3 DEF StartsHand
  <2>2. r.bb \in Seats
    BY <1>3 DEF FirstHand, BtnIsLocked, IsRoom, Spots
  <2>3. Active(r) = {} => Cardinality(Active(r)) = 0
    BY FS_EmptySet, Zenon
  <2>4. Active(r) # {}
    BY <1>3, <2>3 DEF EffectivelyNewGame
  <2>. QED  BY <2>1, <2>2, <2>4, RotatesChips
<1>. QED  BY <1>1, <1>2, <1>3

(* A rebuy moves chips from the balance to the stack, which is nobody's    *)
(* when the player has no seat.                                            *)
LostInRow(x, y) == IF x.seated THEN 0 ELSE y.stack - x.stack

LEMMA RebuysChips ==
    ASSUME NEW r, IsRoom(r), NEW db, NEW p \in Players
    PROVE  LET x == r.pl[p]
               y == Rebuys(r, db).pl[p]
           IN  /\ y.seated = x.seated /\ y.state = x.state /\ y.orbits = x.orbits
               /\ Owned(y) = Owned(x) - LostInRow(x, y)
<1> DEFINE x == r.pl[p]
           c == RebuyCheck(x)
           y == RebuyUpdate(c, db.pl[p].balance)
<1>1. x \in Rows /\ x.stack \in Nat /\ x.auto \in Nat /\ x.rebuy \in Nat /\ x.balance \in Nat
  <2>1. x \in Rows
    BY RowOf
  <2>. HIDE DEF x
  <2>. QED  BY <2>1, BuyinAssumption DEF Rows, PlayerRow
<1>2. Rebuys(r, db).pl[p] = y
  BY DEF Rebuys, IsRoom
<1> HIDE DEF x
<1>3. /\ c.seated = x.seated /\ c.state = x.state /\ c.orbits = x.orbits
      /\ c.stack = x.stack /\ c.balance = x.balance /\ c.rebuy \in Int
      /\ DOMAIN c = {"seated", "pos", "state", "sitOutAtBlinds", "owesSb", "owesBb", "orbits",
                     "stack", "rebuy", "auto", "balance"}
  BY <1>1 DEF RebuyCheck, Rows, PlayerRow
<1> HIDE DEF c
<1>4. y.seated = c.seated /\ y.state = c.state /\ y.orbits = c.orbits
  BY <1>3 DEF RebuyUpdate
<1>5. \/ y.stack = c.stack /\ y.balance = c.balance
      \/ y.stack = c.stack + c.rebuy /\ y.balance = c.balance - c.rebuy
  BY <1>3 DEF RebuyUpdate
<1> HIDE DEF y
<1>6. Owned(y) = Owned(x) - LostInRow(x, y)
  BY <1>1, <1>3, <1>4, <1>5 DEF Owned, LostInRow
<1>. QED  BY <1>2, <1>3, <1>4, <1>6 DEF x

(* The whole of setup_hand: the rebuys of who has no seat are lost.        *)
LEMMA SetupHandChips ==
    ASSUME NEW r, IsRoom(r), OnePerSeat(r), NEW db, IsRoom(db), NEW o \in SetupHand(r, db),
           o.did \notin Failures, NEW p \in Players
    PROVE  LET x == r.pl[p]
               z == o.room.pl[p]
           IN  /\ Fresh(x) => z.seated
               /\ ~x.seated => ~z.seated
               /\ Owned(z) = Owned(x) - LostInRow(x, z)
<1> DEFINE paid == Rebuys(r, db)
           kept == QueuedSitouts(paid)
           sat  == IF NewRound(kept) THEN kept ELSE SetSittingGivenBlinds(kept)
<1>1. SetupHand(r, db) =
        IF \E q \in Players : paid.pl[q].balance < 0 THEN {Fails(r, "overdraft")}
        ELSE IF NothingToDo(kept) THEN {Waits(kept)}
        ELSE IF ~EnoughPlayers(kept) THEN {Waits(NotEnough(kept))}
        ELSE IF ~EnoughPlayers(sat) THEN {Waits(NotEnough(sat))}
        ELSE StartsHand(sat)
  BY DEF SetupHand
<1>2. \A q \in Players : paid.pl[q].balance \in Int
  BY RebuyBalance
<1>3. /\ paid.pl[p].seated = r.pl[p].seated /\ paid.pl[p].state = r.pl[p].state
      /\ paid.pl[p].orbits = r.pl[p].orbits
      /\ Owned(paid.pl[p]) = Owned(r.pl[p]) - LostInRow(r.pl[p], paid.pl[p])
  BY RebuysChips
<1>4. (\A q \in Players : paid.pl[q].balance >= 0) => Follows(r, paid)
  BY RebuysFollow
<1>5. IsRoom(paid) => /\ Follows(paid, kept)
                      /\ NoChipsMove(paid, kept) /\ RemainFresh(paid, kept)
  <2>. HIDE DEF paid
  <2>. QED  BY QueuedSitoutsFollows, QueuedSitoutsChips
<1>6. IsRoom(kept) => /\ Follows(kept, sat)
                      /\ NoChipsMove(kept, sat) /\ RemainFresh(kept, sat)
  <2>. HIDE DEF kept
  <2>1. IsRoom(kept) => Follows(kept, kept)
    BY RowKeepsSelf DEF Follows, Keeps, SameSpots
  <2>2. NoChipsMove(kept, kept) /\ RemainFresh(kept, kept)
    BY DEF NoChipsMove, OwnsSame, RemainFresh
  <2>. QED  BY <2>1, <2>2, SetSittingFollows, SetSittingChips
<1> HIDE DEF paid, kept, sat
<1>7. ~ \E q \in Players : paid.pl[q].balance < 0
  BY <1>1 DEF Fails, Outcome, Failures
<1>8. \A q \in Players : paid.pl[q].balance >= 0
  BY <1>2, <1>7
<1>9. Follows(r, paid) /\ Follows(paid, kept) /\ Follows(kept, sat)
      /\ IsRoom(paid) /\ IsRoom(kept) /\ IsRoom(sat)
  BY <1>4, <1>5, <1>6, <1>8 DEF Follows
<1>10. OnePerSeat(sat)
  BY <1>9, KeepsTransitive, KeepsStays, StaysInSeats DEF Follows
<1>11. /\ NoChipsMove(paid, kept) /\ NoChipsMove(paid, sat)
       /\ RemainFresh(paid, kept) /\ RemainFresh(paid, sat)
  BY <1>5, <1>6, <1>9, NoChipsMoveOn DEF RemainFresh
<1>12. NoChipsMove(paid, o.room) /\ Remain(paid, o.room)
  <2>1. CASE o = Waits(kept)
    <3>1. o.room = kept
      BY <2>1 DEF Waits, Outcome
    <3>. QED  BY <1>11, <3>1 DEF Remain, RemainFresh, Fresh
  <2>2. CASE o = Waits(NotEnough(kept))
    <3>1. o.room = NotEnough(kept)
      BY <2>2 DEF Waits, Outcome
    <3>. QED  BY <1>9, <1>11, <3>1, NotEnoughChips, NoChipsMoveOn DEF Remain, RemainFresh
  <2>3. CASE o = Waits(NotEnough(sat))
    <3>1. o.room = NotEnough(sat)
      BY <2>3 DEF Waits, Outcome
    <3>. QED  BY <1>9, <1>11, <3>1, NotEnoughChips, NoChipsMoveOn DEF Remain, RemainFresh
  <2>4. CASE EnoughPlayers(sat) /\ o \in StartsHand(sat)
    <3>1. NoChipsMove(sat, o.room) /\ Remain(sat, o.room)
      BY <1>9, <1>10, <2>4, StartsChips DEF OutcomeKeepsChips
    <3>. QED  BY <1>11, <3>1, NoChipsMoveOn DEF Remain, RemainFresh
  <2>. QED  BY <1>1, <1>7, <2>1, <2>2, <2>3, <2>4
<1>13. OwnsSame(paid.pl[p], o.room.pl[p]) /\ (Fresh(paid.pl[p]) => o.room.pl[p].seated)
  BY <1>12 DEF NoChipsMove, Remain
<1>14. Fresh(r.pl[p]) => Fresh(paid.pl[p])
  BY <1>3 DEF Fresh
<1>. QED  BY <1>3, <1>13, <1>14 DEF OwnsSame, LostInRow

-----------------------------------------------------------------------------
(* All the chips                                                           *)

LEMMA OwnedType ==
    ASSUME NEW x \in Rows
    PROVE  Owned(x) \in Nat /\ x.stack \in Nat
BY DEF Owned, Rows, PlayerRow

LEMMA ChipsType == ASSUME NEW r, IsRoom(r) PROVE Chips(r) \in Int
<1> DEFINE f == [p \in Players |-> Owned(r.pl[p])]
<1>1. \A p \in Players : f[p] \in Int
  BY RowOf, OwnedType
<1>2. Chips(r) = SumFunctionOnSet(f, Players) /\ IsFiniteSet(Players)
  BY BlindsAssumption DEF Chips
<1> HIDE DEF f
<1>. QED  BY <1>1, <1>2, SumIsInt

(* When some players have less, they all have less by the sum of that.     *)
LEMMA ChipsAreLess ==
    ASSUME NEW r, IsRoom(r), NEW s, IsRoom(s), NEW ps \in SUBSET Players, NEW less,
           \A p \in Players :
              /\ less[p] \in Int
              /\ Owned(s.pl[p]) = Owned(r.pl[p]) - (IF p \in ps THEN less[p] ELSE 0)
    PROVE  Chips(s) = Chips(r) - SumFunctionOnSet(less, ps)
<1> DEFINE f == [p \in Players |-> Owned(s.pl[p])]
           g == [p \in Players |-> IF p \in ps THEN less[p] ELSE 0]
           h == [p \in Players |-> Owned(r.pl[p])]
<1>1. IsFiniteSet(Players) /\ IsFiniteSet(ps)
  BY BlindsAssumption, FS_Subset
<1>2. \A p \in Players : f[p] \in Int /\ g[p] \in Int /\ h[p] \in Int /\ h[p] = f[p] + g[p]
  <2> SUFFICES ASSUME NEW p \in Players
               PROVE  f[p] \in Int /\ g[p] \in Int /\ h[p] \in Int /\ h[p] = f[p] + g[p]
    OBVIOUS
  <2>1. Owned(s.pl[p]) \in Int /\ Owned(r.pl[p]) \in Int
    BY RowOf, OwnedType
  <2>. QED  BY <2>1
<1>3. Chips(s) = SumFunctionOnSet(f, Players) /\ Chips(r) = SumFunctionOnSet(h, Players)
  BY DEF Chips
<1>4. \A p \in ps : g[p] \in Int /\ g[p] = less[p]
  OBVIOUS
<1>5. \A p \in Players \ ps : g[p] = 0
  OBVIOUS
<1> HIDE DEF f, g, h
<1>6. SumFunctionOnSet(h, Players) = SumFunctionOnSet(f, Players) + SumFunctionOnSet(g, Players)
  BY <1>1, <1>2, SumAdds
<1>7. SumFunctionOnSet(g, Players) = SumFunctionOnSet(g, ps)
  BY <1>1, <1>2, <1>5, SumWithin
<1>8. SumFunctionOnSet(g, ps) = SumFunctionOnSet(less, ps)
  BY <1>1, <1>4, SumEqual
<1>9. SumFunctionOnSet(f, Players) \in Int /\ SumFunctionOnSet(g, Players) \in Int
  BY <1>1, <1>2, SumIsInt
<1>. QED  BY <1>3, <1>6, <1>7, <1>8, <1>9

(* What a player wins in a hand another one loses.                         *)
LEMMA HandChips ==
    ASSUME IInv, NEW r \in AfterHand
    PROVE  /\ Chips(r) = Chips(room) /\ Chips(room) \in Int
           /\ \A p \in Players : ~room.pl[p].seated => r.pl[p] = room.pl[p]
<1>1. PICK ps \in {pair \in dealt \X dealt : pair[1] # pair[2]}, kind \in scene.lost :
        r = Paid(ps[1], ps[2], Loss(room.pl[ps[2]], kind))
  BY DEF AfterHand
<1> DEFINE w == ps[1]
           l == ps[2]
           amt == Loss(room.pl[ps[2]], kind)
<1>2. w \in dealt /\ l \in dealt /\ w # l
  OBVIOUS
<1>3. \A p \in dealt : p \in Players /\ room.pl[p].seated
  BY DEF IInv, ActiveAreDealt, Active, IsActive
<1>4. amt \in Nat
  BY <1>2, <1>3, LossType
<1>5. r = Paid(w, l, amt)
  BY <1>1
<1> HIDE DEF w, l, amt
<1>6. IsRoom(room) /\ IsRoom(r)
  BY HandRoom DEF IInv
<1>7. \A p \in Players :
         r.pl[p] = IF p = l THEN [room.pl[l] EXCEPT !.stack = @ - amt]
                   ELSE IF p = w THEN [room.pl[w] EXCEPT !.stack = @ + amt] ELSE room.pl[p]
  BY <1>2, <1>3, <1>5, <1>6 DEF Paid, IsRoom
<1> DEFINE less == [p \in Players |-> IF p = l THEN amt ELSE IF p = w THEN -amt ELSE 0]
<1>8. ASSUME NEW p \in Players
      PROVE  /\ less[p] \in Int
             /\ Owned(r.pl[p]) = Owned(room.pl[p]) - (IF p \in {w, l} THEN less[p] ELSE 0)
  <2>1. /\ room.pl[p] \in Rows /\ Owned(room.pl[p]) \in Nat
        /\ room.pl[p].stack \in Nat /\ room.pl[p].balance \in Nat
    <3>1. room.pl[p] \in Rows
      BY <1>6, RowOf
    <3>. QED  BY <3>1, OwnedType DEF Rows, PlayerRow
  <2>2. CASE p \notin {w, l}
    BY <1>7, <2>1, <2>2
  <2>3. CASE p = w
    <3>1. /\ r.pl[p].seated /\ room.pl[p].seated /\ r.pl[p].balance = room.pl[p].balance
          /\ r.pl[p].stack = room.pl[p].stack + amt
      BY <1>2, <1>3, <1>7, <2>1, <2>3 DEF Rows, PlayerRow
    <3>. QED  BY <1>2, <1>4, <2>1, <2>3, <3>1 DEF Owned
  <2>4. CASE p = l
    <3>1. /\ r.pl[p].seated /\ room.pl[p].seated /\ r.pl[p].balance = room.pl[p].balance
          /\ r.pl[p].stack = room.pl[p].stack - amt
      BY <1>2, <1>3, <1>7, <2>1, <2>4 DEF Rows, PlayerRow
    <3>. QED  BY <1>2, <1>4, <2>1, <2>4, <3>1 DEF Owned
  <2>. QED  BY <2>2, <2>3, <2>4
<1>9. {w, l} \in SUBSET Players /\ IsFiniteSet({w, l})
  <2>1. {w, l} \in SUBSET Players
    BY <1>2, <1>3
  <2>. QED  BY <2>1, BlindsAssumption, FS_Subset
<1>10. SumFunctionOnSet(less, {w, l}) = 0
  <2>1. \A p \in {w, l} : less[p] \in Int
    BY <1>8, <1>9
  <2>2. less[w] = -amt /\ less[l] = amt
    BY <1>2, <1>3
  <2>. HIDE DEF less
  <2>3. {w, l} \ {w} = {l} /\ {l} \ {l} = {}
    BY <1>2
  <2>4. SumFunctionOnSet(less, {}) = 0
    BY <1>9, <2>1, SumSteps
  <2>5. SumFunctionOnSet(less, {l}) = less[l] + SumFunctionOnSet(less, {l} \ {l})
    BY <1>9, <2>1, SumSteps
  <2>6. SumFunctionOnSet(less, {w, l}) = less[w] + SumFunctionOnSet(less, {w, l} \ {w})
    BY <1>9, <2>1, SumSteps
  <2>7. SumFunctionOnSet(less, {l}) = less[l] + 0
    BY <2>3, <2>4, <2>5, Zenon
  <2>8. SumFunctionOnSet(less, {w, l}) = less[w] + (less[l] + 0)
    BY <2>3, <2>6, <2>7, Zenon
  <2>. QED  BY <1>4, <2>2, <2>8
<1> HIDE DEF less
<1>11. Chips(r) = Chips(room) - SumFunctionOnSet(less, {w, l})
  BY <1>6, <1>8, <1>9, ChipsAreLess
<1>12. Chips(room) \in Int
  BY <1>6, ChipsType
<1>13. \A p \in Players : ~room.pl[p].seated => r.pl[p] = room.pl[p]
  BY <1>2, <1>3, <1>7
<1>. QED  BY <1>10, <1>11, <1>12, <1>13

(* What a step does with the chips when the room is what a request, or the *)
(* hand, makes of it.                                                      *)
StepChips == \E gone \in {Absent} \cup {Absent \cup {p} : p \in LeavesAtOnce} :
                Chips(room') = Chips(room) - TakenFrom(gone)

LEMMA GoneIs ==
    ASSUME NEW gone, gone \in SUBSET Players, IsRoom(room), IsRoom(room'), NEW n \in Int,
           n = Chips(room), NEW r, IsRoom(r), Chips(r) = n,
           \A p \in Players :
              Owned(room'.pl[p]) = Owned(r.pl[p])
                 - (IF p \in gone THEN room'.pl[p].stack - room.pl[p].stack ELSE 0)
    PROVE  Chips(room') = Chips(room) - TakenFrom(gone)
<1> DEFINE less == [p \in Players |-> room'.pl[p].stack - room.pl[p].stack]
<1>1. \A p \in Players :
         /\ less[p] \in Int
         /\ Owned(room'.pl[p]) = Owned(r.pl[p]) - (IF p \in gone THEN less[p] ELSE 0)
  <2> SUFFICES ASSUME NEW p \in Players
               PROVE  /\ less[p] \in Int
                      /\ Owned(room'.pl[p]) = Owned(r.pl[p]) - (IF p \in gone THEN less[p] ELSE 0)
    OBVIOUS
  <2>1. room'.pl[p].stack \in Int /\ room.pl[p].stack \in Int
    BY RowOf, OwnedType
  <2>. QED  BY <2>1
<1>2. TakenFrom(gone) = SumFunctionOnSet(less, gone)
  BY DEF TakenFrom
<1> HIDE DEF less
<1>. QED  BY <1>1, <1>2, ChipsAreLess

(* A dispatch that raises an exception                                     *)
LEMMA NothingMoves ==
    ASSUME IInv, room' = room
    PROVE  StepChips
<1>1. IsRoom(room) /\ IsRoom(room')
  BY DEF IInv
<1>2. Absent \in SUBSET Players
  BY DEF Absent
<1>3. Chips(room) \in Int
  BY <1>1, ChipsType
<1>4. ASSUME NEW p \in Players
      PROVE  Owned(room'.pl[p]) = Owned(room.pl[p])
                - (IF p \in Absent THEN room'.pl[p].stack - room.pl[p].stack ELSE 0)
  <2>1. room.pl[p].stack \in Int /\ Owned(room.pl[p]) \in Int
    BY <1>1, RowOf, OwnedType
  <2>. QED  BY <2>1
<1>5. Chips(room') = Chips(room) - TakenFrom(Absent)
  BY <1>1, <1>2, <1>3, <1>4, GoneIs
<1>. QED  BY <1>5 DEF StepChips

(* A request: who leaves at once may pay for a rebuy after that.           *)
LEMMA RequestChips ==
    ASSUME IInv, NEW p \in Players, NEW y, GoodRow(p, y), Becomes(p, y)
    PROVE  StepChips
<1> DEFINE r == Asked(p, y)
<1>1. IsRoom(room) /\ IsRoom(r) /\ OnePerSeat(r)
  BY AskedRoom DEF IInv
<1>2. \A q \in Players : r.pl[q] = IF q = p THEN y ELSE room.pl[q]
  BY <1>1 DEF IsRoom, Asked
<1>3. Commit(IF dealt = {} THEN SetupHand(r, room) ELSE {Outcome(r, dealt, {}, "nothing")})
  BY DEF Becomes, Step, Asked
<1>4. IsRoom(room')
  BY RequestKeeps DEF IInv
<1> HIDE DEF r
<1>5. PICK o \in (IF dealt = {} THEN SetupHand(r, room) ELSE {Outcome(r, dealt, {}, "nothing")}) :
        IF o.did \in Failures THEN room' = room ELSE room' = o.room
  BY <1>3 DEF Commit
<1>6. CASE o.did \in Failures
  BY <1>5, <1>6, NothingMoves
<1>7. CASE o.did \notin Failures
  <2>1. ASSUME NEW q \in Players
        PROVE  /\ Fresh(r.pl[q]) => room'.pl[q].seated
               /\ ~r.pl[q].seated => ~room'.pl[q].seated
               /\ Owned(room'.pl[q]) = Owned(r.pl[q]) - LostInRow(r.pl[q], room'.pl[q])
               /\ dealt # {} => room'.pl[q] = r.pl[q]
    <3>1. CASE dealt = {}
      <4>1. o \in SetupHand(r, room) /\ room' = o.room
        BY <1>5, <1>7, <3>1
      <4>. QED  BY <1>1, <1>7, <3>1, <4>1, SetupHandChips
    <3>2. CASE dealt # {}
      <4>1. room' = r
        BY <1>5, <1>7, <3>2 DEF Outcome
      <4>2. Owned(r.pl[q]) \in Nat /\ r.pl[q].stack \in Nat
        BY <1>1, RowOf, OwnedType
      <4>. QED  BY <3>2, <4>1, <4>2 DEF LostInRow, Fresh
    <3>. QED  BY <3>1, <3>2
  <2> DEFINE gone == IF y.seated \/ dealt # {} THEN Absent ELSE Absent \cup {p}
  <2>2. gone \in {Absent} \cup {Absent \cup {q} : q \in LeavesAtOnce}
    <3>1. CASE y.seated \/ dealt # {}
      BY <3>1
    <3>2. CASE ~y.seated /\ dealt = {}
      <4>1. room.pl[p].seated /\ IsSittingOut(room.pl[p])
        BY <3>2 DEF GoodRow, Fresh
      <4>2. ~room'.pl[p].seated
        BY <1>2, <2>1, <3>2
      <4>3. p \in LeavesAtOnce
        BY <3>2, <4>1, <4>2 DEF LeavesAtOnce, Seated
      <4>. QED  BY <3>2, <4>3
    <3>. QED  BY <3>1, <3>2
  <2>3. gone \in SUBSET Players
    BY DEF Absent
  <2>4. ASSUME NEW q \in Players
        PROVE  Owned(room'.pl[q]) = Owned(room.pl[q])
                  - (IF q \in gone THEN room'.pl[q].stack - room.pl[q].stack ELSE 0)
    <3>1. /\ Owned(room.pl[q]) \in Nat /\ Owned(r.pl[q]) \in Nat
          /\ room.pl[q].stack \in Nat /\ room'.pl[q].stack \in Nat
      BY <1>1, <1>4, RowOf, OwnedType
    <3>2. Owned(r.pl[q]) = Owned(room.pl[q])
      BY <1>2 DEF GoodRow
    <3>3. CASE q \in Absent
      <4>1. ~room.pl[q].seated /\ ~room'.pl[q].seated
        BY <3>3 DEF Absent, Seated
      <4>2. q # p
        BY <1>2, <2>1, <4>1 DEF GoodRow
      <4>3. r.pl[q] = room.pl[q]
        BY <1>2, <4>2
      <4>. QED  BY <2>1, <3>1, <3>3, <4>1, <4>3 DEF LostInRow
    <3>4. CASE q \notin Absent /\ q # p
      <4>1. room.pl[q].seated
        BY <1>2, <2>1, <3>4 DEF Absent, Seated
      <4>. QED  BY <1>2, <2>1, <3>1, <3>4, <4>1 DEF LostInRow
    <3>5. CASE q \notin Absent /\ q = p /\ y.seated
      BY <1>2, <2>1, <3>1, <3>2, <3>5 DEF LostInRow
    <3>6. CASE q \notin Absent /\ q = p /\ ~y.seated /\ dealt # {}
      BY <1>2, <2>1, <3>1, <3>2, <3>6
    <3>7. CASE q \notin Absent /\ q = p /\ ~y.seated /\ dealt = {}
      <4>1. y.stack = room.pl[p].stack
        BY <3>7 DEF GoodRow, Fresh
      <4>. QED  BY <1>2, <2>1, <3>1, <3>2, <3>7, <4>1 DEF LostInRow
    <3>. QED  BY <3>3, <3>4, <3>5, <3>6, <3>7
  <2> HIDE DEF gone
  <2>5. Chips(room') = Chips(room) - TakenFrom(gone)
    BY <1>1, <1>4, <2>3, <2>4, ChipsType, GoneIs
  <2>. QED  BY <2>2, <2>5 DEF StepChips
<1>. QED  BY <1>6, <1>7

(* The end of a hand                                                       *)
LEMMA HandEndsChips ==
    ASSUME IInv, HandEnds
    PROVE  StepChips
<1>1. PICK r \in AfterHand : Commit(SetupHand(r, room))
  BY DEF HandEnds
<1>2. IsRoom(room) /\ IsRoom(r) /\ OnePerSeat(r)
  BY HandRoom DEF IInv
<1>3. IsRoom(room')
  BY HandKeeps DEF IInv
<1>4. /\ Chips(r) = Chips(room) /\ Chips(room) \in Int
      /\ \A p \in Players : ~room.pl[p].seated => r.pl[p] = room.pl[p]
  BY HandChips
<1>5. PICK o \in SetupHand(r, room) :
        IF o.did \in Failures THEN room' = room ELSE room' = o.room
  BY <1>1 DEF Commit
<1>6. CASE o.did \in Failures
  BY <1>5, <1>6, NothingMoves
<1>7. CASE o.did \notin Failures
  <2>1. room' = o.room
    BY <1>5, <1>7
  <2>2. ASSUME NEW p \in Players
        PROVE  Owned(room'.pl[p]) = Owned(r.pl[p])
                  - (IF p \in Absent THEN room'.pl[p].stack - room.pl[p].stack ELSE 0)
    <3>1. /\ ~r.pl[p].seated => ~room'.pl[p].seated
          /\ Owned(room'.pl[p]) = Owned(r.pl[p]) - LostInRow(r.pl[p], room'.pl[p])
      BY <1>2, <1>5, <1>7, <2>1, SetupHandChips
    <3>2. r.pl[p].seated = room.pl[p].seated
      BY HandRoom
    <3>3. CASE p \in Absent
      <4>1. ~room.pl[p].seated /\ r.pl[p] = room.pl[p]
        BY <1>4, <3>3 DEF Absent, Seated
      <4>. QED  BY <3>1, <3>3, <4>1 DEF LostInRow
    <3>4. CASE p \notin Absent
      <4>1. r.pl[p].seated
        BY <3>1, <3>2, <3>4 DEF Absent, Seated
      <4>. QED  BY <3>1, <3>4, <4>1 DEF LostInRow
    <3>. QED  BY <3>3, <3>4
  <2>3. Absent \in SUBSET Players
    BY DEF Absent
  <2>4. Chips(room') = Chips(room) - TakenFrom(Absent)
    BY <1>2, <1>3, <1>4, <2>2, <2>3, GoneIs
  <2>. QED  BY <2>4 DEF StepChips
<1>. QED  BY <1>6, <1>7

(* For any number of players, buy-ins and requests: what the users own is  *)
(* what they owned before, but for the rebuys that are taken from whoever  *)
(* has left, or leaves before the rebuys of the same dispatch.             *)
THEOREM ChipsAreKept == Spec => ChipsStay
<1>1. ASSUME IInv, [Next]_vars
      PROVE  [\E gone \in {Absent} \cup {Absent \cup {p} : p \in LeavesAtOnce} :
                 Chips(room') = Chips(room) - TakenFrom(gone)]_vars
  <2>1. ASSUME Next PROVE StepChips
    BY <1>1, <2>1, NextIs, RequestChips, HandEndsChips
  <2>. QED  BY <1>1, <2>1 DEF StepChips
<1>. QED  BY <1>1, SeatsAndDebts, PTL DEF Spec, ChipsStay

=============================================================================
