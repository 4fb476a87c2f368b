---------------------------- MODULE HoldemHandProofs ----------------------------
(***************************************************************************)
(* Proofs about HoldemHand, for every number of seats, blinds, stacks and  *)
(* hands.  The first inductive invariant (IInv) is about types and chips,  *)
(* the one about preset actions (PresetInv) about who waits for a turn:    *)
(* both hold whatever is posted.  The one about the betting (BetInv) is    *)
(* what min_bet_amt relies on: with it every street is closed, nobody wins *)
(* more than it matched and the hand is a refinement of ChipPot.           *)
(***************************************************************************)
EXTENDS HoldemHand, SidePotsProofs

(* The smaller of two amounts is one of them and at most each.             *)
LEMMA MinOfTwo ==
    ASSUME NEW a \in Nat, NEW c \in Nat
    PROVE  Min({a, c}) \in Nat /\ Min({a, c}) <= a /\ Min({a, c}) <= c
<1>1. \E x \in {a, c} : \A y \in {a, c} : x <= y
  OBVIOUS
<1>2. /\ Min({a, c}) \in {a, c}
      /\ \A y \in {a, c} : Min({a, c}) <= y
  BY <1>1 DEF Min
<1>3. QED
  BY <1>2

(* Two players at least: everybody has an opponent.                        *)
LEMMA Opponent ==
    ASSUME NEW players \in SUBSET Seats, Cardinality(players) >= 2, NEW p \in players
    PROVE  \E q \in players : q # p
<1>1. SUFFICES ASSUME \A q \in players : q = p
               PROVE  FALSE
  OBVIOUS
<1>2. players = {p}
  BY <1>1
<1>3. Cardinality(players) = 1
  BY <1>2, FS_Singleton
<1>4. QED
  BY <1>3

-----------------------------------------------------------------------------
(* The inductive invariant.  A player's bet of the street is part of what  *)
(* it wagered in the hand.                                                 *)
BetsAreWagers == \A p \in Seats : uncollected[p] <= wagers[p]

(* What was collected on the earlier streets was matched: nobody put in    *)
(* more than somebody else did.  This is what return_uncalled_bets leaves  *)
(* behind when a street is dealt, and betting does not change it.          *)
CollectedIsMatched ==
    InHand => \A p \in dealt : \E q \in dealt \ {p} :
                 wagers[p] - uncollected[p] <= wagers[q] - uncollected[q]

IInv == TypeOK /\ BetsAreWagers /\ ChipsAccounted /\ CollectedIsMatched

(* Chips come back to the one player who leads, and only those that        *)
(* another player did not match.                                           *)
LEMMA ReturnedChips ==
    ASSUME TypeOK, BetsAreWagers, CollectedIsMatched, InHand,
           NEW returned \in UncalledReturns
    PROVE  /\ returned \in [Seats -> Nat]
           /\ \A p \in Seats : returned[p] <= uncollected[p]
           /\ \A p \in dealt : \E q \in dealt \ {p} :
                 wagers[p] - returned[p] <= wagers[q] - returned[q]
<1> USE DEF TypeOK, BetsAreWagers, CollectedIsMatched
<1>1. CASE returned = Zero /\ \A p \in dealt : \E q \in dealt \ {p} : wagers[p] <= wagers[q]
  BY <1>1 DEF Zero
<1>2. CASE \E p, q \in dealt : /\ Leads(p, q)
                               /\ returned = [Zero EXCEPT ![p] = wagers[p] - wagers[q]]
  <2>1. PICK p \in dealt, q \in dealt :
               /\ Leads(p, q)
               /\ returned = [Zero EXCEPT ![p] = wagers[p] - wagers[q]]
    BY <1>2
  <2>2. p \in Seats /\ q \in Seats /\ p # q /\ wagers[q] < wagers[p]
    BY <2>1 DEF Leads
  <2>3. \A r \in dealt \ {p} : wagers[r] <= wagers[q]
    BY <2>1 DEF Leads
  <2>4. returned = [s \in Seats |-> IF s = p THEN wagers[p] - wagers[q] ELSE 0]
    BY <2>1, <2>2 DEF Zero
  <2>5. returned \in [Seats -> Nat]
    BY <2>4, <2>2
  <2>6. PICK r \in dealt \ {p} : wagers[p] - uncollected[p] <= wagers[r] - uncollected[r]
    OBVIOUS
  <2>7. wagers[p] - wagers[q] <= uncollected[p]
    BY <2>2, <2>3, <2>6
  <2>8. \A s \in Seats : returned[s] <= uncollected[s]
    BY <2>4, <2>7
  <2>9. \A s \in dealt : \E t \in dealt \ {s} :
           wagers[s] - returned[s] <= wagers[t] - returned[t]
    BY <2>2, <2>3, <2>4
  <2>10. QED
    BY <2>5, <2>8, <2>9
<1>3. CASE \A p \in dealt : \E q \in dealt \ {p} : wagers[p] <= wagers[q]
  <2>1. returned = Zero
    BY <1>3 DEF UncalledReturns
  <2>2. QED
    BY <1>1, <1>3, <2>1
<1>4. CASE ~ \A p \in dealt : \E q \in dealt \ {p} : wagers[p] <= wagers[q]
  <2>1. PICK pq \in dealt \X dealt :
               /\ Leads(pq[1], pq[2])
               /\ returned = [Zero EXCEPT ![pq[1]] = wagers[pq[1]] - wagers[pq[2]]]
    BY <1>4 DEF UncalledReturns
  <2>2. pq[1] \in dealt /\ pq[2] \in dealt
    BY <2>1
  <2>3. QED
    BY <1>2, <2>1, <2>2
<1>5. QED
  BY <1>3, <1>4

-----------------------------------------------------------------------------
(* A betting action in general: what an action does besides the chips, and *)
(* what moving chips from the stack to the bet does.                       *)
LEMMA KeptChipsStep ==
    ASSUME IInv, InHand, phase' \in {"step", "wait"},
           NEW p, NEW action \in LastActions, Played(p, action), KeepChips
    PROVE  IInv'
<1>1. TypeOK'
  BY DEF IInv, TypeOK, Played, KeepChips, NoPreset, Presets, tableVars
<1>2. QED
  BY <1>1 DEF IInv, BetsAreWagers, ChipsAccounted, CollectedIsMatched, InHand,
              Played, KeepChips, tableVars

(* An action that moves chips from the stack to the bet keeps the          *)
(* invariant, as long as the player has them.                              *)
LEMMA PutInStep ==
    ASSUME IInv, InHand, phase' \in {"step", "wait"},
           NEW p, NEW action \in LastActions, Played(p, action),
           NEW amt, PutIn(p, amt),
           p \in Seats => amt \in Nat /\ amt <= stack[p] + uncollected[p]
    PROVE  IInv'
<1>1. /\ stack \in [Seats -> Nat] /\ wagers \in [Seats -> Nat]
      /\ uncollected \in [Seats -> Nat] /\ deadMoney \in [Seats -> Nat]
      /\ startStack \in [Seats -> Nat] /\ dealt \subseteq Seats
      /\ \A r \in Seats : uncollected[r] <= wagers[r]
  BY DEF IInv, TypeOK, BetsAreWagers
<1>2. UNCHANGED <<dealt, sbIdx, bbIdx, handNumber, startStack, deadMoney, board, leaving>>
  BY DEF Played, tableVars
<1>3. \A r \in Seats : r # p =>
         /\ stack'[r] = stack[r] /\ wagers'[r] = wagers[r]
         /\ uncollected'[r] = uncollected[r]
  BY <1>1 DEF PutIn
<1>4. p \in Seats => /\ stack'[p] = stack[p] - amt + uncollected[p]
                     /\ wagers'[p] = wagers[p] + amt - uncollected[p]
                     /\ uncollected'[p] = amt
  BY <1>1 DEF PutIn
<1>5. /\ stack' \in [Seats -> Nat] /\ wagers' \in [Seats -> Nat]
      /\ uncollected' \in [Seats -> Nat]
  <2>1. /\ DOMAIN stack' = Seats /\ DOMAIN wagers' = Seats /\ DOMAIN uncollected' = Seats
        /\ stack' = [r \in Seats |-> stack'[r]]
        /\ wagers' = [r \in Seats |-> wagers'[r]]
        /\ uncollected' = [r \in Seats |-> uncollected'[r]]
    BY <1>1 DEF PutIn
  <2>2. \A r \in Seats : stack'[r] \in Nat /\ wagers'[r] \in Nat /\ uncollected'[r] \in Nat
    BY <1>1, <1>3, <1>4
  <2>3. QED
    BY <2>1, <2>2
<1>6. TypeOK'
  BY <1>2, <1>5 DEF IInv, TypeOK, Played, NoPreset, Presets
<1>7. BetsAreWagers'
  BY <1>1, <1>3, <1>4 DEF BetsAreWagers
<1>8. ChipsAccounted'
  BY <1>1, <1>2, <1>3, <1>4 DEF IInv, ChipsAccounted, InHand
<1>9. \A r \in Seats : wagers'[r] - uncollected'[r] = wagers[r] - uncollected[r]
  BY <1>1, <1>3, <1>4
<1>10. CollectedIsMatched'
  BY <1>1, <1>2, <1>9 DEF IInv, CollectedIsMatched, InHand
<1>11. QED
  BY <1>6, <1>7, <1>8, <1>10 DEF IInv

(* The five betting actions and the steps that play them keep the          *)
(* invariant.                                                              *)
LEMMA FoldStep ==
    ASSUME IInv, InHand, phase' \in {"step", "wait"}, NEW p, Fold(p)
    PROVE  IInv'
  BY KeptChipsStep DEF Fold, LastActions

(* CHECK moves no chips.                                                   *)
LEMMA CheckStep ==
    ASSUME IInv, InHand, phase' \in {"step", "wait"}, NEW p, Check(p)
    PROVE  IInv'
  BY KeptChipsStep DEF Check, LastActions

(* CALL puts in the largest bet or all the player has.                     *)
LEMMA CallStep ==
    ASSUME IInv, InHand, phase' \in {"step", "wait"}, NEW p, Call(p)
    PROVE  IInv'
<1>1. PICK amt \in CallAmts(p) : PutIn(p, amt)
  BY DEF Call
<1>2. p \in Seats => amt \in Nat /\ amt <= stack[p] + uncollected[p]
  <2>1. PICK q \in Holding : amt = IF uncollected[q] <= stack[p] + uncollected[p]
                                   THEN uncollected[q] ELSE stack[p] + uncollected[p]
    BY <1>1 DEF CallAmts
  <2>2. q \in Seats
    BY DEF Holding, IInv, TypeOK
  <2>3. QED
    BY <2>1, <2>2 DEF IInv, TypeOK
<1>3. Played(p, "CALL") /\ "CALL" \in LastActions
  BY DEF Call, LastActions
<1>4. QED
  BY <1>1, <1>2, <1>3, PutInStep

(* BET is from the stack.                                                  *)
LEMMA BetStep ==
    ASSUME IInv, InHand, phase' \in {"step", "wait"}, NEW p \in Seats,
           NEW amt \in 0 .. stack[p], Bet(p, amt)
    PROVE  IInv'
<1>1. stack[p] \in Nat /\ uncollected[p] \in Nat
  BY DEF IInv, TypeOK
<1>2. amt \in Nat /\ amt <= stack[p] + uncollected[p]
  BY <1>1
<1>3. QED
  BY <1>2, PutInStep DEF Bet, LastActions

(* RAISE_TO is from the stack and the bet of the player.                   *)
LEMMA RaiseToStep ==
    ASSUME IInv, InHand, phase' \in {"step", "wait"}, NEW p \in Seats,
           NEW amt \in 0 .. stack[p] + uncollected[p], RaiseTo(p, amt)
    PROVE  IInv'
<1>1. stack[p] \in Nat /\ uncollected[p] \in Nat
  BY DEF IInv, TypeOK
<1>2. amt \in Nat /\ amt <= stack[p] + uncollected[p]
  BY <1>1
<1>3. QED
  BY <1>2, PutInStep DEF RaiseTo, LastActions

(* What the player on turn may do.                                         *)
LEMMA ActStep ==
    ASSUME IInv, NEW p \in Seats, Act(p)
    PROVE  IInv'
<1>1. InHand /\ phase' \in {"step", "wait"}
  BY DEF Act, InHand
<1>2. CASE Fold(p)
  BY <1>1, <1>2, FoldStep
<1>3. CASE Check(p)
  BY <1>1, <1>3, CheckStep
<1>4. CASE Call(p)
  BY <1>1, <1>4, CallStep
<1>5. CASE \E amt \in 0 .. stack[p] : Bet(p, amt)
  BY <1>1, <1>5, BetStep
<1>6. CASE \E amt \in 0 .. stack[p] + uncollected[p] : RaiseTo(p, amt)
  BY <1>1, <1>6, RaiseToStep
<1>7. QED
  BY <1>2, <1>3, <1>4, <1>5, <1>6 DEF Act

(* The clock folds.                                                        *)
LEMMA TimedFoldStep ==
    ASSUME IInv, TimedFold
    PROVE  IInv'
<1>1. InHand /\ phase' \in {"step", "wait"} /\ Fold(NextToAct)
  BY DEF TimedFold, InHand
<1>2. QED
  BY <1>1, FoldStep

(* step() plays a preset action.                                           *)
LEMMA PlayPresetStep ==
    ASSUME IInv, PlayPreset
    PROVE  IInv'
<1>1. InHand /\ phase' \in {"step", "wait"}
  BY DEF PlayPreset, InHand
<1>2. PICK p : p = NextToAct
  OBVIOUS
<1>3. Fold(p) \/ Check(p) \/ Call(p)
  BY <1>2 DEF PlayPreset
<1>4. QED
  BY <1>1, <1>3, FoldStep, CheckStep, CallStep

(* Presets, leave requests and the start of a wait move no chips.          *)
LEMMA TogglesStep ==
    ASSUME IInv, InHand, phase' \in {"step", "wait"},
           UNCHANGED <<chipVars, tableVars, lastAction, hasCards, board>>,
           preset' \in [Seats -> Presets], leaving' \in [Seats -> BOOLEAN]
    PROVE  IInv'
<1>1. TypeOK'
  BY DEF IInv, TypeOK, chipVars, tableVars
<1>2. QED
  BY <1>1 DEF IInv, BetsAreWagers, ChipsAccounted, CollectedIsMatched, InHand,
              chipVars, tableVars

(* A preset changes no chips.                                              *)
LEMMA SetPresetStep ==
    ASSUME IInv, NEW p \in Seats,
           NEW kind \in {"none", "checkfold", "check", "call"}, SetPreset(p, kind)
    PROVE  IInv'
<1>1. PICK amt \in IF kind = "call" THEN CallAmts(p) ELSE {0} :
         preset' = [preset EXCEPT ![p] = [kind |-> kind, amt |-> amt]]
  BY DEF SetPreset
<1>2. amt \in Nat
  <2>1. CASE amt \in CallAmts(p)
    <3>1. PICK q \in Holding : amt = IF uncollected[q] <= stack[p] + uncollected[p]
                                     THEN uncollected[q] ELSE stack[p] + uncollected[p]
      BY <2>1 DEF CallAmts
    <3>2. q \in Seats
      BY DEF Holding, IInv, TypeOK
    <3>3. QED
      BY <3>1, <3>2 DEF IInv, TypeOK
  <2>2. QED
    BY <1>1, <2>1
<1>3. preset' \in [Seats -> Presets]
  BY <1>1, <1>2 DEF IInv, TypeOK, Presets
<1>4. QED
  BY <1>3, TogglesStep DEF SetPreset, IInv, TypeOK, InHand

(* Nor does a request to leave.                                            *)
LEMMA LeavingStep ==
    ASSUME IInv, NEW p \in Seats, LeaveSeat(p) \/ TakeSeat(p)
    PROVE  IInv'
<1>1. leaving' \in [Seats -> BOOLEAN] /\ preset' \in [Seats -> Presets]
  BY DEF LeaveSeat, TakeSeat, IInv, TypeOK
<1>2. QED
  BY <1>1, TogglesStep DEF LeaveSeat, TakeSeat, InHand

(* Nor does waiting.                                                       *)
LEMMA WaitStep ==
    ASSUME IInv, WaitForPlayer
    PROVE  IInv'
  BY TogglesStep DEF WaitForPlayer, IInv, TypeOK, InHand

-----------------------------------------------------------------------------
(* The blinds: what a player posts comes from its stack.                   *)
LEMMA PostedBlinds ==
    ASSUME IInv, NEW p \in Seats, NEW owesBB, NEW owesSB
    PROVE  /\ PostedLive(p, owesBB, owesSB) \in Nat
           /\ PostedDead(p, owesBB, owesSB) \in Nat
           /\ PostedLive(p, owesBB, owesSB) + PostedDead(p, owesBB, owesSB) <= stack[p]
<1>1. stack[p] \in Nat /\ SB \in Nat /\ BB \in Nat
  BY HandAssumption DEF IInv, TypeOK
<1>2. PostedBig(p, owesBB) \in Nat /\ PostedBig(p, owesBB) <= stack[p]
  BY <1>1, MinOfTwo DEF PostedBig
<1>3. stack[p] - PostedBig(p, owesBB) \in Nat
  BY <1>1, <1>2
<1>4. /\ PostedSmall(p, owesBB, owesSB) \in Nat
      /\ PostedSmall(p, owesBB, owesSB) <= stack[p] - PostedBig(p, owesBB)
  BY <1>1, <1>3, MinOfTwo DEF PostedSmall
<1>5. QED
  BY <1>1, <1>2, <1>4 DEF PostedLive, PostedDead

(* Every player pays its blinds from the stack the hand starts with, and   *)
(* nobody has put in more than somebody else on an earlier street: there   *)
(* is none.                                                                *)
LEMMA StartHandStep ==
    ASSUME IInv, NEW players \in SUBSET Seats, Cardinality(players) >= 2,
           NEW sb \in Seats, NEW bb \in Seats, NEW owesBB, NEW owesSB,
           StartHand(players, sb, bb, owesBB, owesSB)
    PROVE  IInv'
<1> DEFINE live(p) == IF p \in players THEN PostedLive(p, owesBB, owesSB) ELSE 0
           dead(p) == IF p \in players THEN PostedDead(p, owesBB, owesSB) ELSE 0
<1>1. \A p \in Seats : /\ live(p) \in Nat /\ dead(p) \in Nat
                       /\ live(p) + dead(p) <= stack[p] /\ stack[p] \in Nat
  BY PostedBlinds DEF IInv, TypeOK
<1>2. /\ stack' = [p \in Seats |-> stack[p] - live(p) - dead(p)]
      /\ wagers' = [p \in Seats |-> live(p)]
      /\ uncollected' = [p \in Seats |-> live(p)]
      /\ deadMoney' = [p \in Seats |-> dead(p)]
  BY DEF StartHand
<1>3. /\ dealt' = players /\ sbIdx' = sb /\ bbIdx' = bb /\ startStack' = stack
      /\ UNCHANGED handNumber /\ board' = 0 /\ phase' = "step"
      /\ hasCards' = [p \in Seats |-> p \in players]
      /\ leaving' = [p \in Seats |-> FALSE]
      /\ preset' = [p \in Seats |-> NoPreset]
  BY DEF StartHand
<1>4. lastAction' \in [Seats -> LastActions]
  BY DEF StartHand, LastActions
<1> HIDE DEF live, dead
<1>5. TypeOK'
  <2>1. /\ stack' \in [Seats -> Nat] /\ wagers' \in [Seats -> Nat]
        /\ uncollected' \in [Seats -> Nat] /\ deadMoney' \in [Seats -> Nat]
    BY <1>1, <1>2
  <2>2. /\ dealt' \subseteq Seats /\ sbIdx' \in Seats /\ bbIdx' \in Seats
        /\ startStack' \in [Seats -> Nat] /\ handNumber' \in Nat
        /\ board' \in {0, 3, 4, 5} /\ phase' \in {"idle", "step", "wait", "crashed"}
    BY <1>3 DEF IInv, TypeOK
  <2>3. /\ hasCards' \in [Seats -> BOOLEAN] /\ leaving' \in [Seats -> BOOLEAN]
        /\ preset' \in [Seats -> Presets]
    BY <1>3 DEF NoPreset, Presets
  <2>4. QED
    BY <1>4, <2>1, <2>2, <2>3 DEF TypeOK
<1>6. BetsAreWagers'
  BY <1>1, <1>2 DEF BetsAreWagers
<1>7. ChipsAccounted'
  BY <1>1, <1>2, <1>3 DEF ChipsAccounted
<1>8. CollectedIsMatched'
  <2>1. \A p \in players : \E q \in players : q # p
    BY Opponent
  <2>2. \A p \in players : wagers'[p] - uncollected'[p] = 0
    BY <1>1, <1>2
  <2>3. QED
    BY <1>3, <2>1, <2>2 DEF CollectedIsMatched
<1>9. QED
  BY <1>5, <1>6, <1>7, <1>8 DEF IInv

(* Blind rotation deals two players at least.                              *)
LEMMA TwoAreDealt ==
    ASSUME NEW players \in SUBSET Seats, NEW joining \in SUBSET players,
           NEW sb \in Seats, NEW bb \in Seats, BlindSeats(players, joining, sb, bb)
    PROVE  Cardinality(players) >= 2
<1>1. IsFiniteSet(players)
  <2>1. IsFiniteSet(Seats)
    BY HandAssumption, FS_Interval DEF Seats
  <2> QED
    BY <2>1, FS_Subset
<1>2. Cardinality(players) \in Nat
  BY <1>1, FS_CardinalityType
<1>3. bb \in players /\ sb # bb
  BY DEF BlindSeats
<1>4. CASE HeadsUp(players, joining, sb, bb)
  <2>1. IsFiniteSet({sb}) /\ Cardinality({sb}) = 1 /\ bb \notin {sb}
    BY <1>3, FS_Singleton
  <2>2. Cardinality({sb} \cup {bb}) = Cardinality({sb}) + 1
    BY <2>1, FS_AddElement
  <2>3. players = {sb} \cup {bb}
    BY <1>4 DEF HeadsUp
  <2> QED
    BY <2>1, <2>2, <2>3
<1>5. CASE Cardinality((players \ joining) \cup {bb}) > 2
  <2> DEFINE alreadyIn == (players \ joining) \cup {bb}
  <2>1. alreadyIn \in SUBSET players
    BY <1>3
  <2>2. Cardinality(alreadyIn) > 2
    BY <1>5
  <2> HIDE DEF alreadyIn
  <2>3. IsFiniteSet(alreadyIn) /\ Cardinality(alreadyIn) <= Cardinality(players)
    BY <1>1, <2>1, FS_Subset
  <2>4. Cardinality(alreadyIn) \in Nat
    BY <2>3, FS_CardinalityType
  <2> QED
    BY <1>2, <2>2, <2>3, <2>4
<1> QED
  BY <1>4, <1>5 DEF BlindSeats

(* Nobody joins on the seat of the small blind.                            *)
LEMMA SmallBlindIsIn ==
    ASSUME NEW players, NEW joining, NEW sb, NEW bb, BlindSeats(players, joining, sb, bb),
           joining \subseteq players
    PROVE  sb \notin joining
  BY DEF BlindSeats, HeadsUp

(* What blind rotation hands over to a hand.                               *)
LEMMA HandIsDealt ==
    ASSUME StartAnyHand
    PROVE  \E players \in SUBSET {p \in Seats : stack[p] > 0 /\ ~leaving[p]} :
           \E joining \in SUBSET players : \E sb, bb \in Seats :
              /\ BlindSeats(players, joining, sb, bb)
              /\ Cardinality(players) >= 2 /\ sb \notin joining
              /\ \E owesBB, owesSB \in SUBSET (joining \ {bb}) :
                    StartHand(players, sb, bb, owesBB, owesSB)
<1>1. PICK players \in SUBSET {p \in Seats : stack[p] > 0 /\ ~leaving[p]},
           joining \in SUBSET Seats, sb \in Seats, bb \in Seats :
         /\ joining \subseteq players
         /\ BlindSeats(players, joining, sb, bb)
         /\ \E owesBB \in SUBSET (joining \ {bb}) : \E owesSB \in SUBSET (joining \ {bb}) :
               StartHand(players, sb, bb, owesBB, owesSB)
  BY DEF StartAnyHand
<1>2. players \in SUBSET Seats /\ joining \in SUBSET players
  BY <1>1
<1>3. Cardinality(players) >= 2 /\ sb \notin joining
  BY <1>1, <1>2, TwoAreDealt, SmallBlindIsIn
<1> QED
  BY <1>1, <1>2, <1>3

(* Any hand that blind rotation lets start.                                *)
LEMMA StartAnyHandStep ==
    ASSUME IInv, StartAnyHand
    PROVE  IInv'
<1>1. PICK players \in SUBSET {p \in Seats : stack[p] > 0 /\ ~leaving[p]},
           sb \in Seats, bb \in Seats :
         /\ Cardinality(players) >= 2
         /\ \E owesBB, owesSB : StartHand(players, sb, bb, owesBB, owesSB)
  BY HandIsDealt
<1>2. players \in SUBSET Seats
  OBVIOUS
<1> QED
  BY <1>1, <1>2, StartHandStep

-----------------------------------------------------------------------------
(* Dealing a street and ending the hand                                    *)
LEMMA DealStreetStep ==
    ASSUME IInv, DealStreet
    PROVE  IInv'
<1>1. InHand /\ TypeOK /\ BetsAreWagers /\ CollectedIsMatched /\ ChipsAccounted
  BY DEF IInv, DealStreet, InHand
<1>2. PICK returned \in UncalledReturns :
         /\ stack'  = [p \in Seats |-> stack[p] + returned[p]]
         /\ wagers' = [p \in Seats |-> wagers[p] - returned[p]]
  BY DEF DealStreet
<1>3. /\ returned \in [Seats -> Nat]
      /\ \A p \in Seats : returned[p] <= uncollected[p]
      /\ \A p \in dealt : \E q \in dealt \ {p} :
            wagers[p] - returned[p] <= wagers[q] - returned[q]
  BY <1>1, ReturnedChips
<1>4. /\ uncollected' = Zero
      /\ UNCHANGED <<phase, dealt, sbIdx, bbIdx, handNumber, startStack,
                     deadMoney, hasCards, leaving>>
  BY DEF DealStreet, tableVars
<1>5. \A p \in Seats : /\ stack[p] \in Nat /\ wagers[p] \in Nat /\ uncollected[p] \in Nat
                       /\ returned[p] \in Nat /\ uncollected[p] <= wagers[p]
  BY <1>1, <1>3 DEF TypeOK, BetsAreWagers
<1>6. TypeOK'
  <2>1. /\ stack' \in [Seats -> Nat] /\ wagers' \in [Seats -> Nat]
        /\ uncollected' \in [Seats -> Nat]
    BY <1>2, <1>3, <1>4, <1>5 DEF Zero
  <2>2. lastAction' \in [Seats -> LastActions] /\ preset' \in [Seats -> Presets]
    BY <1>1 DEF DealStreet, TypeOK, LastActions, Presets, NoPreset
  <2>3. board' \in {0, 3, 4, 5}
    BY <1>1 DEF DealStreet, TypeOK, IsRiverOrEnd
  <2>4. QED
    BY <1>1, <1>4, <2>1, <2>2, <2>3 DEF TypeOK
<1>7. BetsAreWagers'
  BY <1>2, <1>3, <1>4, <1>5 DEF BetsAreWagers, Zero
<1>8. ChipsAccounted'
  <2>1. \A p \in Seats : stack'[p] + wagers'[p] = stack[p] + wagers[p]
    BY <1>2, <1>5
  <2>2. QED
    BY <1>1, <1>4, <2>1 DEF ChipsAccounted, InHand, TypeOK
<1>9. CollectedIsMatched'
  <2>1. dealt \subseteq Seats
    BY <1>1 DEF TypeOK
  <2>2. \A p \in Seats : wagers'[p] - uncollected'[p] = wagers[p] - returned[p]
    BY <1>2, <1>4, <1>5 DEF Zero
  <2>3. QED
    BY <1>3, <1>4, <2>1, <2>2 DEF CollectedIsMatched
<1>10. QED
  BY <1>6, <1>7, <1>8, <1>9 DEF IInv

(* After the payment all bets are gone and every stack is counted in full. *)
LEMMA EndHandStep ==
    ASSUME IInv, EndHand
    PROVE  IInv'
<1>1. InHand /\ TypeOK /\ BetsAreWagers /\ CollectedIsMatched
  BY DEF IInv, EndHand, InHand
<1>2. PICK returned \in UncalledReturns, rank \in [dealt -> Ranks] :
         PayOut(BoardAfter(returned, rank), returned)
  BY DEF EndHand
<1>3. PICK won \in [dealt -> Nat] :
         stack' = [p \in Seats |-> IF p \in dealt THEN stack[p] + returned[p] + won[p]
                                                  ELSE stack[p]]
  BY <1>2 DEF PayOut
<1>4. /\ wagers' = Zero /\ uncollected' = Zero /\ deadMoney' = Zero
      /\ lastAction' = [p \in Seats |-> "NONE"]
      /\ hasCards' = [p \in Seats |-> FALSE]
      /\ preset' = [p \in Seats |-> NoPreset]
      /\ phase' = "idle" /\ handNumber' = handNumber + 1
      /\ UNCHANGED <<dealt, sbIdx, bbIdx, startStack, board, leaving>>
  BY <1>2 DEF PayOut
<1>5. returned \in [Seats -> Nat]
  BY <1>1, ReturnedChips
<1>6. stack' \in [Seats -> Nat]
  BY <1>1, <1>3, <1>5 DEF TypeOK
<1>7. TypeOK'
  <2>1. /\ wagers' \in [Seats -> Nat] /\ uncollected' \in [Seats -> Nat]
        /\ deadMoney' \in [Seats -> Nat]
    BY <1>4 DEF Zero
  <2>2. /\ lastAction' \in [Seats -> LastActions] /\ hasCards' \in [Seats -> BOOLEAN]
        /\ preset' \in [Seats -> Presets]
    BY <1>4 DEF LastActions, Presets, NoPreset
  <2>3. QED
    BY <1>1, <1>4, <1>6, <2>1, <2>2 DEF TypeOK
<1>8. BetsAreWagers' /\ ChipsAccounted' /\ CollectedIsMatched'
  BY <1>4 DEF BetsAreWagers, ChipsAccounted, CollectedIsMatched, InHand, Zero
<1>9. QED
  BY <1>7, <1>8 DEF IInv

(* A payment that raises pays nothing.                                     *)
LEMMA EndHandRaisesStep ==
    ASSUME IInv, EndHandRaises
    PROVE  IInv'
<1>1. /\ phase' = "crashed"
      /\ UNCHANGED <<chipVars, tableVars, lastAction, hasCards, board, leaving, preset>>
  BY DEF EndHandRaises
<1>2. QED
  BY <1>1 DEF IInv, TypeOK, BetsAreWagers, ChipsAccounted, CollectedIsMatched,
              InHand, chipVars, tableVars

-----------------------------------------------------------------------------
(* The table opens with the invariant.                                     *)
LEMMA InitInv == Init => IInv
<1>1. SUFFICES ASSUME Init PROVE IInv
  OBVIOUS
<1>2. 0 \in Seats /\ stack \in [Seats -> Nat]
  BY <1>1, HandAssumption DEF Init, Seats
<1>3. TypeOK
  BY <1>1, <1>2 DEF Init, TypeOK, Zero, NoPreset, Presets, LastActions
<1>4. QED
  BY <1>1, <1>3 DEF Init, IInv, BetsAreWagers, ChipsAccounted, CollectedIsMatched,
                    InHand, Zero

(* Every step keeps it.                                                    *)
LEMMA NextInv == IInv /\ [Next]_vars => IInv'
<1>1. SUFFICES ASSUME IInv, [Next]_vars PROVE IInv'
  OBVIOUS
<1>2. CASE StartAnyHand
  BY <1>1, <1>2, StartAnyHandStep
<1>3. CASE \E p \in Seats : Act(p)
  BY <1>1, <1>3, ActStep
<1>4. CASE TimedFold
  BY <1>1, <1>4, TimedFoldStep
<1>5. CASE \E p \in Seats, kind \in {"none", "checkfold", "check", "call"} :
              SetPreset(p, kind)
  BY <1>1, <1>5, SetPresetStep
<1>6. CASE \E p \in Seats : LeaveSeat(p) \/ TakeSeat(p)
  BY <1>1, <1>6, LeavingStep
<1>7. CASE Step
  BY <1>1, <1>7, WaitStep, PlayPresetStep, DealStreetStep, EndHandStep,
     EndHandRaisesStep DEF Step
<1>8. CASE UNCHANGED vars
  BY <1>1, <1>8 DEF vars, IInv, TypeOK, BetsAreWagers, ChipsAccounted,
     CollectedIsMatched, InHand, chipVars, tableVars
<1>9. QED
  BY <1>1, <1>2, <1>3, <1>4, <1>5, <1>6, <1>7, <1>8 DEF Next

(* The invariant holds in every hand, which carries the theorems on types, *)
(* on chips and on uncalled bets.                                          *)
THEOREM Inductive == Spec => []IInv
  BY InitInv, NextInv, PTL DEF Spec

(* Every variable keeps its type; in particular no stack, bet or wager is  *)
(* ever negative, although on_bet and on_return_chips subtract unchecked.  *)
THEOREM TypeCorrect == Spec => []TypeOK
<1>1. IInv => TypeOK
  BY DEF IInv
<1>2. QED
  BY <1>1, Inductive, PTL

(* While a hand is played every chip of every player is in its stack, in   *)
(* its wagers or in its dead money, for any number of seats, any blinds    *)
(* and any stacks.                                                         *)
THEOREM ChipsSafe == Spec => []ChipsAccounted
<1>1. IInv => ChipsAccounted
  BY DEF IInv
<1>2. QED
  BY <1>1, Inductive, PTL

(* return_uncalled_bets never gives back more than the player bet on this  *)
(* street, so on_return_chips never makes uncollected_bets negative.       *)
THEOREM ReturnsSafe == Spec => []ReturnIsUncalled
<1>1. IInv => ReturnIsUncalled
  <2>1. SUFFICES ASSUME IInv, InHand, NEW returned \in UncalledReturns, NEW p \in dealt
                 PROVE  returned[p] <= uncollected[p]
    BY DEF ReturnIsUncalled
  <2>2. p \in Seats
    BY <2>1 DEF IInv, TypeOK
  <2>3. QED
    BY <2>1, <2>2, ReturnedChips DEF IInv
<1>2. QED
  BY <1>1, Inductive, PTL

-----------------------------------------------------------------------------
(* The acting order                                                        *)

(* Once around the table and no further.                                   *)
LEMMA AroundTheTable ==
    ASSUME NEW n \in Nat \ {0}, NEW a \in 0 .. 2*n - 1
    PROVE  (a % n) = IF a < n THEN a ELSE a - n
<1> DEFINE q == a \div n
           r == a % n
<1>1. q \in Nat /\ r \in 0 .. n-1 /\ a = q * n + r
  <2>1. a \in Nat
    OBVIOUS
  <2> QED
    BY <2>1, DivideWithRest
<1> HIDE DEF q, r
<1>2. CASE q = 0
  BY <1>1, <1>2 DEF r
<1>3. CASE q = 1
  BY <1>1, <1>3 DEF r
<1>4. CASE q >= 2
  <2>1. q - 2 \in Nat
    BY <1>1, <1>4
  <2>2. (q - 2) * n \in Nat
    BY <2>1
  <2>3. (q - 2) * n = q * n - 2 * n
    BY <1>1
  <2>4. q * n \in Nat
    BY <1>1
  <2> QED
    BY <1>1, <2>2, <2>3, <2>4
<1> QED
  BY <1>1, <1>2, <1>3, <1>4

(* Nobody has the same place as somebody else, and the place of a player   *)
(* is the number of seats to the one who acts first.                       *)
LEMMA FirstSeat ==
    ASSUME TypeOK
    PROVE  FirstToActPos \in Seats /\ NumSeats \in Nat \ {0}
<1>1. NumSeats \in Nat \ {0} /\ sbIdx \in 0 .. NumSeats - 1 /\ bbIdx \in 0 .. NumSeats - 1
  BY HandAssumption DEF TypeOK, Seats
<1>2. bbIdx + 1 \in 0 .. 2 * NumSeats - 1
  BY <1>1
<1>3. ((bbIdx + 1) % NumSeats) \in 0 .. NumSeats - 1
  BY <1>1, <1>2, AroundTheTable
<1> QED
  BY <1>1, <1>3 DEF FirstToActPos, Seats

(* players_in_acting_order puts no two players in one place.               *)
LEMMA PlacesDiffer ==
    ASSUME TypeOK
    PROVE  /\ \A p \in Seats : Distance(p) \in 0 .. NumSeats - 1
           /\ \A p, q \in Seats : Distance(p) = Distance(q) => p = q
<1> DEFINE F == FirstToActPos
<1>1. F \in 0 .. NumSeats - 1 /\ NumSeats \in Nat \ {0}
  BY FirstSeat DEF Seats
<1> HIDE DEF F
<1>2. ASSUME NEW p \in Seats
      PROVE  Distance(p) = IF p < F THEN p - F + NumSeats ELSE p - F
  <2>1. p \in 0 .. NumSeats - 1
    BY DEF Seats
  <2> DEFINE a == p - F + NumSeats
  <2>2. a \in 0 .. 2 * NumSeats - 1 /\ (a < NumSeats <=> p < F) /\ a - NumSeats = p - F
    BY <1>1, <2>1
  <2>3. Distance(p) = (a % NumSeats)
    BY DEF Distance, F
  <2> HIDE DEF a
  <2>4. (a % NumSeats) = IF a < NumSeats THEN a ELSE a - NumSeats
    BY <1>1, <2>2, AroundTheTable
  <2> QED
    BY <2>2, <2>3, <2>4 DEF a
<1>3. \A p \in Seats : p \in 0 .. NumSeats - 1
  BY DEF Seats
<1> QED
  BY <1>1, <1>2, <1>3

-----------------------------------------------------------------------------
(* The payment of a hand                                                   *)

(* A hand is played by somebody.                                           *)
SomebodyPlays == InHand => dealt # {}

(* Nobody leaves the deal while the hand is played.                        *)
LEMMA HandsArePlayed == Spec => []SomebodyPlays
<1>1. Init => SomebodyPlays
  BY DEF Init, SomebodyPlays, InHand
<1>2. SomebodyPlays /\ [Next]_vars => SomebodyPlays'
  <2> SUFFICES ASSUME SomebodyPlays, [Next]_vars, InHand' PROVE dealt' # {}
    BY DEF SomebodyPlays
  <2> USE DEF SomebodyPlays, InHand
  <2>1. CASE StartAnyHand
    <3>1. PICK players, joining, sb, bb, owesBB, owesSB :
             BlindSeats(players, joining, sb, bb) /\ StartHand(players, sb, bb, owesBB, owesSB)
      BY <2>1, HandIsDealt
    <3>2. bb \in players
      BY <3>1 DEF BlindSeats
    <3>3. dealt' = players
      BY <3>1 DEF StartHand
    <3> QED
      BY <3>2, <3>3
  <2>2. CASE \E p \in Seats : Act(p)
    BY <2>2 DEF Act, Fold, Check, Call, Bet, RaiseTo, Played, tableVars
  <2>3. CASE TimedFold
    BY <2>3 DEF TimedFold, Fold, Played, tableVars
  <2>4. CASE \E p \in Seats, kind \in {"none", "checkfold", "check", "call"} : SetPreset(p, kind)
    BY <2>4 DEF SetPreset, tableVars
  <2>5. CASE \E p \in Seats : LeaveSeat(p) \/ TakeSeat(p)
    BY <2>5 DEF LeaveSeat, TakeSeat, tableVars
  <2>6. CASE WaitForPlayer \/ DealStreet \/ EndHandRaises
    BY <2>6 DEF WaitForPlayer, DealStreet, EndHandRaises, tableVars
  <2>7. CASE PlayPreset
    BY <2>7 DEF PlayPreset, Fold, Check, Call, Played, tableVars
  <2>8. CASE EndHand
    <3>1. phase' = "idle"
      BY <2>8 DEF EndHand, PayOut
    <3> QED
      BY <3>1
  <2>9. CASE UNCHANGED vars
    BY <2>9 DEF vars, tableVars
  <2> QED
    BY <2>1, <2>2, <2>3, <2>4, <2>5, <2>6, <2>7, <2>8, <2>9 DEF Next, Step
<1> QED
  BY <1>1, <1>2, PTL DEF Spec

(* The board that is paid at the end of a hand is one that the pots can be *)
(* cut from, and the places at the table order its players.                *)
LEMMA BoardIsPaid ==
    ASSUME IInv, InHand, dealt # {}, NEW returned \in UncalledReturns, NEW rank \in [dealt -> Ranks]
    PROVE  /\ IsBoard(BoardAfter(returned, rank))
           /\ IsOrder(BoardAfter(returned, rank), [p \in dealt |-> Distance(p)])
<1> DEFINE b == BoardAfter(returned, rank)
<1>1. TypeOK /\ BetsAreWagers /\ CollectedIsMatched
  BY DEF IInv
<1>2. /\ returned \in [Seats -> Nat]
      /\ \A p \in Seats : returned[p] <= uncollected[p]
  BY <1>1, ReturnedChips
<1>3. dealt \subseteq Seats /\ IsFiniteSet(dealt)
  <2>1. IsFiniteSet(Seats)
    BY HandAssumption, FS_Interval DEF Seats
  <2> QED
    BY <2>1, <1>1, FS_Subset DEF TypeOK
<1>4. \A p \in Seats : /\ wagers[p] \in Nat /\ uncollected[p] \in Nat /\ deadMoney[p] \in Nat
                       /\ uncollected[p] <= wagers[p] /\ returned[p] \in Nat
  BY <1>1, <1>2 DEF TypeOK, BetsAreWagers
<1>5. /\ b.actives = dealt /\ b.wagers = [p \in dealt |-> wagers[p] - returned[p]]
      /\ b.dead = deadMoney /\ b.holding = Holding /\ b.rank = rank
  BY DEF BoardAfter
<1>6. Holding \subseteq dealt /\ \A p \in dealt : rank[p] \in Int
  BY HandAssumption DEF Holding
<1> HIDE DEF b
<1>7. IsBoard(b)
  BY <1>2, <1>3, <1>4, <1>5, <1>6 DEF IsBoard
<1>8. IsOrder(b, [p \in dealt |-> Distance(p)])
  BY <1>1, <1>3, <1>5, PlacesDiffer DEF IsOrder
<1> QED
  BY <1>7, <1>8 DEF b

(* Whatever was wagered and whatever the hands are, the WIN events are     *)
(* amounts that add up to the pot.                                         *)
CanBePaid(b) ==
    /\ Winnings(b) \in [dealt -> Nat]
    /\ SumFunctionOnSet(Winnings(b), dealt) = CurrentPot(b)

LEMMA HandsCanBePaid ==
    ASSUME IInv, InHand, dealt # {}, NEW returned \in UncalledReturns,
           NEW rank \in [dealt -> Ranks],
           Cardinality(Holding) = 1 \/ EveryPotHasAWinner(BoardAfter(returned, rank))
    PROVE  CanBePaid(BoardAfter(returned, rank))
<1> DEFINE b == BoardAfter(returned, rank)
           order == [p \in dealt |-> Distance(p)]
<1>1. IsBoard(b) /\ IsOrder(b, order)
  BY BoardIsPaid
<1>2. b.actives = dealt /\ b.holding = Holding
  BY DEF BoardAfter
<1>3. Winnings(b) = IF Cardinality(b.holding) = 1 THEN UncontestedWinnings(b)
                    ELSE ShowdownWinnings(b, order)
  BY DEF Winnings
<1>4. Cardinality(b.holding) = 1 \/ EveryPotHasAWinner(b)
  BY <1>2
<1> HIDE DEF b, order
<1>5. Winnings(b) \in [b.actives -> Nat] /\ SumFunctionOnSet(Winnings(b), b.actives) = CurrentPot(b)
  BY <1>1, <1>3, <1>4, UncontestedPaysAll, ShowdownPaysAll
<1> QED
  BY <1>2, <1>5 DEF CanBePaid, b

(* end_hand's own assertion, for any number of players and side pots: the  *)
(* WIN amounts add up to the pot whatever the hands are worth.             *)
THEOREM PaymentsAddUp == Spec => []WinsAddUp
<1>1. IInv /\ SomebodyPlays => WinsAddUp
  BY HandsCanBePaid DEF SomebodyPlays, WinsAddUp, CanBePaid, InHand
<1> QED
  BY <1>1, Inductive, HandsArePlayed, PTL

-----------------------------------------------------------------------------
(* Whose turn it is                                                        *)

(* Of some players one comes first.                                        *)
LEMMA OneComesFirst ==
    ASSUME NEW S, S # {}, NEW f, \A p \in S : f[p] \in Nat
    PROVE  \E p \in S : \A q \in S : f[p] <= f[q]
<1> DEFINE T == {f[p] : p \in S}
<1>1. T \subseteq Nat /\ T # {}
  OBVIOUS
<1>2. PICK n \in T : \A k \in T : n <= k
  BY <1>1, LeastNumber
<1>3. PICK p \in S : n = f[p]
  OBVIOUS
<1> QED
  BY <1>2, <1>3

(* The last raiser that next_to_act finds bet or raised, and of those who  *)
(* did nobody has a larger bet.                                            *)
LEMMA LastRaiserRaised ==
    ASSUME TypeOK, Raisers # {}
    PROVE  LastRaiser \in Raisers /\ \A q \in Raisers : uncollected[q] <= uncollected[LastRaiser]
<1>1. Raisers \subseteq Seats
  BY DEF Raisers, Holding, TypeOK
<1>2. \A p \in Raisers : uncollected[p] \in Nat
  BY <1>1 DEF TypeOK
<1> DEFINE B == {uncollected[p] : p \in Raisers}
<1>3. PICK m \in B : \A x \in B : x <= m
  <2>1. IsFiniteSet(Seats)
    BY HandAssumption, FS_Interval DEF Seats
  <2>2. IsFiniteSet(Raisers)
    BY <1>1, <2>1, FS_Subset
  <2>3. IsFiniteSet(B) /\ B \in SUBSET Int /\ B # {}
    BY <1>2, <2>2, ImageIsFinite
  <2> HIDE DEF B
  <2> QED
    BY <2>3, MaxOfSet
<1> DEFINE M == {p \in Raisers : uncollected[p] = m}
           f == [p \in M |-> Distance(p)]
           Leading(p) == \A q \in Raisers :
              \/ uncollected[q] < uncollected[p]
              \/ uncollected[q] = uncollected[p] /\ Distance(p) <= Distance(q)
<1>4. \A p \in M : f[p] \in Nat
  BY <1>1, PlacesDiffer
<1>5. M # {}
  BY <1>3
<1>6. PICK p \in M : \A q \in M : f[p] <= f[q]
  <2> HIDE DEF M, f
  <2> QED
    BY <1>4, <1>5, OneComesFirst
<1>7. Leading(p)
  <2> SUFFICES ASSUME NEW q \in Raisers
               PROVE  \/ uncollected[q] < uncollected[p]
                      \/ uncollected[q] = uncollected[p] /\ Distance(p) <= Distance(q)
    OBVIOUS
  <2>1. uncollected[p] = m /\ uncollected[q] <= m
    BY <1>3
  <2>2. CASE uncollected[q] = m
    <3>1. q \in M /\ p \in M
      BY <2>2
    <3>2. f[p] <= f[q]
      BY <1>6, <3>1
    <3> QED
      BY <2>1, <2>2, <3>1, <3>2
  <2>3. CASE uncollected[q] # m
    BY <1>2, <2>1, <2>3
  <2> QED
    BY <2>2, <2>3
<1>8. \E x \in Raisers : Leading(x)
  BY <1>7
<1>9. LastRaiser \in Raisers /\ Leading(LastRaiser)
  <2>1. LastRaiser = CHOOSE x \in Raisers : Leading(x)
    BY DEF LastRaiser
  <2> HIDE DEF Leading
  <2> QED
    BY <1>8, <2>1
<1> QED
  BY <1>2, <1>9

(* Somebody who bet or raised has the largest bet of all who were dealt in.*)
RaiserLeads ==
    Raisers # {} => \E r \in Raisers : \A q \in dealt : uncollected[q] <= uncollected[r]

(* Then the last raiser has the largest bet of all.                        *)
LEMMA LastRaiserLeads ==
    ASSUME TypeOK, RaiserLeads, Raisers # {}
    PROVE  LastRaiser \in Raisers /\ \A q \in dealt : uncollected[q] <= uncollected[LastRaiser]
<1>1. PICK r \in Raisers : \A q \in dealt : uncollected[q] <= uncollected[r]
  BY DEF RaiserLeads
<1>2. LastRaiser \in Raisers /\ uncollected[r] <= uncollected[LastRaiser]
  BY LastRaiserRaised
<1>3. \A q \in dealt \cup Raisers : uncollected[q] \in Nat
  BY DEF Raisers, Holding, TypeOK
<1> QED
  BY <1>1, <1>2, <1>3

(* The player to act holds cards and chips; it has not acted, and is the   *)
(* first of those, or it is behind the last raiser.                        *)
WithChips == {p \in Holding : stack[p] > 0}

OnTurn(p) ==
    /\ p \in WithChips /\ Cardinality(Holding) >= 2
    /\ \/ /\ HasNotActed(p)
          /\ \A q \in WithChips : HasNotActed(q) => Distance(p) <= Distance(q)
       \/ /\ \A q \in WithChips : ~HasNotActed(q)
          /\ Raisers # {} /\ uncollected[p] < uncollected[LastRaiser]

(* Nobody is to act: one player is left, or no chips to bet with, or the   *)
(* bets have been answered.                                                *)
NobodyOnTurn ==
    \/ Cardinality(Holding) < 2
    \/ WithChips = {}
    \/ Cardinality(WithChips) = 1 /\ NoBets
    \/ /\ \A q \in WithChips : ~HasNotActed(q)
       /\ Raisers # {} => \A q \in WithChips : ~(uncollected[q] < uncollected[LastRaiser])

(* The seats are finitely many, and so are those who hold cards.           *)
LEMMA HoldersAreCounted ==
    ASSUME TypeOK
    PROVE  /\ IsFiniteSet(Seats) /\ IsFiniteSet(Holding) /\ Cardinality(Holding) \in Nat
           /\ Holding \subseteq Seats /\ WithChips \subseteq Holding /\ NoSeat \notin Seats
<1>1. IsFiniteSet(Seats)
  BY HandAssumption, FS_Interval DEF Seats
<1>2. Holding \subseteq Seats
  BY DEF Holding, TypeOK
<1>3. IsFiniteSet(Holding)
  BY <1>1, <1>2, FS_Subset
<1>4. Cardinality(Holding) \in Nat
  BY <1>3, FS_CardinalityType
<1> QED
  BY <1>1, <1>2, <1>3, <1>4 DEF WithChips, NoSeat, Seats

(* What next_to_act chooses is on turn, and when it chooses nobody, nobody *)
(* is.                                                                     *)
LEMMA WhoIsNext ==
    ASSUME TypeOK
    PROVE  /\ NextToAct # NoSeat => OnTurn(NextToAct)
           /\ NextToAct = NoSeat => NobodyOnTurn
<1> DEFINE unacted  == {p \in WithChips : HasNotActed(p)}
           behind   == {p \in WithChips : uncollected[p] < uncollected[LastRaiser]}
           after(p) == (Distance(p) - Distance(LastRaiser) + NumSeats) % NumSeats
           stopped  == \/ Cardinality(Holding) < 2
                       \/ WithChips = {}
                       \/ Cardinality(WithChips) = 1 /\ NoBets
           first    == CHOOSE p \in unacted : \A q \in unacted : Distance(p) <= Distance(q)
           answer   == CHOOSE p \in behind : \A q \in behind : after(p) <= after(q)
<1>1. NextToAct = IF stopped THEN NoSeat
                  ELSE IF unacted # {} THEN first
                  ELSE IF Raisers = {} \/ behind = {} THEN NoSeat
                  ELSE answer
  BY DEF NextToAct, WithChips
<1>2. WithChips \subseteq Seats /\ NoSeat \notin Seats /\ Cardinality(Holding) \in Nat
  BY HoldersAreCounted
<1>3. unacted # {} => first \in unacted /\ \A q \in unacted : Distance(first) <= Distance(q)
  <2> SUFFICES ASSUME unacted # {}
               PROVE  first \in unacted /\ \A q \in unacted : Distance(first) <= Distance(q)
    OBVIOUS
  <2> DEFINE f == [p \in unacted |-> Distance(p)]
  <2>1. \A p \in unacted : f[p] \in Nat
    BY <1>2, PlacesDiffer
  <2> HIDE DEF unacted
  <2>2. PICK p \in unacted : \A q \in unacted : f[p] <= f[q]
    <3> HIDE DEF f
    <3> QED
      BY <2>1, OneComesFirst
  <2>3. \E x \in unacted : \A q \in unacted : Distance(x) <= Distance(q)
    BY <2>2
  <2> QED
    BY <2>3
<1>4. Raisers # {} /\ behind # {} => answer \in behind
  <2> SUFFICES ASSUME Raisers # {}, behind # {} PROVE answer \in behind
    OBVIOUS
  <2> DEFINE f == [p \in behind |-> after(p)]
  <2>1. ASSUME NEW p \in behind PROVE after(p) \in Nat
    <3>1. LastRaiser \in Seats
      BY LastRaiserRaised DEF Raisers, Holding, TypeOK
    <3>2. Distance(p) \in 0 .. NumSeats - 1 /\ Distance(LastRaiser) \in 0 .. NumSeats - 1
      BY <1>2, <3>1, PlacesDiffer
    <3> DEFINE a == Distance(p) - Distance(LastRaiser) + NumSeats
    <3>3. NumSeats \in Nat \ {0}
      BY FirstSeat
    <3>4. a \in 0 .. 2 * NumSeats - 1 /\ a \in Nat
      BY <3>2, <3>3
    <3>5. after(p) = (a % NumSeats)
      OBVIOUS
    <3> HIDE DEF a, after
    <3>6. (a % NumSeats) \in 0 .. NumSeats - 1
      BY <3>3, <3>4, DivideWithRest
    <3> QED
      BY <3>5, <3>6, <3>3
  <2> HIDE DEF behind, after
  <2>2. \A p \in behind : f[p] \in Nat
    BY <2>1
  <2>3. PICK p \in behind : \A q \in behind : f[p] <= f[q]
    <3> HIDE DEF f
    <3> QED
      BY <2>2, OneComesFirst
  <2>4. \E x \in behind : \A q \in behind : after(x) <= after(q)
    BY <2>3
  <2> QED
    BY <2>4
<1>5. NextToAct # NoSeat => OnTurn(NextToAct)
  <2> SUFFICES ASSUME NextToAct # NoSeat PROVE OnTurn(NextToAct)
    OBVIOUS
  <2>1. ~stopped
    BY <1>1
  <2>2. CASE unacted # {}
    <3>1. NextToAct = first
      BY <1>1, <2>1, <2>2
    <3> HIDE DEF first
    <3> QED
      BY <1>2, <1>3, <2>1, <2>2, <3>1 DEF OnTurn
  <2>3. CASE unacted = {}
    <3>1. Raisers # {} /\ behind # {} /\ NextToAct = answer
      BY <1>1, <2>1, <2>3
    <3> HIDE DEF answer
    <3> QED
      BY <1>2, <1>4, <2>1, <2>3, <3>1 DEF OnTurn
  <2> QED
    BY <2>2, <2>3
<1>6. NextToAct = NoSeat => NobodyOnTurn
  <2> SUFFICES ASSUME NextToAct = NoSeat, ~stopped PROVE NobodyOnTurn
    BY DEF NobodyOnTurn
  <2>1. unacted = {}
    <3> SUFFICES ASSUME unacted # {} PROVE FALSE
      OBVIOUS
    <3>1. NextToAct = first
      BY <1>1
    <3> HIDE DEF first
    <3> QED
      BY <1>2, <1>3, <3>1
  <2>2. Raisers = {} \/ behind = {}
    <3> SUFFICES ASSUME Raisers # {}, behind # {} PROVE FALSE
      OBVIOUS
    <3>1. NextToAct = answer
      BY <1>1, <2>1
    <3> HIDE DEF answer
    <3> QED
      BY <1>2, <1>4, <3>1
  <2> QED
    BY <2>1, <2>2 DEF NobodyOnTurn
<1> QED
  BY <1>5, <1>6

-----------------------------------------------------------------------------
(* The betting invariant.                                                  *)
PlayedActions == {"CHECK", "CALL", "BET", "RAISE_TO"}

(* A raise is to no less than the bet.                                     *)
RaisesCover ==
    /\ \A r \in Raisers : uncollected[r] > 0
    /\ \A b, r \in Raisers : lastAction[b] = "BET" /\ lastAction[r] = "RAISE_TO" =>
          uncollected[b] <= uncollected[r]

(* Without a bet or raise nobody has bet after the flop, and who has acted *)
(* and has chips left has bet as much as anybody.                          *)
CallersAreEven ==
    Raisers = {} =>
        /\ board # 0 => NoBets
        /\ \A p \in WithChips : ~HasNotActed(p) => \A q \in dealt : uncollected[q] <= uncollected[p]

(* Who still bets, or bet on this street, paid on the earlier streets as   *)
(* much as anybody.                                                        *)
PaidInFull ==
    \A p \in Holding : stack[p] + uncollected[p] > 0 =>
        \A q \in dealt : wagers[q] - uncollected[q] <= wagers[p] - uncollected[p]

(* Chips and cards are those of players dealt in, and who has folded       *)
(* has no cards; a hand goes on until one player is left.                  *)
OnlyDealtPlay ==
    /\ \A p \in Seats : hasCards[p] => p \in dealt
    /\ \A p \in Seats : p \notin dealt => wagers[p] = 0 /\ deadMoney[p] = 0
    /\ \A p \in dealt : hasCards[p] <=> lastAction[p] # "FOLD"
    /\ \A p \in dealt : startStack[p] > 0
    /\ Holding # {}

(* The largest blind is that of the player who acts last: until somebody   *)
(* raises nobody has bet more, and when this player has acted without a    *)
(* raise, so have all others.                                              *)
LastBlind(b) ==
    /\ \A q \in WithChips : q # b => Distance(q) < Distance(b)
    /\ Raisers = {} =>
          /\ \A q \in dealt : uncollected[q] <= uncollected[b]
          /\ lastAction[b] # "POST" => \A q \in WithChips : ~HasNotActed(q)

(* Before the flop the big blind is in the pot and everybody who stays     *)
(* pays.                                                                   *)
BlindsArePaid ==
    board = 0 =>
        /\ bbIdx \in dealt /\ uncollected[bbIdx] > 0
        /\ \A p \in Seats : wagers[p] = uncollected[p]
        /\ \A p \in dealt : lastAction[p] \in PlayedActions => uncollected[p] > 0
        /\ \E b \in dealt : LastBlind(b)

(* After it there are collected or dead chips in the pot.                  *)
PotIsOpen ==
    board # 0 => \E p \in dealt : wagers[p] - uncollected[p] + deadMoney[p] > 0

BetInv ==
    /\ InHand => /\ RaiserLeads /\ RaisesCover /\ CallersAreEven /\ PaidInFull /\ OnlyDealtPlay
                 /\ BlindsArePaid /\ PotIsOpen
    /\ phase = "wait" => NextToAct # NoSeat
    /\ phase = "idle" => wagers = Zero /\ deadMoney = Zero

-----------------------------------------------------------------------------
(* A turn                                                                  *)

(* Besides the player on turn somebody holds cards; somebody else leads    *)
(* the betting, or nobody has bet; and the last blind has not acted.       *)
LEMMA Turn ==
    ASSUME TypeOK, InHand, BetInv, NextToAct # NoSeat
    PROVE  LET p == NextToAct IN
           /\ p \in Seats /\ p \in dealt /\ p \in Holding /\ stack[p] > 0
           /\ \E q \in Holding : q # p
           /\ Raisers # {} => \E r \in Raisers \ {p} :
                                 \A q \in dealt : uncollected[q] <= uncollected[r]
           /\ Raisers = {} => \A b \in dealt : LastBlind(b) =>
                 /\ lastAction[b] = "POST"
                 /\ p = b => \A q \in WithChips \ {p} : ~HasNotActed(q)
<1> DEFINE p == NextToAct
<1>1. RaiserLeads
  BY DEF BetInv
<1>2. OnTurn(p)
  BY <1>1, WhoIsNext
<1> HIDE DEF p
<1>3. p \in WithChips /\ p \in Holding /\ p \in dealt /\ p \in Seats /\ stack[p] > 0
  BY <1>2 DEF OnTurn, WithChips, Holding, TypeOK
<1>4. \E q \in Holding : q # p
  <2>1. Holding \in SUBSET Seats /\ Cardinality(Holding) >= 2
    BY <1>2, HoldersAreCounted DEF OnTurn
  <2> QED
    BY <1>3, <2>1, Opponent
<1>5. ASSUME Raisers # {}
      PROVE  \E r \in Raisers \ {p} : \A q \in dealt : uncollected[q] <= uncollected[r]
  <2>1. LastRaiser \in Raisers /\ \A q \in dealt : uncollected[q] <= uncollected[LastRaiser]
    BY <1>1, <1>5, LastRaiserLeads
  <2>2. LastRaiser # p
    <3>1. CASE HasNotActed(p)
      BY <2>1, <3>1 DEF HasNotActed, Raisers
    <3>2. CASE uncollected[p] < uncollected[LastRaiser]
      <4>1. uncollected[p] \in Nat
        BY <1>3 DEF TypeOK
      <4> QED
        BY <3>2, <4>1
    <3> QED
      BY <1>2, <3>1, <3>2 DEF OnTurn
  <2> QED
    BY <2>1, <2>2
<1>6. ASSUME Raisers = {}, NEW b \in dealt, LastBlind(b)
      PROVE  /\ lastAction[b] = "POST"
             /\ p = b => \A q \in WithChips \ {p} : ~HasNotActed(q)
  <2>1. /\ HasNotActed(p)
        /\ \A q \in WithChips : HasNotActed(q) => Distance(p) <= Distance(q)
    BY <1>2, <1>6 DEF OnTurn
  <2>2. lastAction[b] = "POST"
    BY <1>3, <1>6, <2>1 DEF LastBlind
  <2>3. ASSUME p = b, NEW q \in WithChips \ {p}, HasNotActed(q) PROVE FALSE
    <3>1. Distance(p) <= Distance(q) /\ Distance(q) < Distance(p)
      BY <1>6, <2>1, <2>3 DEF LastBlind
    <3>2. q \in Seats
      BY HoldersAreCounted
    <3>3. Distance(p) \in 0 .. NumSeats - 1 /\ Distance(q) \in 0 .. NumSeats - 1
      BY <1>3, <3>2, PlacesDiffer
    <3>4. NumSeats \in Nat
      BY HandAssumption
    <3> QED
      BY <3>1, <3>3, <3>4
  <2> QED
    BY <2>2, <2>3
<1> QED
  BY <1>3, <1>4, <1>5, <1>6 DEF p

(* The largest bet is that of a player who holds cards.                    *)
LEMMA HolderLeads ==
    ASSUME TypeOK, InHand, BetInv, NextToAct # NoSeat
    PROVE  \E h \in Holding : \A q \in dealt : uncollected[q] <= uncollected[h]
<1>1. CASE Raisers # {}
  BY <1>1, Turn DEF Raisers
<1>2. CASE Raisers = {} /\ board # 0
  <2>1. NoBets
    BY <1>2 DEF BetInv, CallersAreEven
  <2>2. NextToAct \in Holding /\ NextToAct \in dealt
    BY Turn
  <2> QED
    BY <2>1, <2>2 DEF NoBets
<1>3. CASE Raisers = {} /\ board = 0
  <2>1. PICK b \in dealt : LastBlind(b)
    BY <1>3 DEF BetInv, BlindsArePaid
  <2>2. lastAction[b] = "POST"
    BY <1>3, <2>1, Turn
  <2>3. b \in Holding
    BY <2>2 DEF BetInv, OnlyDealtPlay, Holding
  <2> QED
    BY <1>3, <2>1, <2>3 DEF LastBlind
<1> QED
  BY <1>1, <1>2, <1>3

(* What an action of a player does besides its chips.                      *)
LEMMA PlayedBy ==
    ASSUME TypeOK, NEW p \in Seats, NEW action, Played(p, action)
    PROVE  /\ \A q \in Seats : lastAction'[q] = IF q = p THEN action ELSE lastAction[q]
           /\ \A q \in Seats : hasCards'[q] = IF q = p THEN action # "FOLD" ELSE hasCards[q]
           /\ \A q \in Seats : preset'[q] = IF q = p THEN NoPreset ELSE preset[q]
           /\ UNCHANGED <<dealt, sbIdx, bbIdx, handNumber, startStack, deadMoney, board, leaving>>
  BY DEF TypeOK, Played, tableVars

(* The bet of p becomes m, from its stack.                                 *)
BetBecomes(p, m) ==
    /\ \A q \in Seats \ {p} : /\ stack'[q] = stack[q] /\ wagers'[q] = wagers[q]
                              /\ uncollected'[q] = uncollected[q]
    /\ uncollected'[p] = m /\ stack'[p] = stack[p] - m + uncollected[p]
    /\ wagers'[p] = wagers[p] + m - uncollected[p]

(* Who moves no chips keeps its bet.                                       *)
LEMMA KeepsBet ==
    ASSUME TypeOK, NEW p \in Seats, KeepChips
    PROVE  BetBecomes(p, uncollected[p])
  BY DEF TypeOK, KeepChips, BetBecomes

(* on_bet, on_raise_to and on_call move the difference.                    *)
LEMMA PutsIn ==
    ASSUME TypeOK, NEW p \in Seats, NEW m \in Nat, PutIn(p, m)
    PROVE  BetBecomes(p, m)
  BY DEF TypeOK, PutIn, BetBecomes

(* The places at the table are those of the street.                        *)
LEMMA PlacesStay ==
    ASSUME UNCHANGED <<dealt, sbIdx, bbIdx, board>>
    PROVE  \A q : Distance(q)' = Distance(q)
  BY DEF Distance, FirstToActPos, IsPreflop

(* A player on turn folds, checks or calls.                                *)
LEMMA QuietTurn ==
    ASSUME IInv, BetInv, InHand, phase' = "step", NextToAct # NoSeat, NEW p, p = NextToAct,
           NEW action \in {"FOLD", "CHECK", "CALL"}, Played(p, action),
           NEW m \in Nat, BetBecomes(p, m), uncollected[p] <= m,
           \E q \in Holding : m <= uncollected[q],
           action # "FOLD" => \/ stack[p] - m + uncollected[p] = 0
                              \/ \A q \in dealt : uncollected[q] <= m,
           action # "FOLD" /\ board = 0 => m > 0
    PROVE  BetInv'
<1>1. TypeOK
  BY DEF IInv
<1>2. /\ p \in Seats /\ p \in dealt /\ p \in Holding /\ stack[p] > 0
      /\ \E q \in Holding : q # p
      /\ Raisers # {} => \E r \in Raisers \ {p} :
                            \A q \in dealt : uncollected[q] <= uncollected[r]
      /\ Raisers = {} => \A b \in dealt : LastBlind(b) =>
            /\ lastAction[b] = "POST"
            /\ p = b => \A q \in WithChips \ {p} : ~HasNotActed(q)
  BY <1>1, Turn
<1>3. /\ RaiserLeads /\ RaisesCover /\ CallersAreEven /\ PaidInFull /\ OnlyDealtPlay
      /\ BlindsArePaid /\ PotIsOpen
  BY DEF BetInv
<1>4. /\ Played(p, action) /\ BetBecomes(p, m) /\ uncollected[p] <= m
      /\ action # "FOLD" => \/ stack[p] - m + uncollected[p] = 0
                            \/ \A q \in dealt : uncollected[q] <= m
      /\ action # "FOLD" /\ board = 0 => m > 0
  OBVIOUS
<1>5. /\ \A q \in Seats : lastAction'[q] = IF q = p THEN action ELSE lastAction[q]
      /\ \A q \in Seats : hasCards'[q] = IF q = p THEN action # "FOLD" ELSE hasCards[q]
      /\ \A q \in Seats : preset'[q] = IF q = p THEN NoPreset ELSE preset[q]
      /\ UNCHANGED <<dealt, sbIdx, bbIdx, handNumber, startStack, deadMoney, board, leaving>>
  BY <1>1, <1>2, <1>4, PlayedBy
<1>6. /\ \A q \in Seats : q # p => /\ stack'[q] = stack[q] /\ wagers'[q] = wagers[q]
                                   /\ uncollected'[q] = uncollected[q]
      /\ uncollected'[p] = m /\ stack'[p] = stack[p] - m + uncollected[p]
      /\ wagers'[p] = wagers[p] + m - uncollected[p]
  BY <1>4 DEF BetBecomes
<1>7. \A q \in Seats : /\ stack[q] \in Nat /\ wagers[q] \in Nat /\ uncollected[q] \in Nat
                       /\ deadMoney[q] \in Nat
  BY <1>1 DEF TypeOK
<1>8. /\ dealt \subseteq Seats /\ Holding \subseteq Seats /\ WithChips \subseteq Holding
      /\ Holding \subseteq dealt
  BY <1>1, HoldersAreCounted DEF TypeOK, Holding
<1>9. \A q \in Seats : q # p => /\ q \in Holding' <=> q \in Holding
                                /\ q \in WithChips' <=> q \in WithChips
                                /\ q \in Raisers' <=> q \in Raisers
                                /\ HasNotActed(q)' <=> HasNotActed(q)
  BY <1>5, <1>6 DEF Holding, WithChips, Raisers, HasNotActed
<1>10. p \notin Raisers' /\ ~HasNotActed(p)'
  BY <1>2, <1>5 DEF Raisers, HasNotActed
<1>11. Holding' \subseteq Holding /\ Raisers' \subseteq Raisers /\ Raisers \subseteq Seats
       /\ WithChips' \subseteq Holding'
  <2>1. Holding' \subseteq Seats /\ Raisers' \subseteq Seats /\ Raisers \subseteq Seats
        /\ WithChips' \subseteq Holding'
    BY <1>5, <1>8 DEF Holding, Raisers, WithChips
  <2> QED
    BY <1>2, <1>9, <1>10, <2>1
<1>12. \A q \in dealt : uncollected'[q] = IF q = p THEN m ELSE uncollected[q]
  BY <1>6, <1>8
<1>13. PICK top \in Holding : m <= uncollected[top]
  OBVIOUS
<1>14. Raisers' = {} => Raisers = {}
  BY <1>2, <1>9, <1>11
<1>15. RaiserLeads' /\ RaisesCover'
  <2>1. ASSUME Raisers' # {}
        PROVE  \E r \in Raisers' : \A q \in dealt' : uncollected'[q] <= uncollected'[r]
    <3>1. PICK r \in Raisers \ {p} : \A q \in dealt : uncollected[q] <= uncollected[r]
      BY <1>2, <1>11, <2>1
    <3>2. r \in Raisers' /\ uncollected'[r] = uncollected[r] /\ uncollected[r] \in Nat
      BY <1>6, <1>7, <1>9, <1>11, <3>1
    <3>3. m <= uncollected[r]
      BY <1>7, <1>8, <1>13, <3>1, <3>2
    <3> QED
      BY <1>5, <1>12, <3>1, <3>2, <3>3
  <2>2. \A r \in Raisers' : r # p /\ r \in Raisers /\ r \in Seats
    BY <1>10, <1>11
  <2>3. RaisesCover'
    BY <1>3, <1>5, <1>6, <2>2 DEF RaisesCover
  <2> QED
    BY <2>1, <2>3 DEF RaiserLeads
<1>16. CallersAreEven' /\ PaidInFull'
  <2>1. ASSUME Raisers' = {}, NEW x \in WithChips', ~HasNotActed(x)', NEW y \in dealt
        PROVE  uncollected'[y] <= uncollected'[x]
    <3>1. x \in Seats /\ x \in dealt /\ Raisers = {}
      BY <1>8, <1>11, <1>14, <2>1
    <3>2. CASE x # p
      <4>1. \A q \in dealt : uncollected[q] <= uncollected[x]
        BY <1>3, <1>9, <2>1, <3>1, <3>2 DEF CallersAreEven
      <4>2. m <= uncollected[x]
        BY <1>7, <1>8, <1>13, <3>1, <4>1
      <4> QED
        BY <1>12, <3>1, <3>2, <4>1, <4>2
    <3>3. CASE x = p
      <4>1. action # "FOLD" /\ stack'[p] > 0
        BY <1>2, <1>5, <2>1, <3>3 DEF WithChips, Holding
      <4>2. \A q \in dealt : uncollected[q] <= m
        BY <1>4, <1>6, <4>1
      <4> QED
        BY <1>12, <3>1, <3>3, <4>2
    <3> QED
      BY <3>2, <3>3
  <2>2. ASSUME Raisers' = {}, board' # 0 PROVE NoBets'
    <3>1. \A q \in dealt : uncollected[q] = 0
      BY <1>3, <1>5, <1>14, <2>2 DEF CallersAreEven, NoBets
    <3>2. m = 0
      BY <1>8, <1>13, <3>1
    <3> QED
      BY <1>5, <1>12, <3>1, <3>2 DEF NoBets
  <2>3. \A q \in dealt : wagers'[q] - uncollected'[q] = wagers[q] - uncollected[q]
    BY <1>6, <1>7, <1>8
  <2>4. ASSUME NEW x \in Holding', stack'[x] + uncollected'[x] > 0
        PROVE  x \in Holding /\ stack[x] + uncollected[x] > 0
    BY <1>2, <1>6, <1>7, <1>8, <1>11, <2>4
  <2>5. PaidInFull'
    <3> SUFFICES ASSUME NEW x \in Holding', stack'[x] + uncollected'[x] > 0, NEW q \in dealt
                 PROVE  wagers'[q] - uncollected'[q] <= wagers'[x] - uncollected'[x]
      BY <1>5 DEF PaidInFull
    <3>1. x \in dealt /\ wagers[q] - uncollected[q] <= wagers[x] - uncollected[x]
      BY <1>3, <1>8, <2>4 DEF PaidInFull
    <3> QED
      BY <2>3, <3>1
  <2> QED
    BY <1>5, <2>1, <2>2, <2>5 DEF CallersAreEven
<1>17. OnlyDealtPlay'
  <2>1. Holding' # {}
    BY <1>2, <1>8, <1>9
  <2>2. \A q \in Seats : q \notin dealt => q # p
    BY <1>2
  <2>3. ASSUME NEW q \in dealt PROVE hasCards'[q] <=> lastAction'[q] # "FOLD"
    <3>1. CASE q = p
      BY <1>2, <1>5, <3>1
    <3>2. CASE q # p
      BY <1>3, <1>5, <1>8, <3>2 DEF OnlyDealtPlay
    <3> QED
      BY <3>1, <3>2
  <2>4. \A q \in dealt' : hasCards'[q] <=> lastAction'[q] # "FOLD"
    BY <1>5, <2>3
  <2>5. \A q \in Seats : hasCards'[q] => q \in dealt'
    BY <1>2, <1>3, <1>5 DEF OnlyDealtPlay
  <2> QED
    BY <1>3, <1>5, <1>6, <1>8, <2>1, <2>2, <2>3, <2>4, <2>5 DEF OnlyDealtPlay
<1>18. BlindsArePaid'
  <2> SUFFICES ASSUME board' = 0
               PROVE  /\ bbIdx' \in dealt' /\ uncollected'[bbIdx'] > 0
                      /\ \A q \in Seats : wagers'[q] = uncollected'[q]
                      /\ \A q \in dealt' : lastAction'[q] \in PlayedActions => uncollected'[q] > 0
                      /\ \E b \in dealt' : LastBlind(b)'
    BY DEF BlindsArePaid
  <2>1. /\ board = 0 /\ bbIdx \in dealt /\ uncollected[bbIdx] > 0
        /\ \A q \in Seats : wagers[q] = uncollected[q]
        /\ \A q \in dealt : lastAction[q] \in PlayedActions => uncollected[q] > 0
    BY <1>3, <1>5 DEF BlindsArePaid
  <2>2. bbIdx' = bbIdx /\ dealt' = dealt
    BY <1>5
  <2>3. uncollected'[bbIdx] > 0
    BY <1>4, <1>6, <1>7, <1>8, <2>1
  <2>4. \A q \in Seats : wagers'[q] = uncollected'[q]
    BY <1>2, <1>6, <1>7, <2>1
  <2>5. ASSUME NEW q \in dealt, lastAction'[q] \in PlayedActions PROVE uncollected'[q] > 0
    <3>1. CASE q = p
      BY <1>4, <1>5, <1>6, <1>8, <2>1, <2>5, <3>1 DEF PlayedActions
    <3>2. CASE q # p
      BY <1>5, <1>6, <1>8, <2>1, <2>5, <3>2
    <3> QED
      BY <3>1, <3>2
  <2>6. PICK b \in dealt : LastBlind(b)
    BY <1>3, <2>1 DEF BlindsArePaid
  <2>7. \A q \in WithChips' : q \in WithChips /\ q \in Seats
    <3>1. p \in WithChips
      BY <1>2 DEF WithChips
    <3> QED
      BY <1>8, <1>9, <1>11, <3>1
  <2>8. \A q \in WithChips' : q # b => Distance(q)' < Distance(b)'
    BY <1>5, <2>6, <2>7, PlacesStay DEF LastBlind
  <2>9. ASSUME Raisers' = {} PROVE \A q \in dealt : uncollected'[q] <= uncollected'[b]
    <3>1. \A q \in dealt : uncollected[q] <= uncollected[b]
      BY <1>14, <2>6, <2>9 DEF LastBlind
    <3>2. m <= uncollected[b] /\ uncollected[b] <= uncollected'[b] /\ uncollected'[b] \in Nat
      BY <1>4, <1>6, <1>7, <1>8, <1>12, <1>13, <3>1
    <3> QED
      BY <1>7, <1>8, <1>12, <3>1, <3>2
  <2>10. ASSUME Raisers' = {}, lastAction'[b] # "POST", NEW q \in WithChips'
         PROVE  ~HasNotActed(q)'
    <3>1. lastAction[b] = "POST"
      BY <1>2, <1>14, <2>6, <2>10
    <3>2. p = b
      BY <1>5, <1>8, <2>10, <3>1
    <3>3. \A r \in WithChips \ {p} : ~HasNotActed(r)
      BY <1>2, <1>14, <2>6, <2>10, <3>2
    <3>4. q \in Seats /\ q \in WithChips
      BY <2>7
    <3>5. CASE q = p
      BY <1>10, <3>5 DEF HasNotActed
    <3>6. CASE q # p
      BY <1>9, <3>3, <3>4, <3>6
    <3> QED
      BY <3>5, <3>6
  <2>11. LastBlind(b)'
    BY <1>5, <2>8, <2>9, <2>10 DEF LastBlind
  <2>12. bbIdx' \in dealt' /\ uncollected'[bbIdx'] > 0
    BY <2>1, <2>2, <2>3
  <2>13. \A q \in dealt' : lastAction'[q] \in PlayedActions => uncollected'[q] > 0
    BY <2>2, <2>5
  <2>14. \E x \in dealt' : LastBlind(x)'
    BY <2>2, <2>11
  <2> QED
    BY <2>4, <2>12, <2>13, <2>14
<1>19. PotIsOpen'
  <2> SUFFICES ASSUME board' # 0
               PROVE  \E q \in dealt' : wagers'[q] - uncollected'[q] + deadMoney'[q] > 0
    BY DEF PotIsOpen
  <2>1. PICK q \in dealt : wagers[q] - uncollected[q] + deadMoney[q] > 0
    BY <1>3, <1>5 DEF PotIsOpen
  <2>2. wagers'[q] - uncollected'[q] = wagers[q] - uncollected[q]
    BY <1>6, <1>7, <1>8
  <2>3. deadMoney'[q] = deadMoney[q] /\ q \in dealt'
    BY <1>5
  <2> QED
    BY <2>1, <2>2, <2>3
<1> QED
  BY <1>15, <1>16, <1>17, <1>18, <1>19 DEF BetInv

(* A player on turn bets or raises.                                        *)
LEMMA RaisingTurn ==
    ASSUME IInv, BetInv, InHand, phase' = "step", NextToAct # NoSeat, NEW p, p = NextToAct,
           NEW action \in {"BET", "RAISE_TO"}, Played(p, action),
           NEW m \in Nat, BetBecomes(p, m), m > 0, \A q \in dealt : uncollected[q] <= m,
           action = "BET" => NoBets
    PROVE  BetInv'
<1>1. TypeOK
  BY DEF IInv
<1>2. p \in Seats /\ p \in dealt /\ p \in Holding /\ stack[p] > 0
  BY <1>1, Turn
<1>3. /\ RaiserLeads /\ RaisesCover /\ CallersAreEven /\ PaidInFull /\ OnlyDealtPlay
      /\ BlindsArePaid /\ PotIsOpen
  BY DEF BetInv
<1>4. /\ \A q \in Seats : lastAction'[q] = IF q = p THEN action ELSE lastAction[q]
      /\ \A q \in Seats : hasCards'[q] = IF q = p THEN action # "FOLD" ELSE hasCards[q]
      /\ \A q \in Seats : preset'[q] = IF q = p THEN NoPreset ELSE preset[q]
      /\ UNCHANGED <<dealt, sbIdx, bbIdx, handNumber, startStack, deadMoney, board, leaving>>
  BY <1>1, <1>2, PlayedBy
<1>5. /\ \A q \in Seats : q # p => /\ stack'[q] = stack[q] /\ wagers'[q] = wagers[q]
                                   /\ uncollected'[q] = uncollected[q]
      /\ uncollected'[p] = m /\ stack'[p] = stack[p] - m + uncollected[p]
      /\ wagers'[p] = wagers[p] + m - uncollected[p]
  BY DEF BetBecomes
<1>6. \A q \in Seats : /\ stack[q] \in Nat /\ wagers[q] \in Nat /\ uncollected[q] \in Nat
                       /\ deadMoney[q] \in Nat
  BY <1>1 DEF TypeOK
<1>7. /\ dealt \subseteq Seats /\ Holding \subseteq Seats /\ WithChips \subseteq Holding
      /\ Holding \subseteq dealt
  BY <1>1, HoldersAreCounted DEF TypeOK, Holding
<1>8. \A q \in Seats : q # p => /\ q \in Holding' <=> q \in Holding
                                /\ q \in WithChips' <=> q \in WithChips
                                /\ q \in Raisers' <=> q \in Raisers
  BY <1>4, <1>5 DEF Holding, WithChips, Raisers
<1>9. p \in Raisers' /\ p \in Holding'
  BY <1>2, <1>4 DEF Raisers, Holding
<1>10. Holding' \subseteq dealt
  BY <1>4 DEF Holding
<1>11. RaiserLeads'
  <2>1. \A q \in dealt : uncollected'[q] <= uncollected'[p]
    BY <1>5, <1>7
  <2> QED
    BY <1>4, <1>9, <2>1 DEF RaiserLeads
<1>12. RaisesCover' /\ CallersAreEven' /\ PaidInFull'
  <2>1. Raisers' \subseteq Seats /\ p \in Raisers'
    BY <1>4, <1>7, <1>9, <1>10 DEF Raisers
  <2>2. ASSUME NEW r \in Raisers' PROVE uncollected'[r] > 0
    <3>1. CASE r = p
      BY <1>5, <3>1
    <3>2. CASE r # p
      BY <1>3, <1>5, <1>8, <2>1, <3>2 DEF RaisesCover
    <3> QED
      BY <3>1, <3>2
  <2>3. ASSUME NEW b \in Raisers', NEW r \in Raisers',
               lastAction'[b] = "BET", lastAction'[r] = "RAISE_TO"
        PROVE  uncollected'[b] <= uncollected'[r]
    <3>1. b \in Seats /\ r \in Seats /\ b # r
      BY <2>1, <2>3
    <3>2. CASE r = p
      <4>1. b \in Raisers /\ b \in dealt
        BY <1>7, <1>8, <3>1, <3>2 DEF Raisers
      <4> QED
        BY <1>5, <3>1, <3>2, <4>1
    <3>3. CASE b = p
      <4>1. NoBets /\ r \in Raisers /\ r \in dealt
        BY <1>4, <1>7, <1>8, <2>3, <3>1, <3>3 DEF Raisers
      <4>2. uncollected[r] > 0 /\ uncollected[r] = 0
        BY <1>3, <4>1 DEF RaisesCover, NoBets
      <4> QED
        BY <4>2
    <3>4. CASE b # p /\ r # p
      BY <1>3, <1>4, <1>5, <1>8, <2>3, <3>1, <3>4 DEF RaisesCover
    <3> QED
      BY <3>2, <3>3, <3>4
  <2>4. \A q \in dealt : wagers'[q] - uncollected'[q] = wagers[q] - uncollected[q]
    BY <1>5, <1>6, <1>7
  <2>5. ASSUME NEW x \in Holding', stack'[x] + uncollected'[x] > 0
        PROVE  x \in Holding /\ stack[x] + uncollected[x] > 0
    <3>1. CASE x = p
      BY <1>2, <1>6, <3>1
    <3>2. CASE x # p
      BY <1>5, <1>7, <1>8, <1>10, <2>5, <3>2
    <3> QED
      BY <3>1, <3>2
  <2>6. PaidInFull'
    <3> SUFFICES ASSUME NEW x \in Holding', stack'[x] + uncollected'[x] > 0, NEW q \in dealt
                 PROVE  wagers'[q] - uncollected'[q] <= wagers'[x] - uncollected'[x]
      BY <1>4 DEF PaidInFull
    <3>1. x \in dealt /\ wagers[q] - uncollected[q] <= wagers[x] - uncollected[x]
      BY <1>3, <1>7, <2>5 DEF PaidInFull
    <3> QED
      BY <2>4, <3>1
  <2> QED
    BY <2>1, <2>2, <2>3, <2>6 DEF RaisesCover, CallersAreEven
<1>13. OnlyDealtPlay'
  <2>1. \A q \in Seats : q \notin dealt => q # p
    BY <1>2
  <2>2. Holding' # {}
    BY <1>9
  <2>3. ASSUME NEW q \in dealt PROVE hasCards'[q] <=> lastAction'[q] # "FOLD"
    <3>1. CASE q = p
      BY <1>2, <1>4, <3>1
    <3>2. CASE q # p
      BY <1>3, <1>4, <1>7, <3>2 DEF OnlyDealtPlay
    <3> QED
      BY <3>1, <3>2
  <2>4. \A q \in dealt' : hasCards'[q] <=> lastAction'[q] # "FOLD"
    BY <1>4, <2>3
  <2>5. \A q \in Seats : hasCards'[q] => q \in dealt'
    BY <1>2, <1>3, <1>4 DEF OnlyDealtPlay
  <2> QED
    BY <1>3, <1>4, <1>5, <1>7, <1>9, <2>1, <2>2, <2>3, <2>4, <2>5 DEF OnlyDealtPlay
<1>14. BlindsArePaid'
  <2> SUFFICES ASSUME board' = 0
               PROVE  /\ bbIdx' \in dealt' /\ uncollected'[bbIdx'] > 0
                      /\ \A q \in Seats : wagers'[q] = uncollected'[q]
                      /\ \A q \in dealt' : lastAction'[q] \in PlayedActions => uncollected'[q] > 0
                      /\ \E b \in dealt' : LastBlind(b)'
    BY DEF BlindsArePaid
  <2>1. /\ board = 0 /\ bbIdx \in dealt /\ uncollected[bbIdx] > 0
        /\ \A q \in Seats : wagers[q] = uncollected[q]
        /\ \A q \in dealt : lastAction[q] \in PlayedActions => uncollected[q] > 0
    BY <1>3, <1>4 DEF BlindsArePaid
  <2>2. bbIdx' = bbIdx /\ dealt' = dealt
    BY <1>4
  <2>3. uncollected'[bbIdx] > 0
    BY <1>5, <1>6, <1>7, <2>1
  <2>4. \A q \in Seats : wagers'[q] = uncollected'[q]
    BY <1>2, <1>5, <1>6, <2>1
  <2>5. ASSUME NEW q \in dealt, lastAction'[q] \in PlayedActions PROVE uncollected'[q] > 0
    BY <1>4, <1>5, <1>7, <2>1, <2>5
  <2>6. bbIdx' \in dealt' /\ uncollected'[bbIdx'] > 0
    BY <2>1, <2>2, <2>3
  <2>7. \A q \in dealt' : lastAction'[q] \in PlayedActions => uncollected'[q] > 0
    BY <2>2, <2>5
  <2>8. PICK b \in dealt : LastBlind(b)
    BY <1>3, <2>1 DEF BlindsArePaid
  <2>9. \A q \in WithChips' : q \in WithChips
    <3>1. p \in WithChips
      BY <1>2 DEF WithChips
    <3>2. \A q \in WithChips' : q \in Seats
      BY <1>7, <1>10 DEF WithChips
    <3> QED
      BY <1>8, <3>1, <3>2
  <2>10. \A q \in WithChips' : q # b => Distance(q)' < Distance(b)'
    BY <1>4, <2>8, <2>9, PlacesStay DEF LastBlind
  <2>11. LastBlind(b)'
    BY <1>9, <2>10 DEF LastBlind
  <2> QED
    BY <2>2, <2>4, <2>6, <2>7, <2>11
<1>15. PotIsOpen'
  <2> SUFFICES ASSUME board' # 0
               PROVE  \E q \in dealt' : wagers'[q] - uncollected'[q] + deadMoney'[q] > 0
    BY DEF PotIsOpen
  <2>1. PICK q \in dealt : wagers[q] - uncollected[q] + deadMoney[q] > 0
    BY <1>3, <1>4 DEF PotIsOpen
  <2>2. wagers'[q] - uncollected'[q] = wagers[q] - uncollected[q]
    BY <1>5, <1>6, <1>7
  <2>3. deadMoney'[q] = deadMoney[q] /\ q \in dealt'
    BY <1>4
  <2> QED
    BY <2>1, <2>2, <2>3
<1> QED
  BY <1>11, <1>12, <1>13, <1>14, <1>15 DEF BetInv

-----------------------------------------------------------------------------
(* The five betting actions                                                *)
LEMMA FoldingTurn ==
    ASSUME IInv, BetInv, InHand, phase' = "step", NextToAct # NoSeat, Fold(NextToAct)
    PROVE  BetInv'
<1>1. PICK p : p = NextToAct
  OBVIOUS
<1>2. TypeOK
  BY DEF IInv
<1>3. p \in Seats /\ p \in Holding
  BY <1>1, <1>2, Turn
<1>4. Played(p, "FOLD") /\ KeepChips
  BY <1>1 DEF Fold
<1>5. BetBecomes(p, uncollected[p])
  BY <1>2, <1>3, <1>4, KeepsBet
<1>6. uncollected[p] \in Nat
  BY <1>2, <1>3 DEF TypeOK
<1>7. \E q \in Holding : uncollected[p] <= uncollected[q]
  BY <1>3, <1>6
<1>8. uncollected[p] <= uncollected[p]
  BY <1>6
<1> QED
  BY <1>1, <1>4, <1>5, <1>6, <1>7, <1>8, QuietTurn

(* CHECK keeps the betting invariant: nobody has bet more.                 *)
LEMMA CheckingTurn ==
    ASSUME IInv, BetInv, InHand, phase' = "step", NextToAct # NoSeat, Check(NextToAct)
    PROVE  BetInv'
<1>1. PICK p : p = NextToAct
  OBVIOUS
<1>2. TypeOK
  BY DEF IInv
<1>3. p \in Seats /\ p \in Holding
  BY <1>1, <1>2, Turn
<1>4. Played(p, "CHECK") /\ KeepChips /\ ~FacesBet(p)
  BY <1>1 DEF Check
<1>5. BetBecomes(p, uncollected[p])
  BY <1>2, <1>3, <1>4, KeepsBet
<1>6. dealt \subseteq Seats /\ Holding \subseteq dealt /\ \A q \in Seats : uncollected[q] \in Nat
  BY <1>2 DEF TypeOK, Holding
<1>7. \E q \in Holding : uncollected[p] <= uncollected[q]
  BY <1>3, <1>6
<1>8. uncollected[p] <= uncollected[p] /\ uncollected[p] \in Nat
  BY <1>3, <1>6
<1>9. \A q \in dealt : uncollected[q] <= uncollected[p]
  BY <1>3, <1>4, <1>6 DEF FacesBet
<1>10. board = 0 => uncollected[p] > 0
  <2> SUFFICES ASSUME board = 0 PROVE uncollected[p] > 0
    OBVIOUS
  <2>1. bbIdx \in dealt /\ uncollected[bbIdx] > 0
    BY DEF BetInv, BlindsArePaid
  <2> QED
    BY <2>1, <1>3, <1>6, <1>9
<1> QED
  BY <1>1, <1>4, <1>5, <1>7, <1>8, <1>9, <1>10, QuietTurn

(* So does CALL: it is for the largest bet or all-in.                      *)
LEMMA CallingTurn ==
    ASSUME IInv, BetInv, InHand, phase' = "step", NextToAct # NoSeat, Call(NextToAct)
    PROVE  BetInv'
<1>1. PICK p : p = NextToAct
  OBVIOUS
<1>2. TypeOK
  BY DEF IInv
<1>3. p \in Seats /\ p \in Holding /\ stack[p] > 0
  BY <1>1, <1>2, Turn
<1>4. Played(p, "CALL") /\ \E amt \in CallAmts(p) : PutIn(p, amt)
  BY <1>1 DEF Call
<1>5. PICK q \in Holding : /\ \A r \in Holding : uncollected[r] <= uncollected[q]
                           /\ PutIn(p, IF uncollected[q] <= stack[p] + uncollected[p]
                                       THEN uncollected[q] ELSE stack[p] + uncollected[p])
  BY <1>4 DEF CallAmts
<1> DEFINE m == IF uncollected[q] <= stack[p] + uncollected[p]
                THEN uncollected[q] ELSE stack[p] + uncollected[p]
<1>6. dealt \subseteq Seats /\ Holding \subseteq dealt
      /\ \A r \in Seats : uncollected[r] \in Nat /\ stack[r] \in Nat
  BY <1>2 DEF TypeOK, Holding
<1>7. /\ m \in Nat /\ uncollected[p] <= m /\ m <= uncollected[q]
      /\ stack[p] - m + uncollected[p] = 0 \/ m = uncollected[q]
  BY <1>3, <1>5, <1>6
<1>8. \A r \in dealt : uncollected[r] <= uncollected[q]
  <2>1. PICK h \in Holding : \A r \in dealt : uncollected[r] <= uncollected[h]
    BY <1>2, HolderLeads
  <2>2. uncollected[h] <= uncollected[q]
    BY <1>5
  <2> QED
    BY <1>6, <2>1, <2>2
<1>9. board = 0 => m > 0
  <2> SUFFICES ASSUME board = 0 PROVE m > 0
    OBVIOUS
  <2>1. bbIdx \in dealt /\ uncollected[bbIdx] > 0
    BY DEF BetInv, BlindsArePaid
  <2>2. uncollected[q] > 0
    BY <1>5, <1>6, <1>8, <2>1
  <2> QED
    BY <1>3, <1>6, <2>2
<1>10. PutIn(p, m)
  BY <1>5
<1> HIDE DEF m
<1>11. BetBecomes(p, m)
  BY <1>2, <1>3, <1>7, <1>10, PutsIn
<1>12. stack[p] - m + uncollected[p] = 0 \/ \A r \in dealt : uncollected[r] <= m
  BY <1>7, <1>8
<1> QED
  BY <1>1, <1>4, <1>7, <1>9, <1>11, <1>12, QuietTurn

-----------------------------------------------------------------------------
(* min_bet_amt                                                             *)

(* The order that min_bet_amt sorts the players in has a first one.        *)
LEMMA OneRaisesFirst ==
    ASSUME TypeOK, NEW S \in SUBSET Seats, S # {}
    PROVE  \E p \in S : \A q \in S \ {p} : RaisesBefore(p, q)
<1>1. IsFiniteSet(S)
  BY HoldersAreCounted, FS_Subset
<1>2. \A p \in S : ActionOrder(p) \in Nat /\ wagers[p] \in Nat /\ Distance(p) \in Nat
  <2>1. \A p \in Seats : Distance(p) \in 0 .. NumSeats - 1
    BY PlacesDiffer
  <2>2. NumSeats \in Nat
    BY HandAssumption
  <2> QED
    BY <2>1, <2>2 DEF ActionOrder, TypeOK
<1> DEFINE f == [p \in S |-> ActionOrder(p)]
<1>3. PICK a \in S : \A q \in S : f[a] <= f[q]
  <2>1. \A p \in S : f[p] \in Nat
    BY <1>2
  <2> HIDE DEF f
  <2> QED
    BY <2>1, OneComesFirst
<1> DEFINE A == {p \in S : ActionOrder(p) = ActionOrder(a)}
           W == {wagers[p] : p \in A}
<1>4. PICK b \in A : \A q \in A : wagers[q] <= wagers[b]
  <2>1. IsFiniteSet(A) /\ a \in A
    BY <1>1, FS_Subset
  <2>2. IsFiniteSet(W)
    <3> HIDE DEF A
    <3> QED
      BY <2>1, ImageIsFinite
  <2>3. W # {} /\ W \subseteq Int
    BY <1>2, <2>1
  <2>4. PICK w \in W : \A x \in W : x <= w
    <3> HIDE DEF W
    <3> QED
      BY <2>2, <2>3, MaxOfSet
  <2> QED
    BY <2>4
<1> DEFINE B == {p \in A : wagers[p] = wagers[b]}
           g == [p \in B |-> Distance(p)]
<1>5. PICK c \in B : \A q \in B : g[c] <= g[q]
  <2>1. (\A p \in B : g[p] \in Nat) /\ b \in B
    BY <1>2
  <2> HIDE DEF g, B
  <2> QED
    BY <2>1, OneComesFirst
<1>6. ASSUME NEW q \in S \ {c} PROVE RaisesBefore(c, q)
  <2>1. /\ c \in S /\ ActionOrder(c) = ActionOrder(a) /\ wagers[c] = wagers[b]
        /\ ActionOrder(a) <= ActionOrder(q)
    BY <1>3
  <2>2. CASE q \notin A
    BY <1>2, <2>1, <2>2 DEF RaisesBefore
  <2>3. CASE q \in A /\ q \notin B
    <3>1. wagers[q] <= wagers[b] /\ wagers[q] # wagers[b] /\ ActionOrder(q) = ActionOrder(c)
      BY <1>4, <2>1, <2>3
    <3> QED
      BY <1>2, <2>1, <3>1 DEF RaisesBefore
  <2>4. CASE q \in B
    <3>1. Distance(c) <= Distance(q)
      BY <1>5, <2>4
    <3>2. Distance(c) # Distance(q)
      BY <2>1, PlacesDiffer
    <3> QED
      BY <1>2, <2>1, <2>4, <3>1, <3>2 DEF RaisesBefore
  <2> QED
    BY <2>2, <2>3, <2>4
<1> QED
  BY <1>6

(* No raise is to less than the largest bet, whoever has called, checked   *)
(* or posted since.                                                        *)
LEMMA RaisesMeetBets ==
    ASSUME TypeOK, InHand, BetInv, NextToAct # NoSeat, ~NoBets, NEW q \in dealt
    PROVE  MinBetAmt \in Int /\ uncollected[q] <= MinBetAmt
<1> DEFINE First(S) == CHOOSE x \in S : \A y \in S \ {x} : RaisesBefore(x, y)
           top      == First(dealt)
           second   == First(dealt \ {top})
<1>1. MinBetAmt = CASE lastAction[top] \in {"BET", "POST"} -> 2 * uncollected[top]
                    [] lastAction[top] = "RAISE_TO" -> 2 * uncollected[top] - uncollected[second]
                    [] OTHER -> BB
  BY DEF MinBetAmt
<1>2. dealt \in SUBSET Seats /\ Holding \subseteq dealt
      /\ \A p \in dealt : /\ uncollected[p] \in Nat /\ wagers[p] \in Nat
                          /\ lastAction[p] \in LastActions
  BY DEF TypeOK, Holding
<1>3. /\ RaiserLeads /\ RaisesCover /\ CallersAreEven /\ PaidInFull /\ OnlyDealtPlay
      /\ BlindsArePaid
  BY DEF BetInv
<1>4. top \in dealt /\ \A y \in dealt \ {top} : RaisesBefore(top, y)
  <2>1. \E x \in dealt : \A y \in dealt \ {x} : RaisesBefore(x, y)
    BY <1>2, OneRaisesFirst
  <2> QED
    BY <2>1
<1>5. second \in dealt
  <2> HIDE DEF top
  <2>1. dealt \ {top} # {}
    <3>1. PICK x \in Holding : x # NextToAct
      BY Turn
    <3>2. NextToAct \in dealt
      BY Turn
    <3> QED
      BY <1>2, <3>1, <3>2
  <2>2. \E x \in dealt \ {top} : \A y \in (dealt \ {top}) \ {x} : RaisesBefore(x, y)
    BY <1>2, <2>1, OneRaisesFirst
  <2> QED
    BY <2>2
<1> HIDE DEF top, second
<1>6. \A y \in dealt : ActionOrder(top) <= ActionOrder(y)
                       /\ (ActionOrder(top) = ActionOrder(y) => wagers[y] <= wagers[top])
  <2>1. \A y \in dealt : ActionOrder(y) \in Nat
    BY DEF ActionOrder
  <2> QED
    BY <1>2, <1>4, <2>1 DEF RaisesBefore
<1>7. ASSUME Raisers # {}
      PROVE  top \in Raisers /\ \A y \in dealt : uncollected[y] <= uncollected[top]
  <2>1. PICK r \in Raisers : \A y \in dealt : uncollected[y] <= uncollected[r]
    BY <1>3, <1>7 DEF RaiserLeads
  <2>2. \A x \in dealt : x \in Raisers <=> lastAction[x] \in {"BET", "RAISE_TO"}
    BY <1>3 DEF Raisers, Holding, OnlyDealtPlay
  <2>3. r \in dealt /\ lastAction[r] \in {"BET", "RAISE_TO"}
    BY <1>2, <2>1 DEF Raisers
  <2>4. lastAction[top] = "RAISE_TO" \/ (lastAction[top] = "BET" /\ lastAction[r] = "BET")
    BY <1>2, <1>4, <1>6, <2>3 DEF ActionOrder, LastActions
  <2>5. top \in Raisers /\ top \in Holding /\ r \in Holding
    BY <1>4, <2>1, <2>2, <2>4 DEF Raisers
  <2>6. uncollected[r] <= uncollected[top]
    <3>1. CASE lastAction[r] = "BET" /\ lastAction[top] = "RAISE_TO"
      BY <1>3, <2>1, <2>5, <3>1 DEF RaisesCover
    <3>2. CASE lastAction[r] = lastAction[top]
      <4>1. wagers[r] <= wagers[top]
        BY <1>6, <2>3, <3>2 DEF ActionOrder
      <4>2. uncollected[r] > 0 /\ uncollected[top] > 0
        BY <1>3, <2>1, <2>5 DEF RaisesCover
      <4>3. stack[r] \in Nat /\ stack[top] \in Nat
        BY <1>2, <1>4, <2>3 DEF TypeOK
      <4>4. stack[r] + uncollected[r] > 0
        BY <1>2, <2>3, <4>2, <4>3
      <4>5. wagers[top] - uncollected[top] <= wagers[r] - uncollected[r]
        BY <1>3, <1>4, <2>5, <4>4 DEF PaidInFull
      <4> QED
        BY <1>2, <1>4, <2>3, <4>1, <4>5
    <3>3. CASE lastAction[r] = "RAISE_TO" /\ lastAction[top] = "BET"
      BY <2>4, <3>3
    <3> QED
      BY <2>3, <2>4, <3>1, <3>2, <3>3
  <2> QED
    BY <1>2, <1>4, <2>1, <2>3, <2>5, <2>6
<1>8. CASE Raisers # {}
  <2>1. uncollected[q] <= uncollected[top] /\ uncollected[second] <= uncollected[top]
    BY <1>5, <1>7, <1>8
  <2>2. lastAction[top] \in {"BET", "RAISE_TO"}
    BY <1>7, <1>8 DEF Raisers
  <2>3. MinBetAmt = IF lastAction[top] = "BET" THEN 2 * uncollected[top]
                    ELSE 2 * uncollected[top] - uncollected[second]
    BY <1>1, <2>2
  <2> QED
    BY <1>2, <1>4, <1>5, <2>1, <2>3
<1>9. CASE Raisers = {}
  <2>1. board = 0
    BY <1>3, <1>9 DEF CallersAreEven
  <2>2. PICK b \in dealt : LastBlind(b)
    BY <1>3, <2>1 DEF BlindsArePaid
  <2>3. lastAction[b] = "POST" /\ uncollected[q] <= uncollected[b]
    BY <1>9, <2>2, Turn DEF LastBlind
  <2>4. \A x \in dealt : lastAction[x] \notin {"BET", "RAISE_TO"}
    BY <1>3, <1>9 DEF Raisers, Holding, OnlyDealtPlay
  <2>5. lastAction[top] = "POST"
    BY <1>2, <1>4, <1>6, <2>3, <2>4 DEF ActionOrder, LastActions
  <2>6. wagers[b] <= wagers[top]
    BY <1>6, <2>3, <2>5 DEF ActionOrder
  <2>7. uncollected[b] <= uncollected[top]
    BY <1>2, <1>3, <1>4, <2>1, <2>6 DEF BlindsArePaid
  <2>8. MinBetAmt = 2 * uncollected[top]
    BY <1>1, <2>5
  <2> QED
    BY <1>2, <1>4, <2>3, <2>7, <2>8
<1> QED
  BY <1>8, <1>9

(* So does BET: nobody has bet.                                            *)
LEMMA BettingTurn ==
    ASSUME IInv, BetInv, InHand, phase' = "step", NextToAct # NoSeat, NEW p, p = NextToAct,
           NEW amt \in 0 .. stack[p], Bet(p, amt)
    PROVE  BetInv'
<1>1. TypeOK
  BY DEF IInv
<1>2. p \in Seats /\ p \in dealt /\ stack[p] > 0
  BY <1>1, Turn
<1>3. dealt \subseteq Seats /\ stack[p] \in Nat /\ \A q \in Seats : uncollected[q] \in Nat
  BY <1>1, <1>2 DEF TypeOK
<1>4. /\ NoBets /\ PutIn(p, amt) /\ Played(p, "BET")
      /\ amt >= BB \/ amt = stack[p]
  BY DEF Bet
<1>5. amt \in Nat /\ amt > 0
  BY <1>2, <1>3, <1>4, HandAssumption
<1>6. \A q \in dealt : uncollected[q] <= amt
  BY <1>4, <1>5 DEF NoBets
<1>7. BetBecomes(p, amt)
  BY <1>1, <1>2, <1>4, <1>5, PutsIn
<1> QED
  BY <1>4, <1>5, <1>6, <1>7, RaisingTurn

(* So does RAISE_TO, because min_bet_amt is never below the largest bet    *)
(* when the betting invariant holds; and the raiser takes no chips back.   *)
LEMMA RaiseTurn ==
    ASSUME IInv, BetInv, InHand, phase' = "step", NextToAct # NoSeat, NEW p, p = NextToAct,
           NEW amt \in 0 .. stack[p] + uncollected[p], RaiseTo(p, amt)
    PROVE  BetInv' /\ uncollected[p] <= amt
<1>1. TypeOK
  BY DEF IInv
<1>2. p \in Seats /\ p \in dealt /\ stack[p] > 0
  BY <1>1, Turn
<1>3. /\ dealt \subseteq Seats /\ stack[p] \in Nat /\ uncollected[p] \in Nat
      /\ \A q \in Seats : uncollected[q] \in Nat
  BY <1>1, <1>2 DEF TypeOK
<1>4. /\ ~NoBets /\ PutIn(p, amt) /\ Played(p, "RAISE_TO")
      /\ amt >= MinBetAmt \/ amt = stack[p] + uncollected[p]
      /\ \A q \in dealt : stack[p] + uncollected[p] > uncollected[q]
  BY DEF RaiseTo, CanRaise
<1>5. amt \in Nat
  BY <1>3
<1>6. \A q \in dealt : MinBetAmt \in Int /\ uncollected[q] <= MinBetAmt
  BY <1>1, <1>4, RaisesMeetBets
<1>7. ASSUME NEW q \in dealt PROVE uncollected[q] <= amt
  <2>1. CASE amt = stack[p] + uncollected[p]
    BY <1>3, <1>4, <2>1
  <2>2. CASE amt >= MinBetAmt
    BY <1>3, <1>5, <1>6, <2>2
  <2> QED
    BY <1>4, <2>1, <2>2
<1>8. \A q \in dealt : uncollected[q] <= amt
  BY <1>7
<1>9. PICK q \in dealt : uncollected[q] # 0
  BY <1>4 DEF NoBets
<1>10. amt > 0
  BY <1>3, <1>8, <1>5, <1>9
<1>11. BetBecomes(p, amt)
  BY <1>1, <1>2, <1>4, <1>5, PutsIn
<1> QED
  BY <1>2, <1>4, <1>8, <1>5, <1>10, <1>11, RaisingTurn

(* Whatever the player on turn does, the betting invariant stays.          *)
LEMMA ActKeepsBets ==
    ASSUME IInv, BetInv, NEW p \in Seats, Act(p)
    PROVE  BetInv'
<1>1. /\ InHand /\ phase' = "step" /\ p = NextToAct /\ NextToAct # NoSeat
  BY DEF Act, InHand, BetInv
<1>2. CASE Fold(p)
  BY <1>1, <1>2, FoldingTurn
<1>3. CASE Check(p)
  BY <1>1, <1>3, CheckingTurn
<1>4. CASE Call(p)
  BY <1>1, <1>4, CallingTurn
<1>5. CASE \E amt \in 0 .. stack[p] : Bet(p, amt)
  BY <1>1, <1>5, BettingTurn
<1>6. CASE \E amt \in 0 .. stack[p] + uncollected[p] : RaiseTo(p, amt)
  BY <1>1, <1>6, RaiseTurn
<1> QED
  BY <1>2, <1>3, <1>4, <1>5, <1>6 DEF Act

(* So it does when the clock folds.                                        *)
LEMMA TimedFoldKeepsBets ==
    ASSUME IInv, BetInv, TimedFold
    PROVE  BetInv'
<1>1. InHand /\ phase' = "step" /\ NextToAct # NoSeat /\ Fold(NextToAct)
  BY DEF TimedFold, InHand, BetInv
<1> QED
  BY <1>1, FoldingTurn

(* So it does when step() plays a preset.                                  *)
LEMMA PlayPresetKeepsBets ==
    ASSUME IInv, BetInv, PlayPreset
    PROVE  BetInv'
<1>1. InHand /\ phase' = "step" /\ NextToAct # NoSeat
  BY DEF PlayPreset, InHand
<1>2. PICK p : p = NextToAct
  OBVIOUS
<1>3. Fold(p) \/ Check(p) \/ Call(p)
  BY <1>2 DEF PlayPreset
<1> QED
  BY <1>1, <1>2, <1>3, FoldingTurn, CheckingTurn, CallingTurn

-----------------------------------------------------------------------------
(* Between the turns                                                       *)

(* The turn depends on the cards, chips and actions alone.                 *)
LEMMA NextStays ==
    ASSUME UNCHANGED <<stack, uncollected, dealt, sbIdx, bbIdx, lastAction, hasCards, board>>
    PROVE  NextToAct' = NextToAct
  BY DEF NextToAct, Holding, NoBets, HasNotActed, LastRaiser, Raisers, Distance, FirstToActPos,
         IsPreflop

(* What is neither a turn nor dealt or paid: presets, leave requests, the  *)
(* start of a wait, and what others do.                                    *)
BetweenTurns ==
    /\ InHand /\ UNCHANGED <<chipVars, tableVars, lastAction, hasCards, board>>
    /\ \/ phase' = "step"
       \/ phase' = "wait" /\ (phase = "wait" \/ NextToAct # NoSeat)

(* The handlers, the events and the stutters that are such steps.          *)
LEMMA StepsBetweenTurns ==
    ASSUME \/ \E p \in Seats, kind \in {"none", "checkfold", "check", "call"} : SetPreset(p, kind)
           \/ \E p \in Seats : LeaveSeat(p) \/ TakeSeat(p)
           \/ WaitForPlayer
           \/ InHand /\ UNCHANGED vars
    PROVE  BetweenTurns
  BY DEF SetPreset, LeaveSeat, TakeSeat, WaitForPlayer, BetweenTurns, InHand, vars

(* These leave the bets alone, and somebody is still waited for.           *)
LEMMA BetweenKeepsBets ==
    ASSUME BetInv, BetweenTurns
    PROVE  BetInv'
<1>1. UNCHANGED <<stack, wagers, uncollected, deadMoney, dealt, sbIdx, bbIdx, handNumber,
                  startStack, lastAction, hasCards, board>>
  BY DEF BetweenTurns, chipVars, tableVars
<1>2. /\ Holding' = Holding /\ Raisers' = Raisers /\ WithChips' = WithChips
      /\ \A q : HasNotActed(q)' <=> HasNotActed(q)
      /\ NoBets' <=> NoBets
  BY <1>1 DEF Holding, Raisers, WithChips, HasNotActed, NoBets
<1>3. /\ RaiserLeads' /\ RaisesCover' /\ CallersAreEven' /\ PaidInFull' /\ OnlyDealtPlay'
      /\ PotIsOpen'
  BY <1>1, <1>2 DEF BetInv, BetweenTurns, RaiserLeads, RaisesCover, CallersAreEven, PaidInFull,
                    OnlyDealtPlay, PotIsOpen
<1>4. \A b : LastBlind(b) => LastBlind(b)'
  BY <1>1, <1>2, PlacesStay DEF LastBlind
<1>5. BlindsArePaid'
  BY <1>1, <1>4 DEF BetInv, BetweenTurns, BlindsArePaid
<1>6. NextToAct' = NextToAct
  BY <1>1, NextStays
<1>7. phase' \in {"step", "wait"} /\ (phase' = "wait" => NextToAct' # NoSeat)
  BY <1>6 DEF BetInv, BetweenTurns, NoSeat
<1> QED
  BY <1>3, <1>5, <1>7 DEF BetInv

-----------------------------------------------------------------------------
(* A new hand, a new street, the end of the hand                           *)

(* Before the flop the big blind acts last, after the small blind; there   *)
(* is nobody between the two.                                              *)
LEMMA SeatsBetween ==
    ASSUME NEW n \in Nat \ {0}, NEW x \in 0 .. n - 1, NEW y \in 0 .. n - 1
    PROVE  (x - y + n) % n = IF x < y THEN x - y + n ELSE x - y
<1> DEFINE a == x - y + n
<1>1. a \in 0 .. 2*n - 1 /\ (a < n <=> x < y) /\ a - n = x - y
  OBVIOUS
<1>2. (x - y + n) % n = (a % n)
  OBVIOUS
<1> HIDE DEF a
<1>3. (a % n) = IF a < n THEN a ELSE a - n
  BY <1>1, AroundTheTable
<1> QED
  BY <1>1, <1>2, <1>3 DEF a

(* The place of a seat when the one after b acts first.                    *)
LEMMA PlaceAfter ==
    ASSUME NEW n \in Nat \ {0}, NEW b \in 0 .. n - 1, NEW q \in 0 .. n - 1
    PROVE  (q - ((b + 1) % n) + n) % n = IF q <= b THEN n - 1 - b + q ELSE q - b - 1
<1> DEFINE a == b + 1
           f == IF b + 1 < n THEN b + 1 ELSE 0
<1>1. a \in 0 .. 2 * n - 1 /\ a = b + 1
  OBVIOUS
<1> HIDE DEF a
<1>2. (a % n) = IF a < n THEN a ELSE a - n
  BY <1>1, AroundTheTable
<1>3. ((b + 1) % n) = f /\ f \in 0 .. n - 1
  BY <1>1, <1>2
<1>4. (q - f + n) % n = IF q < f THEN q - f + n ELSE q - f
  <2> HIDE DEF f
  <2> QED
    BY <1>3, SeatsBetween
<1>5. (q - ((b + 1) % n) + n) % n = IF q < f THEN q - f + n ELSE q - f
  <2> HIDE DEF f
  <2> QED
    BY <1>3, <1>4
<1> QED
  BY <1>5

(* The place of every seat before the flop.                                *)
LEMMA PlaceBeforeFlop ==
    ASSUME NumSeats \in Nat \ {0}, board = 0, bbIdx \in Seats, NEW q \in Seats
    PROVE  Distance(q) = IF q <= bbIdx THEN NumSeats - 1 - bbIdx + q ELSE q - bbIdx - 1
  BY PlaceAfter DEF Distance, FirstToActPos, IsPreflop, Seats

(* The same in the hand that a step starts.                                *)
LEMMA ActsAt ==
    ASSUME NumSeats \in Nat \ {0}, board' = 0, NEW b \in Seats, bbIdx' = b, NEW q \in Seats
    PROVE  Distance(q)' = IF q <= b THEN NumSeats - 1 - b + q ELSE q - b - 1
  BY PlaceAfter DEF Distance, FirstToActPos, IsPreflop, Seats

(* Before the flop the big blind is the last to act of all seats.          *)
LEMMA BigBlindActsLast ==
    ASSUME NumSeats \in Nat \ {0}, board' = 0, NEW bb \in Seats, bbIdx' = bb,
           NEW q \in Seats, q # bb
    PROVE  Distance(q)' < Distance(bb)'
<1>1. /\ Distance(q)' = IF q <= bb THEN NumSeats - 1 - bb + q ELSE q - bb - 1
      /\ Distance(bb)' = IF bb <= bb THEN NumSeats - 1 - bb + bb ELSE bb - bb - 1
  BY ActsAt
<1>2. bb \in 0 .. NumSeats - 1 /\ q \in 0 .. NumSeats - 1
  BY DEF Seats
<1> QED
  BY <1>1, <1>2

(* And, but for it, the small blind is the last of the players dealt in.   *)
LEMMA SmallBlindActsLast ==
    ASSUME NumSeats \in Nat \ {0}, board' = 0, NEW bb \in Seats, bbIdx' = bb,
           NEW sb \in Seats, NEW players \in SUBSET Seats, NEW joining,
           BlindSeats(players, joining, sb, bb),
           sb \in players, NEW q \in players, q # bb, q # sb
    PROVE  Distance(q)' < Distance(sb)'
<1>1. /\ Distance(q)' = IF q <= bb THEN NumSeats - 1 - bb + q ELSE q - bb - 1
      /\ Distance(sb)' = IF sb <= bb THEN NumSeats - 1 - bb + sb ELSE sb - bb - 1
  BY ActsAt
<1>2. bb \in 0 .. NumSeats - 1 /\ q \in 0 .. NumSeats - 1 /\ sb \in 0 .. NumSeats - 1
  BY DEF Seats
<1>3. ~HeadsUp(players, joining, sb, bb)
  BY DEF HeadsUp
<1>4. ~Between(sb, q, bb) /\ sb # bb
  BY <1>3 DEF BlindSeats
<1>5. /\ (q - sb + NumSeats) % NumSeats = IF q < sb THEN q - sb + NumSeats ELSE q - sb
      /\ (bb - sb + NumSeats) % NumSeats = IF bb < sb THEN bb - sb + NumSeats ELSE bb - sb
  BY <1>2, SeatsBetween
<1>6. ~((IF q < sb THEN q - sb + NumSeats ELSE q - sb)
        < (IF bb < sb THEN bb - sb + NumSeats ELSE bb - sb))
  BY <1>4, <1>5 DEF Between
<1> QED
  BY <1>1, <1>2, <1>4, <1>6

(* The big blind posts something.                                          *)
LEMMA BigBlindPosts ==
    ASSUME IInv, NEW players \in SUBSET {p \in Seats : stack[p] > 0},
           NEW sb \in Seats, NEW bb \in players, sb # bb, NEW owesBB, NEW owesSB,
           StartHand(players, sb, bb, owesBB, owesSB)
    PROVE  uncollected'[bb] > 0
<1>1. stack[bb] \in Nat /\ stack[bb] > 0 /\ BB \in Nat /\ BB > 0
  BY HandAssumption DEF IInv, TypeOK
<1>2. sbIdx' = sb /\ bbIdx' = bb /\ uncollected'[bb] = PostedLive(bb, owesBB, owesSB)
  BY DEF StartHand
<1>3. \E x \in {stack[bb], BB} : \A y \in {stack[bb], BB} : x <= y
  BY <1>1
<1>4. Min({stack[bb], BB}) \in {stack[bb], BB}
  BY <1>3 DEF Min
<1>5. PostedBig(bb, owesBB) = Min({stack[bb], BB})
  BY <1>2 DEF PostedBig
<1>6. PostedLive(bb, owesBB, owesSB) = Min({stack[bb], BB}) + 0
  BY <1>2, <1>5 DEF PostedLive
<1> QED
  BY <1>1, <1>2, <1>4, <1>6

(* The blinds of a new hand are the invariant of an open street: the last  *)
(* to act is the big blind or, when it could not post more, the small      *)
(* blind.                                                                  *)
LEMMA StartHandKeepsBets ==
    ASSUME IInv, NEW players \in SUBSET {p \in Seats : stack[p] > 0}, Cardinality(players) >= 2,
           NEW joining, NEW sb \in Seats, NEW bb \in Seats, BlindSeats(players, joining, sb, bb),
           NEW owesBB, NEW owesSB, sb \notin owesBB,
           StartHand(players, sb, bb, owesBB, owesSB),
           \A q \in Seats : q # sb => uncollected'[q] <= uncollected'[bb]
    PROVE  BetInv'
<1>1. bb \in players /\ sb # bb
  BY DEF BlindSeats
<1> DEFINE live(p) == IF p \in players THEN PostedLive(p, owesBB, owesSB) ELSE 0
           dead(p) == IF p \in players THEN PostedDead(p, owesBB, owesSB) ELSE 0
<1>2. \A p \in Seats : /\ live(p) \in Nat /\ dead(p) \in Nat
                       /\ live(p) + dead(p) <= stack[p] /\ stack[p] \in Nat
  BY PostedBlinds DEF IInv, TypeOK
<1>3. /\ wagers' = [p \in Seats |-> live(p)]
      /\ uncollected' = [p \in Seats |-> live(p)]
      /\ deadMoney' = [p \in Seats |-> dead(p)]
  BY DEF StartHand
<1>4. /\ dealt' = players /\ sbIdx' = sb /\ bbIdx' = bb /\ startStack' = stack
      /\ board' = 0 /\ phase' = "step"
      /\ hasCards' = [p \in Seats |-> p \in players]
      /\ preset' = [p \in Seats |-> NoPreset]
      /\ lastAction' = [p \in Seats |-> IF p \in players \cap ({sb, bb} \cup owesBB)
                                        THEN "POST" ELSE "NONE"]
  BY DEF StartHand
<1>5. stack' = [p \in Seats |-> stack[p] - live(p) - dead(p)]
  BY DEF StartHand
<1>6. live(bb) > 0
  BY <1>3, <1>1, BigBlindPosts
(* A small blind larger than the big blind: the big blind is all-in.       *)
<1>7. ASSUME live(sb) > live(bb)
       PROVE  sb \in players /\ stack'[bb] = 0
  <2>1. sb \in players
    BY <1>2, <1>1, <1>7
  <2>2. SB \in Nat /\ BB \in Nat /\ SB <= BB /\ stack[sb] \in Nat /\ stack[bb] \in Nat
    BY <1>2, HandAssumption
  <2>3. live(sb) <= SB
    <3>1. PostedBig(sb, owesBB) = 0
      BY <1>4, <1>1 DEF PostedBig
    <3>2. PostedSmall(sb, owesBB, owesSB) = Min({stack[sb] - 0, SB})
      BY <1>4, <1>1, <3>1 DEF PostedSmall
    <3>3. PostedLive(sb, owesBB, owesSB) = 0 + Min({stack[sb] - 0, SB})
      BY <1>4, <3>1, <3>2 DEF PostedLive
    <3>4. stack[sb] - 0 \in Nat
      BY <2>2
    <3>5. Min({stack[sb] - 0, SB}) \in Nat /\ Min({stack[sb] - 0, SB}) <= SB
      BY <2>2, <3>4, MinOfTwo
    <3> QED
      BY <2>1, <3>3, <3>5
  <2>4. live(bb) = Min({stack[bb], BB})
    <3>1. PostedBig(bb, owesBB) = Min({stack[bb], BB})
      BY <1>4 DEF PostedBig
    <3>2. PostedLive(bb, owesBB, owesSB) = Min({stack[bb], BB}) + 0
      BY <1>4, <1>1, <3>1 DEF PostedLive
    <3>3. Min({stack[bb], BB}) \in Nat
      BY <2>2, MinOfTwo
    <3> QED
      BY <1>1, <3>2, <3>3
  <2>5. Min({stack[bb], BB}) = IF stack[bb] <= BB THEN stack[bb] ELSE BB
    BY <2>2, MinOfPair
  <2>6. live(bb) = stack[bb] /\ dead(bb) \in Nat /\ live(bb) + dead(bb) <= stack[bb]
    <3> HIDE DEF live, dead
    <3> QED
      BY <1>2, <1>7, <2>2, <2>3, <2>4, <2>5
  <2> HIDE DEF live, dead
  <2> QED
    BY <1>2, <1>5, <2>1, <2>6
<1>8. \A p \in Seats : p \notin players => live(p) = 0 /\ dead(p) = 0
  OBVIOUS
<1> HIDE DEF live, dead
<1>9. \A p \in Seats : lastAction'[p] \in {"NONE", "POST"} /\ HasNotActed(p)'
  BY <1>4 DEF HasNotActed
<1>10. Holding' = players /\ Raisers' = {} /\ WithChips' \subseteq Seats
  <2>1. Holding' = players
    BY <1>4 DEF Holding
  <2> QED
    BY <1>9, <2>1 DEF Raisers, WithChips
<1>11. RaiserLeads' /\ RaisesCover' /\ CallersAreEven'
  BY <1>4, <1>9, <1>10 DEF RaiserLeads, RaisesCover, CallersAreEven
<1>12. PaidInFull'
  <2>1. \A p \in Seats : wagers'[p] - uncollected'[p] = 0
    BY <1>2, <1>3
  <2> QED
    BY <1>4, <1>10, <2>1 DEF PaidInFull
<1>13. OnlyDealtPlay'
  BY <1>2, <1>3, <1>4, <1>8, <1>9, <1>10, <1>1 DEF OnlyDealtPlay
<1>14. \E b \in players : LastBlind(b)'
  <2>1. PICK b \in {sb, bb} : b = IF live(sb) > live(bb) THEN sb ELSE bb
    OBVIOUS
  <2>2. live(b) \in Nat /\ live(bb) <= live(b) /\ live(sb) <= live(b)
    BY <1>2, <2>1
  <2>3. b # bb => b = sb /\ sb \in players /\ stack'[bb] = 0
    BY <2>1, <1>7
  <2>4. b \in players /\ b \in Seats /\ lastAction'[b] = "POST"
    <3>1. b \in players /\ b \in Seats /\ b \in {sb, bb}
      BY <2>1, <2>3, <1>1
    <3> QED
      BY <3>1, <1>4
  <2>5. \A q \in Seats : uncollected'[q] <= uncollected'[b]
    <3> SUFFICES ASSUME NEW q \in Seats PROVE live(q) <= live(b)
      BY <1>3, <2>4
    <3>1. q # sb => live(q) <= live(bb)
      BY <1>3
    <3> QED
      BY <1>2, <2>2, <3>1
  <2>6. ASSUME NEW q \in WithChips', q # b PROVE Distance(q)' < Distance(b)'
    <3>1. q \in players /\ q \in Seats /\ stack'[q] > 0
      BY <1>4, <1>10 DEF WithChips
    <3>2. NumSeats \in Nat \ {0} /\ board' = 0 /\ bbIdx' = bb
      BY <1>4, HandAssumption
    <3>3. CASE b = bb
      <4>1. q # bb
        BY <2>6, <3>3
      <4>2. Distance(q)' < Distance(bb)'
        BY <3>1, <3>2, <4>1, BigBlindActsLast
      <4> QED
        BY <3>3, <4>2
    <3>4. CASE b # bb
      <4>1. b = sb /\ sb \in players /\ q # bb /\ q # sb
        BY <2>6, <2>3, <3>1, <3>4
      <4>2. players \in SUBSET Seats
        OBVIOUS
      <4>3. Distance(q)' < Distance(sb)'
        BY <3>1, <3>2, <4>1, <4>2, SmallBlindActsLast
      <4> QED
        BY <4>1, <4>3
    <3> QED
      BY <3>3, <3>4
  <2>7. dealt' = players /\ players \subseteq Seats
    BY <1>4
  <2>8. \A q \in dealt' : uncollected'[q] <= uncollected'[b]
    BY <2>5, <2>7
  <2>9. LastBlind(b)'
    BY <2>4, <2>6, <2>8 DEF LastBlind
  <2> QED
    BY <2>4, <2>9
<1>15. BlindsArePaid'
  <2>1. bbIdx' \in dealt' /\ uncollected'[bbIdx'] > 0 /\ lastAction'[bbIdx'] = "POST"
    BY <1>3, <1>4, <1>6, <1>1
  <2>2. \E b \in dealt' : LastBlind(b)'
    BY <1>4, <1>14
  <2>3. \A p \in Seats : wagers'[p] = uncollected'[p]
    BY <1>3
  <2>4. \A p \in dealt' : ~(lastAction'[p] \in PlayedActions)
    BY <1>4, <1>9 DEF PlayedActions
  <2> QED
    BY <1>4, <2>1, <2>3, <2>4, <2>2 DEF BlindsArePaid
<1>16. PotIsOpen'
  BY <1>4 DEF PotIsOpen
<1> QED
  BY <1>4, <1>11, <1>13, <1>15, <1>16, <1>12 DEF BetInv

(* At most one player gets chips back.                                     *)
LEMMA OneGetsBack ==
    ASSUME TypeOK, NEW returned \in UncalledReturns, NEW p \in Seats, NEW q \in Seats, p # q,
           returned[p] # 0
    PROVE  returned[q] = 0
<1>1. CASE \A x \in dealt : \E y \in dealt \ {x} : wagers[x] <= wagers[y]
  <2>1. returned = Zero
    BY <1>1 DEF UncalledReturns
  <2> QED
    BY <2>1 DEF Zero
<1>2. CASE ~ \A x \in dealt : \E y \in dealt \ {x} : wagers[x] <= wagers[y]
  <2>1. PICK pq \in dealt \X dealt : 
               returned = [Zero EXCEPT ![pq[1]] = wagers[pq[1]] - wagers[pq[2]]]
    BY <1>2 DEF UncalledReturns
  <2> QED
    BY <2>1 DEF Zero
<1> QED
  BY <1>1, <1>2

(* And this player still has bet as much as anybody.                       *)
LEMMA LeaderIsEven ==
    ASSUME TypeOK, NEW returned \in UncalledReturns, NEW p \in dealt, returned[p] # 0, NEW q \in dealt
    PROVE  wagers[q] - returned[q] <= wagers[p] - returned[p]
<1>1. dealt \subseteq Seats /\ \A x \in Seats : wagers[x] \in Nat
  BY DEF TypeOK
<1>2. CASE \A x \in dealt : \E y \in dealt \ {x} : wagers[x] <= wagers[y]
  BY <1>1, <1>2 DEF UncalledReturns, Zero
<1>3. CASE ~ \A x \in dealt : \E y \in dealt \ {x} : wagers[x] <= wagers[y]
  <2>1. PICK pq \in dealt \X dealt :
               /\ Leads(pq[1], pq[2])
               /\ returned = [Zero EXCEPT ![pq[1]] = wagers[pq[1]] - wagers[pq[2]]]
    BY <1>3 DEF UncalledReturns
  <2>2. PICK x \in dealt, y \in dealt :
               Leads(x, y) /\ returned = [Zero EXCEPT ![x] = wagers[x] - wagers[y]]
    BY <2>1
  <2>3. x \in Seats /\ y \in Seats /\ x # y
        /\ \A s \in Seats : returned[s] = IF s = x THEN wagers[x] - wagers[y] ELSE 0
    BY <1>1, <2>2 DEF Zero, Leads
  <2>4. p = x
    BY <1>1, <2>3
  <2>5. \A r \in dealt \ {x} : wagers[r] <= wagers[y]
    BY <2>2 DEF Leads
  <2> QED
    BY <1>1, <2>3, <2>4, <2>5
<1> QED
  BY <1>2, <1>3

(* When nobody is to act, whoever has chips left has put in as much as     *)
(* anybody, and who has not acted is the only one and faces no bet.        *)
LEMMA StreetIsOver ==
    ASSUME TypeOK, InHand, BetInv, NextToAct = NoSeat, Cardinality(Holding) # 1
    PROVE  /\ Cardinality(Holding) >= 2
           /\ \A q \in WithChips : HasNotActed(q) => Cardinality(WithChips) = 1 /\ NoBets
           /\ \A p \in WithChips : \A q \in dealt : uncollected[q] <= uncollected[p]
<1>1. RaiserLeads /\ CallersAreEven /\ Holding # {}
  BY DEF BetInv, OnlyDealtPlay
<1>2. NobodyOnTurn
  BY <1>1, WhoIsNext
<1>3. IsFiniteSet(Holding) /\ Cardinality(Holding) \in Nat /\ WithChips \subseteq Holding
      /\ Holding \subseteq Seats
  BY HoldersAreCounted
<1>4. Cardinality(Holding) # 0
  BY <1>1, <1>3, FS_EmptySet
<1>5. Cardinality(Holding) >= 2
  BY <1>3, <1>4
<1>6. \A q \in WithChips : HasNotActed(q) => Cardinality(WithChips) = 1 /\ NoBets
  <2>1. ~(Cardinality(Holding) < 2)
    BY <1>3, <1>5
  <2> QED
    BY <1>2, <2>1 DEF NobodyOnTurn
<1>7. dealt \subseteq Seats /\ \A q \in Seats : uncollected[q] \in Nat
  BY DEF TypeOK
<1>8. ASSUME NEW p \in WithChips, ~NoBets, NEW q \in dealt
      PROVE  uncollected[q] <= uncollected[p]
  <2>1. CASE Raisers # {}
    <3>1. LastRaiser \in Raisers /\ uncollected[q] <= uncollected[LastRaiser]
      BY <1>1, <2>1, LastRaiserLeads
    <3>2. LastRaiser \in Seats
      BY <1>3, <3>1 DEF Raisers
    <3>3. ~(Cardinality(Holding) < 2)
      BY <1>3, <1>5
    <3>4. ~(uncollected[p] < uncollected[LastRaiser])
      BY <1>2, <1>8, <2>1, <3>3 DEF NobodyOnTurn
    <3> QED
      BY <1>3, <1>7, <3>1, <3>2, <3>4
  <2>2. CASE Raisers = {}
    BY <1>1, <1>6, <1>8, <2>2 DEF CallersAreEven
  <2> QED
    BY <2>1, <2>2
<1>9. ASSUME NEW p \in WithChips, NoBets, NEW q \in dealt
      PROVE  uncollected[q] <= uncollected[p]
  <2>1. uncollected[q] = 0 /\ uncollected[p] \in Nat
    BY <1>3, <1>7, <1>9 DEF NoBets
  <2> QED
    BY <2>1
<1> QED
  BY <1>5, <1>6, <1>8, <1>9

(* The bets of a street that is over are collected, and a street without   *)
(* bets is open.                                                           *)
LEMMA DealStreetKeepsBets ==
    ASSUME IInv, BetInv, DealStreet
    PROVE  BetInv'
<1>1. /\ TypeOK /\ BetsAreWagers /\ CollectedIsMatched /\ ChipsAccounted
      /\ InHand /\ phase = "step" /\ NextToAct = NoSeat /\ Cardinality(Holding) # 1
  BY DEF IInv, DealStreet, InHand, IsRiverOrEnd
<1>2. /\ RaiserLeads /\ RaisesCover /\ CallersAreEven /\ PaidInFull /\ OnlyDealtPlay
      /\ BlindsArePaid /\ PotIsOpen
  BY <1>1 DEF BetInv
<1>3. PICK returned \in UncalledReturns :
         /\ stack'  = [p \in Seats |-> stack[p] + returned[p]]
         /\ wagers' = [p \in Seats |-> wagers[p] - returned[p]]
  BY DEF DealStreet
<1>4. /\ returned \in [Seats -> Nat]
      /\ \A p \in Seats : returned[p] <= uncollected[p]
  BY <1>1, ReturnedChips
<1>5. /\ uncollected' = Zero
      /\ UNCHANGED <<phase, dealt, sbIdx, bbIdx, handNumber, startStack,
                     deadMoney, hasCards, leaving>>
      /\ lastAction' = [p \in Seats |->
                           IF lastAction[p] \in {"BET", "RAISE_TO", "CALL", "CHECK"}
                           THEN "NONE" ELSE lastAction[p]]
      /\ preset' = [p \in Seats |-> IF lastAction[p] = "NONE" /\ uncollected[p] = 0
                                    THEN preset[p] ELSE NoPreset]
      /\ board' = IF board = 0 THEN 3 ELSE board + 1
  BY DEF DealStreet, tableVars
<1>6. \A p \in Seats : /\ stack[p] \in Nat /\ wagers[p] \in Nat /\ uncollected[p] \in Nat
                       /\ deadMoney[p] \in Nat /\ startStack[p] \in Nat
                       /\ returned[p] \in Nat /\ uncollected[p] <= wagers[p]
                       /\ returned[p] <= uncollected[p]
                       /\ stack[p] + wagers[p] + deadMoney[p] = startStack[p]
                       /\ lastAction[p] \in LastActions
  BY <1>1, <1>4 DEF TypeOK, BetsAreWagers, ChipsAccounted
<1>7. dealt \subseteq Seats /\ Holding \subseteq dealt /\ Holding' = Holding
      /\ WithChips' \subseteq Holding /\ WithChips \subseteq Holding
  BY <1>1, <1>5 DEF TypeOK, Holding, WithChips
<1>8. \A p \in Seats : lastAction'[p] \in {"NONE", "POST", "FOLD"}
                       /\ (lastAction'[p] = "FOLD" <=> lastAction[p] = "FOLD")
  BY <1>5, <1>6 DEF LastActions
<1>9. \A p \in Holding : lastAction[p] # "FOLD" /\ HasNotActed(p)'
  BY <1>2, <1>7, <1>8 DEF OnlyDealtPlay, HasNotActed, Holding
<1>10. Raisers' = {}
  BY <1>7, <1>8 DEF Raisers
<1>11. RaiserLeads' /\ RaisesCover' /\ CallersAreEven'
  <2>1. NoBets'
    BY <1>5, <1>7 DEF NoBets, Zero
  <2> QED
    BY <1>7, <1>9, <1>10, <2>1 DEF RaiserLeads, RaisesCover, CallersAreEven
<1>12. OnlyDealtPlay'
  <2>1. \A p \in Seats : p \notin dealt => wagers'[p] = 0
    BY <1>2, <1>3, <1>6 DEF OnlyDealtPlay
  <2>2. \A p \in dealt : hasCards'[p] <=> lastAction'[p] # "FOLD"
    BY <1>2, <1>5, <1>7, <1>8 DEF OnlyDealtPlay
  <2>3. Holding' # {}
    BY <1>2, <1>7 DEF OnlyDealtPlay
  <2> QED
    BY <1>2, <1>5, <2>1, <2>2, <2>3 DEF OnlyDealtPlay
<1>13. /\ Cardinality(Holding) >= 2
       /\ \A q \in WithChips : HasNotActed(q) => Cardinality(WithChips) = 1 /\ NoBets
       /\ \A p \in WithChips : \A q \in dealt : uncollected[q] <= uncollected[p]
  BY <1>1, StreetIsOver
<1>14. PaidInFull'
  <2>1. \A p \in dealt : /\ uncollected'[p] = 0 /\ stack'[p] = stack[p] + returned[p]
                         /\ wagers'[p] = wagers[p] - returned[p] /\ wagers'[p] \in Nat
    BY <1>3, <1>5, <1>6, <1>7 DEF Zero
  <2> SUFFICES ASSUME NEW p \in Holding, stack'[p] > 0, NEW q \in dealt
               PROVE  wagers'[q] <= wagers'[p]
    <3>1. ASSUME \A p \in Holding : stack'[p] > 0 => \A q \in dealt : wagers'[q] <= wagers'[p],
                 NEW p \in Holding, NEW q \in dealt, stack'[p] + uncollected'[p] > 0
          PROVE  wagers'[q] - uncollected'[q] <= wagers'[p] - uncollected'[p]
      <4>1. p \in dealt /\ stack'[p] \in Nat
        BY <1>6, <1>7, <2>1
      <4>2. wagers'[q] <= wagers'[p]
        BY <2>1, <3>1, <4>1
      <4> QED
        BY <2>1, <4>1, <4>2
    <3>2. Holding' = Holding /\ dealt' = dealt
      BY <1>5, <1>7
    <3> QED
      BY <3>1, <3>2 DEF PaidInFull
  <2>2. p \in dealt
    BY <1>7
  <2>3. CASE returned[p] # 0
    BY <1>1, <1>7, <2>1, <2>2, <2>3, LeaderIsEven
  <2>4. CASE returned[p] = 0
    <3>1. p \in WithChips
      BY <1>6, <1>7, <2>1, <2>2, <2>4 DEF WithChips
    <3>2. uncollected[q] <= uncollected[p]
      BY <1>13, <3>1
    <3>3. wagers[q] - uncollected[q] <= wagers[p] - uncollected[p]
      <4>1. stack[p] + uncollected[p] > 0
        BY <1>6, <1>7, <2>2, <3>1 DEF WithChips
      <4> QED
        BY <1>2, <4>1 DEF PaidInFull
    <3> QED
      BY <1>6, <1>7, <2>1, <2>2, <2>4, <3>2, <3>3
  <2> QED
    BY <2>3, <2>4
<1>15. board' # 0
  BY <1>1, <1>5 DEF TypeOK
<1>16. PotIsOpen'
  <2> SUFFICES \E p \in dealt : wagers'[p] > 0 \/ deadMoney[p] > 0
    <3> SUFFICES ASSUME NEW p \in dealt, wagers'[p] > 0 \/ deadMoney[p] > 0
                 PROVE  wagers'[p] - uncollected'[p] + deadMoney'[p] > 0
      BY <1>5 DEF PotIsOpen
    <3>1. /\ wagers'[p] \in Nat /\ deadMoney[p] \in Nat
          /\ uncollected'[p] = 0 /\ deadMoney'[p] = deadMoney[p]
      BY <1>3, <1>5, <1>6, <1>7 DEF Zero
    <3> QED
      BY <3>1
  <2>1. CASE board # 0
    <3>1. PICK p \in dealt : wagers[p] - uncollected[p] + deadMoney[p] > 0
      BY <1>2, <2>1 DEF PotIsOpen
    <3>2. wagers'[p] = wagers[p] - returned[p]
      BY <1>3, <1>7
    <3>3. wagers'[p] > 0 \/ deadMoney[p] > 0
      BY <1>6, <1>7, <3>1, <3>2
    <3> QED
      BY <3>3
  <2>2. CASE board = 0
    <3>1. /\ bbIdx \in dealt /\ uncollected[bbIdx] > 0
          /\ \A p \in dealt : lastAction[p] \in PlayedActions => uncollected[p] > 0
      BY <1>2, <2>2 DEF BlindsArePaid
    <3>2. CASE returned[bbIdx] = 0
      <4>1. wagers'[bbIdx] > 0
        BY <1>3, <1>6, <1>7, <3>1, <3>2
      <4> QED
        BY <3>1, <4>1
    <3>3. CASE returned[bbIdx] # 0
      <4>1. PICK r \in Holding : r # bbIdx
        <5>1. Holding \in SUBSET Seats
          BY <1>7
        <5>2. CASE bbIdx \in Holding
          BY <1>13, <5>1, <5>2, Opponent
        <5>3. CASE bbIdx \notin Holding
          BY <1>2, <5>3 DEF OnlyDealtPlay
        <5> QED
          BY <5>2, <5>3
      <4>2. returned[r] = 0
        BY <1>1, <1>7, <3>1, <3>3, <4>1, OneGetsBack
      <4>3. wagers'[r] = wagers[r] /\ r \in dealt /\ r \in Seats
        BY <1>3, <1>6, <1>7, <4>2
      <4>4. CASE wagers[r] > 0
        BY <4>3, <4>4
      <4>5. CASE wagers[r] = 0
        <5>1. uncollected[r] = 0
          BY <1>6, <4>3, <4>5
        <5>2. HasNotActed(r)
          BY <1>6, <1>9, <3>1, <4>3, <5>1 DEF LastActions, PlayedActions, HasNotActed
        <5>3. ~NoBets
          BY <3>1 DEF NoBets
        <5>4. r \notin WithChips
          BY <1>13, <5>2, <5>3
        <5>5. stack[r] = 0 /\ startStack[r] > 0
          BY <1>2, <1>6, <4>3, <5>4 DEF WithChips, OnlyDealtPlay
        <5>6. deadMoney[r] > 0
          BY <1>6, <4>3, <4>5, <5>5
        <5> QED
          BY <4>3, <5>6
      <4> QED
        BY <1>6, <4>3, <4>4, <4>5
    <3> QED
      BY <3>2, <3>3
  <2> QED
    BY <2>1, <2>2
<1>17. BlindsArePaid'
  BY <1>15 DEF BlindsArePaid
<1>18. InHand' /\ phase' = "step"
  BY <1>1, <1>5 DEF InHand
<1> QED
  BY <1>11, <1>12, <1>16, <1>17, <1>18, <1>14 DEF BetInv

(* Nobody but the small blind posts more than the big blind did.  A player *)
(* who joins owing a big blind must have one to sit in, so it holds at     *)
(* tables where the player in the big blind has a whole big blind too.     *)
BigBlindPostsMost ==
    phase = "idle" => \A q \in Seats : q # sbIdx' => uncollected'[q] <= uncollected'[bbIdx']

BigBlindsLead == [][BigBlindPostsMost]_vars

(* Before the first hand there are no bets.                                *)
LEMMA InitBets == Init => BetInv
<1> SUFFICES ASSUME Init PROVE BetInv
  OBVIOUS
<1> QED
  BY DEF Init, BetInv, InHand

(* Every step of the table keeps the betting invariant, when nobody but    *)
(* the small blind posts more than the big blind.                          *)
LEMMA NextBets == IInv /\ BetInv /\ [Next]_vars /\ [BigBlindPostsMost]_vars => BetInv'
<1> SUFFICES ASSUME IInv, BetInv, [Next]_vars, [BigBlindPostsMost]_vars PROVE BetInv'
  OBVIOUS
<1>1. CASE UNCHANGED vars
  <2>1. CASE InHand
    BY <1>1, <2>1, StepsBetweenTurns, BetweenKeepsBets
  <2>2. CASE ~InHand
    BY <1>1, <2>2 DEF BetInv, InHand, Zero, vars, chipVars, tableVars
  <2> QED
    BY <2>1, <2>2
<1>2. ASSUME Next, ~(UNCHANGED vars) PROVE BetInv'
  <2>1. BigBlindPostsMost
    BY <1>2
  <2>2. CASE StartAnyHand
    <3>1. PICK players \in SUBSET {p \in Seats : stack[p] > 0 /\ ~leaving[p]},
               sb \in Seats, bb \in Seats :
             \E joining \in SUBSET players :
                /\ BlindSeats(players, joining, sb, bb)
                /\ Cardinality(players) >= 2 /\ sb \notin joining
                /\ \E owesBB, owesSB \in SUBSET (joining \ {bb}) :
                      StartHand(players, sb, bb, owesBB, owesSB)
      BY <2>2, HandIsDealt
    <3>2. PICK joining, owesBB, owesSB :
             /\ BlindSeats(players, joining, sb, bb) /\ Cardinality(players) >= 2
             /\ sb \notin owesBB /\ StartHand(players, sb, bb, owesBB, owesSB)
      BY <3>1
    <3>3. players \in SUBSET {p \in Seats : stack[p] > 0}
      OBVIOUS
    <3>4. phase = "idle" /\ sbIdx' = sb /\ bbIdx' = bb
      BY <3>2 DEF StartHand
    <3>5. \A q \in Seats : q # sb => uncollected'[q] <= uncollected'[bb]
      BY <2>1, <3>4 DEF BigBlindPostsMost
    <3> QED
      BY <3>1, <3>2, <3>3, <3>5, StartHandKeepsBets
  <2>3. CASE \E p \in Seats : Act(p)
    BY <2>3, ActKeepsBets
  <2>4. CASE TimedFold
    BY <2>4, TimedFoldKeepsBets
  <2>5. CASE \/ \E p \in Seats, kind \in {"none", "checkfold", "check", "call"} : SetPreset(p, kind)
             \/ \E p \in Seats : LeaveSeat(p) \/ TakeSeat(p)
             \/ WaitForPlayer
    BY <2>5, StepsBetweenTurns, BetweenKeepsBets
  <2>6. CASE PlayPreset \/ DealStreet
    BY <2>6, PlayPresetKeepsBets, DealStreetKeepsBets
  <2>7. CASE EndHand
    <3>1. phase' = "idle" /\ wagers' = Zero /\ deadMoney' = Zero
      BY <2>7 DEF EndHand, PayOut
    <3> QED
      BY <3>1 DEF BetInv, InHand, Zero
  <2>8. CASE EndHandRaises
    <3>1. phase' = "crashed"
      BY <2>8 DEF EndHandRaises
    <3> QED
      BY <3>1 DEF BetInv, InHand
  <2> QED
    BY <1>2, <2>2, <2>3, <2>4, <2>5, <2>6, <2>7, <2>8 DEF Next, Step
<1> QED
  BY <1>1, <1>2

(* In every such hand the betting invariant holds: raisers lead, callers   *)
(* are even, earlier streets are paid, and blinds wait for their turn.     *)
THEOREM BetsInductive == Spec /\ BigBlindsLead => []BetInv
  BY InitBets, NextBets, Inductive, PTL DEF Spec, BigBlindsLead

-----------------------------------------------------------------------------
(* A street is only dealt when the betting is closed, in any number of     *)
(* players, stacks and blinds, as long as no raise is to less than the     *)
(* largest bet.                                                            *)
LEMMA ClosedWhenDealt ==
    ASSUME IInv, BetInv, DealStreet, NEW p \in Holding, stack[p] > 0
    PROVE  /\ ~Behind(p)
           /\ HasNotActed(p) => \A q \in Holding \ {p} : stack[q] = 0
<1>1. TypeOK /\ InHand /\ NextToAct = NoSeat /\ Cardinality(Holding) # 1
  BY DEF IInv, DealStreet, InHand, IsRiverOrEnd
<1>2. /\ \A q \in WithChips : HasNotActed(q) => Cardinality(WithChips) = 1 /\ NoBets
      /\ \A q \in WithChips : \A r \in dealt : uncollected[r] <= uncollected[q]
  BY <1>1, StreetIsOver
<1>3. Holding \subseteq dealt /\ Holding \subseteq Seats
  BY <1>1, HoldersAreCounted DEF Holding
<1>4. \A q \in Holding : uncollected[q] \in Nat /\ stack[q] \in Nat
  BY <1>1, <1>3 DEF TypeOK
<1>5. p \in WithChips
  BY DEF WithChips
<1>6. \A q \in Holding : uncollected[q] <= uncollected[p]
  BY <1>2, <1>3, <1>5
<1>7. ~Behind(p)
  BY <1>4, <1>6 DEF Behind
<1>8. ASSUME HasNotActed(p), NEW q \in Holding \ {p} PROVE stack[q] = 0
  <2> SUFFICES ASSUME stack[q] > 0 PROVE FALSE
    BY <1>4
  <2>1. Cardinality(WithChips) = 1
    BY <1>2, <1>5, <1>8
  <2>2. IsFiniteSet(WithChips)
    BY <1>1, HoldersAreCounted, FS_Subset
  <2>3. PICK x : WithChips = {x}
    BY <2>1, <2>2, FS_Singleton
  <2> QED
    BY <1>5, <2>3 DEF WithChips
<1> QED
  BY <1>7, <1>8

(* deal_flop, deal_turn and deal_river come only when the betting is       *)
(* closed: nobody with chips has less in than somebody who holds cards,    *)
(* and who has not acted has no opponent left with chips.  For any number  *)
(* of seats, blinds and stacks, as long as nobody but the small blind      *)
(* posts more than the big blind did.                                      *)
THEOREM StreetsClose == Spec /\ BigBlindsLead => RoundClosed
<1> DEFINE A == DealStreet =>
                  \A p \in Holding : stack[p] > 0 =>
                     /\ ~Behind(p)
                     /\ \/ ~HasNotActed(p)
                        \/ \A q \in Holding \ {p} : stack[q] = 0
<1>1. IInv /\ BetInv => [A]_vars
  BY ClosedWhenDealt
<1>2. [][A]_vars => RoundClosed
  BY PTL DEF RoundClosed
<1> HIDE DEF A
<1> QED
  BY <1>1, <1>2, Inductive, BetsInductive, PTL

-----------------------------------------------------------------------------
(* Presets, in any hand                                                    *)

(* Who is still to act while there is a bet is asked, the first of such    *)
(* players before the others.                                              *)
LEMMA FirstOfUnacted ==
    ASSUME TypeOK, NEW q \in WithChips, HasNotActed(q),
           NextToAct # NoSeat \/ (Cardinality(Holding) >= 2 /\ ~NoBets)
    PROVE  /\ NextToAct \in WithChips /\ HasNotActed(NextToAct) /\ Cardinality(Holding) >= 2
           /\ Distance(NextToAct) <= Distance(q)
<1>1. /\ NextToAct # NoSeat => OnTurn(NextToAct)
      /\ NextToAct = NoSeat => NobodyOnTurn
  BY WhoIsNext
<1>2. Cardinality(Holding) \in Nat
  BY HoldersAreCounted
<1>3. NextToAct # NoSeat
  BY <1>1, <1>2 DEF NobodyOnTurn
<1> QED
  BY <1>1, <1>3 DEF OnTurn

(* A preset of a player who has not acted on the street was chosen behind  *)
(* a bet, and the player still is to act.                                  *)
PresetsWait ==
    \A p \in Seats : preset[p] # NoPreset /\ lastAction[p] = "NONE" =>
        p \in WithChips /\ ~NoBets

(* A call that waits for its turn is for more than the bet that it calls   *)
(* with.                                                                   *)
CallsAreForMore ==
    \A p \in Seats : preset[p].kind = "call" => uncollected[p] < preset[p].amt

(* What presets depend on, whoever has posted what: who has not acted has  *)
(* bet nothing, and who has not been asked before the flop nothing but     *)
(* blinds; the big blind is asked last, and until then its bet stays.      *)
PresetInv ==
    InHand =>
        /\ phase = "wait" => NextToAct # NoSeat
        /\ Holding # {} /\ \A p \in Seats : hasCards[p] => p \in dealt
        /\ PresetsWait /\ CallsAreForMore
        /\ \A p \in Seats : lastAction[p] = "NONE" => uncollected[p] = 0
        /\ board # 0 => \A p \in Seats : lastAction[p] = "POST" => uncollected[p] = 0
        /\ board = 0 =>
              /\ bbIdx \in dealt
              /\ IF lastAction[bbIdx] = "POST" THEN uncollected[bbIdx] > 0
                 ELSE \A q \in WithChips : ~HasNotActed(q)

(* While somebody who waits has not acted, there is a bet of somebody who  *)
(* is not on turn either, so that a turn leaves no street without bets.    *)
LEMMA BetStays ==
    ASSUME IInv, PresetInv, InHand, NextToAct # NoSeat, NEW p \in WithChips,
           lastAction[p] = "NONE", p # NextToAct, ~NoBets
    PROVE  \E q \in dealt : q # NextToAct /\ uncollected[q] # 0
<1> DEFINE r == NextToAct
<1>1. TypeOK /\ HasNotActed(p) /\ p \in Seats
  BY HoldersAreCounted DEF IInv, HasNotActed
<1>2. /\ r \in WithChips /\ HasNotActed(r) /\ Distance(r) <= Distance(p)
  BY <1>1, FirstOfUnacted
<1>3. r \in Seats
  BY <1>1, <1>2, HoldersAreCounted
<1>4. PICK q \in dealt : uncollected[q] # 0
  BY DEF NoBets
<1>5. CASE q # r
  BY <1>4, <1>5
<1>6. CASE q = r
  <2>1. lastAction[r] = "POST" /\ board = 0
    BY <1>2, <1>3, <1>4, <1>6 DEF PresetInv, HasNotActed
  <2>2. bbIdx \in dealt /\ bbIdx \in Seats /\ lastAction[bbIdx] = "POST" /\ uncollected[bbIdx] > 0
    BY <1>1, <1>2, <2>1 DEF PresetInv, TypeOK
  <2>3. r # bbIdx
    <3> SUFFICES ASSUME r = bbIdx PROVE FALSE
      OBVIOUS
    <3>1. /\ Distance(p) = IF p <= r THEN NumSeats - 1 - r + p ELSE p - r - 1
          /\ Distance(r) = IF r <= r THEN NumSeats - 1 - r + r ELSE r - r - 1
      <4>1. NumSeats \in Nat \ {0}
        BY HandAssumption
      <4> QED
        BY <1>1, <1>3, <2>1, <4>1, PlaceBeforeFlop
    <3>2. r \in 0 .. NumSeats - 1 /\ p \in 0 .. NumSeats - 1 /\ NumSeats \in Nat
      BY <1>1, <1>3, HandAssumption DEF Seats
    <3>3. p # r /\ Distance(r) <= Distance(p)
      BY <1>2
    <3> HIDE DEF r
    <3> QED
      BY <3>1, <3>2, <3>3
  <2> QED
    BY <2>2, <2>3
<1> QED
  BY <1>5, <1>6

(* A turn: what a player does and what becomes of its bet.                 *)
LEMMA TurnKeepsPresets ==
    ASSUME IInv, PresetInv, InHand, phase' = "step", NextToAct # NoSeat,
           NEW action \in LastActions \ {"NONE", "POST"}, Played(NextToAct, action),
           NEW m, BetBecomes(NextToAct, m)
    PROVE  PresetInv'
<1> DEFINE r == NextToAct
<1>1. TypeOK /\ r \in Seats /\ r \in dealt /\ r \in Holding /\ dealt \subseteq Seats
  <2>1. TypeOK /\ dealt \subseteq Seats
    BY DEF IInv, TypeOK
  <2>2. r \in Holding
    BY <2>1, WhoIsNext DEF OnTurn, WithChips
  <2> QED
    BY <2>1, <2>2 DEF Holding
<1>2. /\ \A q \in Seats : lastAction'[q] = IF q = r THEN action ELSE lastAction[q]
      /\ \A q \in Seats : hasCards'[q] = IF q = r THEN action # "FOLD" ELSE hasCards[q]
      /\ \A q \in Seats : preset'[q] = IF q = r THEN NoPreset ELSE preset[q]
      /\ UNCHANGED <<dealt, sbIdx, bbIdx, board>>
  BY <1>1, PlayedBy
<1>3. \A q \in Seats \ {r} : stack'[q] = stack[q] /\ uncollected'[q] = uncollected[q]
  BY DEF BetBecomes
<1>4. /\ Holding # {} /\ \A p \in Seats : hasCards[p] => p \in dealt
      /\ PresetsWait /\ CallsAreForMore
      /\ \A p \in Seats : lastAction[p] = "NONE" => uncollected[p] = 0
      /\ board # 0 => \A p \in Seats : lastAction[p] = "POST" => uncollected[p] = 0
      /\ board = 0 =>
            /\ bbIdx \in dealt
            /\ IF lastAction[bbIdx] = "POST" THEN uncollected[bbIdx] > 0
               ELSE \A q \in WithChips : ~HasNotActed(q)
  BY DEF PresetInv
<1>5. Cardinality(Holding) >= 2
  <2>1. Cardinality(Holding) < 2 => NextToAct = NoSeat
    BY DEF NextToAct
  <2> QED
    BY <1>1, <2>1, HoldersAreCounted
<1>6. \E q \in Holding : q # r
  <2>1. Holding \in SUBSET Seats
    BY <1>1, HoldersAreCounted
  <2> QED
    BY <1>1, <1>5, <2>1, Opponent
<1>7. \A q \in WithChips' : q = r \/ q \in WithChips
  BY <1>1, <1>2, <1>3 DEF WithChips, Holding
<1>8. \A q \in WithChips : HasNotActed(q) => /\ r \in WithChips /\ HasNotActed(r)
                                             /\ Distance(r) <= Distance(q)
  BY <1>1, FirstOfUnacted
<1>9. \A q \in WithChips : q \in Seats
  BY <1>1, HoldersAreCounted
<1>10. \A p \in WithChips : lastAction[p] = "NONE" /\ p # r /\ ~NoBets =>
         \E q \in dealt : q # r /\ uncollected[q] # 0
  BY BetStays
<1> HIDE DEF r
<1>11. Holding' # {} /\ \A p \in Seats : hasCards'[p] => p \in dealt'
  <2>1. \A q \in Holding : q # r => q \in Holding'
    BY <1>1, <1>2 DEF Holding
  <2>2. \A p \in Seats : hasCards'[p] => p \in dealt'
    BY <1>1, <1>2, <1>4
  <2> QED
    BY <1>6, <2>1, <2>2
<1>12. PresetsWait'
  <2> SUFFICES ASSUME NEW p \in Seats, preset'[p] # NoPreset, lastAction'[p] = "NONE"
               PROVE  p \in WithChips' /\ ~NoBets'
    BY DEF PresetsWait
  <2>1. p # r /\ p \in WithChips /\ ~NoBets /\ lastAction[p] = "NONE"
    BY <1>2, <1>4 DEF PresetsWait
  <2>2. p \in WithChips'
    BY <1>2, <1>3, <2>1 DEF WithChips, Holding
  <2>3. PICK q \in dealt : q # r /\ uncollected[q] # 0
    BY <1>10, <2>1
  <2>4. uncollected'[q] # 0 /\ q \in dealt'
    BY <1>1, <1>2, <1>3, <2>3
  <2> QED
    BY <2>2, <2>4 DEF NoBets
<1>13. /\ \A p \in Seats : lastAction'[p] = "NONE" => uncollected'[p] = 0
       /\ board' # 0 => \A p \in Seats : lastAction'[p] = "POST" => uncollected'[p] = 0
  BY <1>2, <1>3, <1>4
<1>14. ASSUME board' = 0, lastAction'[bbIdx'] = "POST" PROVE uncollected'[bbIdx'] > 0
  BY <1>1, <1>2, <1>3, <1>4, <1>14
<1>15. ASSUME board' = 0, lastAction'[bbIdx'] # "POST", NEW q \in WithChips' PROVE ~HasNotActed(q)'
  <2>1. CASE q = r
    BY <1>1, <1>2, <2>1 DEF HasNotActed
  <2>2. CASE q # r
    <3> SUFFICES ASSUME HasNotActed(q)' PROVE FALSE
      OBVIOUS
    <3>1. q \in WithChips /\ q \in Seats /\ HasNotActed(q)
      BY <1>2, <1>7, <1>9, <2>2 DEF HasNotActed
    <3>2. lastAction[bbIdx] = "POST"
      BY <1>2, <1>4, <1>15, <3>1
    <3>3. bbIdx = r
      BY <1>1, <1>2, <1>4, <1>15, <3>2
    <3>4. Distance(r) <= Distance(q)
      BY <1>8, <3>1
    <3>5. board = 0 /\ NumSeats \in Nat \ {0}
      BY <1>2, <1>15, HandAssumption
    <3>6. /\ Distance(q) = IF q <= r THEN NumSeats - 1 - r + q ELSE q - r - 1
          /\ Distance(r) = IF r <= r THEN NumSeats - 1 - r + r ELSE r - r - 1
      BY <1>1, <3>1, <3>3, <3>5, PlaceBeforeFlop
    <3>7. r \in 0 .. NumSeats - 1 /\ q \in 0 .. NumSeats - 1
      BY <1>1, <3>1 DEF Seats
    <3> QED
      BY <2>2, <3>4, <3>5, <3>6, <3>7
  <2> QED
    BY <2>1, <2>2
<1>16. CallsAreForMore'
  BY <1>2, <1>3, <1>4 DEF CallsAreForMore, NoPreset
<1> QED
  BY <1>2, <1>4, <1>11, <1>12, <1>13, <1>14, <1>15, <1>16 DEF PresetInv, InHand

(* The turns of the players, of the clock and of the presets.              *)
LEMMA TurnsKeepPresets ==
    ASSUME IInv, PresetInv, InHand, phase' = "step", NextToAct # NoSeat, NEW p, p = NextToAct,
           \/ Fold(p) \/ Check(p) \/ Call(p)
           \/ \E amt \in 0 .. stack[p] : Bet(p, amt)
           \/ \E amt \in 0 .. stack[p] + uncollected[p] : RaiseTo(p, amt)
    PROVE  PresetInv'
<1>1. TypeOK /\ p \in Seats
  BY WhoIsNext, HoldersAreCounted DEF IInv, OnTurn
<1>2. stack[p] \in Nat /\ uncollected[p] \in Nat /\ \A q \in Holding : uncollected[q] \in Nat
  BY <1>1, HoldersAreCounted DEF TypeOK
<1>3. PICK action \in {"FOLD", "CHECK", "CALL", "BET", "RAISE_TO"} :
         /\ Played(p, action)
         /\ KeepChips \/ \E m \in Nat : PutIn(p, m)
  <2>1. \A amt \in CallAmts(p) : amt \in Nat
    BY <1>2 DEF CallAmts
  <2> QED
    BY <1>2, <2>1 DEF Fold, Check, Call, Bet, RaiseTo
<1>4. \E m : BetBecomes(p, m)
  BY <1>1, <1>3, KeepsBet, PutsIn
<1>5. action \in LastActions \ {"NONE", "POST"}
  BY DEF LastActions
<1> QED
  BY <1>3, <1>4, <1>5, TurnKeepsPresets

(* Who may set a preset waits behind a bet, or has posted a blind.         *)
LEMMA SettersWait ==
    ASSUME TypeOK, \A q \in Seats : hasCards[q] => q \in dealt,
           NEW p \in Seats, WillActThisRound(p), lastAction[p] = "NONE"
    PROVE  p \in WithChips /\ ~NoBets
<1>1. hasCards[p] /\ stack[p] > 0 /\ \E q \in Holding : uncollected[q] > uncollected[p]
  BY DEF WillActThisRound, Behind
<1>2. PICK q \in Holding : uncollected[q] > uncollected[p]
  BY <1>1
<1>3. q \in dealt /\ uncollected[q] \in Nat /\ uncollected[p] \in Nat
  BY DEF Holding, TypeOK
<1>4. uncollected[q] # 0
  BY <1>2, <1>3
<1> QED
  BY <1>1, <1>3, <1>4 DEF WithChips, Holding, NoBets

(* Whoever is behind calls for more than its bet.                          *)
LEMMA CallsRaiseBets ==
    ASSUME TypeOK, NEW p \in Seats, Behind(p), NEW amt \in CallAmts(p)
    PROVE  uncollected[p] < amt
<1>1. Holding \subseteq Seats /\ \A q \in Seats : stack[q] \in Nat /\ uncollected[q] \in Nat
  BY HoldersAreCounted DEF TypeOK
<1>2. PICK q \in Holding : uncollected[q] > uncollected[p]
  BY DEF Behind
<1>3. PICK x \in Holding : /\ \A r \in Holding : uncollected[r] <= uncollected[x]
                           /\ amt = IF uncollected[x] <= stack[p] + uncollected[p]
                                    THEN uncollected[x] ELSE stack[p] + uncollected[p]
  BY DEF CallAmts
<1>4. uncollected[q] <= uncollected[x] /\ stack[p] > 0
  BY <1>3 DEF Behind
<1> QED
  BY <1>1, <1>2, <1>3, <1>4

(* Between the turns the bets are left alone, and a new preset is that of  *)
(* a player who waits, and calls with more than its bet.                   *)
LEMMA BetweenKeepsPresets ==
    ASSUME IInv, PresetInv, BetweenTurns,
           \A p \in Seats : preset'[p] # preset[p] =>
              /\ WillActThisRound(p)
              /\ preset'[p].kind = "call" => uncollected[p] < preset'[p].amt
    PROVE  PresetInv'
<1>1. UNCHANGED <<stack, uncollected, dealt, sbIdx, bbIdx, lastAction, hasCards, board>>
  BY DEF BetweenTurns, chipVars, tableVars
<1>2. /\ Holding' = Holding /\ WithChips' = WithChips /\ (NoBets' <=> NoBets)
      /\ \A q : HasNotActed(q)' <=> HasNotActed(q)
  BY <1>1 DEF Holding, WithChips, HasNotActed, NoBets
<1>3. TypeOK /\ PresetsWait /\ \A q \in Seats : hasCards[q] => q \in dealt
  BY DEF IInv, PresetInv, BetweenTurns
<1>4. PresetsWait'
  <2> SUFFICES ASSUME NEW q \in Seats, preset'[q] # NoPreset, lastAction'[q] = "NONE"
               PROVE  q \in WithChips' /\ ~NoBets'
    BY DEF PresetsWait
  <2>1. CASE preset'[q] = preset[q]
    BY <1>1, <1>2, <1>3, <2>1 DEF PresetsWait
  <2>2. CASE WillActThisRound(q)
    BY <1>1, <1>2, <1>3, <2>2, SettersWait
  <2> QED
    BY <2>1, <2>2
<1>5. NextToAct' = NextToAct
  BY <1>1, NextStays
<1>6. phase' = "wait" => NextToAct' # NoSeat'
  BY <1>5 DEF PresetInv, BetweenTurns, InHand, NoSeat
<1>7. CallsAreForMore'
  BY <1>1 DEF PresetInv, BetweenTurns, CallsAreForMore
<1> QED
  BY <1>1, <1>2, <1>4, <1>6, <1>7 DEF PresetInv, BetweenTurns

(* A new hand: who has not posted has no bet, and the big blind has one.   *)
LEMMA StartHandKeepsPresets ==
    ASSUME IInv, StartAnyHand
    PROVE  PresetInv'
<1>1. PICK players \in SUBSET {p \in Seats : stack[p] > 0 /\ ~leaving[p]},
           sb \in Seats, bb \in Seats :
         \E joining : /\ BlindSeats(players, joining, sb, bb)
                      /\ \E owesBB, owesSB : StartHand(players, sb, bb, owesBB, owesSB)
  BY HandIsDealt
<1>2. PICK owesBB, owesSB : StartHand(players, sb, bb, owesBB, owesSB)
  BY <1>1
<1>3. bb \in players /\ sb # bb
  BY <1>1 DEF BlindSeats
<1>4. /\ dealt' = players /\ sbIdx' = sb /\ bbIdx' = bb /\ board' = 0 /\ phase' = "step"
      /\ uncollected' = [p \in Seats |-> IF p \in players
                                         THEN PostedLive(p, owesBB, owesSB) ELSE 0]
      /\ hasCards' = [p \in Seats |-> p \in players]
      /\ preset' = [p \in Seats |-> NoPreset]
      /\ lastAction' = [p \in Seats |-> IF p \in players \cap ({sb, bb} \cup owesBB)
                                        THEN "POST" ELSE "NONE"]
  BY <1>2 DEF StartHand
<1>5. Holding' = players
  BY <1>4 DEF Holding
<1>6. uncollected'[bb] > 0
  BY <1>1, <1>2, <1>3, BigBlindPosts
<1>7. ASSUME NEW p \in Seats, lastAction'[p] = "NONE" PROVE uncollected'[p] = 0
  <2>1. CASE p \notin players
    BY <1>4, <2>1
  <2>2. CASE p \in players
    <3>1. p # sb /\ p # bb /\ p \notin owesBB
      BY <1>4, <1>7, <2>2
    <3>2. PostedBig(p, owesBB) = 0
      BY <1>4, <3>1 DEF PostedBig
    <3>3. PostedLive(p, owesBB, owesSB) = 0 + 0
      BY <1>4, <3>1, <3>2 DEF PostedLive
    <3> QED
      BY <1>4, <2>2, <3>3
  <2> QED
    BY <2>1, <2>2
<1>8. PresetsWait' /\ CallsAreForMore'
  BY <1>4 DEF PresetsWait, CallsAreForMore, NoPreset
<1>9. lastAction'[bb] = "POST"
  BY <1>3, <1>4
<1> QED
  BY <1>3, <1>4, <1>5, <1>6, <1>7, <1>8, <1>9 DEF PresetInv

(* When a street is dealt nobody keeps a preset: who has not acted, waits  *)
(* behind a bet and would be on turn.                                      *)
LEMMA PresetsAreCleared ==
    ASSUME IInv, PresetInv, DealStreet, NEW p \in Seats
    PROVE  preset'[p] = NoPreset
<1> SUFFICES ASSUME preset'[p] # NoPreset PROVE FALSE
  OBVIOUS
<1>1. /\ TypeOK /\ PresetsWait /\ Holding # {}
      /\ NextToAct = NoSeat /\ Cardinality(Holding) # 1
  BY DEF IInv, PresetInv, DealStreet, InHand, IsRiverOrEnd
<1>2. lastAction[p] = "NONE" /\ preset[p] # NoPreset
  BY DEF DealStreet
<1>3. p \in WithChips /\ ~NoBets /\ HasNotActed(p)
  BY <1>1, <1>2 DEF PresetsWait, HasNotActed
<1>4. IsFiniteSet(Holding) /\ Cardinality(Holding) \in Nat
  BY <1>1, HoldersAreCounted
<1>5. Cardinality(Holding) # 0
  BY <1>1, <1>4, FS_EmptySet
<1>6. Cardinality(Holding) >= 2
  BY <1>1, <1>4, <1>5
<1> QED
  BY <1>1, <1>3, <1>6, FirstOfUnacted, HoldersAreCounted

(* On the new street there are neither bets nor presets.                   *)
LEMMA DealStreetKeepsPresets ==
    ASSUME IInv, PresetInv, DealStreet
    PROVE  PresetInv'
<1>1. /\ uncollected' = Zero /\ board' # 0 /\ phase' = "step"
      /\ UNCHANGED <<dealt, hasCards>> /\ InHand
  <2>1. board \in {0, 3, 4, 5}
    BY DEF IInv, TypeOK
  <2> QED
    BY <2>1 DEF DealStreet, tableVars, InHand
<1>2. Holding' = Holding
  BY <1>1 DEF Holding
<1>3. PresetsWait' /\ CallsAreForMore'
  BY PresetsAreCleared DEF PresetsWait, CallsAreForMore, NoPreset
<1>4. \A p \in Seats : uncollected'[p] = 0
  BY <1>1 DEF Zero
<1> QED
  BY <1>1, <1>2, <1>3, <1>4 DEF PresetInv

(* Every step of the table keeps it, with no condition on the blinds.      *)
LEMMA NextPresets == IInv /\ PresetInv /\ [Next]_vars => PresetInv'
<1> SUFFICES ASSUME IInv, PresetInv, [Next]_vars PROVE PresetInv'
  OBVIOUS
<1>1. CASE UNCHANGED vars
  <2>1. preset' = preset
    BY <1>1 DEF vars
  <2>2. CASE InHand
    BY <1>1, <2>1, <2>2, StepsBetweenTurns, BetweenKeepsPresets
  <2>3. CASE ~InHand
    BY <1>1, <2>3 DEF PresetInv, InHand, vars
  <2> QED
    BY <2>2, <2>3
<1>2. CASE StartAnyHand
  BY <1>2, StartHandKeepsPresets
<1>3. CASE \E p \in Seats : Act(p)
  <2>1. PICK p \in Seats : Act(p)
    BY <1>3
  <2>2. InHand /\ phase' = "step" /\ p = NextToAct /\ NextToAct # NoSeat
    BY <2>1 DEF Act, InHand, PresetInv
  <2> QED
    BY <2>1, <2>2, TurnsKeepPresets DEF Act
<1>4. CASE TimedFold
  <2>1. InHand /\ phase' = "step" /\ NextToAct # NoSeat /\ Fold(NextToAct)
    BY <1>4 DEF TimedFold, InHand, PresetInv
  <2> QED
    BY <2>1, TurnsKeepPresets
<1>5. CASE \E p \in Seats, kind \in {"none", "checkfold", "check", "call"} : SetPreset(p, kind)
  <2>1. PICK p \in Seats, kind \in {"none", "checkfold", "check", "call"} : SetPreset(p, kind)
    BY <1>5
  <2>2. WillActThisRound(p) /\ \A q \in Seats : q # p => preset'[q] = preset[q]
    BY <2>1 DEF SetPreset, IInv, TypeOK
  <2>3. preset'[p].kind = "call" => uncollected[p] < preset'[p].amt
    <3>1. PICK amt \in IF kind = "call" THEN CallAmts(p) ELSE {0} :
             preset' = [preset EXCEPT ![p] = [kind |-> kind, amt |-> amt]]
      BY <2>1 DEF SetPreset
    <3>2. preset'[p] = [kind |-> kind, amt |-> amt]
      BY <3>1 DEF IInv, TypeOK
    <3>3. kind = "call" => Behind(p)
      BY <2>1 DEF SetPreset
    <3> QED
      BY <3>1, <3>2, <3>3, CallsRaiseBets DEF IInv
  <2> QED
    BY <1>5, <2>2, <2>3, StepsBetweenTurns, BetweenKeepsPresets
<1>6. CASE (\E p \in Seats : LeaveSeat(p) \/ TakeSeat(p)) \/ WaitForPlayer
  <2>1. preset' = preset
    BY <1>6 DEF LeaveSeat, TakeSeat, WaitForPlayer
  <2> QED
    BY <1>6, <2>1, StepsBetweenTurns, BetweenKeepsPresets
<1>7. CASE PlayPreset
  <2>1. InHand /\ phase' = "step" /\ NextToAct # NoSeat
    BY <1>7 DEF PlayPreset, InHand
  <2>2. PICK p : p = NextToAct
    OBVIOUS
  <2>3. Fold(p) \/ Check(p) \/ Call(p)
    BY <1>7, <2>2 DEF PlayPreset
  <2> QED
    BY <2>1, <2>2, <2>3, TurnsKeepPresets
<1>8. CASE DealStreet
  BY <1>8, DealStreetKeepsPresets
<1>9. CASE EndHand \/ EndHandRaises
  <2>1. phase' \in {"idle", "crashed"}
    BY <1>9 DEF EndHand, PayOut, EndHandRaises
  <2> QED
    BY <2>1 DEF PresetInv, InHand
<1> QED
  BY <1>1, <1>2, <1>3, <1>4, <1>5, <1>6, <1>7, <1>8, <1>9 DEF Next, Step

(* Whatever is posted and raised, presets wait for their turn.             *)
THEOREM PresetsInductive == Spec => []PresetInv
<1>1. Init => PresetInv
  BY DEF Init, PresetInv, InHand
<1> QED
  BY <1>1, NextPresets, Inductive, PTL DEF Spec

(* No preset action outlives the street it was chosen for, although        *)
(* on_new_street skips who has not acted and has no bet: such a player     *)
(* would still be on turn.  For any blinds and raises.                     *)
THEOREM PresetsDie == Spec => PresetsDieWithStreet
<1> DEFINE A == DealStreet => \A p \in dealt : preset'[p] = NoPreset
<1>1. IInv /\ PresetInv => [A]_vars
  BY PresetsAreCleared DEF IInv, TypeOK
<1>2. [][A]_vars => PresetsDieWithStreet
  BY PTL DEF PresetsDieWithStreet
<1> HIDE DEF A
<1> QED
  BY <1>1, <1>2, Inductive, PresetsInductive, PTL

-----------------------------------------------------------------------------
(* step() goes on                                                          *)

(* What the moves of step() ask for: a preset that is played is available, *)
(* uncalled bets can be told, and the hand can be paid to the chip         *)
(* (CanBePaid), or has a pot without a winner.                             *)
PresetIsAvailable(p) ==
    /\ PresetAction(p) = "CHECK" => ~FacesBet(p)
    /\ PresetAction(p) = "CALL" => FacesBet(p) /\ CallAmts(p) # {}

StepGoesOn ==
    phase = "step" =>
        /\ NextToAct # NoSeat => PresetIsAvailable(NextToAct)
        /\ NextToAct = NoSeat =>
              /\ UncalledReturns # {}
              /\ IsRiverOrEnd => \A returned \in UncalledReturns : \A rank \in [dealt -> Ranks] :
                    LET b == BoardAfter(returned, rank)
                    IN  IF Cardinality(Holding) = 1 \/ EveryPotHasAWinner(b)
                        THEN CanBePaid(b)
                        ELSE /\ Cardinality(Holding) > 1
                             /\ ~EveryPotHasAWinner(BoardAfter(returned, [p \in dealt |-> 0]))

(* A preset call is played only if the bet is still the one it was chosen  *)
(* for, and then there is something to call.                               *)
LEMMA PresetsAreAvailable ==
    ASSUME IInv, PresetInv, phase = "step", NextToAct # NoSeat
    PROVE  PresetIsAvailable(NextToAct)
<1> DEFINE p == NextToAct
<1>1. TypeOK /\ CallsAreForMore
  BY DEF IInv, PresetInv, InHand
<1>2. p \in Seats /\ Holding \subseteq Seats /\ Holding \subseteq dealt
  BY <1>1, WhoIsNext, HoldersAreCounted DEF OnTurn, Holding
<1> HIDE DEF p
<1>3. PresetAction(p) = "CHECK" => ~FacesBet(p)
  BY DEF PresetAction
<1>4. ASSUME PresetAction(p) = "CALL" PROVE FacesBet(p) /\ CallAmts(p) # {}
  <2>1. preset[p].kind = "call" /\ preset[p].amt \in CallAmts(p)
    BY <1>4 DEF PresetAction
  <2>2. uncollected[p] < preset[p].amt
    BY <1>1, <1>2, <2>1 DEF CallsAreForMore
  <2>3. PICK q \in Holding : preset[p].amt = IF uncollected[q] <= stack[p] + uncollected[p]
                                             THEN uncollected[q] ELSE stack[p] + uncollected[p]
    BY <2>1 DEF CallAmts
  <2>4. uncollected[p] \in Nat /\ uncollected[q] \in Nat /\ stack[p] \in Nat
    BY <1>1, <1>2 DEF TypeOK
  <2>5. uncollected[q] > uncollected[p]
    BY <2>2, <2>3, <2>4
  <2> QED
    BY <1>2, <2>1, <2>5 DEF FacesBet
<1> QED
  BY <1>3, <1>4 DEF PresetIsAvailable, p

(* One player has wagered most, and if it is the only one, the next most   *)
(* is that of another.                                                     *)
LEMMA ReturnsExist ==
    ASSUME TypeOK, Cardinality(dealt) >= 2
    PROVE  UncalledReturns # {}
<1>1. dealt \in SUBSET Seats /\ IsFiniteSet(dealt) /\ \A p \in dealt : wagers[p] \in Nat
  BY HoldersAreCounted, FS_Subset DEF TypeOK
<1>2. CASE \A p \in dealt : \E q \in dealt \ {p} : wagers[p] <= wagers[q]
  BY <1>2 DEF UncalledReturns
<1>3. ASSUME NEW p \in dealt, \A q \in dealt \ {p} : ~(wagers[p] <= wagers[q])
      PROVE  UncalledReturns # {}
  <2> DEFINE W == {wagers[q] : q \in dealt \ {p}}
  <2>1. PICK x \in dealt : x # p
    BY <1>1, Opponent
  <2>2. IsFiniteSet(dealt \ {p})
    BY <1>1, FS_Subset
  <2>3. IsFiniteSet(W) /\ W \in SUBSET Int /\ W # {}
    BY <1>1, <2>1, <2>2, ImageIsFinite
  <2>4. PICK m \in W : \A w \in W : w <= m
    <3> HIDE DEF W
    <3> QED
      BY <2>3, MaxOfSet
  <2>5. PICK q \in dealt \ {p} : wagers[q] = m
    BY <2>4
  <2>6. Leads(p, q)
    <3>1. \A z \in dealt \ {p} : wagers[z] <= wagers[q]
      BY <2>4, <2>5
    <3>2. wagers[q] < wagers[p]
      BY <1>1, <1>3
    <3> QED
      BY <3>1, <3>2 DEF Leads
  <2>7. <<p, q>> \in {x2 \in dealt \X dealt : Leads(x2[1], x2[2])}
    BY <2>6
  <2>8. ~ \A y \in dealt : \E z \in dealt \ {y} : wagers[y] <= wagers[z]
    BY <1>3
  <2> QED
    BY <2>7, <2>8 DEF UncalledReturns
<1> QED
  BY <1>2, <1>3

(* Which pots there are, and who may win them, does not depend on the      *)
(* hands.                                                                  *)
LEMMA RanksDoNotCut ==
    ASSUME NEW returned, NEW rank, NEW other
    PROVE  EveryPotHasAWinner(BoardAfter(returned, rank))
              <=> EveryPotHasAWinner(BoardAfter(returned, other))
<1> DEFINE b == BoardAfter(returned, rank)
           c == BoardAfter(returned, other)
<1>1. /\ b.actives = c.actives /\ b.wagers = c.wagers /\ b.dead = c.dead
      /\ b.stack = c.stack /\ b.folded = c.folded /\ b.holding = c.holding
  BY DEF BoardAfter
<1> HIDE DEF b, c
<1>2. SidepotMembers(b) = SidepotMembers(c) /\ TopWager(b) = TopWager(c)
  BY <1>1 DEF SidepotMembers, TopWager
<1>3. Caps(b) = Caps(c)
  BY <1>1, <1>2 DEF Caps
<1>4. \A cap : Floor(b, cap) = Floor(c, cap)
  BY <1>3 DEF Floor
<1>5. \A p, lower, cap : Slice(b, p, lower, cap) = Slice(c, p, lower, cap)
  BY <1>1 DEF Slice
<1>6. DeadMoney(b) = DeadMoney(c)
  BY <1>1 DEF DeadMoney
<1>7. \A cap : PotAt(b, cap) = PotAt(c, cap)
  BY <1>1, <1>4, <1>5, <1>6 DEF PotAt
<1>8. SidepotSummary(b) = SidepotSummary(c)
  BY <1>3, <1>7 DEF SidepotSummary
<1>9. \A pot : Eligible(b, pot) = Eligible(c, pot)
  BY <1>1 DEF Eligible
<1> QED
  BY <1>8, <1>9 DEF EveryPotHasAWinner, b, c

(* step() is never stuck in the middle of a dispatch: a preset that it     *)
(* plays is an available action, the uncalled bets can be told, and the    *)
(* hand is paid, or a pot without a winner raises.  This is what Fairness  *)
(* relies on when it lets every step() come to its end.                    *)
THEOREM StepGoesOnSafe == Spec => []StepGoesOn
<1>1. IInv /\ PresetInv => StepGoesOn
  <2> SUFFICES ASSUME IInv, PresetInv, phase = "step" PROVE StepGoesOn
    BY DEF StepGoesOn
  <2>1. InHand /\ TypeOK /\ Holding # {}
    BY DEF InHand, IInv, PresetInv
  <2>2. NextToAct # NoSeat => PresetIsAvailable(NextToAct)
    BY PresetsAreAvailable
  <2>3. dealt # {} /\ UncalledReturns # {}
    <3>1. PICK p \in dealt : TRUE
      BY <2>1 DEF Holding
    <3>2. PICK q \in dealt : q # p
      BY <2>1 DEF IInv, CollectedIsMatched
    <3>3. dealt \subseteq Seats /\ IsFiniteSet(dealt) /\ Cardinality(dealt) \in Nat
      BY <2>1, HoldersAreCounted, FS_Subset, FS_CardinalityType DEF TypeOK
    <3>4. Cardinality(dealt) # 0 /\ Cardinality(dealt) # 1
      BY <3>1, <3>2, <3>3, FS_EmptySet, FS_Singleton
    <3> QED
      BY <2>1, <3>1, <3>3, <3>4, ReturnsExist
  <2>4. ASSUME NEW returned \in UncalledReturns, NEW rank \in [dealt -> Ranks]
        PROVE  IF Cardinality(Holding) = 1 \/ EveryPotHasAWinner(BoardAfter(returned, rank))
               THEN CanBePaid(BoardAfter(returned, rank))
               ELSE /\ Cardinality(Holding) > 1
                    /\ ~EveryPotHasAWinner(BoardAfter(returned, [p \in dealt |-> 0]))
    <3>1. CASE Cardinality(Holding) = 1 \/ EveryPotHasAWinner(BoardAfter(returned, rank))
      BY <2>1, <2>3, <3>1, HandsCanBePaid
    <3>2. CASE ~(Cardinality(Holding) = 1 \/ EveryPotHasAWinner(BoardAfter(returned, rank)))
      <4>1. ~EveryPotHasAWinner(BoardAfter(returned, [p \in dealt |-> 0]))
        BY <3>2, RanksDoNotCut
      <4>2. IsFiniteSet(Holding) /\ Cardinality(Holding) \in Nat
        BY <2>1, HoldersAreCounted
      <4>3. Cardinality(Holding) # 0
        BY <2>1, <4>2, FS_EmptySet
      <4>4. Cardinality(Holding) > 1
        BY <3>2, <4>2, <4>3
      <4> QED
        BY <3>2, <4>1, <4>4
    <3> QED
      BY <3>1, <3>2
  <2> QED
    BY <2>2, <2>3, <2>4 DEF StepGoesOn
<1> QED
  BY <1>1, Inductive, PresetsInductive, PTL

-----------------------------------------------------------------------------
(* Nobody wins more than it matched                                        *)

(* At a showdown whoever still holds cards and has wagered less than       *)
(* somebody else is all-in, and caps a side pot: who has chips left, or    *)
(* got some back, has wagered as much as anybody.                          *)
LEMMA AllInCapsPot ==
    ASSUME IInv, BetInv, InHand, NextToAct = NoSeat, Cardinality(Holding) # 1,
           NEW returned \in UncalledReturns, NEW rank \in [dealt -> Ranks], NEW p \in Holding,
           NEW b, b = BoardAfter(returned, rank), 0 < b.wagers[p], b.wagers[p] < TopWager(b)
    PROVE  b.wagers[p] \in Caps(b)
<1>1. TypeOK /\ BetsAreWagers /\ CollectedIsMatched /\ PaidInFull /\ OnlyDealtPlay
  BY DEF IInv, BetInv
<1>2. p \in dealt /\ hasCards[p] /\ dealt \subseteq Seats /\ dealt # {}
  BY <1>1 DEF Holding, TypeOK
<1>3. \A q \in dealt : /\ stack[q] \in Nat /\ wagers[q] \in Nat /\ uncollected[q] \in Nat
                       /\ returned[q] \in Nat /\ returned[q] <= uncollected[q]
                       /\ uncollected[q] <= wagers[q]
  BY <1>1, <1>2, ReturnedChips DEF TypeOK, BetsAreWagers
<1>4. /\ b.actives = dealt /\ \A q \in dealt : b.wagers[q] = wagers[q] - returned[q]
      /\ b.stack = [q \in dealt |-> stack[q] + returned[q]]
      /\ b.folded = {q \in dealt : lastAction[q] = "FOLD"}
  BY DEF BoardAfter
<1>5. IsBoard(b)
  BY <1>2, BoardIsPaid
<1>6. PICK q \in dealt : b.wagers[q] = TopWager(b)
  BY <1>4, <1>5, TopOfWagers
<1>7. wagers[p] - returned[p] < wagers[q] - returned[q]
  BY <1>2, <1>4, <1>6
<1>8. returned[p] = 0
  BY <1>1, <1>2, <1>7, <1>3, LeaderIsEven
<1>9. stack[p] = 0
  <2> SUFFICES ASSUME stack[p] > 0 PROVE FALSE
    BY <1>2, <1>3
  <2>1. p \in WithChips
    BY DEF WithChips
  <2>2. uncollected[q] <= uncollected[p]
    BY <1>1, <2>1, StreetIsOver
  <2>3. stack[p] + uncollected[p] > 0
    BY <1>2, <1>3
  <2>4. wagers[q] - uncollected[q] <= wagers[p] - uncollected[p]
    BY <1>1, <2>3 DEF PaidInFull
  <2> QED
    BY <1>2, <1>3, <1>7, <1>8, <2>2, <2>4
<1>10. p \notin b.folded
  BY <1>1, <1>2, <1>4 DEF OnlyDealtPlay
<1>11. b.stack[p] = 0
  BY <1>2, <1>4, <1>8, <1>9
<1>12. p \in SidepotMembers(b)
  BY <1>2, <1>4, <1>6, <1>10, <1>11 DEF SidepotMembers
<1> QED
  BY <1>12 DEF Caps

LEMMA WonWithinWagers ==
    ASSUME IInv, BetInv, EndHand, Cardinality(Holding) > 1, NEW p \in dealt
    PROVE  stack'[p] - stack[p] <=
              SumFunctionOnSet([q \in dealt |-> IF wagers[q] <= wagers[p] \/ q = p
                                                THEN wagers[q] ELSE wagers[p]], dealt)
              + SumFunctionOnSet(deadMoney, dealt)
<1>1. /\ TypeOK /\ InHand /\ OnlyDealtPlay /\ BetsAreWagers /\ CollectedIsMatched
      /\ NextToAct = NoSeat /\ Cardinality(Holding) # 1
  BY DEF IInv, BetInv, EndHand, InHand
<1>2. PICK returned \in UncalledReturns, rank \in [dealt -> Ranks] :
         /\ EveryPotHasAWinner(BoardAfter(returned, rank))
         /\ PayOut(BoardAfter(returned, rank), returned)
  BY <1>1 DEF EndHand
<1> DEFINE b == BoardAfter(returned, rank)
           order == [q \in dealt |-> Distance(q)]
           won == ShowdownWinnings(b, order)
           match == Matched(b, p)
           own == [q \in dealt |-> IF q = p THEN returned[p] ELSE 0]
           both == [q \in dealt |-> match[q] + own[q]]
           most == [q \in dealt |-> IF wagers[q] <= wagers[p] \/ q = p
                                    THEN wagers[q] ELSE wagers[p]]
<1>3. /\ b.actives = dealt /\ b.holding = Holding
      /\ \A q \in dealt : b.wagers[q] = wagers[q] - returned[q]
      /\ b.dead = deadMoney
  BY DEF BoardAfter
<1>4. Winnings(b) = won
  BY <1>1, <1>3 DEF Winnings
<1>5. IsBoard(b) /\ IsOrder(b, order)
  BY <1>1, BoardIsPaid
<1>6. dealt \in SUBSET Seats /\ IsFiniteSet(dealt) /\ p \in Seats
  BY <1>1, HoldersAreCounted, FS_Subset DEF TypeOK
<1>7. \A q \in dealt : /\ stack[q] \in Nat /\ wagers[q] \in Nat /\ uncollected[q] \in Nat
                       /\ returned[q] \in Nat /\ returned[q] <= uncollected[q]
                       /\ uncollected[q] <= wagers[q] /\ deadMoney[q] \in Nat
  BY <1>1, <1>6, ReturnedChips DEF TypeOK, BetsAreWagers
<1>8. stack'[p] = stack[p] + returned[p] + won[p]
  BY <1>2, <1>4, <1>6 DEF PayOut
<1>9. (p \in b.holding /\ 0 < b.wagers[p] /\ b.wagers[p] < TopWager(b)) => b.wagers[p] \in Caps(b)
  BY <1>1, <1>3, AllInCapsPot
<1>10. won[p] \in Nat /\ won[p] <= SumFunctionOnSet(match, dealt) + DeadMoney(b)
  <2>1. p \in b.actives
    BY <1>3
  <2>2. /\ ShowdownWinnings(b, order)[p] \in Nat
        /\ ShowdownWinnings(b, order)[p]
             <= SumFunctionOnSet(Matched(b, p), b.actives) + DeadMoney(b)
    <3> HIDE DEF b, order
    <3> QED
      BY <1>2, <1>5, <1>9, <2>1, WinsWhatItMatched DEF b
  <2> QED
    BY <1>3, <2>2
<1>11. DeadMoney(b) = SumFunctionOnSet(deadMoney, dealt)
  BY <1>3 DEF DeadMoney
<1>12. \A q \in dealt : match[q] = IF wagers[q] - returned[q] <= wagers[p] - returned[p]
                                   THEN wagers[q] - returned[q] ELSE wagers[p] - returned[p]
  BY <1>3 DEF Matched
<1> HIDE DEF b, match, won
<1>13. \A q \in dealt : /\ match[q] \in Int /\ own[q] \in Int /\ both[q] = match[q] + own[q]
                        /\ both[q] \in Int /\ most[q] \in Int /\ both[q] <= most[q]
  BY <1>7, <1>12
<1>14. own[p] = returned[p] /\ (\A q \in dealt : own[q] \in Int) /\ \A q \in dealt \ {p} : own[q] = 0
  BY <1>7
<1> HIDE DEF own, both, most
<1>15. SumFunctionOnSet(own, dealt) = returned[p]
  BY <1>6, <1>14, SumOfOne
<1>16. SumFunctionOnSet(both, dealt) = SumFunctionOnSet(match, dealt) + SumFunctionOnSet(own, dealt)
  BY <1>6, <1>13, SumAdds
<1>17. SumFunctionOnSet(both, dealt) <= SumFunctionOnSet(most, dealt)
  BY <1>6, <1>13, SumMonotone
<1>18. /\ SumFunctionOnSet(match, dealt) \in Int /\ SumFunctionOnSet(most, dealt) \in Int
       /\ SumFunctionOnSet(deadMoney, dealt) \in Int
  BY <1>6, <1>7, <1>13, SumIsInt
<1>19. stack'[p] - stack[p] <= SumFunctionOnSet(most, dealt) + SumFunctionOnSet(deadMoney, dealt)
  BY <1>7, <1>8, <1>10, <1>11, <1>15, <1>16, <1>17, <1>18
<1> QED
  BY <1>19 DEF most

(* At the showdown an all-in player takes from every opponent no more than *)
(* it has wagered itself, for any number of players, all-ins and side      *)
(* pots and whatever the hands are worth (dead small blinds excepted).     *)
THEOREM NobodyOverwins == Spec /\ BigBlindsLead => NoOverwin
<1> DEFINE A == (EndHand /\ Cardinality(Holding) > 1) =>
                  \A p \in dealt :
                     stack'[p] - stack[p] <=
                         SumFunctionOnSet([q \in dealt |-> IF wagers[q] <= wagers[p] \/ q = p
                                                          THEN wagers[q] ELSE wagers[p]], dealt)
                         + SumFunctionOnSet(deadMoney, dealt)
<1>1. IInv /\ BetInv => [A]_vars
  BY WonWithinWagers
<1>2. [][A]_vars => NoOverwin
  BY PTL DEF NoOverwin
<1> HIDE DEF A
<1> QED
  BY <1>1, <1>2, Inductive, BetsInductive, PTL

-----------------------------------------------------------------------------
(* The hand implements ChipPot                                             *)

PotStep == [Pot!PotNext]_<<stack, wagers, deadMoney>>

(* ChipPot counts no chips as this module does.                            *)
LEMMA NoChipsIsZero == Pot!NoChips = Zero
  BY DEF Pot!NoChips, Zero

(* And sums as this module does.                                           *)
LEMMA SumsAreSums ==
    ASSUME NEW f, NEW S
    PROVE  Pot!SumFunctionOnSet(f, S) = SumFunctionOnSet(f, S)
  BY DEF SumFunctionOnSet, FoldFunctionOnSet, MapThenFoldSet, Pot!SumFunctionOnSet,
         Pot!FoldFunctionOnSet, Pot!MapThenFoldSet

(* Blinds go from the stacks to an empty pot.                              *)
LEMMA BlindsArePosted ==
    ASSUME IInv, BetInv, NEW players \in SUBSET Seats,
           NEW sb, NEW bb, NEW owesBB, NEW owesSB,
           StartHand(players, sb, bb, owesBB, owesSB)
    PROVE  PotStep
<1> DEFINE live(p) == IF p \in players THEN PostedLive(p, owesBB, owesSB) ELSE 0
           dead(p) == IF p \in players THEN PostedDead(p, owesBB, owesSB) ELSE 0
<1>1. \A p \in Seats : /\ live(p) \in Nat /\ dead(p) \in Nat
                       /\ live(p) + dead(p) <= stack[p] /\ stack[p] \in Nat
  BY PostedBlinds DEF IInv, TypeOK
<1>2. /\ stack' = [p \in Seats |-> stack[p] - live(p) - dead(p)]
      /\ wagers' = [p \in Seats |-> live(p)]
      /\ deadMoney' = [p \in Seats |-> dead(p)]
      /\ phase = "idle"
  BY DEF StartHand
<1> HIDE DEF live, dead
<1>3. wagers = Pot!NoChips /\ deadMoney = Pot!NoChips
  BY <1>2, NoChipsIsZero DEF BetInv
<1>4. DOMAIN stack' = Seats /\ DOMAIN wagers' = Seats /\ DOMAIN deadMoney' = Seats
  BY <1>2
<1>5. \A p \in Seats : /\ stack'[p] >= 0 /\ wagers'[p] >= 0 /\ deadMoney'[p] >= 0
                       /\ stack'[p] + wagers'[p] + deadMoney'[p] = stack[p]
  BY <1>1, <1>2
<1>6. Pot!PostBlinds
  BY <1>3, <1>4, <1>5 DEF Pot!PostBlinds
<1> QED
  BY <1>6 DEF PotStep, Pot!PotNext

(* A bet that does not shrink puts chips in the pot, or none.              *)
LEMMA BetsGoIn ==
    ASSUME TypeOK, NEW p \in Seats, NEW m \in Nat, PutIn(p, m), NEW action, Played(p, action),
           uncollected[p] <= m, m <= stack[p] + uncollected[p]
    PROVE  PotStep
<1> DEFINE n == m - uncollected[p]
<1>1. stack[p] \in Nat /\ uncollected[p] \in Nat /\ wagers[p] \in Nat
      /\ stack \in [Seats -> Nat] /\ wagers \in [Seats -> Nat]
  BY DEF TypeOK
<1>2. /\ wagers' = [wagers EXCEPT ![p] = @ + m - uncollected[p]]
      /\ stack' = [stack EXCEPT ![p] = @ - m + uncollected[p]]
      /\ UNCHANGED deadMoney
  BY DEF PutIn, Played
<1>3. stack[p] - m + uncollected[p] = stack[p] - n /\ wagers[p] + m - uncollected[p] = wagers[p] + n
      /\ n \in 0 .. stack[p]
  BY <1>1
<1>4. /\ wagers' = [wagers EXCEPT ![p] = wagers[p] + n]
      /\ stack' = [stack EXCEPT ![p] = stack[p] - n]
  BY <1>2, <1>3
<1> HIDE DEF n
<1>5. CASE n = 0
  <2>1. wagers' = wagers /\ stack' = stack
    BY <1>1, <1>4, <1>5
  <2> QED
    BY <1>2, <2>1 DEF PotStep
<1>6. CASE n # 0
  <2>1. n \in 1 .. stack[p]
    BY <1>1, <1>3, <1>6
  <2>2. Pot!PutChips(p)
    BY <1>2, <1>4, <2>1 DEF Pot!PutChips
  <2> QED
    BY <2>2 DEF PotStep, Pot!PotNext
<1> QED
  BY <1>5, <1>6

(* FOLD and CHECK move no chips.                                           *)
LEMMA QuietChips ==
    ASSUME NEW p, Fold(p) \/ Check(p)
    PROVE  PotStep
  BY DEF Fold, Check, Played, KeepChips, PotStep

(* CALL puts chips in, or none.                                            *)
LEMMA CalledChips ==
    ASSUME IInv, BetInv, InHand, NEW p \in Holding, Call(p)
    PROVE  PotStep
<1>1. TypeOK /\ Holding \subseteq Seats
  BY HoldersAreCounted DEF IInv
<1>2. Played(p, "CALL")
  BY DEF Call
<1>3. PICK q \in Holding : /\ \A r \in Holding : uncollected[r] <= uncollected[q]
                           /\ PutIn(p, IF uncollected[q] <= stack[p] + uncollected[p]
                                       THEN uncollected[q] ELSE stack[p] + uncollected[p])
  BY DEF Call, CallAmts
<1> DEFINE m == IF uncollected[q] <= stack[p] + uncollected[p]
                THEN uncollected[q] ELSE stack[p] + uncollected[p]
<1>4. /\ uncollected[q] \in Nat /\ uncollected[p] \in Nat /\ stack[p] \in Nat
      /\ uncollected[p] <= uncollected[q] /\ p \in Seats
  BY <1>1, <1>3 DEF TypeOK
<1>5. m \in Nat /\ uncollected[p] <= m /\ m <= stack[p] + uncollected[p] /\ PutIn(p, m)
  BY <1>3, <1>4
<1> HIDE DEF m
<1> QED
  BY <1>1, <1>2, <1>4, <1>5, BetsGoIn

(* So does every action of the player on turn; a raise never takes chips   *)
(* back.                                                                   *)
LEMMA ActChips ==
    ASSUME IInv, BetInv, NEW p \in Seats, Act(p)
    PROVE  PotStep
<1>1. TypeOK /\ InHand /\ p = NextToAct /\ NextToAct # NoSeat
  BY DEF Act, InHand, BetInv, IInv
<1>2. p \in Holding /\ p \in dealt
  BY <1>1, Turn
<1>3. stack[p] \in Nat /\ uncollected[p] \in Nat
  BY <1>1 DEF TypeOK
<1>4. CASE Fold(p) \/ Check(p)
  BY <1>4, QuietChips
<1>5. CASE Call(p)
  BY <1>1, <1>2, <1>5, CalledChips
<1>6. ASSUME NEW amt \in 0 .. stack[p], Bet(p, amt) PROVE PotStep
  <2>1. NoBets /\ PutIn(p, amt) /\ Played(p, "BET")
    BY <1>6 DEF Bet
  <2>2. amt \in Nat /\ uncollected[p] <= amt /\ amt <= stack[p] + uncollected[p]
    BY <1>2, <1>3, <2>1 DEF NoBets
  <2> QED
    BY <1>1, <2>1, <2>2, BetsGoIn
<1>7. ASSUME NEW amt \in 0 .. stack[p] + uncollected[p], RaiseTo(p, amt) PROVE PotStep
  <2>1. PutIn(p, amt) /\ Played(p, "RAISE_TO")
    BY <1>7 DEF RaiseTo
  <2>2. uncollected[p] <= amt
    BY <1>1, <1>7, RaiseTurn DEF Act
  <2>3. amt \in Nat /\ amt <= stack[p] + uncollected[p]
    BY <1>3
  <2> QED
    BY <1>1, <2>1, <2>2, <2>3, BetsGoIn
<1> QED
  BY <1>4, <1>5, <1>6, <1>7 DEF Act

(* So does a preset action.                                                *)
LEMMA PresetChips ==
    ASSUME IInv, BetInv, PlayPreset
    PROVE  PotStep
<1>1. PICK p : p = NextToAct
  OBVIOUS
<1>2. TypeOK /\ InHand /\ NextToAct # NoSeat
  BY DEF PlayPreset, InHand, IInv
<1>3. p \in Holding
  BY <1>1, <1>2, Turn
<1>4. Fold(p) \/ Check(p) \/ Call(p)
  BY <1>1 DEF PlayPreset
<1> QED
  BY <1>2, <1>3, <1>4, QuietChips, CalledChips

(* Dealing a street gives back what nobody called, and nothing else.       *)
LEMMA StreetChips ==
    ASSUME IInv, BetInv, DealStreet
    PROVE  PotStep
<1>1. TypeOK /\ OnlyDealtPlay
  BY DEF IInv, BetInv, DealStreet, InHand
<1>2. PICK returned \in UncalledReturns :
         /\ stack'  = [p \in Seats |-> stack[p] + returned[p]]
         /\ wagers' = [p \in Seats |-> wagers[p] - returned[p]]
  BY DEF DealStreet
<1>3. UNCHANGED deadMoney
  BY DEF DealStreet
<1>4. stack \in [Seats -> Nat] /\ wagers \in [Seats -> Nat] /\ dealt \subseteq Seats
  BY <1>1 DEF TypeOK
<1>5. CASE \A x \in dealt : \E y \in dealt \ {x} : wagers[x] <= wagers[y]
  <2>1. \A p \in Seats : returned[p] = 0
    BY <1>5 DEF UncalledReturns, Zero
  <2>2. stack' = stack /\ wagers' = wagers
    BY <1>2, <1>4, <2>1
  <2> QED
    BY <1>3, <2>2 DEF PotStep
<1>6. CASE ~ \A x \in dealt : \E y \in dealt \ {x} : wagers[x] <= wagers[y]
  <2>1. PICK pq \in dealt \X dealt :
               /\ Leads(pq[1], pq[2])
               /\ returned = [Zero EXCEPT ![pq[1]] = wagers[pq[1]] - wagers[pq[2]]]
    BY <1>6 DEF UncalledReturns
  <2>2. PICK p \in dealt, q \in dealt :
               Leads(p, q) /\ returned = [Zero EXCEPT ![p] = wagers[p] - wagers[q]]
    BY <2>1
  <2>3. /\ p \in Seats /\ q \in Seats \ {p} /\ wagers[q] < wagers[p]
        /\ \A r \in dealt \ {p} : wagers[r] <= wagers[q]
    BY <1>4, <2>2 DEF Leads
  <2>4. \A s \in Seats : returned[s] = IF s = p THEN wagers[p] - wagers[q] ELSE 0
    BY <2>2, <2>3 DEF Zero
  <2>5. \A r \in Seats \ {p} : wagers[r] <= wagers[q]
    BY <1>1, <1>4, <2>3 DEF OnlyDealtPlay
  <2>6. stack' = [stack EXCEPT ![p] = stack[p] + (wagers[p] - wagers[q])]
    <3>1. \A s \in Seats : stack[s] + returned[s]
                          = IF s = p THEN stack[p] + (wagers[p] - wagers[q]) ELSE stack[s]
      BY <1>4, <2>3, <2>4
    <3> QED
      BY <1>2, <1>4, <2>3, <3>1
  <2>7. wagers' = [wagers EXCEPT ![p] = wagers[q]]
    <3>1. \A s \in Seats : wagers[s] - returned[s] = IF s = p THEN wagers[q] ELSE wagers[s]
      BY <1>4, <2>3, <2>4
    <3> QED
      BY <1>2, <1>4, <2>3, <3>1
  <2>8. Pot!TakeBackUncalled(p)
    BY <1>3, <2>3, <2>5, <2>6, <2>7 DEF Pot!TakeBackUncalled
  <2> QED
    BY <2>3, <2>8 DEF PotStep, Pot!PotNext
<1> QED
  BY <1>5, <1>6

(* There is something in the pot.                                          *)
LEMMA PotIsNotEmpty ==
    ASSUME IInv, BetInv, InHand
    PROVE  \E p \in dealt : wagers[p] + deadMoney[p] > 0
<1>1. /\ TypeOK /\ BetsAreWagers /\ BlindsArePaid /\ PotIsOpen
  BY DEF IInv, BetInv
<1>2. \A p \in dealt : /\ wagers[p] \in Nat /\ uncollected[p] \in Nat /\ deadMoney[p] \in Nat
                       /\ uncollected[p] <= wagers[p]
  BY <1>1 DEF TypeOK, BetsAreWagers
<1>3. CASE board = 0
  BY <1>1, <1>2, <1>3 DEF BlindsArePaid
<1>4. CASE board # 0
  BY <1>1, <1>2, <1>4 DEF PotIsOpen
<1> QED
  BY <1>3, <1>4

(* The end of a hand pays the whole pot, and there is a pot to pay.        *)
LEMMA PaidChips ==
    ASSUME IInv, BetInv, EndHand
    PROVE  PotStep
<1>1. TypeOK /\ InHand /\ OnlyDealtPlay /\ BetsAreWagers /\ CollectedIsMatched
  BY DEF IInv, BetInv, EndHand, InHand
<1>2. PICK returned \in UncalledReturns, rank \in [dealt -> Ranks] :
         PayOut(BoardAfter(returned, rank), returned)
  BY DEF EndHand
<1> DEFINE b == BoardAfter(returned, rank)
           won == Winnings(b)
<1>3. /\ won \in [dealt -> Nat]
      /\ SumFunctionOnSet(won, dealt) = CurrentPot(b)
      /\ stack' = [p \in Seats |-> IF p \in dealt THEN stack[p] + returned[p] + won[p]
                                                   ELSE stack[p]]
      /\ wagers' = Zero /\ deadMoney' = Zero
  BY <1>2 DEF PayOut
<1> HIDE DEF won
<1>4. returned \in [Seats -> Nat] /\ \A p \in Seats : returned[p] <= uncollected[p]
  BY <1>1, ReturnedChips
<1>5. /\ \A p \in Seats : /\ stack[p] \in Nat /\ wagers[p] \in Nat /\ deadMoney[p] \in Nat
                          /\ returned[p] \in Nat
      /\ \A p \in dealt : won[p] \in Nat
      /\ dealt \in SUBSET Seats
  BY <1>1, <1>3, <1>4 DEF TypeOK
<1>6. IsFiniteSet(Seats) /\ IsFiniteSet(dealt)
  BY <1>1, <1>5, HoldersAreCounted, FS_Subset
<1> DEFINE c == [p \in dealt |-> wagers[p] - returned[p] + deadMoney[p]]
           w == [p \in Seats |-> wagers[p] + deadMoney[p]]
           d == [p \in Seats |-> IF p \in dealt THEN returned[p] + won[p] ELSE 0]
<1>7. CurrentPot(b) = SumFunctionOnSet(c, dealt)
  <2>1. b.actives = dealt /\ b.wagers = [p \in dealt |-> wagers[p] - returned[p]]
        /\ b.dead = deadMoney
    BY DEF BoardAfter
  <2>2. [p \in b.actives |-> b.wagers[p] + b.dead[p]] = c
    BY <2>1
  <2> QED
    BY <2>1, <2>2 DEF CurrentPot
<1>8. /\ \A p \in dealt : c[p] \in Int /\ returned[p] \in Int /\ won[p] \in Int /\ d[p] \in Int
                          /\ w[p] = c[p] + returned[p] /\ d[p] = returned[p] + won[p]
      /\ \A p \in Seats : /\ w[p] \in Nat /\ w[p] \in Int /\ d[p] \in Int /\ stack[p] \in Int
                          /\ wagers[p] \in Int /\ deadMoney[p] \in Int
                          /\ stack'[p] = stack[p] + d[p] /\ w[p] = wagers[p] + deadMoney[p]
      /\ \A p \in Seats \ dealt : w[p] = 0 /\ d[p] = 0
      /\ \A p \in Seats : d[p] >= 0
  BY <1>1, <1>3, <1>5 DEF OnlyDealtPlay
<1> HIDE DEF b, c, w, d
<1>9. SumFunctionOnSet(stack', Seats) = SumFunctionOnSet(stack, Seats) + SumFunctionOnSet(d, Seats)
  BY <1>6, <1>8, SumAdds
<1>10. SumFunctionOnSet(d, Seats) = SumFunctionOnSet(d, dealt)
  BY <1>5, <1>6, <1>8, SumWithin
<1>11. SumFunctionOnSet(d, dealt) = SumFunctionOnSet(returned, dealt) + SumFunctionOnSet(won, dealt)
  BY <1>6, <1>8, SumAdds
<1>12. SumFunctionOnSet(w, dealt) = SumFunctionOnSet(c, dealt) + SumFunctionOnSet(returned, dealt)
  BY <1>6, <1>8, SumAdds
<1>13. SumFunctionOnSet(w, Seats) = SumFunctionOnSet(w, dealt)
  BY <1>5, <1>6, <1>8, SumWithin
<1>14. SumFunctionOnSet(w, Seats) = SumFunctionOnSet(wagers, Seats) + SumFunctionOnSet(deadMoney, Seats)
  BY <1>6, <1>8, SumAdds
<1>15. /\ SumFunctionOnSet(c, dealt) \in Int /\ SumFunctionOnSet(returned, dealt) \in Int
       /\ SumFunctionOnSet(won, dealt) \in Int
  BY <1>6, <1>8, SumIsInt
<1>16. Pot!PotSize = SumFunctionOnSet(w, Seats)
  BY <1>14, SumsAreSums DEF Pot!PotSize
<1>17. SumFunctionOnSet(stack', Seats) = SumFunctionOnSet(stack, Seats) + Pot!PotSize
  BY <1>3, <1>7, <1>9, <1>10, <1>11, <1>12, <1>13, <1>15, <1>16
<1>18. Pot!PotSize > 0
  <2>1. PICK p \in dealt : wagers[p] + deadMoney[p] > 0
    BY <1>1, PotIsNotEmpty
  <2>2. p \in Seats /\ w[p] > 0 /\ w[p] \in Nat
    BY <1>5, <1>8, <2>1
  <2>3. SumFunctionOnSet(w, Seats) = w[p] + SumFunctionOnSet(w, Seats \ {p})
    BY <1>6, <1>8, <2>2, SumSteps
  <2>4. IsFiniteSet(Seats \ {p})
    BY <1>6, FS_Subset
  <2>5. SumFunctionOnSet(w, Seats \ {p}) \in Nat
    BY <1>8, <2>4, SumIsNat
  <2> QED
    BY <1>16, <2>2, <2>3, <2>5
<1>19. DOMAIN stack' = Seats /\ \A p \in Seats : stack'[p] >= stack[p]
  BY <1>3, <1>5, <1>8
<1>20. Pot!PayPot
  BY <1>3, <1>17, <1>18, <1>19, NoChipsIsZero, SumsAreSums DEF Pot!PayPot
<1> QED
  BY <1>20 DEF PotStep, Pot!PotNext

(* Every step of a hand is a step of the pot or none.                      *)
LEMMA NextPot == IInv /\ BetInv /\ [Next]_vars => PotStep
<1> SUFFICES ASSUME IInv, BetInv, [Next]_vars PROVE PotStep
  OBVIOUS
<1>1. CASE UNCHANGED vars
  BY <1>1 DEF vars, chipVars, PotStep
<1>2. ASSUME Next, ~(UNCHANGED vars) PROVE PotStep
  <2>1. CASE StartAnyHand
    <3>1. PICK players \in SUBSET {p \in Seats : stack[p] > 0 /\ ~leaving[p]},
               sb \in Seats, bb \in Seats :
                  \E owesBB, owesSB : StartHand(players, sb, bb, owesBB, owesSB)
      BY <2>1, HandIsDealt
    <3>2. players \in SUBSET Seats
      OBVIOUS
    <3> QED
      BY <3>1, <3>2, BlindsArePosted
  <2>2. CASE \E p \in Seats : Act(p)
    BY <2>2, ActChips
  <2>3. CASE TimedFold
    BY <2>3, QuietChips DEF TimedFold
  <2>4. CASE \E p \in Seats, kind \in {"none", "checkfold", "check", "call"} : SetPreset(p, kind)
    BY <2>4 DEF SetPreset, chipVars, PotStep
  <2>5. CASE \E p \in Seats : LeaveSeat(p) \/ TakeSeat(p)
    BY <2>5 DEF LeaveSeat, TakeSeat, chipVars, PotStep
  <2>6. CASE WaitForPlayer \/ EndHandRaises
    BY <2>6 DEF WaitForPlayer, EndHandRaises, chipVars, PotStep
  <2>7. CASE PlayPreset
    BY <2>7, PresetChips
  <2>8. CASE DealStreet
    BY <2>8, StreetChips
  <2>9. CASE EndHand
    BY <2>9, PaidChips
  <2> QED
    BY <1>2, <2>1, <2>2, <2>3, <2>4, <2>5, <2>6, <2>7, <2>8, <2>9 DEF Next, Step
<1> QED
  BY <1>1, <1>2

(* The hand implements ChipPot: chips go from a stack to the pot, back     *)
(* only when nobody called them, and from the pot to the stacks all at     *)
(* once.                                                                   *)
THEOREM HandsImplementPot == Spec /\ BigBlindsLead => ImplementsChipPot
<1>1. Init => Pot!PotInit
  BY NoChipsIsZero DEF Init, Pot!PotInit
<1>2. IInv /\ BetInv /\ [Next]_vars => [Pot!PotNext]_(Pot!potVars)
  BY NextPot DEF PotStep, Pot!potVars
<1> QED
  BY <1>1, <1>2, Inductive, BetsInductive, PTL DEF Spec, ImplementsChipPot, Pot!PotSpec

-----------------------------------------------------------------------------
(* Tables of two or three seats: whoever joins waits while two play, and   *)
(* when three play there is no seat left, so nobody joins and owes a blind *)
(* unless the big blind moves to him.                                      *)

(* The three who are already in leave no seat for anybody else.            *)
LEMMA NobodyJoins ==
    ASSUME NumSeats <= 3, NEW players \in SUBSET Seats, NEW joining \in SUBSET players,
           NEW sb \in Seats, NEW bb \in Seats, BlindSeats(players, joining, sb, bb)
    PROVE  joining \subseteq {bb}
<1>1. CASE HeadsUp(players, joining, sb, bb)
  BY <1>1 DEF HeadsUp
<1>2. CASE Cardinality((players \ joining) \cup {bb}) > 2
  <2> DEFINE alreadyIn == (players \ joining) \cup {bb}
  <2>1. IsFiniteSet(Seats) /\ Cardinality(Seats) = NumSeats
    BY HandAssumption, FS_Interval DEF Seats
  <2>2. alreadyIn \in SUBSET Seats
    OBVIOUS
  <2>3. Cardinality(alreadyIn) > 2
    BY <1>2
  <2>4. ASSUME NEW q \in Seats, q \notin alreadyIn PROVE FALSE
    <3> HIDE DEF alreadyIn
    <3>1. IsFiniteSet(alreadyIn)
      BY <2>1, <2>2, FS_Subset
    <3>2. IsFiniteSet(alreadyIn \cup {q}) /\ Cardinality(alreadyIn \cup {q}) = Cardinality(alreadyIn) + 1
      BY <2>4, <3>1, FS_AddElement
    <3>3. alreadyIn \cup {q} \in SUBSET Seats
      BY <2>2
    <3>4. Cardinality(alreadyIn \cup {q}) <= Cardinality(Seats)
      BY <2>1, <3>3, FS_Subset
    <3>5. Cardinality(alreadyIn) \in Nat /\ NumSeats \in Nat
      BY <3>1, FS_CardinalityType, HandAssumption
    <3> QED
      BY <2>1, <2>3, <3>2, <3>4, <3>5
  <2> QED
    BY <2>4
<1> QED
  BY <1>1, <1>2 DEF BlindSeats

(* So nobody owes a big blind there, and nobody but the blinds posts.      *)
LEMMA SmallTablesLead ==
    ASSUME NumSeats <= 3
    PROVE  Spec => BigBlindsLead
<1>1. ASSUME IInv, [Next]_vars PROVE [BigBlindPostsMost]_vars
  <2>1. CASE UNCHANGED vars
    BY <2>1
  <2>2. CASE phase = "idle" /\ Next
    <3>1. StartAnyHand
      BY <2>2 DEF Next, Step, Act, TimedFold, SetPreset, LeaveSeat, TakeSeat, WaitForPlayer,
                  PlayPreset, DealStreet, EndHand, EndHandRaises
    <3>2. PICK players \in SUBSET {p \in Seats : stack[p] > 0 /\ ~leaving[p]},
               joining \in SUBSET Seats, sb \in Seats, bb \in Seats :
             /\ joining \in SUBSET players /\ BlindSeats(players, joining, sb, bb)
             /\ \E owesBB, owesSB \in SUBSET (joining \ {bb}) :
                   StartHand(players, sb, bb, owesBB, owesSB)
      BY <3>1, HandIsDealt
    <3>3. players \in SUBSET Seats
      OBVIOUS
    <3>5. joining \ {bb} = {}
      BY <3>2, <3>3, NobodyJoins
    <3>6. PICK owesBB, owesSB : owesBB = {} /\ owesSB = {} /\ StartHand(players, sb, bb, owesBB, owesSB)
      BY <3>2, <3>5
    <3>7. /\ sbIdx' = sb /\ bbIdx' = bb
          /\ uncollected' = [p \in Seats |-> IF p \in players
                                             THEN PostedLive(p, owesBB, owesSB) ELSE 0]
      BY <3>6 DEF StartHand
    <3>8. \A p \in players : PostedLive(p, owesBB, owesSB) \in Nat
      BY <1>1, <3>3, PostedBlinds
    <3>9. \A p \in players : p # sb /\ p # bb => PostedLive(p, owesBB, owesSB) = 0
      BY <3>6, <3>7 DEF PostedLive, PostedBig, PostedSmall
    <3>10. \A q \in Seats : q # sb => uncollected'[q] <= uncollected'[bb]
      <4> DEFINE live(p) == IF p \in players THEN PostedLive(p, owesBB, owesSB) ELSE 0
      <4>1. /\ \A p \in Seats : uncollected'[p] = live(p) /\ live(p) \in Nat
            /\ \A p \in Seats : p # sb /\ p # bb => live(p) = 0
        BY <3>7, <3>8, <3>9
      <4> HIDE DEF live
      <4> QED
        BY <4>1
    <3> QED
      BY <3>7, <3>10 DEF BigBlindPostsMost
  <2>3. CASE phase # "idle"
    BY <2>3 DEF BigBlindPostsMost
  <2>4. Next \/ UNCHANGED vars
    BY <1>1
  <2> QED
    BY <2>1, <2>2, <2>3, <2>4
<1> QED
  BY <1>1, Inductive, PTL DEF Spec, BigBlindsLead

(* On tables of two or three seats nothing has to be assumed of the        *)
(* blinds: the betting of a street is closed when the next is dealt,       *)
(* nobody wins more than it matched, and the hand implements ChipPot, for  *)
(* all blinds and stacks.                                                  *)
THEOREM SmallTables ==
    ASSUME NumSeats <= 3
    PROVE  Spec => RoundClosed /\ NoOverwin /\ ImplementsChipPot
  BY SmallTablesLead, StreetsClose, NobodyOverwins, HandsImplementPot, PTL

=============================================================================
