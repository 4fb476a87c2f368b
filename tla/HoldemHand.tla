------------------------------ MODULE HoldemHand ------------------------------
(***************************************************************************)
(* One table playing hands of no-limit hold'em: HoldemController and       *)
(* HoldemAccessor (poker/controllers.py, poker/accessors.py) with the      *)
(* chip-moving event handlers of Player (poker/models.py).                 *)
(*                                                                         *)
(* A dispatch of the code is: one player action, then step(), which plays  *)
(* preset actions, deals streets and ends the hand until a player has to   *)
(* act, and then one commit.  The model keeps step()'s loop visible: an    *)
(* action leaves phase = "step", in which only the loop's own next move    *)
(* is enabled, until it stops at "wait" (somebody must act) or "idle"      *)
(* (the hand is over).  No other handler can run while phase = "step".     *)
(*                                                                         *)
(* Who is dealt in, where the blinds are and who owes one is decided       *)
(* between the hands (setup_hand); here StartHand receives it as input.    *)
(* Cards are abstracted to "holds cards", the board to its length, and     *)
(* the value of a hand to a rank that is revealed at the showdown.         *)
(***************************************************************************)
EXTENDS SidePots

CONSTANTS
    NumSeats,       \* PokerTable.num_seats
    SB, BB,         \* the blinds of the table
    InitialStacks,  \* chips in front of each seat when the table opens
    Ranks,          \* the values a hand may have at the showdown
    MaxHands        \* bound: the table plays at most this many hands

Seats  == 0 .. NumSeats - 1
NoSeat == -1

ASSUME HandAssumption ==
    /\ NumSeats \in Nat /\ NumSeats >= 2
    /\ SB \in Nat /\ BB \in Nat /\ 0 < SB /\ SB <= BB
    /\ InitialStacks \subseteq [Seats -> Nat]
    /\ Ranks \subseteq Int /\ Ranks # {} /\ MaxHands \in Nat

VARIABLES
    phase,        \* "idle", "step", "wait" or "crashed" (an exception left step)
    dealt,        \* the active players of the hand
    sbIdx, bbIdx, \* table.sb_idx, table.bb_idx
    stack, wagers, uncollected, deadMoney,  \* chips of every player
    lastAction,   \* Player.last_action, as far as a hand reads it
    hasCards,     \* Player.cards is not empty
    board,        \* number of cards on the board
    leaving,      \* playing_state = LEAVE_SEAT_PENDING
    preset,       \* the preset_* fields, at most one of which is set
    handNumber,   \* table.hand_number
    startStack    \* history: the stack before the blinds were posted

chipVars  == <<stack, wagers, uncollected, deadMoney>>
tableVars == <<dealt, sbIdx, bbIdx, handNumber, startStack>>
vars == <<phase, chipVars, tableVars, lastAction, hasCards, board, leaving, preset>>

NoPreset == [kind |-> "none", amt |-> 0]
Presets  == [kind : {"none", "checkfold", "check", "call"}, amt : Nat]
LastActions == {"NONE", "POST", "BET", "RAISE_TO", "CALL", "CHECK", "FOLD"}

Zero == [p \in Seats |-> 0]

-----------------------------------------------------------------------------
(* Reading the game state                                                  *)

(* showdown_players(): still in the hand.                                  *)
Holding == {p \in dealt : hasCards[p]}

AllIn(p) == hasCards[p] /\ stack[p] = 0

(* last_raise_size() = 0; it looks at every active player, folded or not.  *)
NoBets == \A p \in dealt : uncollected[p] = 0

IsPreflop == board = 0
IsRiverOrEnd == board = 5 \/ Cardinality(Holding) = 1

(* first_to_act_pos(): possibly an empty seat; heads up the button, who    *)
(* posts the small blind, acts last after the flop.                        *)
FirstToActPos ==
    CASE IsPreflop               -> (bbIdx + 1) % NumSeats
      [] ~IsPreflop /\ Cardinality(dealt) > 2 -> sbIdx
      [] OTHER                   -> bbIdx

(* The place of a player in players_in_acting_order().                     *)
Distance(p) == (p - FirstToActPos + NumSeats) % NumSeats

HasNotActed(p) == lastAction[p] \in {"NONE", "POST"}

(* Mutant: a bet need not be answered, only a raise.                       *)
RaisersOnly == {p \in Holding : lastAction[p] = "RAISE_TO"}

Raisers == {p \in Holding : lastAction[p] \in {"BET", "RAISE_TO"}}

(* Of the largest bets or raises of the street, the first in acting order. *)
LastRaiser ==
    CHOOSE p \in Raisers : \A q \in Raisers :
        \/ uncollected[q] < uncollected[p]
        \/ uncollected[q] = uncollected[p] /\ Distance(p) <= Distance(q)

(* next_to_act(): nobody when fewer than two players hold cards, when no   *)
(* chips are left to bet, or when a lone player with chips faces no bet;   *)
(* otherwise the first who has not acted, otherwise the first after the    *)
(* last raiser who has put in less.                                        *)
NextToAct ==
    LET withChips == {p \in Holding : stack[p] > 0}
        unacted   == {p \in withChips : HasNotActed(p)}
        behind    == {p \in withChips : uncollected[p] < uncollected[LastRaiser]}
        after(p)  == (Distance(p) - Distance(LastRaiser) + NumSeats) % NumSeats
    IN  IF \/ Cardinality(Holding) < 2
           \/ withChips = {}
           \/ Cardinality(withChips) = 1 /\ NoBets
        THEN NoSeat
        ELSE IF unacted # {}
             THEN CHOOSE p \in unacted : \A q \in unacted : Distance(p) <= Distance(q)
        ELSE IF Raisers = {} \/ behind = {} THEN NoSeat
        ELSE CHOOSE p \in behind : \A q \in behind : after(p) <= after(q)

(* min_bet_amt(): the active players sorted by the kind of their last      *)
(* action, then by their wagers, then by acting order; the two first give  *)
(* the size of the next raise.                                             *)
ActionOrder(p) ==
    CASE lastAction[p] = "RAISE_TO" -> 0
      [] lastAction[p] = "BET"      -> 1
      [] lastAction[p] = "POST"     -> 2
      [] OTHER                      -> 999

RaisesBefore(p, q) ==
    \/ ActionOrder(p) < ActionOrder(q)
    \/ ActionOrder(p) = ActionOrder(q) /\ wagers[p] > wagers[q]
    \/ /\ ActionOrder(p) = ActionOrder(q) /\ wagers[p] = wagers[q]
       /\ Distance(p) < Distance(q)

MinBetAmt ==
    LET First(S) == CHOOSE p \in S : \A q \in S \ {p} : RaisesBefore(p, q)
        top      == First(dealt)
        second   == First(dealt \ {top})
    IN  CASE lastAction[top] \in {"BET", "POST"} -> 2 * uncollected[top]
          [] lastAction[top] = "RAISE_TO" -> 2 * uncollected[top] - uncollected[second]
          [] OTHER -> BB

(* Mutant: a player may call for more than it has.                         *)
CallAmtsUncapped(p) ==
    {uncollected[q] : q \in {x \in Holding : \A r \in Holding : uncollected[r] <= uncollected[x]}}

(* call_amt(): the largest bet of those who still hold cards, or all the   *)
(* player has; in a set of its own, as UncalledReturns below.              *)
CallAmts(p) ==
    {IF uncollected[q] <= stack[p] + uncollected[p] THEN uncollected[q]
     ELSE stack[p] + uncollected[p] :
        q \in {x \in Holding : \A r \in Holding : uncollected[r] <= uncollected[x]}}

(* call_amt(diff=True) > 0                                                 *)
Behind(p) == stack[p] > 0 /\ \E q \in Holding : uncollected[q] > uncollected[p]

(* Which of CHECK and CALL is available: last_raise_size() > uncollected.  *)
FacesBet(p) == \E q \in dealt : uncollected[q] > uncollected[p]

(* BET and RAISE_TO need chips beyond the call and an opponent who is not  *)
(* all-in.                                                                 *)
CanRaise(p) ==
    /\ \A q \in dealt : stack[p] + uncollected[p] > uncollected[q]
    /\ \E q \in Holding \ {p} : ~AllIn(q)

(* Mutant: presets are open to everybody who holds cards.                  *)
HoldsCards(p) == hasCards[p]

(* will_act_this_round(): may set a preset action.                         *)
WillActThisRound(p) ==
    /\ hasCards[p] /\ ~AllIn(p)
    /\ Behind(p) \/ lastAction[p] = "POST"

(* preset_player_action(): what step() plays for the next player, if       *)
(* anything.                                                               *)
PresetAction(p) ==
    CASE leaving[p] -> "FOLD"
      [] ~leaving[p] /\ preset[p].kind = "checkfold" ->
            IF FacesBet(p) THEN "FOLD" ELSE "CHECK"
      [] ~leaving[p] /\ preset[p].kind = "check" /\ ~FacesBet(p) -> "CHECK"
      [] ~leaving[p] /\ preset[p].kind = "call" /\ preset[p].amt \in CallAmts(p) -> "CALL"
      [] OTHER -> "NONE"

-----------------------------------------------------------------------------
(* Starting a hand: the end of setup_hand                                  *)

(* post_blinds(): the live and the dead chips a player posts.  The big     *)
(* blind posts nothing else; a player who owes a big blind posts it out of *)
(* position; the small blind is live on its seat and dead when owed.       *)
PostedBig(p, owesBB) ==
    IF p = bbIdx' \/ p \in owesBB THEN Min({stack[p], BB}) ELSE 0

PostedSmall(p, owesBB, owesSB) ==
    IF p # bbIdx' /\ (p = sbIdx' \/ p \in owesSB)
    THEN Min({stack[p] - PostedBig(p, owesBB), SB})
    ELSE 0

PostedDead(p, owesBB, owesSB) ==
    IF p = sbIdx' THEN 0 ELSE PostedSmall(p, owesBB, owesSB)

PostedLive(p, owesBB, owesSB) ==
    PostedBig(p, owesBB) + (IF p = sbIdx' THEN PostedSmall(p, owesBB, owesSB) ELSE 0)

(* reset_for_new_hand, SET_BLIND_POS, NEW_HAND, post_blinds and            *)
(* deal_starting_hands for a given set of players and blind positions.     *)
StartHand(players, sb, bb, owesBB, owesSB) ==
    /\ phase = "idle" /\ handNumber < MaxHands
    /\ dealt' = players /\ sbIdx' = sb /\ bbIdx' = bb
    /\ startStack' = stack /\ UNCHANGED handNumber
    /\ LET live == [p \in Seats |-> IF p \in players
                                    THEN PostedLive(p, owesBB, owesSB) ELSE 0]
           dead == [p \in Seats |-> IF p \in players
                                    THEN PostedDead(p, owesBB, owesSB) ELSE 0]
       IN  /\ stack'       = [p \in Seats |-> stack[p] - live[p] - dead[p]]
           /\ wagers'      = live
           /\ uncollected' = live
           /\ deadMoney'   = dead
    /\ lastAction' = [p \in Seats |-> IF p \in players \cap ({sb, bb} \cup owesBB)
                                      THEN "POST" ELSE "NONE"]
    /\ hasCards' = [p \in Seats |-> p \in players]
    /\ board' = 0
    /\ leaving' = [p \in Seats |-> FALSE]
    /\ preset' = [p \in Seats |-> NoPreset]
    /\ phase' = "step"

(* The hands blind rotation can deal (setup_hand, btn_sb_locations,        *)
(* must_wait_to_sit_in_players).  Already in are the active players and    *)
(* the one the big blind moves to, who may be joining.  If they are two,   *)
(* whoever else joins waits: heads up, the button posts the small blind.   *)
(* If they are more, the small blind is an active player or the empty seat *)
(* before the big blind, nobody dealt in sits between the two, and who     *)
(* joins does not sit from the button up to the big blind.  A hand with    *)
(* drawn seats is one that nobody joins: nobody waits and nobody owes.     *)
Between(a, x, b) == (x - a + NumSeats) % NumSeats < (b - a + NumSeats) % NumSeats

(* The last active player before the small blind's seat.                   *)
Button(active, sb) ==
    CHOOSE p \in active \ {sb} : \A q \in active \ {sb, p} : ~Between(p, q, sb)

HeadsUp(players, joining, sb, bb) == players = {sb, bb} /\ joining = {}

BlindSeats(players, joining, sb, bb) ==
    LET active == players \ joining
    IN  /\ bb \in players /\ sb # bb
        /\ \/ HeadsUp(players, joining, sb, bb)
           \/ /\ Cardinality(active \cup {bb}) > 2
              /\ sb \in active \/ (sb \notin players /\ (sb + 1) % NumSeats = bb)
              /\ \A p \in players \ {sb, bb} : ~Between(sb, p, bb)
              /\ \A p \in joining \ {bb} : ~Between(Button(active, sb), p, bb)

(* A player who joins has a big blind (min_amt_to_play) and may owe        *)
(* blinds; in the big blind it owes nothing else.  Of who is in already    *)
(* only the next small blind can owe one, which it posts anyway, but for   *)
(* the hands named in Seating (SmallMayPassBig, NobodyJumpsIn), which are  *)
(* left out.                                                               *)
StartAnyHand ==
    \E players \in SUBSET {p \in Seats : stack[p] > 0 /\ ~leaving[p]} :
    \E joining \in SUBSET {p \in players : stack[p] >= BB} :
    \E sb, bb \in Seats :
        /\ BlindSeats(players, joining, sb, bb)
        /\ \E owesBB \in SUBSET (joining \ {bb}) : \E owesSB \in SUBSET (joining \ {bb}) :
              StartHand(players, sb, bb, owesBB, owesSB)

-----------------------------------------------------------------------------
(* The five betting actions: what the handler of the controller checks and *)
(* what the events it dispatches change.  The phase is set by the caller.  *)

Played(p, action) ==
    /\ lastAction' = [lastAction EXCEPT ![p] = action]
    /\ preset' = [preset EXCEPT ![p] = NoPreset]
    /\ hasCards' = [hasCards EXCEPT ![p] = action # "FOLD"]
    /\ UNCHANGED <<deadMoney, tableVars, board, leaving>>

(* Mutant: what was already bet on the street is wagered again.            *)
PutInWhole(p, amt) ==
    /\ uncollected' = [uncollected EXCEPT ![p] = amt]
    /\ wagers' = [wagers EXCEPT ![p] = @ + amt]
    /\ stack' = [stack EXCEPT ![p] = @ - amt + uncollected[p]]

(* on_bet, on_raise_to and on_call: the player's bet of this street        *)
(* becomes amt, and the difference moves from the stack to the wagers.     *)
PutIn(p, amt) ==
    /\ uncollected' = [uncollected EXCEPT ![p] = amt]
    /\ wagers' = [wagers EXCEPT ![p] = @ + amt - uncollected[p]]
    /\ stack' = [stack EXCEPT ![p] = @ - amt + uncollected[p]]

KeepChips == UNCHANGED <<stack, wagers, uncollected>>

Fold(p) == Played(p, "FOLD") /\ KeepChips

Check(p) == ~FacesBet(p) /\ Played(p, "CHECK") /\ KeepChips

Call(p) ==
    /\ FacesBet(p)
    /\ \E amt \in CallAmts(p) : PutIn(p, amt)
    /\ Played(p, "CALL")

Bet(p, amt) ==
    /\ NoBets /\ CanRaise(p)
    /\ amt <= stack[p]
    /\ amt >= BB \/ amt = stack[p]
    /\ PutIn(p, amt) /\ Played(p, "BET")

RaiseTo(p, amt) ==
    /\ ~NoBets /\ CanRaise(p)
    /\ amt <= stack[p] + uncollected[p]
    /\ amt >= MinBetAmt \/ amt = stack[p] + uncollected[p]
    /\ PutIn(p, amt) /\ Played(p, "RAISE_TO")

-----------------------------------------------------------------------------
(* What players may dispatch while the table waits                         *)

(* FOLD, CHECK, CALL, BET and RAISE_TO of the player whose turn it is.     *)
(* timed_dispatch folds a player who is out of time the same way (and      *)
(* queues a sit-out, which does not matter to the hand).                   *)
Act(p) ==
    /\ phase = "wait" /\ p = NextToAct
    /\ \/ Fold(p)
       \/ Check(p)
       \/ Call(p)
       \/ \E amt \in 0 .. stack[p] : Bet(p, amt)
       \/ \E amt \in 0 .. stack[p] + uncollected[p] : RaiseTo(p, amt)
    /\ phase' = "step"

(* Mutant: the clock leaves a player with a preset action alone.           *)
TimedFoldWithoutPreset ==
    /\ phase = "wait" /\ preset[NextToAct] = NoPreset /\ Fold(NextToAct)
    /\ phase' = "step"

TimedFold ==
    /\ phase = "wait" /\ Fold(NextToAct)
    /\ phase' = "step"

(* SET_PRESET_CHECKFOLD, SET_PRESET_CHECK and SET_PRESET_CALL of a player  *)
(* who waits for a turn; the new preset replaces the old one, and setting  *)
(* one to False leaves none.                                               *)
SetPreset(p, kind) ==
    /\ phase = "wait" /\ p # NextToAct /\ WillActThisRound(p)
    /\ kind = "call" => Behind(p)
    /\ kind = "check" => ~Behind(p)
    /\ \E amt \in IF kind = "call" THEN CallAmts(p) ELSE {0} :
          preset' = [preset EXCEPT ![p] = [kind |-> kind, amt |-> amt]]
    /\ phase' = "step"
    /\ UNCHANGED <<chipVars, tableVars, lastAction, hasCards, board, leaving>>

(* LEAVE_SEAT queues the leave until the hand is over; TAKE_SEAT or        *)
(* SIT_OUT_AT_BLINDS takes it back.                                        *)
LeaveSeat(p) ==
    /\ phase = "wait" /\ p \in dealt /\ ~leaving[p]
    /\ leaving' = [leaving EXCEPT ![p] = TRUE]
    /\ phase' = "step"
    /\ UNCHANGED <<chipVars, tableVars, lastAction, hasCards, board, preset>>

TakeSeat(p) ==
    /\ phase = "wait" /\ p \in dealt /\ leaving[p]
    /\ leaving' = [leaving EXCEPT ![p] = FALSE]
    /\ phase' = "step"
    /\ UNCHANGED <<chipVars, tableVars, lastAction, hasCards, board, preset>>

-----------------------------------------------------------------------------
(* step(): what the controller does by itself after every dispatch         *)

WaitForPlayer ==
    /\ phase = "step"
    /\ NextToAct # NoSeat /\ PresetAction(NextToAct) = "NONE"
    /\ phase' = "wait"
    /\ UNCHANGED <<chipVars, tableVars, lastAction, hasCards, board, leaving, preset>>

PlayPreset ==
    /\ phase = "step"
    /\ NextToAct # NoSeat
    /\ LET p == NextToAct
       IN  CASE PresetAction(p) = "FOLD"  -> Fold(p)
             [] PresetAction(p) = "CHECK" -> Check(p)
             [] PresetAction(p) = "CALL"  -> Call(p)
             [] OTHER                     -> FALSE
    /\ UNCHANGED phase

(* Mutants: the excess over the smallest wager goes back, or the excess    *)
(* over the wagers of the players who still hold cards.                    *)
LeadsOverSmallest(p, q) ==
    /\ p # q /\ wagers[q] < wagers[p]
    /\ \A r \in dealt \ {p} : wagers[r] < wagers[p] /\ wagers[q] <= wagers[r]

UncalledByHolders ==
    IF \A p \in Holding : \E q \in Holding \ {p} : wagers[p] <= wagers[q]
    THEN {Zero}
    ELSE {[Zero EXCEPT ![pq[1]] = wagers[pq[1]] - wagers[pq[2]]] :
             pq \in {x \in Holding \X Holding :
                        /\ wagers[x[2]] < wagers[x[1]]
                        /\ \A r \in Holding \ {x[1]} : wagers[r] <= wagers[x[2]]}}

(* return_uncalled_bets(): when one player has wagered more than anybody   *)
(* else, the excess over the next largest wager goes back.  The set holds  *)
(* the one function that says how many chips each player gets back.        *)
Leads(p, q) ==
    /\ p # q /\ wagers[q] < wagers[p]
    /\ \A r \in dealt \ {p} : wagers[r] <= wagers[q]

UncalledReturns ==
    IF \A p \in dealt : \E q \in dealt \ {p} : wagers[p] <= wagers[q]
    THEN {Zero}
    ELSE {[Zero EXCEPT ![pq[1]] = wagers[pq[1]] - wagers[pq[2]]] :
             pq \in {x \in dealt \X dealt : Leads(x[1], x[2])}}

(* deal_flop, deal_turn and deal_river: uncalled chips go back, the bets   *)
(* of the street are collected, last actions and presets are cleared       *)
(* (on_new_street skips a player without action and without bet), and      *)
(* cards go to the board.                                                  *)
DealStreet ==
    /\ phase = "step"
    /\ NextToAct = NoSeat /\ ~IsRiverOrEnd
    /\ \E returned \in UncalledReturns :
          /\ stack'  = [p \in Seats |-> stack[p] + returned[p]]
          /\ wagers' = [p \in Seats |-> wagers[p] - returned[p]]
    /\ uncollected' = Zero
    /\ lastAction' = [p \in Seats |->
                         IF lastAction[p] \in {"BET", "RAISE_TO", "CALL", "CHECK"}
                         THEN "NONE" ELSE lastAction[p]]
    /\ preset' = [p \in Seats |-> IF lastAction[p] = "NONE" /\ uncollected[p] = 0
                                  THEN preset[p] ELSE NoPreset]
    /\ board' = IF board = 0 THEN 3 ELSE board + 1
    /\ UNCHANGED <<phase, tableVars, deadMoney, hasCards, leaving>>

(* The pots at the end of the hand, once uncalled chips went back.         *)
BoardAfter(returned, rank) ==
    [actives |-> dealt,
     wagers  |-> [p \in dealt |-> wagers[p] - returned[p]],
     dead    |-> deadMoney,
     stack   |-> [p \in dealt |-> stack[p] + returned[p]],
     folded  |-> {p \in dealt : lastAction[p] = "FOLD"},
     holding |-> Holding,
     rank    |-> rank]

(* wins_and_losses()                                                       *)
Winnings(b) ==
    IF Cardinality(b.holding) = 1 THEN UncontestedWinnings(b)
    ELSE ShowdownWinnings(b, [p \in dealt |-> Distance(p)])

(* end_hand(): the WIN events must add up to the pot; then every active    *)
(* player is RESET.                                                        *)
PayOut(b, returned) ==
    LET won == Winnings(b)
    IN  /\ won \in [dealt -> Nat]
        /\ SumFunctionOnSet(won, dealt) = CurrentPot(b)
        /\ stack' = [p \in Seats |-> IF p \in dealt THEN stack[p] + returned[p] + won[p]
                                                     ELSE stack[p]]
        /\ wagers' = Zero /\ uncollected' = Zero /\ deadMoney' = Zero
        /\ lastAction' = [p \in Seats |-> "NONE"]
        /\ hasCards' = [p \in Seats |-> FALSE]
        /\ preset' = [p \in Seats |-> NoPreset]
        /\ phase' = "idle" /\ handNumber' = handNumber + 1
        /\ UNCHANGED <<dealt, sbIdx, bbIdx, startStack, board, leaving>>

EndHand ==
    /\ phase = "step"
    /\ NextToAct = NoSeat /\ IsRiverOrEnd
    /\ \E returned \in UncalledReturns : \E rank \in [dealt -> Ranks] :
          LET b == BoardAfter(returned, rank)
          IN  /\ Cardinality(Holding) = 1 \/ EveryPotHasAWinner(b)
              /\ PayOut(b, returned)

(* A pot that no player of the showdown contributed to: winners() raises   *)
(* IndexError, the dispatch is not committed and the beat's process ends.  *)
EndHandRaises ==
    /\ phase = "step"
    /\ NextToAct = NoSeat /\ IsRiverOrEnd
    /\ Cardinality(Holding) > 1
    /\ \E returned \in UncalledReturns :
          ~EveryPotHasAWinner(BoardAfter(returned, [p \in dealt |-> 0]))
    /\ phase' = "crashed"
    /\ UNCHANGED <<chipVars, tableVars, lastAction, hasCards, board, leaving, preset>>

Step == WaitForPlayer \/ PlayPreset \/ DealStreet \/ EndHand \/ EndHandRaises

-----------------------------------------------------------------------------
Init ==
    /\ phase = "idle"
    /\ dealt = {} /\ sbIdx = 0 /\ bbIdx = 0
    /\ stack \in InitialStacks /\ startStack = stack
    /\ wagers = Zero /\ uncollected = Zero /\ deadMoney = Zero
    /\ lastAction = [p \in Seats |-> "NONE"]
    /\ hasCards = [p \in Seats |-> FALSE]
    /\ board = 0 /\ handNumber = 0
    /\ leaving = [p \in Seats |-> FALSE]
    /\ preset = [p \in Seats |-> NoPreset]

Next ==
    \/ StartAnyHand
    \/ \E p \in Seats : Act(p)
    \/ TimedFold
    \/ \E p \in Seats, kind \in {"none", "checkfold", "check", "call"} : SetPreset(p, kind)
    \/ \E p \in Seats : LeaveSeat(p) \/ TakeSeat(p)
    \/ Step

Spec == Init /\ [][Next]_vars

(* The next player is timed out sooner or later: the heartbeat wakes up    *)
(* every HEARTBEAT_POLL seconds or with a message, and each time calls     *)
(* timed_dispatch; toggles do not restart the clock, which only a betting  *)
(* action does (on_record_action).  step() is one call and goes on: the    *)
(* second conjunct is WF_vars(Step) without its ENABLED, which would have  *)
(* TLC deal every hand.  In phase "step" there is no other step, and there *)
(* always is that one (StepGoesOnSafe of HoldemHandProofs).                *)
Fairness ==
    /\ SF_vars(TimedFold)
    /\ []<>(phase # "step") \/ []<><<TRUE>>_vars

FairSpec == Spec /\ Fairness

-----------------------------------------------------------------------------
(* Properties                                                              *)

InHand == phase \in {"step", "wait"}

TypeOK ==
    /\ phase \in {"idle", "step", "wait", "crashed"}
    /\ dealt \subseteq Seats /\ sbIdx \in Seats /\ bbIdx \in Seats
    /\ stack \in [Seats -> Nat] /\ wagers \in [Seats -> Nat]
    /\ uncollected \in [Seats -> Nat] /\ deadMoney \in [Seats -> Nat]
    /\ startStack \in [Seats -> Nat]
    /\ lastAction \in [Seats -> LastActions]
    /\ hasCards \in [Seats -> BOOLEAN] /\ leaving \in [Seats -> BOOLEAN]
    /\ board \in {0, 3, 4, 5} /\ handNumber \in Nat
    /\ preset \in [Seats -> Presets]

(* While a hand is played no chip of a player appears or disappears: what  *)
(* it holds, wagered and posted dead is what it sat down with, and a       *)
(* player that was not dealt in is not touched.                            *)
ChipsAccounted ==
    InHand => \A p \in Seats : stack[p] + wagers[p] + deadMoney[p] = startStack[p]

(* RETURN_CHIPS only gives back chips bet on this street: on_return_chips  *)
(* subtracts the same amount from uncollected_bets and from wagers, so an  *)
(* excess left over from an earlier street would make a bet negative.      *)
ReturnIsUncalled ==
    InHand => \A returned \in UncalledReturns : \A p \in dealt :
                 returned[p] <= uncollected[p]

(* A street only ends when the betting is closed: everybody who still      *)
(* holds cards and chips has matched the largest bet, and has acted unless *)
(* it is the only one left with chips.                                     *)
RoundClosed ==
    [][DealStreet =>
         \A p \in Holding : stack[p] > 0 =>
            /\ ~Behind(p)
            /\ \/ ~HasNotActed(p)
               \/ \A q \in Holding \ {p} : stack[q] = 0]_vars

(* end_hand's own assertion: whatever the hands are worth, the WIN amounts *)
(* add up to the pot.                                                      *)
WinsAddUp ==
    (phase = "step" /\ NextToAct = NoSeat /\ IsRiverOrEnd) =>
        \A returned \in UncalledReturns : \A rank \in [dealt -> Ranks] :
            LET b == BoardAfter(returned, rank)
            IN  Cardinality(Holding) = 1 \/ EveryPotHasAWinner(b) =>
                  SumFunctionOnSet(Winnings(b), dealt) = CurrentPot(b)

(* A player who is all-in for less never takes more from an opponent than  *)
(* it had wagered itself (dead small blinds excepted).  Like RoundClosed   *)
(* and ImplementsChipPot this relies on raises that exceed the bet, see    *)
(* RaisesExceedBets: who is behind without being all-in cuts no side pot.  *)
NoOverwin ==
    [][(EndHand /\ Cardinality(Holding) > 1) =>
         \A p \in dealt :
            stack'[p] - stack[p] <=
                SumFunctionOnSet([q \in dealt |-> IF wagers[q] <= wagers[p] \/ q = p
                                                 THEN wagers[q] ELSE wagers[p]], dealt)
                + SumFunctionOnSet(deadMoney, dealt)]_vars

(* A preset action never outlives the street it was chosen for, although   *)
(* on_new_street skips the players that did not act.                       *)
PresetsDieWithStreet ==
    [][DealStreet => \A p \in dealt : preset'[p] = NoPreset]_vars

(* Every hand that starts is played to its end, however the players toggle *)
(* presets and leave requests, because the clock folds whoever is next.    *)
HandEnds == (phase = "wait") ~> (phase \in {"idle", "crashed"})

(* A raise raises: RAISE_TO of the player on turn is to more than the bet  *)
(* of anybody who still holds cards, whoever has called, checked or posted *)
(* since (min_bet_amt).                                                    *)
RaisesExceedBets ==
    [][\A p \in Seats : \A amt \in 0 .. stack[p] + uncollected[p] :
          Act(p) /\ RaiseTo(p, amt) => \A q \in Holding : uncollected[q] < amt]_vars

(* A hand never ends in an exception of end_hand.                          *)
HandNeverRaises == phase # "crashed"

(* The hand implements the promise about chips of ChipPot.                 *)
Pot == INSTANCE ChipPot WITH Players <- Seats, Stakes <- InitialStacks,
                             own <- stack, bets <- wagers, dead <- deadMoney
ImplementsChipPot == Pot!PotSpec

=============================================================================
