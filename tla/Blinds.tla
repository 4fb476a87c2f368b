-------------------------------- MODULE Blinds --------------------------------
(***************************************************************************)
(* Who can play, and where the button and the blinds are in the next hand: *)
(* the accessors of poker/accessors.py and the seating events of           *)
(* HoldemController, as functions of a room.                               *)
(*                                                                         *)
(* A room is a record of the players (pl) and of the positions of the      *)
(* button (btn) and the blinds (sb, bb).  A method of the controller first *)
(* makes its list of events from the room as it is, and then the events    *)
(* are dispatched; so every operator here reads only the room it is given. *)
(***************************************************************************)
EXTENDS Integers, FiniteSets

CONSTANTS Players, NumSeats, SmallBlind, BigBlind, MaxOrbits

ASSUME BlindsAssumption ==
    /\ IsFiniteSet(Players)
    /\ NumSeats \in Nat \ {0, 1} /\ MaxOrbits \in Nat \ {0}
    /\ SmallBlind \in Nat \ {0} /\ BigBlind \in Nat /\ SmallBlind <= BigBlind

NoSeat == -1
Seats  == 0 .. (NumSeats - 1)

(* PlayingState; who is not seated has none.                               *)
None       == "None"
In         == "SITTING_IN"
Out        == "SITTING_OUT"
InPending  == "SIT_IN_PENDING"
AtBlinds   == "SIT_IN_AT_BLINDS_PENDING"
OutPending == "SIT_OUT_PENDING"
Leaving    == "LEAVE_SEAT_PENDING"

PlayingStates == {None, In, Out, InPending, AtBlinds, OutPending, Leaving}

-----------------------------------------------------------------------------
(* Players                                                                 *)

IsSittingOut(x) == x.state \in {AtBlinds, Out, InPending}
IsActive(x)     == x.seated /\ ~IsSittingOut(x)

MinAmtToPlay(x) == BigBlind + (IF x.owesSb THEN SmallBlind ELSE 0)

CanPlay(x) ==
    \/ x.state \in {In, OutPending, Leaving}
    \/ x.state \in {AtBlinds, InPending} /\ x.stack >= MinAmtToPlay(x)

Seated(r) == {p \in Players : r.pl[p].seated}
Active(r) == {p \in Players : IsActive(r.pl[p])}
Ready(r)  == {p \in Seated(r) : CanPlay(r.pl[p])}

WithPendingActions(r) == {p \in Seated(r) : r.pl[p].state \in {InPending, OutPending, Leaving}}

EnoughPlayers(r) == Cardinality(Ready(r)) > 1

(* Active, or about to be if it is sitting where the big blind comes.      *)
ActiveWithPendingAt(r, i) ==
    Active(r) \cup {p \in Seated(r) : r.pl[p].pos = i /\ r.pl[p].state = InPending}

FirstHand(r)   == r.btn = NoSeat
BtnIsLocked(r) == r.bb = NoSeat /\ r.btn # NoSeat
NewRound(r)    == FirstHand(r) \/ BtnIsLocked(r)

(* Mutant: one player who has been left goes on as if there were others.   *)
NewGameOfNone(r) == Active(r) = {} /\ EnoughPlayers(r)

EffectivelyNewGame(r) == Cardinality(Active(r)) <= 1 /\ EnoughPlayers(r)

-----------------------------------------------------------------------------
(* Seats                                                                   *)

Clockwise(i, k) == (i + k) % NumSeats
Distance(i, j)  == IF i = j THEN NumSeats ELSE (j - i) % NumSeats

(* The first seat after i that one of the players has; i comes last.       *)
NextSeat(r, i, ps) ==
    LET at == {r.pl[p].pos : p \in ps}
    IN  CHOOSE j \in at : \A k \in at : Distance(i, j) <= Distance(i, k)

SeatsBetween(i, j) == {k \in Seats \ {j} : Distance(i, k) < Distance(i, j)}

HasSeat(r, i, ps) == \E p \in ps : r.pl[p].pos = i

-----------------------------------------------------------------------------
(* Positions                                                               *)

Positions(btn, sb, bb) == [btn |-> btn, sb |-> sb, bb |-> bb]

(* positions_from_locked_btn                                               *)
PositionsFromBtn(r, btn) ==
    LET next == NextSeat(r, btn, Ready(r))
    IN  IF Cardinality(Ready(r)) = 2 THEN Positions(btn, btn, next)
        ELSE Positions(btn, next, NextSeat(r, next, Ready(r)))

(* btn_idx_for_new_hand: by lot, or the player that was left.              *)
NewButtons(r) ==
    IF \/ Cardinality(Active(r)) \in {0, Cardinality(Ready(r))}
       \/ FirstHand(r)
    THEN {r.pl[p].pos : p \in Ready(r)}
    ELSE {r.pl[p].pos : p \in Active(r)}

(* next_bb_location_info: the first who is active or waits to sit in.      *)
MayPostBig(r) == Active(r) \cup {p \in Seated(r) : r.pl[p].state = InPending}
NextBig(r)    == NextSeat(r, r.bb, MayPostBig(r))
SkippedBig(r) == SeatsBetween(r.bb, NextBig(r))

(* Mutant: the small blind waits for an active player before the big one.  *)
NextSmallOfActive(r) == NextSeat(r, r.sb, Active(r))

(* next_sb_location_info: the first seat of an active player, or the one   *)
(* before the big blind.                                                   *)
NextSmall(r) ==
    CHOOSE i \in Seats :
        /\ HasSeat(r, i, Active(r)) \/ Clockwise(i, 1) = NextBig(r)
        /\ \A j \in SeatsBetween(r.sb, i) :
              ~HasSeat(r, j, Active(r)) /\ Clockwise(j, 1) # NextBig(r)
SkippedSmall(r) == SeatsBetween(r.sb, NextSmall(r)) \ SkippedBig(r)

HeadsUp(r) == Cardinality(ActiveWithPendingAt(r, NextBig(r))) = 2

(* btn_sb_locations: heads up the button posts the small blind, otherwise  *)
(* it is at the last active player before the small blind.                 *)
PositionsInRotation(r) ==
    IF HeadsUp(r)
    THEN LET i == CHOOSE j \in Seats : j # NextBig(r) /\ HasSeat(r, j, Active(r))
         IN  Positions(i, i, NextBig(r))
    ELSE LET i == CHOOSE j \in Seats :
                     /\ HasSeat(r, j, Active(r))
                     /\ \A k \in Seats : HasSeat(r, k, Active(r)) =>
                           Distance(j, NextSmall(r)) <= Distance(k, NextSmall(r))
         IN  Positions(i, NextSmall(r), NextBig(r))

(* The sanity checks: the big blind comes to nobody else, or two players   *)
(* are not two.                                                            *)
RotationFails(r) ==
    \/ MayPostBig(r) \subseteq {p \in Players : r.pl[p].pos = r.bb}
    \/ HeadsUp(r) /\ Cardinality(Active(r)) # 2

(* ... or, on the way back from the small blind, the button comes to the   *)
(* big blind before it comes to an active player.                          *)
ButtonRunsOntoBig(r) ==
    /\ ~HeadsUp(r)
    /\ Distance(NextBig(r), NextSmall(r)) \in
           2 .. Distance(PositionsInRotation(r).btn, NextSmall(r))

(* must_wait_to_sit_in_players: nobody sits in between the button and the  *)
(* big blind, nor next to two who play heads up.                           *)
MustWait(r, at) ==
    IF NewRound(r) THEN {}
    ELSE {p \in Seated(r) :
            /\ r.pl[p].state = InPending
            /\ \/ Cardinality(ActiveWithPendingAt(r, at.bb)) = 2
               \/ r.pl[p].pos \in {at.btn} \cup SeatsBetween(at.btn, at.bb)}
=============================================================================
