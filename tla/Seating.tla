------------------------------- MODULE Seating -------------------------------
(***************************************************************************)
(* The table between hands: who sits down, buys in, sits out and leaves,   *)
(* what waits for the end of the hand, and how the next hand is set up     *)
(* (join_table, setup_hand and the sitting actions of                      *)
(* HoldemController, poker/controllers.py, with the events of Player).     *)
(*                                                                         *)
(* The hand itself is one step, HandEnds, which moves chips between the    *)
(* players who were dealt in; HoldemHand has its detail.  A dispatch that  *)
(* raises an exception commits nothing.  A user's balance is read from the *)
(* database (player_has_balance), so during a dispatch it is the balance   *)
(* before it; the transfers of a dispatch are executed when it commits.    *)
(***************************************************************************)
EXTENDS Blinds, Functions, FiniteSetsExt

CONSTANTS
    MinBuyin, MaxBuyin,
    Scenes        \* what may happen: the players at the start, the requests,
                  \* how many of them, what is lost in a hand

ASSUME BuyinAssumption ==
    MinBuyin \in Nat /\ MaxBuyin \in Nat /\ BigBlind <= MinBuyin /\ MinBuyin <= MaxBuyin

(* At the start players have different seats, and they sit in.  Who joins  *)
(* sits in with the next hand, with the big blind, or later.               *)
ASSUME ScenesAssumption ==
    \A s \in Scenes :
        /\ s.seats \in UNION {[ps -> Seats] : ps \in SUBSET Players}
        /\ IsInjective(s.seats)
        /\ s.stack \in Nat /\ s.purse \in Nat
        /\ s.sitting \subseteq {Out, AtBlinds, InPending}
        /\ s.lost # {} /\ s.lost \subseteq {"nothing", "blind", "all"}

VARIABLES
    scene,
    room,         \* the table and its Player rows, with their users' balances
    dealt,        \* who was dealt in the hand that is played; {}: none is
    last,         \* what the last dispatch did
    owing,        \* history: who is seated and has missed a big blind
    asked         \* requests so far

vars == <<scene, room, dealt, last, owing, asked>>

-----------------------------------------------------------------------------
(* The events of a player                                                  *)

Each(r, ps, F(_)) == [r EXCEPT !.pl = [p \in Players |-> IF p \in ps THEN F(@[p]) ELSE @[p]]]

SitInNow(x)  == [x EXCEPT !.state = In]
SitOutNow(x) == [x EXCEPT !.state = Out, !.sitOutAtBlinds = FALSE]
LeaveSoon(x) == [x EXCEPT !.state = Leaving, !.sitOutAtBlinds = FALSE]

(* LEAVE_SEAT at once, with the transfer of the stack, which stays in the  *)
(* row of the player.                                                      *)
LeaveNow(x) ==
    [x EXCEPT !.seated = FALSE, !.state = None, !.balance = @ + x.stack]

(* Mutant: who sits in during a hand does not wait for the next.           *)
SitInAtOnce(x) == [x EXCEPT !.state = In]

SitIn(x) == [x EXCEPT !.state = IF @ = OutPending THEN In ELSE InPending]

SitOut(x) ==
    IF x.state = InPending THEN SitOutNow(x)
    ELSE [x EXCEPT !.state = OutPending, !.sitOutAtBlinds = FALSE]

SitInAtBlinds(x, on) == [x EXCEPT !.state = IF on THEN AtBlinds ELSE Out]

SitOutAtBlinds(x, on) ==
    [x EXCEPT !.state = IF @ \in {OutPending, Leaving} THEN In ELSE @,
              !.sitOutAtBlinds = on]

(* Mutant: the big blind owed for sitting down is forgotten.               *)
TakeSeatFree(x, i) == [x EXCEPT !.seated = TRUE, !.pos = i, !.orbits = 0, !.state = Out]

TakeSeat(x, i) ==
    [x EXCEPT !.seated = TRUE, !.pos = i, !.owesBb = TRUE, !.orbits = 0, !.state = Out]

-----------------------------------------------------------------------------
(* Chips                                                                   *)

LegalTotal(amt)    == amt \in MinBuyin .. MaxBuyin
LegalBuyin(x, amt) == amt > 0 /\ LegalTotal(x.stack + x.rebuy + amt)

(* rebuy_checks, for one player: a rebuy that is not legal any more is     *)
(* dropped; who has none asks for his auto-rebuy.                          *)
RebuyCheck(x) ==
    [x EXCEPT !.rebuy =
        IF x.rebuy > 0
        THEN IF LegalTotal(x.stack + x.rebuy) THEN @ ELSE 0
        ELSE IF LegalBuyin(x, x.auto - x.stack) THEN x.auto - x.stack ELSE 0]

(* rebuy_updates_for_player; funds is what the database says he has.       *)
RebuyUpdate(x, funds) ==
    IF funds >= x.rebuy
    THEN [x EXCEPT !.stack = @ + x.rebuy, !.balance = @ - x.rebuy, !.rebuy = 0]
    ELSE [x EXCEPT !.rebuy = 0]

(* Both run over all the rows of the table, seated or not.                 *)
Rebuys(r, db) ==
    [r EXCEPT !.pl = [p \in Players |-> RebuyUpdate(RebuyCheck(@[p]), db.pl[p].balance)]]

-----------------------------------------------------------------------------
(* Between hands                                                           *)

(* queued_sitouts_and_boot_empty_stacks                                    *)
QueuedSitouts(r) ==
    LET queued(s) == {p \in Active(r) : r.pl[p].state = s}
        broke     == {p \in Active(r) : r.pl[p].stack = 0} \ queued(Leaving)
    IN  Each(Each(r, queued(OutPending) \cup broke, SitOutNow), queued(Leaving), LeaveNow)

(* Mutant: who waits for the next hand waits on when nobody plays.         *)
NotEnoughToSitIn(r) ==
    LET waiting(s) == {p \in Seated(r) : r.pl[p].state = s}
        locked     == IF Ready(r) = {} THEN r
                      ELSE [r EXCEPT !.btn = r.pl[CHOOSE p \in Ready(r) : TRUE].pos,
                                     !.sb = NoSeat, !.bb = NoSeat]
    IN  Each(Each(locked, waiting(OutPending), SitOutNow), waiting(Leaving), LeaveNow)

(* lock_btn_to_active_player and all_pending_sitting_actions: nobody plays *)
(* and everybody's wish is granted at once.                                *)
NotEnough(r) ==
    LET waiting(s) == {p \in Seated(r) : r.pl[p].state = s}
        locked     == IF Ready(r) = {} THEN r
                      ELSE [r EXCEPT !.btn = r.pl[CHOOSE p \in Ready(r) : TRUE].pos,
                                     !.sb = NoSeat, !.bb = NoSeat]
    IN  Each(Each(Each(locked, waiting(OutPending), SitOutNow),
                  waiting(InPending), SitInNow),
             waiting(Leaving), LeaveNow)

(* set_sitting_given_blinds: from the seat after the big blind to the      *)
(* first player who will take it.                                          *)
SetSittingGivenBlinds(r) ==
    LET x(p)    == r.pl[p]
        takes   == {p \in Seated(r) : \/ x(p).state = AtBlinds
                                      \/ ~IsSittingOut(x(p)) /\ ~x(p).sitOutAtBlinds}
        reached == {p \in Seated(r) :
                      /\ x(p).pos # r.bb
                      /\ \A q \in takes : Distance(r.bb, x(p).pos) <= Distance(r.bb, x(q).pos)}
    IN  Each(Each(r, {p \in reached : x(p).state = AtBlinds}, SitInNow),
             {p \in reached : ~IsSittingOut(x(p)) /\ x(p).sitOutAtBlinds}, SitOutNow)

(* Mutant: who waits for the next hand never has to wait another one.      *)
SitPendingInAlways(r, s, at) ==
    Each(s, {p \in Seated(r) : r.pl[p].state = InPending}, SitInNow)

(* reset_sit_in_pending_players, of the room as it was.                    *)
SitPendingIn(r, s, at) ==
    Each(s, {p \in Seated(r) : r.pl[p].state = InPending} \ MustWait(r, at), SitInNow)

(* new_hand_blinds_owed and new_round_sitting_events                       *)
StartOver(x) ==
    [x EXCEPT !.owesSb = FALSE, !.owesBb = ~CanPlay(x), !.state = IF CanPlay(x) THEN In ELSE @]

(* Mutant: the orbits of who sits out are counted one too far.             *)
MissTheBlindsLonger(r) ==
    LET at(seats) == {p \in Players : r.pl[p].pos \in seats}
        bumped    == {p \in at(SkippedBig(r)) \cap Seated(r) : r.pl[p].orbits > MaxOrbits}
        skipped   == (at(SkippedBig(r)) \cap Seated(r)) \ bumped
    IN  Each(Each(r, bumped, LeaveNow), skipped, LAMBDA x : [x EXCEPT !.orbits = @ + 1])

(* bb_owers and sb_owers look at rows of players who left as well;         *)
(* orbit_bumps does not.                                                   *)
MissTheBlinds(r) ==
    LET at(seats) == {p \in Players : r.pl[p].pos \in seats}
        bumped    == {p \in at(SkippedBig(r)) \cap Seated(r) : r.pl[p].orbits >= MaxOrbits}
        skipped   == (at(SkippedBig(r)) \cap Seated(r)) \ bumped
        small     == {p \in at(SkippedSmall(r)) : ~r.pl[p].owesBb}
    IN  Each(Each(Each(Each(r, at(SkippedBig(r)), LAMBDA x : [x EXCEPT !.owesBb = TRUE]),
                       bumped, LeaveNow),
                  skipped, LAMBDA x : [x EXCEPT !.orbits = @ + 1]),
             small, LAMBDA x : [x EXCEPT !.owesSb = TRUE])

Placed(r, at) == [r EXCEPT !.btn = at.btn, !.sb = at.sb, !.bb = at.bb]

(* sit_in_pending_and_move_blinds when the positions are drawn anew        *)
Drawn(r, at) == Placed(SitPendingIn(r, Each(r, Seated(r), StartOver), at), at)

(* ... and when the blinds move on                                         *)
Rotated(r) ==
    LET at == PositionsInRotation(r)
    IN  Placed(SitPendingIn(r, MissTheBlinds(r), at), at)

BigBlindPlayers(r) == {p \in Active(r) : r.pl[p].pos = r.bb}

(* post_blinds, of who pays a big blind                                    *)
Posting(r) == BigBlindPlayers(r) \cup {p \in Active(r) : r.pl[p].owesBb}

(* post_blinds and deal_starting_hands: the big blind's debt of a small    *)
(* one is not forgiven.                                                    *)
PostAndDeal(r) ==
    Each(Each(r, Active(r), LAMBDA x : [x EXCEPT !.owesBb = FALSE, !.orbits = 0]),
         Active(r) \ BigBlindPlayers(r), LAMBDA x : [x EXCEPT !.owesSb = FALSE])

-----------------------------------------------------------------------------
(* setup_hand.  An outcome of a dispatch is the room, who was dealt in,    *)
(* who posted a big blind, and what the dispatch did, or its exception:    *)
(* the sanity check that the button is not put onto the big blind, the one *)
(* that somebody sits at the locked button, any other; a transfer without  *)
(* the balance.                                                            *)
Failures == {"onto", "button", "check", "overdraft"}
Dids     == {"nothing", "waited", "drew", "rotated"} \cup Failures

Outcome(r, d, ps, did) == [room |-> r, dealt |-> d, posted |-> ps, did |-> did]
Waits(r)               == Outcome(r, {}, {}, "waited")
Fails(r, did)          == Outcome(r, {}, {}, did)

Deals(r, did) ==
    IF BigBlindPlayers(r) = {} THEN Fails(r, "check")
    ELSE Outcome(PostAndDeal(r), Active(r), Posting(r), did)

DrawsFrom(r, btn) ==
    IF HasSeat(r, btn, Ready(r)) THEN Deals(Drawn(r, PositionsFromBtn(r, btn)), "drew")
    ELSE Fails(r, "button")

Rotates(r) ==
    IF RotationFails(r) THEN Fails(r, "check")
    ELSE IF ButtonRunsOntoBig(r) THEN Fails(r, "onto")
    ELSE Deals(Rotated(r), "rotated")

StartsHand(r) ==
    IF FirstHand(r) \/ EffectivelyNewGame(r) THEN {DrawsFrom(r, i) : i \in NewButtons(r)}
    ELSE IF BtnIsLocked(r) THEN {DrawsFrom(r, r.btn)}
    ELSE {Rotates(r)}

NothingToDo(r) ==
    /\ ~EnoughPlayers(r) /\ WithPendingActions(r) = {}
    /\ BtnIsLocked(r) \/ Ready(r) = {}

SetupHand(r, db) ==
    LET paid == Rebuys(r, db)
        kept == QueuedSitouts(paid)
        sat  == IF NewRound(kept) THEN kept ELSE SetSittingGivenBlinds(kept)
    IN  IF \E p \in Players : paid.pl[p].balance < 0 THEN {Fails(r, "overdraft")}
        ELSE IF NothingToDo(kept) THEN {Waits(kept)}
        ELSE IF ~EnoughPlayers(kept) THEN {Waits(NotEnough(kept))}
        ELSE IF ~EnoughPlayers(sat) THEN {Waits(NotEnough(sat))}
        ELSE StartsHand(sat)

(* step, after the events of a request: only between hands is there        *)
(* anything more to do.                                                    *)
Step(r) ==
    IF dealt = {} THEN SetupHand(r, room) ELSE {Outcome(r, dealt, {}, "nothing")}

(* Who has missed a big blind: who has just sat down; who was not dealt in *)
(* when the blinds were drawn; whom the big blind passed.                  *)
Missed(o) ==
    LET joined == Seated(o.room) \ Seated(room)
        passed == CASE o.did = "drew" -> Seated(o.room)
                    [] o.did = "rotated" ->
                         {p \in Seated(o.room) : o.room.pl[p].pos \in SeatsBetween(room.bb, o.room.bb)}
                    [] OTHER -> {}
        owed   == IF o.did = "drew" THEN passed \ o.dealt ELSE owing \cup joined \cup passed
    IN  (owed \cap Seated(o.room)) \ o.posted

(* An exception suspends the table (POKER_PAUSE_ON_EXCEPTION), as it was.  *)
Suspended == last \in Failures

Commit(outcomes) ==
    \E o \in outcomes :
        /\ ~Suspended
        /\ last' = o.did
        /\ IF o.did \in Failures THEN UNCHANGED <<room, dealt, owing>>
           ELSE room' = o.room /\ dealt' = o.dealt /\ owing' = Missed(o)
        /\ UNCHANGED scene

-----------------------------------------------------------------------------
(* The requests                                                            *)

May(request) ==
    /\ request \in scene.asks /\ asked < scene.times
    /\ asked' = asked + 1

Becomes(p, x) == Commit(Step([room EXCEPT !.pl[p] = x]))

(* The stack in front of a player; the model does not follow his bets.     *)
StackNow(p) == IF p \in dealt THEN 0 .. room.pl[p].stack ELSE {room.pl[p].stack}

(* join_table: the buy-in is the user's auto-rebuy if he can pay it,       *)
(* otherwise the least; the stack that he once left with if that is more.  *)
LeastBuyin(x, pref) == IF LegalTotal(pref) /\ x.balance >= pref THEN pref ELSE MinBuyin

BuyinFor(x, pref) == Max({x.stack, LeastBuyin(x, pref)})

(* Mutant: the old stack is still there when the buy-in is added.          *)
BoughtInOnTop(x, amt) == RebuyUpdate([x EXCEPT !.rebuy = @ + amt], x.balance)

(* An old stack is cleared, with what was still asked for.                 *)
BoughtIn(x, amt) ==
    RebuyUpdate(IF x.stack > 0 THEN [x EXCEPT !.stack = 0, !.rebuy = amt]
                ELSE [x EXCEPT !.rebuy = @ + amt],
                x.balance)

(* The user's preferences are how he takes his seat and his auto-rebuy.    *)
JoinTable(p) ==
    /\ May("join") /\ ~room.pl[p].seated
    /\ \E i \in Seats \ {room.pl[q].pos : q \in Seated(room)},
          state \in scene.sitting, pref \in scene.prefs :
        LET x    == room.pl[p]
            auto == IF LegalTotal(pref) THEN pref ELSE x.auto
        IN  /\ x.balance >= x.stack /\ x.balance >= LeastBuyin(x, pref)
            /\ Becomes(p, BoughtIn([TakeSeat(x, i) EXCEPT !.state = state, !.auto = auto],
                                   BuyinFor(x, pref)))

(* dispatch_kick_inactive_players asks the same for who has been away.     *)
LeaveSeat(p) ==
    /\ May("leave") /\ room.pl[p].seated
    /\ Becomes(p, IF IsSittingOut(room.pl[p]) THEN LeaveNow(room.pl[p])
                  ELSE LeaveSoon(room.pl[p]))

AskSitIn(p) ==
    LET x == room.pl[p]
    IN  /\ May("in") /\ x.seated
        /\ \/ x.state \in {Out, AtBlinds}
           \/ x.state = OutPending /\ EnoughPlayers(room)
        /\ x.stack >= MinAmtToPlay(x)
        /\ Becomes(p, SitIn(x))

AskSitOut(p) ==
    LET x == room.pl[p]
    IN  /\ May("out") /\ x.seated
        /\ \/ x.state \in {InPending, In}
           \/ x.state = OutPending /\ ~EnoughPlayers(room)
        /\ Becomes(p, SitOut(x))

AskSitInAtBlinds(p) ==
    LET x == room.pl[p]
    IN  /\ May("inAtBlinds") /\ x.seated
        /\ \E on \in BOOLEAN :
              /\ \/ x.state = Out /\ on /\ x.stack >= MinAmtToPlay(x)
                 \/ x.state = InPending /\ on
                 \/ x.state = AtBlinds /\ ~on
              /\ Becomes(p, SitInAtBlinds(x, on))

AskSitOutAtBlinds(p) ==
    LET x == room.pl[p]
    IN  /\ May("outAtBlinds") /\ x.seated
        /\ \/ x.state = Leaving
           \/ x.state \in {In, OutPending} /\ EnoughPlayers(room)
        /\ \E on \in BOOLEAN : Becomes(p, SitOutAtBlinds(x, on))

(* TAKE_SEAT of who is leaving: he stays.                                  *)
Stay(p) ==
    /\ May("stay") /\ room.pl[p].seated /\ room.pl[p].state = Leaving
    /\ Becomes(p, SitInNow(room.pl[p]))

(* buy: it is paid between hands.                                          *)
Buy(p) ==
    LET x == room.pl[p]
    IN  /\ May("buy") /\ x.seated
        /\ \E amt \in 1 .. MaxBuyin :
              /\ \E now \in StackNow(p) : LegalBuyin([x EXCEPT !.stack = now], amt)
              /\ x.balance >= amt
              /\ Becomes(p, [x EXCEPT !.rebuy = @ + amt])

SetAutoRebuy(p) ==
    /\ May("auto") /\ room.pl[p].seated
    /\ \E amt \in {0} \cup (MinBuyin .. MaxBuyin) : Becomes(p, [room.pl[p] EXCEPT !.auto = amt])

(* timed_dispatch: the player is folded and sits out; who is leaving was   *)
(* folded before it was his turn.                                          *)
TimeOut(p) ==
    /\ May("timeOut") /\ p \in dealt /\ room.pl[p].state # Leaving
    /\ Becomes(p, SitOut(room.pl[p]))

(* What is lost in a hand                                                  *)
Loss(x, kind) ==
    CASE kind = "nothing" -> 0 [] kind = "blind" -> Min({BigBlind, x.stack}) [] kind = "all" -> x.stack

(* A player wins a blind or the whole stack of another, or nothing.        *)
Paid(winner, loser, amt) ==
    [room EXCEPT !.pl = [room.pl EXCEPT ![winner].stack = @ + amt, ![loser].stack = @ - amt]]

AfterHand ==
    {Paid(ps[1], ps[2], Loss(room.pl[ps[2]], kind)) :
        ps \in {pair \in dealt \X dealt : pair[1] # pair[2]}, kind \in scene.lost}

(* end_hand, and the next hand                                             *)
HandEnds ==
    /\ dealt # {}
    /\ \E r \in AfterHand : Commit(SetupHand(r, room))
    /\ UNCHANGED asked

-----------------------------------------------------------------------------
(* make_game: the table is created with players who sit in, and stepped.   *)
Stranger ==
    [seated |-> FALSE, pos |-> NoSeat, state |-> None, sitOutAtBlinds |-> FALSE,
     owesSb |-> FALSE, owesBb |-> FALSE, orbits |-> 0, stack |-> 0, rebuy |-> 0, auto |-> 0,
     balance |-> scene.purse]

Created ==
    [pl |-> [p \in Players |->
               IF p \in DOMAIN scene.seats
               THEN [Stranger EXCEPT !.seated = TRUE, !.pos = scene.seats[p], !.state = In,
                                     !.stack = scene.stack]
               ELSE Stranger],
     btn |-> NoSeat, sb |-> NoSeat, bb |-> NoSeat]

Init ==
    /\ scene \in Scenes
    /\ \E o \in SetupHand(Created, Created) :
          /\ last = o.did
          /\ IF o.did \in Failures THEN room = Created /\ dealt = {}
             ELSE room = o.room /\ dealt = o.dealt
    /\ owing = {}
    /\ asked = 0

Next ==
    \/ \E p \in Players :
          \/ JoinTable(p) \/ LeaveSeat(p) \/ AskSitIn(p) \/ AskSitOut(p)
          \/ AskSitInAtBlinds(p) \/ AskSitOutAtBlinds(p) \/ Stay(p)
          \/ Buy(p) \/ SetAutoRebuy(p) \/ TimeOut(p)
    \/ HandEnds

Spec == Init /\ [][Next]_vars

(* Every hand ends: the players act or time out.  This is WF_vars(HandEnds)*)
(* as TLC can check it: HandEnds is enabled just when a hand is played at  *)
(* a table that is not suspended (HandsCanEnd of SeatingProofs), and the   *)
(* other steps are requests.                                               *)
FairSpec == Spec /\ ([]<>(dealt = {} \/ Suspended) \/ []<><<asked' = asked>>_vars)

-----------------------------------------------------------------------------
(* Properties                                                              *)

PlayerRow ==
    [seated : BOOLEAN, pos : Seats \cup {NoSeat}, state : PlayingStates,
     sitOutAtBlinds : BOOLEAN, owesSb : BOOLEAN, owesBb : BOOLEAN, orbits : 0 .. MaxOrbits,
     stack : Nat, rebuy : 0 .. MaxBuyin, auto : 0 .. MaxBuyin, balance : Nat]

TypeOK ==
    /\ room.pl \in [Players -> PlayerRow]
    /\ {room.btn, room.sb, room.bb} \subseteq Seats \cup {NoSeat}
    /\ dealt \subseteq Seated(room) /\ owing \subseteq Seated(room)
    /\ last \in Dids
    /\ \A p \in Players : room.pl[p].seated <=> room.pl[p].state # None

(* Who plays with less than it takes to play                               *)
SatInShort(r) == {p \in Active(r) : r.pl[p].stack < MinAmtToPlay(r.pl[p])}

(* The blinds are in order: the big one is not on the seat of the small    *)
(* one, and nobody plays between them.                                     *)
BlindsInOrder(r) ==
    r.sb # r.bb /\ \A p \in Active(r) : r.pl[p].pos \notin SeatsBetween(r.sb, r.bb)

(* Who waits for the blinds sits beyond someone who just waits for the     *)
(* next hand: that one takes the big blind and he may get the small one.   *)
SmallMayPassBig(r) ==
    \E p, q \in Seated(r) : /\ r.pl[p].state = InPending /\ r.pl[q].state = AtBlinds
                            /\ r.pl[p].pos \in SeatsBetween(r.bb, r.pl[q].pos)

(* None of the sanity checks of the rotation fails (next_bb_location_info, *)
(* btn_sb_locations, post_blinds), whatever is asked between the hands.    *)
(* The one on the locked button fails only if two players sat in with less *)
(* than they owe, when the table had just one other, who leaves; the one   *)
(* on the button and the big blind only if the small blind may get past    *)
(* the big one, or has, or if one sat in like that when there was nobody.  *)
SanityChecksHold ==
    /\ last # "check"
    /\ last = "button" => BtnIsLocked(room) /\ Cardinality(SatInShort(room)) > 1
    /\ last = "onto" =>
          \/ SmallMayPassBig(room) \/ ~BlindsInOrder(room)
          \/ dealt = {} /\ SatInShort(room) # {}

(* A hand is played as soon as there are two players for it, and whoever   *)
(* is active during a hand was dealt in: is_predeal() and the betting take *)
(* the active players for the players of the hand.  But a player who sat   *)
(* in with less than he owes, when the table had no other, is not asked to *)
(* play before the next request.                                           *)
ActiveAreDealt ==
    /\ dealt # {} => dealt = Active(room)
    /\ dealt = {} /\ ~Suspended =>
          \/ ~EnoughPlayers(room)
          \/ SatInShort(room) # {}

(* Nobody plays on who has missed a big blind and not posted one, however  *)
(* often he has left, come back or changed his mind.                       *)
MissedBlindIsPosted == owing \cap dealt = {}

(* When the blinds move on from a hand to the next, who posted the big     *)
(* blind and plays on posts the small one, and the blinds stay in order.   *)
(* But he goes without one if everybody up to the small blind is gone and  *)
(* the big blind comes to a seat beyond it.                                *)
SmallBlindFollowsBig ==
    [][dealt # {} /\ last' = "rotated" /\ BlindsInOrder(room) =>
          /\ \A p \in dealt \cap dealt' :
                room.pl[p].pos = room.bb =>
                   room'.sb = room.bb \/ room.sb \in SeatsBetween(room.bb, room'.bb)
          /\ BlindsInOrder(room') \/ SmallMayPassBig(room)]_vars

(* When the blinds move on, nobody comes in on the button or between it    *)
(* and the big blind.  But of two next to each other the one who waits for *)
(* the big blind comes in with the one who just waits for the next hand,   *)
(* who takes that blind from him.                                          *)
NobodyJumpsIn ==
    [][dealt # {} /\ last' = "rotated" =>
          \A p \in dealt' \ dealt :
             \/ room'.pl[p].pos \notin {room'.btn} \cup SeatsBetween(room'.btn, room'.bb)
             \/ /\ room.pl[p].state = AtBlinds
                /\ \E q \in dealt' \ dealt :
                      room'.pl[q].pos = room'.bb /\ room.pl[q].state = InPending]_vars

(* What a user owns is his balance and the stack in front of him.          *)
Owned(x) == x.balance + (IF x.seated THEN x.stack ELSE 0)
Chips(r) == SumFunctionOnSet([p \in Players |-> Owned(r.pl[p])], Players)

(* Who has no seat, before and after; and who may have left on his request *)
(* before the rebuys of that dispatch.                                     *)
Absent       == Players \ (Seated(room) \cup Seated(room'))
LeavesAtOnce == {p \in Seated(room) \ Seated(room') : dealt = {} /\ IsSittingOut(room.pl[p])}

(* What is taken from users after their stacks were paid back to them.     *)
TakenFrom(ps) ==
    SumFunctionOnSet([p \in Players |-> room'.pl[p].stack - room.pl[p].stack], ps)

(* No chips appear or vanish when players come, buy in, play and leave;    *)
(* but for the rebuy of someone who has left, or just leaves: he pays it   *)
(* all the same, and it is only in his row.                                *)
ChipsStay ==
    [][\E gone \in {Absent} \cup {Absent \cup {p} : p \in LeavesAtOnce} :
          Chips(room') = Chips(room) - TakenFrom(gone)]_vars

(* Who asked to sit in, to sit out or to leave does not wait for ever,     *)
(* unless the table is suspended.                                          *)
PendingIsHonoured ==
    \A p \in Players, states \in {{InPending}, {OutPending, Leaving}} :
        room.pl[p].state \in states ~> (room.pl[p].state \notin states \/ Suspended)
=============================================================================
