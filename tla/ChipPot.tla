-------------------------------- MODULE ChipPot --------------------------------
(***************************************************************************)
(* What a hand promises about chips, without cards, streets or turns.      *)
(* Every player has chips of its own, chips it bet and dead chips, which   *)
(* are in the pot but do not count as a bet.  Chips are bet by one player  *)
(* at a time, only the part of the largest bet that nobody matched may     *)
(* come back, and the pot is paid out as a whole and exactly.              *)
(***************************************************************************)
EXTENDS Integers, FiniteSetsExt, Functions

CONSTANTS Players, Stakes

VARIABLES own, bets, dead

potVars == <<own, bets, dead>>

NoChips == [p \in Players |-> 0]

PotSize == SumFunctionOnSet(bets, Players) + SumFunctionOnSet(dead, Players)

PotInit == own \in Stakes /\ bets = NoChips /\ dead = NoChips

(* The blinds of a hand are posted together, each from its player's chips. *)
PostBlinds ==
    /\ bets = NoChips /\ dead = NoChips
    /\ DOMAIN own' = Players /\ DOMAIN bets' = Players /\ DOMAIN dead' = Players
    /\ \A p \in Players :
          /\ own'[p] >= 0 /\ bets'[p] >= 0 /\ dead'[p] >= 0
          /\ own'[p] + bets'[p] + dead'[p] = own[p]

PutChips(p) ==
    \E n \in 1 .. own[p] :
        /\ own'  = [own EXCEPT ![p] = @ - n]
        /\ bets' = [bets EXCEPT ![p] = @ + n]
        /\ UNCHANGED dead

(* The only largest bet is cut down to the next largest one.               *)
TakeBackUncalled(p) ==
    \E q \in Players \ {p} :
        /\ bets[q] < bets[p]
        /\ \A r \in Players \ {p} : bets[r] <= bets[q]
        /\ own'  = [own EXCEPT ![p] = @ + (bets[p] - bets[q])]
        /\ bets' = [bets EXCEPT ![p] = bets[q]]
        /\ UNCHANGED dead

(* An uncalled excess may come back in the step that pays the pot, so the  *)
(* payment is of all that was in the pot.                                  *)
PayPot ==
    /\ PotSize > 0
    /\ bets' = NoChips /\ dead' = NoChips
    /\ DOMAIN own' = Players
    /\ \A p \in Players : own'[p] >= own[p]
    /\ SumFunctionOnSet(own', Players) = SumFunctionOnSet(own, Players) + PotSize

PotNext ==
    \/ PostBlinds
    \/ \E p \in Players : PutChips(p) \/ TakeBackUncalled(p)
    \/ PayPot

PotSpec == PotInit /\ [][PotNext]_potVars

=============================================================================
