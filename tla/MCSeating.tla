------------------------------- MODULE MCSeating -------------------------------
(***************************************************************************)
(* Seating in small scenes: who sits where when the table is created, and  *)
(* what may be asked, how often.                                           *)
(***************************************************************************)
EXTENDS Seating, TLC

CONSTANTS a, b, c, d

Scene(seats, purse, prefs, asks, times, lost) ==
    [seats |-> seats, stack |-> MaxBuyin, purse |-> purse, prefs |-> prefs,
     sitting |-> {Out, AtBlinds, InPending}, asks |-> asks, times |-> times, lost |-> lost]

One   == a :> 0
Two   == One @@ (b :> 1)
Three == Two @@ (c :> 3)
Four  == Two @@ (c :> 2) @@ (d :> 4)

MCScenes ==
    { \* players come and go around two who play heads up
      Scene(Two, 4, {0}, {"join", "leave"}, 3, {"nothing"}),
      \* ... or at a table where nobody can play, with little money
      Scene(One, 3, {4}, {"join", "leave"}, 3, {"all"}),
      \* four time out and come back, at once or with the big blind
      Scene(Four, 4, {0}, {"in", "inAtBlinds", "timeOut"}, 4, {"nothing"}),
      \* four change their minds in the middle of a hand
      Scene(Four, 4, {0}, {"out", "in", "outAtBlinds", "leave", "stay"}, 3, {"nothing"}),
      \* chips are bought, won and taken away
      Scene(Two, 3, {0, 4}, {"join", "leave", "buy", "auto"}, 2, {"all"}),
      \* players lose everything, with and without an auto-rebuy
      Scene(Three, 4, {0}, {"auto", "leave", "timeOut", "in"}, 2, {"all"}),
      \* a player comes back with just a big blind
      Scene(Three, 0, {0}, {"in", "timeOut"}, 2, {"blind"}) }
=============================================================================
