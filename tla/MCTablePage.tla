------------------------------ MODULE MCTablePage ------------------------------
(***************************************************************************)
(* TablePage in scenes that are small each, and show together what the     *)
(* connections, the pages, the user and the table may do to each other.    *)
(***************************************************************************)
EXTENDS TablePage

CONSTANTS c1, c2, p1, p2, a1

Scene(conns, pages, acts, asking, failing, refreshing) ==
    [conns |-> conns, pages |-> pages, acts |-> acts, asks |-> asking,
     faults |-> failing, refresh |-> refreshing]

(* One page through two broadcasts and the empty UPDATE_GAMESTATE; one     *)
(* that loses its connection while the table moves; one that loses it with *)
(* an action of the user; one that is left; two, one of which is silent.   *)
MCScenes ==
    {Scene({c1}, {p1}, {a1}, <<"act", "wait", "act">>, {}, TRUE),
     Scene({c1, c2}, {p1}, {}, <<"act", "wait">>, {"cut"}, FALSE),
     Scene({c1, c2}, {p1}, {a1}, <<"act">>, {"cut"}, TRUE),
     Scene({c1}, {p1}, {a1}, <<"act", "out">>, {"leave"}, FALSE),
     Scene({c1, c2}, {p1, p2}, {}, <<"wait">>, {"silence"}, FALSE)}
=============================================================================
