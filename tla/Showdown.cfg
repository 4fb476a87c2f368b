CONSTANTS
    NumPlayers = 4
    MaxWager = 3
    MaxDead = 1
    MaxRank = 3
SPECIFICATION Spec
CHECK_DEADLOCK FALSE
INVARIANTS
    PaysThePot
    FairShares
    OddChipsInPosition
