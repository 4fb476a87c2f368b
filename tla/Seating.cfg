CONSTANTS
    a = a
    b = b
    c = c
    d = d
    Players = {a, b, c, d}
    NumSeats = 5
    SmallBlind = 1
    BigBlind = 2
    MaxOrbits = 2
    MinBuyin = 3
    MaxBuyin = 4
    Scenes <- MCScenes
SPECIFICATION FairSpec
CHECK_DEADLOCK FALSE
INVARIANTS
    TypeOK
    SanityChecksHold
    ActiveAreDealt
    MissedBlindIsPosted
PROPERTIES
    SmallBlindFollowsBig
    NobodyJumpsIn
    ChipsStay
    PendingIsHonoured
