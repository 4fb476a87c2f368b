CONSTANTS
    NumSeats = 3
    SB = 1
    BB = 2
    InitialStacks <- ShortStacks
    Ranks = {1, 2}
    MaxHands = 2
SPECIFICATION FairSpec
CHECK_DEADLOCK FALSE
INVARIANTS
    TypeOK
    ChipsAccounted
    ReturnIsUncalled
    WinsAddUp
PROPERTIES
    RoundClosed
    PresetsDieWithStreet
    HandEnds
    ImplementsChipPot
