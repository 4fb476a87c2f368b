CONSTANTS
    a = a
    b = b
    Tables = {a, b}
    LastTurn <- MCLastTurn
    MaxStops = 1
    Starts <- MCStarts
SPECIFICATION FairSpec
CHECK_DEADLOCK FALSE
INVARIANTS
    TypeOK
    PopsWhatWasListed
    DelayedStayQueued
PROPERTIES
    BotsAreServed
