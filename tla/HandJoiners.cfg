CONSTANTS
    NumSeats = 5
    SB = 1
    BB = 2
    InitialStacks <- JoinerStacks
    Ranks = {1, 2}
    MaxHands = 1
SPECIFICATION Spec
CHECK_DEADLOCK FALSE
INVARIANTS
    WinsAddUp
PROPERTIES
    NoOverwin
