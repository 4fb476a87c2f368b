CONSTANTS
    NumSeats = 5
    SB = 2
    BB = 4
    InitialStacks <- RaiserStacks
    Ranks = {1}
    MaxHands = 1
SPECIFICATION Spec
CHECK_DEADLOCK FALSE
PROPERTIES
    RaisesExceedBets
