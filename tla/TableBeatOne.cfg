CONSTANTS
    Beats = {b1, b2}
    Starters = {s1}
    Messages = {m1, m2}
    MaxStarts = 3
    MaxTicks = 1
    Stops = {"KILL", "TERM", "PAUSE"}
SPECIFICATION Spec
CHECK_DEADLOCK FALSE
INVARIANTS
    TypeOK
    StopCostsOneMessage
PROPERTIES
    ImplementsQueue
