CONSTANTS
    Beats = {b1}
    Starters = {s1}
    Messages = {m1, m2}
    MaxStarts = 3
    MaxTicks = 1
    Stops = {"PAUSE"}
SPECIFICATION Spec
CHECK_DEADLOCK FALSE
INVARIANTS
    AtLeastOnce
