CONSTANTS
    Beats = {b1, b2}
    Starters = {s1, s2}
    Messages = {m1, m2}
    MaxStarts = 3
    MaxTicks = 1
    Stops = {}
SPECIFICATION Spec
CHECK_DEADLOCK FALSE
PROPERTIES
    OverwriteIsNoticed
