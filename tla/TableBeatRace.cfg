CONSTANTS
    Beats = {b1, b2}
    Starters = {s1, s2}
    Messages = {m1, m2}
    MaxStarts = 3
    MaxTicks = 0
    Stops = {"KILL", "PAUSE"}
SPECIFICATION FairSpec
CHECK_DEADLOCK FALSE
INVARIANTS
    EachBeatLosesOneAtMost
    OncePerProcess
PROPERTIES
    NoMessageWaitsForever
