CONSTANTS
    c1 = c1
    c2 = c2
    p1 = p1
    p2 = p2
    a1 = a1
    Conns = {c1, c2}
    Acts = {a1}
    Pages = {p1, p2}
    Scenes <- MCScenes
SPECIFICATION FairSpec
CHECK_DEADLOCK FALSE
INVARIANTS
    TypeOK
    RestingPageIsCurrent
    SkippedOnceAtMost
    HelloComesFirst
    SentOnce
    AliveHasRow
    ButtonsWaitForAnAnswer
PROPERTIES
    ViewNeverGoesBack
    PagesComeToRest
