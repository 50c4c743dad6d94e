\* Two requests at a time that wait at most one unit for Redis, windows of three.
SPECIFICATION FairServerSpec
CONSTANTS
    c1 = c1
    c2 = c2
    Caller = {c1, c2}
    Limit = 2
    Window = 3
    MaxTime = 5
    MaxDelay = 1
    MaxLost = 1
    None = None
INVARIANTS
    ServerTypeOK
    NothingRunsOnClosed
    LessThanTwice
PROPERTIES
    RefusedOnlyWhenFull
    ShutdownEnds
