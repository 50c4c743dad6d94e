\* Two users of two names out of three, three days, two calls at once.
SPECIFICATION AccountsSpec
CONSTANTS
    u1 = u1
    u2 = u2
    h1 = h1
    h2 = h2
    User = {u1, u2}
    Name = {1, 2, 3}
    Handler = {h1, h2}
    None = None
    MaxStops = 2
    Threshold = 2
    RecentDays = 2
    MaxDay = 3
    MaxMs = 2
    MaxRows = 3
    MaxRowsStop = 1
SYMMETRY MCSymmetry
CONSTRAINT MCConstraint
INVARIANTS
    EachStopCounted
    RanksAgree
    StatsAgreeUpToRecentDays
