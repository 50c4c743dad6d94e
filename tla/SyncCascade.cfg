\* Three scenarios: sessions with events and rollups on two days; two sessions on
\* one day, with sums that reach the limit of an INTEGER; blocked apps, schedules
\* and chips with their UNIQUE values.
SPECIFICATION MCSpec
CONSTANTS
    d1 = d1
    m1 = m1
    m2 = m2
    m3 = m3
    s1 = s1
    s2 = s2
    e1 = e1
    a1 = a1
    c1 = c1
    c2 = c2
    g1 = g1
    t1 = t1
    Device = {d1}
    Request <- AllRequests
    Day = {1, 2}
    Threshold = 2
    MaxInt = 3
    Nothing = Nothing
SYMMETRY MCSymmetry
INVARIANTS
    TypeOK
    AggregatesMatchRollups
    BoardCurrent
    NeverBoth
PROPERTIES
    TombstonesMatchDeletions
