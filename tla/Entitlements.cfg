\* One delivery at a time: two changes at RevenueCat, one fault, one override.
SPECIFICATION FairSpec
CONSTANTS
    u1 = u1
    u2 = u2
    a1 = a1
    User = {u1, u2}
    Anonymous = {a1}
    First <- FirstSeen
    Handler = {1}
    MaxChanges = 2
    MaxFaults = 1
    MaxManaged = 1
    None = None
INVARIANTS
    TypeOK
    SnapshotCurrent
    ViewsAgree
PROPERTIES
    Settles
CHECK_DEADLOCK FALSE
