\* Two deliveries at a time: a stale snapshot stays.
SPECIFICATION Spec
CONSTANTS
    u1 = u1
    u2 = u2
    a1 = a1
    User = {u1, u2}
    Anonymous = {a1}
    First <- FirstSeen
    Handler = {1, 2}
    MaxChanges = 2
    MaxFaults = 0
    MaxManaged = 0
    None = None
INVARIANTS
    SnapshotCurrent
CHECK_DEADLOCK FALSE
