\* Requests that never wait for Redis, windows of three.
SPECIFICATION Spec
CONSTANTS
    c1 = c1
    c2 = c2
    Caller = {c1, c2}
    Limit = 2
    Window = 3
    MaxTime = 12
    MaxDelay = 0
    MaxLost = 1
    None = None
SYMMETRY MCSymmetry
INVARIANTS
    SlidingWindow
