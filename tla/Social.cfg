\* Two users, two requests between them, two devices and two calls at once.
\* Without accounts nothing is left to do, so a behaviour may end.
SPECIFICATION Spec
CONSTANTS
    u1 = u1
    u2 = u2
    f1 = f1
    f2 = f2
    t1 = t1
    t2 = t2
    h1 = h1
    h2 = h2
    User = {u1, u2}
    FriendshipId = {f1, f2}
    DeviceToken = {t1, t2}
    Handler = {h1, h2}
    None = None
SYMMETRY MCSymmetry
INVARIANTS
    OneFriendshipPerPair
    OneAnswer
    FriendListsAgree
PROPERTIES
    OnlyDeadTokensDropped
CHECK_DEADLOCK FALSE
