\* Two transactions at a time, two sign-ins, three tokens, one call with an access token.
SPECIFICATION FairAccessSpec
CONSTANTS
    p1 = p1
    p2 = p2
    s1 = s1
    s2 = s2
    t1 = t1
    t2 = t2
    t3 = t3
    c1 = c1
    Proc = {p1, p2}
    Session = {s1, s2}
    Token = {t1, t2, t3}
    Caller = {c1}
    None = None
ACTION_CONSTRAINT MCFirstFree
CONSTRAINT MCConstraint
INVARIANTS
    AccessIInv
    SingleActiveSession
    OneLiveToken
    ReusedTokenEndsSession
    NothingOrphaned
    EndedSessionRefused
PROPERTIES
    RequestsEnd
