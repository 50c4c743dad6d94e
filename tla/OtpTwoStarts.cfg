\* Two requests for a code at once, then two verifications at once.
SPECIFICATION Spec
CONSTANTS
    st1 = st1
    st2 = st2
    ve1 = ve1
    ve2 = ve2
    Starter = {st1, st2}
    Verifier = {ve1, ve2}
    MaxOTPs = 3
    MaxOTPAttempts = 3
    None = None
SYMMETRY MCSymmetry
INVARIANTS
    AttemptsBounded
