\* One request for a code at a time, three in all, and two verifications at once.
SPECIFICATION FairDeletionSpec
CONSTANTS
    st1 = st1
    ve1 = ve1
    ve2 = ve2
    Starter = {st1}
    Verifier = {ve1, ve2}
    MaxOTPs = 3
    MaxOTPAttempts = 2
    None = None
INVARIANTS
    DeletionTypeOK
    AttemptsBounded
    OneActiveOTP
PROPERTIES
    AcceptedOnce
    DeletedOnlyWhenDue
    ChallengesEnd
