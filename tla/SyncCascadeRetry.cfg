\* A device posts a child of a mode that another device has deleted.
SPECIFICATION FairSpec
CONSTANTS
    d1 = d1
    d2 = d2
    m1 = m1
    a1 = a1
    Device = {d1, d2}
    Request <- ModeAndAppRequests
    Day = {1}
    Threshold = 2
    MaxInt = 3
    Nothing = Nothing
PROPERTIES
    RetrySucceeds
