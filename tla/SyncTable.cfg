\* Two devices, two rows, two edits: the requests of both devices interleave
\* statement by statement, and sync_versions of one transaction can surround
\* those of another.
SPECIFICATION Spec
CONSTANTS
    d1 = d1
    d2 = d2
    k1 = k1
    k2 = k2
    Device = {d1, d2}
    Key = {k1, k2}
    None = None
    MaxClock = 2
    MaxSeq = 4
    MaxSeqAgreed = 3
CONSTRAINT MCConstraint
SYMMETRY MCSymmetry
INVARIANTS
    TypeOK
    NoSkippedChange
    LiveOrTombstoned
    OnlyOwnEditLost
PROPERTIES
    Serialisable
    NewerWinsAlways
