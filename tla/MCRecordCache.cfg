SPECIFICATION Spec
CONSTANTS
    Keys = {k1}
    Data = {d1, d2}
    Origins = {o1, o2}
    TTLs = {0, 3}
    GoodbyeGrace = 1
    MaxTime = 4
    MaxInserts = 4
SYMMETRY Symmetry
INVARIANTS
    OneEntryPerIdentity
    ExpiresWhenDead
    LiveRecordsKept
CHECK_DEADLOCK FALSE
