SPECIFICATION Spec
CONSTANTS
    b1 = b1
    b2 = b2
    b3 = b3
    b4 = b4
    None = None
    Restore = Restore
    Ids <- FourIds
    Legacy = b1
    Keys <- NoOrSomeKey
    RetentionDays = 2
    MaxDay = 3
    MaxLsn = 2
    MaxTampers = 1
SYMMETRY Alike
CHECK_DEADLOCK FALSE
INVARIANT Restorable
INVARIANT FullIsFound
INVARIANT ReadsAChain
PROPERTY SourcesStay
