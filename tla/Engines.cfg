SPECIFICATION Spec
CONSTANTS
    b1 = b1
    b2 = b2
    b3 = b3
    b4 = b4
    db = db
    tar = tar
    top = top
    mid = mid
    mirror = mirror
    low = low
    Free = Free
    Gfs = Gfs
    Recovery = Recovery
    First = top
    Units <- ThreeUnits
    Series <- OneSeries
    SeriesOf <- AllDb
    Chained = {db}
    Backups <- FourBackups
    JobOf <- FourByDb
    InitialUnit <- HalfRecorded
    Paths <- TwoStages
    StageOf <- TwoStagesOf
    MaxFaults = 1
    MaxDamage = 0
    MaxEdits = 0
    Unmountable = {top}
    Prepared = {top}
SYMMETRY Late
INVARIANTS
    Inv
    EngineLeftAlone
    BaseStays
PROPERTIES
    OnlyVerifiedRemoved
    RecoverySourceStays
