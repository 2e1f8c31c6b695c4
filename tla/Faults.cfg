SPECIFICATION FairSpec
CONSTANTS
    b1 = b1
    b2 = b2
    b3 = b3
    b4 = b4
    db = db
    tar = tar
    top = top
    mid = mid
    mirror = mirror
    low = low
    Free = Free
    Gfs = Gfs
    Recovery = Recovery
    First = top
    Units <- TwoUnits
    Series <- OneSeries
    SeriesOf <- DbUnits
    Chained = {db}
    Backups <- TwoBackups
    JobOf <- TwoByDb
    InitialUnit <- BothRecorded
    Paths <- TwoPathStage
    StageOf <- TwoPathStageOf
    MaxFaults = 2
    MaxDamage = 1
    MaxEdits = 2
    Unmountable = {mirror}
    Prepared = {top}
INVARIANTS
    TypeOK
    StageComplete
    ReportIsTrue
PROPERTIES
    KeepsManagedBackups
    KeepsCustody
    RunEnds
