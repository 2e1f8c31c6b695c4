SPECIFICATION RestoreSpec
CONSTANTS
    b1 = b1
    b2 = b2
    b3 = b3
    db = db
    top = top
    mid = mid
    mirror = mirror
    Free = Free
    Gfs = Gfs
    Recovery = Recovery
    First = top
    Units <- TwoUnits
    Series <- OneSeries
    SeriesOf <- AllDb
    Chained = {}
    Backups <- TwoBackups
    JobOf <- TwoByDb
    InitialUnit <- FirstRecorded
    Paths <- TwoPathStage
    StageOf <- TwoPathStageOf
    MaxFaults = 1
    MaxDamage = 1
    MaxEdits = 1
    Unmountable = {}
    Prepared = {}
    Wanted = b1
    Sources = {b1}
INVARIANTS DeliversRecorded
