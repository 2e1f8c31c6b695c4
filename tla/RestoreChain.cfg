SPECIFICATION RestoreSpec
CONSTANTS
    b1 = b1
    b2 = b2
    b3 = b3
    db = db
    top = top
    mid = mid
    mirror = mirror
    Free = Free
    Gfs = Gfs
    Recovery = Recovery
    First = top
    Units <- TwoUnits
    Series <- OneSeries
    SeriesOf <- AllDb
    Chained = {db}
    Backups <- ThreeBackups
    JobOf <- ThreeByDb
    InitialUnit <- NoneRecorded
    Paths <- TwoPathStage
    StageOf <- TwoPathStageOf
    MaxFaults = 1
    MaxDamage = 1
    MaxEdits = 0
    Unmountable = {top}
    Prepared = {}
    Wanted = b2
    Sources = {b1, b2}
INVARIANTS DeliversRecorded GivesUpForAReason
