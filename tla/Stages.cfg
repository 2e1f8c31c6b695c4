SPECIFICATION Spec
CONSTANTS
    b1 = b1
    b2 = b2
    b3 = b3
    b4 = b4
    db = db
    tar = tar
    top = top
    mid = mid
    mirror = mirror
    low = low
    Free = Free
    Gfs = Gfs
    Recovery = Recovery
    First = top
    Units <- ThreeUnits
    Series <- BothSeries
    SeriesOf <- MixedUnits
    Chained = {db}
    Backups <- ThreeBackups
    JobOf <- MixedBy
    InitialUnit <- DbRecorded
    Paths <- ThreeStages
    StageOf <- ThreeStagesOf
    MaxFaults = 1
    MaxDamage = 1
    MaxEdits = 0
    Unmountable = {}
    Prepared = {mid}
INVARIANTS
    NoStrays
PROPERTIES
    LastBackupStays
