SPECIFICATION Spec
CONSTANTS
    gfs = gfs
    engine = engine
    reader = reader
    b1 = b1
    Nobody = Nobody
    Writers = {gfs, engine}
    Readers = {reader}
    Records = {b1}
    Found <- BeforeFive
    Gfs = gfs
    End = 2
    MaxRuns = 2
    MaxTroubles = 2
    MaxChanges = 2
INVARIANTS
    SameAnswer
    AppliedOnce
    RowTellsExit
    NoFailureMeansCopies
    TempsFromKills
PROPERTIES
    ReadyIsServed
ACTION_CONSTRAINT OneAfterTheOther
CHECK_DEADLOCK FALSE
