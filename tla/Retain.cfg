SPECIFICATION Spec
CONSTANTS
    Units <- SevenUnits
    SeriesOf <- TwoJobs
    DayOf <- DaysOfSeven
    Stages <- FourStages
    Clock <- RunDays
    MaxTries = 1
INVARIANTS
    ChosenSurvive
    OnlyChosenKept
    SecondRunIdle
PROPERTIES
    ChoiceNeverChanges
    WeekKeepsOne
CHECK_DEADLOCK FALSE
