SPECIFICATION Spec
CONSTANTS
    home = home
    sub = sub
    cache = cache
    f = f
    g = g
    h = h
    log = log
    up = up
    side = side
    pipe = pipe
    Nodes = {home, sub, cache, f, g, h, log, up, side, pipe}
    KindOf <- Kind
    Target <- LeadsTo
    Above <- LiesIn
    Entries <- Tree
    Tops <- HomeAndSub
    Chdir <- None
    Hidden = {cache}
    HiddenNames = {6}
    RuleLists <- SomeRules
    MaxChanges = 2
INVARIANTS
    SelectedIsArchived
    ArchivedWhole
    WalkStaysShallow
CHECK_DEADLOCK FALSE
