SPECIFICATION Spec
CONSTANTS
    a1 = a1
    a2 = a2
    a3 = a3
    n1 = n1
    n2 = n2
    c1 = c1
    c2 = c2
    r1 = r1
    None = None
    Attempts <- ThreeAttempts
    Old = {a1}
    Names = {n1,n2}
    Plain = n1
    Clerks = {c1,c2}
    Restores = {r1}
SYMMETRY Alike
CHECK_DEADLOCK FALSE
INVARIANT ChecksumMatches AvailableIsOwn DeliversRecorded
PROPERTY ChecksumKept
