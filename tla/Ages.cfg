SPECIFICATION AgesSpec
CONSTANTS
    Configured <- SomeAges
    FirstDay <- Start
    LastDay <- End
INVARIANTS
    LongerIsFurther
PROPERTIES
    NoReturn
CHECK_DEADLOCK FALSE
