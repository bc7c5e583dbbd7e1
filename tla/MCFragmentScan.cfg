SPECIFICATION Spec
CONSTANTS
    TotalBlocks = 7
INVARIANTS
    TypeOK
    SucceedsExactly
    FailsOnlyWhenFull
PROPERTIES
    Ascending
    Terminates
CHECK_DEADLOCK FALSE
