SPECIFICATION Spec
CONSTANTS
    K = 8
    Keys <- MCKeys
    Starts <- Catalog
    ParentOf <- Directories
    LeafSize <- ShortThenLong
    IndexSize <- ShortThenLong
    NodeSize = 19
    MinFill = 9
    MaxNode = 6
    Pools = {6}
    FromBelow = FALSE
    AfterFailure = TRUE
INVARIANTS
    NoRecordLost
