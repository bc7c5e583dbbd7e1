SPECIFICATION Spec
CONSTANTS
    K = 9
    Keys <- MCKeys
    Starts <- BothTrees
    ParentOf <- Directories
    LeafSize <- Uniform
    IndexSize <- Uniform
    NodeSize = 7
    MinFill = 3
    MaxNode = 9
    Pools = {5, 9}
    FromBelow = FALSE
    AfterFailure = FALSE
INVARIANTS
    TypeOK
    SearchExact
    ListingExact
    IndexKeysExact
    LevelsLinked
    AccountingExact
    Compact
    SiblingHelps
    NoRecordLost
PROPERTIES
    Returns
CHECK_DEADLOCK FALSE
