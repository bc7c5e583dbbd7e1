INIT Init
NEXT RelabelNext
CONSTANTS
    K = 9
    Keys <- MCKeys
    Starts <- Catalog
    ParentOf <- Directories
    LeafSize <- Uniform
    IndexSize <- Uniform
    NodeSize = 7
    MinFill = 3
    MaxNode = 9
    Pools = {9}
    FromBelow = TRUE
    AfterFailure = FALSE
INVARIANTS
    SearchExact
