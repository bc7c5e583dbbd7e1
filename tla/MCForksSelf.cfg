SPECIFICATION ForksSpec
CONSTANTS
    TotalBlocks = 19
    Reserved <- MCReserved
    BlockSize = 2
    NodeSize = 2
    ReserveNodes = 2
    InlineExtents = 2
    GrowBlocks = 1
    FileSizes = {0}
    LastFile = 20
    SelfSpill = TRUE
INVARIANT Resolves
CHECK_DEADLOCK FALSE
