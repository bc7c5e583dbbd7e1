SPECIFICATION ForksSpec
CONSTANTS
    TotalBlocks = 12
    Reserved <- MCReserved
    BlockSize = 2
    NodeSize = 2
    ReserveNodes = 2
    InlineExtents = 2
    GrowBlocks = 1
    FileSizes = {0, 1, 5}
    LastFile = 18
    SelfSpill = FALSE
INVARIANTS ForksTypeOK NoCrossLink BitmapExact FreeBlocksExact Resolves NoStrays BlocksAccounted
    WindowsExact
PROPERTIES UsesAllocator CallsReturn
CHECK_DEADLOCK FALSE
