SPECIFICATION Spec
CONSTANTS
    InitNodes = 2
    FirstNodes = {}
    GrowNodes = 3
    HeaderMapBits = 4
    MapNodeBits = 4
    MaxClumps = 4
    RecycledBlocks = FALSE
INVARIANTS
    TypeOK
    BitsExact
    FreeNodesExact
    MapCovers
    
