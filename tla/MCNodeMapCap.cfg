SPECIFICATION Spec
CONSTANTS
    InitNodes = 4
    FirstNodes = {1}
    GrowNodes = 2
    HeaderMapBits = 8
    MapNodeBits = 4
    MaxClumps = 4
    RecycledBlocks = FALSE
INVARIANTS
    NoHardCap
