SPECIFICATION Spec
CONSTANTS
    Names = {a, b}
    Fold <- Binary
    Values = {v}
    Zero = zero
    TotalBlocks = 12
    Reserved <- MCReserved
    MaxSize = 2
    LastCNID = 17
    InlineExtents = 1
    GrowBlocks = 2
    RenameIntoSelf = FALSE
INVARIANT FailureKeepsBooks
