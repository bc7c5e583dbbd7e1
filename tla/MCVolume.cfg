SPECIFICATION Spec
CONSTANTS
    Names = {a, b}
    Fold <- Binary
    Values = {v}
    Zero = zero
    TotalBlocks = 6
    Reserved <- MCReserved
    MaxSize = 3
    LastCNID = 17
    InlineExtents = 1
    GrowBlocks = 2
    RenameIntoSelf = FALSE
CONSTRAINT Untorn
INVARIANTS TypeOK ThreadsAgree CountsAgree BlocksAgree IdsFresh RoundTrips
     NothingHalfDone
PROPERTY Implements
