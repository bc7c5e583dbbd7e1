SPECIFICATION Spec
CONSTANTS
    Names <- MCNames
    SameLetter <- MCSameLetter
    MaxNames = 3
INVARIANT FoundAgain
