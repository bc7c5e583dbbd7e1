SPECIFICATION Spec
CONSTANTS
    Names <- MCLatinNames
    SameLetter <- MCSameLatin
    MaxNames = 2
INVARIANT FoundAgain
