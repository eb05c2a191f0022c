SPECIFICATION FairSpec
CONSTANTS
    Sizes <- MCSizes
    Hash <- MCHash
    xor <- MCxor
    MaxHalf = 2
INVARIANTS
    SweepIsPermutation
PROPERTIES
    WalkEnds
CHECK_DEADLOCK FALSE
