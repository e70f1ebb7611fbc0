CONSTANTS
    HalfBits = 2
    Half = 4
    ByteBits = 4
    Sizes = {1, 2, 4}
    Counts = {1, 3, 4, 5, 7, 8, 9, 12, 13}
    Offsets = {0, 1, 3, 4, 5, 8}
    Arrays <- SampleArrays
    Formats <- SampleFormats
    Scale = 10
    Types <- SampleTypes
    Largest = 4
    Things = {x1, x2}
    Variables = {v1, v2}
    Nothing = nothing
    Invalid = invalid
    Clusters <- SampleClusters
    MaxArgs = 3
    MaxYields = 2
    MaxTime = 6
    Interval = 2
    Blocks = {b1, b2, b3}
    MaxSize = 3
    MaxThrown = 2
CHECK_DEADLOCK FALSE
SPECIFICATION LibrarySpec
INVARIANTS
    ComparesLikeNumbers
    CopiesTheBits
    ConvertsNumbers
    RemapsLinearly
    EachArgumentOnce
    EveryValueOnce
    ReleasedOnce
    HoldsWhatItWasGiven
PROPERTIES
    ImplementsModularNumber
    NeverStale
