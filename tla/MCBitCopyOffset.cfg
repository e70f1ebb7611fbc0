CONSTANTS
    ByteBits = 4
    Sizes = {1, 2, 4}
    Counts = {1, 3, 4, 5, 7, 8, 9, 12, 13}
    Offsets = {0, 1, 3, 4, 5, 8}
    Arrays <- SampleArrays
CHECK_DEADLOCK FALSE
SPECIFICATION Spec
INVARIANT
    LeavesOthersUntouched
