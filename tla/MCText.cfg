CONSTANTS
    Paths <- SamplePaths
    Units <- SampleUnits
    MaxUnits = 2
    Size = 3
    Chars = {c, ff}
    Blank = blank
    EofChar = ff
    MaxExisting = 1
    MinArea = 1
    Room = 5
    MaxBlock = 3
    MaxIndent = 2
CHECK_DEADLOCK FALSE
SPECIFICATION TextSpec
INVARIANTS
    ConversionsAreFaithful
    StaysInside
    ToldPositionsAreAdmitted
    IndentsEveryLine
PROPERTIES
    Ends
    ImplementsFile
