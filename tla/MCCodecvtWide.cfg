CONSTANTS
    Paths <- WidePaths
    Units <- SampleUnits
    MaxUnits = 2
CHECK_DEADLOCK FALSE
SPECIFICATION Spec
INVARIANT
    RoundTrips
