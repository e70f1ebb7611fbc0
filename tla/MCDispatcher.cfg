CONSTANTS
    Threads = {w1, w2, w3}
    Owner = w1
    SingleThreads = {TRUE, FALSE}
    Coros = {c1, c2}
    None = None
    MaxDelay = 1
    MaxWait = 2
    MaxLate = 0
SPECIFICATION Spec
SYMMETRY Symmetry
INVARIANTS
    TypeOK
    OnePlace
    EnoughAwake
    WakesForKnownDelays
PROPERTY
    OnlyOwnerResumes
