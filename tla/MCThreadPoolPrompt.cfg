CONSTANTS
    Threads = {w1, w2}
    Owner = None
    SingleThreads = {FALSE}
    Coros = {c1, c2}
    None = None
    MaxDelay = 3
    MaxWait = 2
    MaxLate = 2
    MaxHops = 2
SPECIFICATION PromptSpec
SYMMETRY Symmetry
INVARIANTS
    DelaysKept
