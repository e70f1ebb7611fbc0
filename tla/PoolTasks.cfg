CONSTANTS
    Threads = {w1, w2}
    Owner = None
    SingleThreads = {FALSE}
    Coros = {c1, c2}
    None = None
    MaxDelay = 1
    MaxWait = 1
    MaxLate = 0
    MaxHops = 1
SPECIFICATION FairPoolTasksSpec
PROPERTIES
    Served
    ThreadsEnd
