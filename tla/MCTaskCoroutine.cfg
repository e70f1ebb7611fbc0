CONSTANTS
    Tasks = {t1, t2}
    Promises = {}
    Body = Body
    NoOne = NoOne
SPECIFICATION FairSpec
INVARIANTS
    TypeOK
    RefCountExact
    DestroyedOnceUnreferenced
    NoUseAfterFree
    WaitersConserved
    NoSleepOnReady
    FetchFindsOutcome
PROPERTIES
    ImplementsFutureCell
    Answered
    DiscardedIsDestroyed
