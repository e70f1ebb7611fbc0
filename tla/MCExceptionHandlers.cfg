CONSTANTS
    Threads = {t1, t2}
    Tokens = {k1, k2}
    Types = {1, 2}
    Handlers = {h1, h2, h3}
    Willing = {h2, h3}
    None = None
SPECIFICATION FairSpec
INVARIANTS
    OneTokenPerEntry
    CalledHandlersExist
PROPERTIES
    FirstWillingDescribes
    MutexReturned
