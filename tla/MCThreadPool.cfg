SPECIFICATION FairSpec
CONSTANTS
    Threads = {t1, t2, t3}
    NoThread = NoThread
    HiToMiddlePriorityRatio = 2
    MiddleToLowPriorityRatio = 2
    MaxSetPriority = 2
    MaxExitRequests = 1
INVARIANTS
    PoolConsistent
    BoundedBypass
PROPERTIES
    FirstInFirstOut
    ImplementsScheduler
