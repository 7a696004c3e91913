SPECIFICATION FairSpec
CONSTANTS
    Threads = {t1, t2}
    None = None
    RaiseOnBlock = {}
    Instructions = {"wait", "waitNeeded", "equals", "unify", "readOnly"}
    MaxNodes = 3
    MaxInjections = 0
INVARIANTS
    NoLostWakeup
    FuturesFollow
PROPERTIES
    OnlyOwnViewsClose
    ImplementsPromise
CHECK_DEADLOCK FALSE
