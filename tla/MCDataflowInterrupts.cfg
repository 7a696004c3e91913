SPECIFICATION FairSpec
CONSTANTS
    Threads = {t1, t2}
    None = None
    RaiseOnBlock = {t2}
    Instructions = {"wait", "waitQuiet", "equals", "unify", "newReadOnly", "failedValue", "readOnly", "makeNeeded", "bindReadOnly", "injectException"}
    MaxNodes = 2
    MaxInjections = 1
INVARIANTS
    NoLostWakeup
PROPERTIES
    OnlyOwnViewsClose
    ImplementsPromise
CHECK_DEADLOCK FALSE
