SPECIFICATION Spec
CONSTANTS
    Threads = {t1}
    None = None
    RaiseOnBlock = {}
    Instructions = {"equals", "failedValue"}
    MaxNodes = 2
    MaxInjections = 0
INVARIANTS
    NoTestOnFailed
CHECK_DEADLOCK FALSE
