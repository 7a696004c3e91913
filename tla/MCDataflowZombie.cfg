SPECIFICATION Spec
CONSTANTS
    Threads = {t1, t2}
    None = None
    RaiseOnBlock = {}
    Instructions = {"wait", "injectException"}
    MaxNodes = 1
    MaxInjections = 1
INVARIANTS
    ResumeOnlyLive
CHECK_DEADLOCK FALSE
