SPECIFICATION Spec
CONSTANTS
    Threads = {t1}
    None = None
    RaiseOnBlock = {}
    Instructions = {"unify", "readOnly"}
    MaxNodes = 2
    MaxInjections = 0
INVARIANTS
    DereferenceEnds
CHECK_DEADLOCK FALSE
