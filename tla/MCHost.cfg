SPECIFICATION Spec
CONSTANTS
    MaxThreads = 2
    MaxRequests = 2
    MaxBacklog = 1
    MaxLate = 1
    MaxMachines = 2
    MaxCalls = 4
CHECK_DEADLOCK FALSE
INVARIANTS
    RequestsArrive
    TimerOutlivesHandlers
    PortIsReliable
    TerminatedIsLast
    MonitorsHear
    FoundStaysAlive
    SleepersAreWoken
    AsyncCounts
    ExitCodeIsInitial
PROPERTIES
    ThreadsYield
    PostedIsHandled
    AlarmRings
    KilledEnds
