SPECIFICATION FairSpec
CONSTANTS
    Timers = {t1, t2}
    NoTimer = NoTimer
    MaxJobs = 2
INVARIANTS
    ClosedOnce
    NoUseAfterFree
PROPERTIES
    EventuallyFreed
    ImplementsTimerService
CHECK_DEADLOCK FALSE
