SPECIFICATION FairSpec
CONSTANTS
    Threads = {t1, t2, t3}
    MaxDepth = 3
    MaxInFlight = 6
INVARIANTS
    CountIsExact
    QuiescentForever
    NoLostWakeup
PROPERTIES
    OnlyReentryAfterClose
    DeactivateReturns
CHECK_DEADLOCK FALSE
