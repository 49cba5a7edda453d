SPECIFICATION FairSpec
CONSTANTS
    Threads = {t1, t2, t3}
    Entries = {e1, e2, e3}
    MaxPending = 2
    MaxId = 2
    None = None
INVARIANTS
    OneWinner
    PendingIsRegistered
    NothingPendingAfterClose
PROPERTIES
    ResultIsFinal
    WaitsEnd
    CallsReturn
CHECK_DEADLOCK FALSE
