SPECIFICATION FairSpec
CONSTANTS
    Threads = {t1, t2, t3}
    MaxPayloads = 2
    Reenters <- Forward
    None = None
INVARIANTS
    ReverseLoadOrder
    OverOnceRemoved
    OneCallAtATime
PROPERTIES
    LivesAreSequential
    QuietAfterClose
CHECK_DEADLOCK FALSE
