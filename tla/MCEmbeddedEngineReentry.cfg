SPECIFICATION FairSpec
CONSTANTS
    Threads = {t1}
    MaxPayloads = 1
    Reenters <- Back
    None = None
PROPERTIES
    ReentryReturns
CHECK_DEADLOCK FALSE
