SPECIFICATION FairSpec
CONSTANTS
    HostThreads = {h1, h2}
    Workers = {w1, w2}
    Contexts = {c1, c2}
    MaxStack = 3
    MaxWorkerStack = 1
    None = None
INVARIANTS
    TypeOK
    UnwrapSucceeds
    PluginCodeFindsHostOpen
PROPERTIES
    KeepsContract
    RefinesAdmission
    EndsOnceClosing
CHECK_DEADLOCK FALSE
