SPECIFICATION FairSpec
CONSTANTS
    Callers = {j1, j2}
    Workers = {w1}
    MaxPayloads = 2
INVARIANTS
    BridgeFindsItsSession
    RoutesAgree
    UnloadMeansClosed
PROPERTIES
    OnlyDrainsBlock
CHECK_DEADLOCK FALSE
