SPECIFICATION FairSpec
CONSTANTS
    Callers = {j1}
    Workers = {w1}
    MaxPayloads = 1
PROPERTIES
    OperationsEnd
CHECK_DEADLOCK FALSE
