SPECIFICATION FairSpec
CONSTANTS
    Main = main
    Workers = {}
    MaxCallId = 5
    MaxRequestId = 17
    Loop = Loop
    None = None
INVARIANTS
    DirectionsNeverCollide
    ProtocolIsKept
    ShutDownAtExit
PROPERTIES
    AnswersReachTheirCalls
    KeepsLifecycle
    CommandsAnswered
    ExitsWithParent
CHECK_DEADLOCK FALSE
