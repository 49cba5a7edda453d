SPECIFICATION Spec
CONSTANTS
    Main = main
    Workers = {w1}
    MaxCallId = 5
    MaxRequestId = 9
    Loop = Loop
    None = None
PROPERTIES
    AnswersReachTheirCalls
CHECK_DEADLOCK FALSE
