SPECIFICATION Spec
CONSTANTS
    Main = main
    Workers = {}
    MaxCallId = 3
    MaxRequestId = 17
    Loop = Loop
    None = None
PROPERTIES
    ExhaustionIsTerminal
CHECK_DEADLOCK FALSE
