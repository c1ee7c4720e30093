CONSTANTS
    Clients = {a, b}
    Budget = 1
    Slice = 1
    StallAfter = 1
    StallFatal = FALSE
    InCallbacks = {}
    BetweenTurns = {"add"}
    Happens = {"expire"}
    MaxSerial = 3
    MaxBacklog = 1
SPECIFICATION MCSpec
PROPERTIES
    NoFalseStall
CHECK_DEADLOCK FALSE
