CONSTANTS
    KickFails = TRUE
    ControllerFails = TRUE
    Nested = TRUE
    p = p
    q = q
    NoClient = NoClient
SPECIFICATION MCSpec
INVARIANTS
    KickNotLost
PROPERTIES
    Orderly
    Retires
    Served
CHECK_DEADLOCK FALSE
