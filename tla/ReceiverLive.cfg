CONSTANTS
    Owners = {o1, o2}
    Clients = {1, 2}
    First = 1
    None = None
    Sends = {"raw", "close"}
    MaxGen = 1
    MaxUpdates = 1
    MayFail = TRUE
    MayThrow = TRUE
SPECIFICATION LiveSpec
INVARIANTS
    LeasesCounted
    SleepersJustified
PROPERTIES
    ReapEnds
    OneShotServed
CHECK_DEADLOCK FALSE
