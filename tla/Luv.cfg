CONSTANTS
    Clients = {a, b}
    Budget = 1
    Slice = 1
    StallAfter = 1
    StallFatal = FALSE
    InCallbacks = {"remove"}
    BetweenTurns = {"add", "kick", "stop", "progress"}
    Happens = {"arrive", "close", "break", "expire", "foreign", "owner", "raise"}
    MaxSerial = 3
    MaxBacklog = 1
SPECIFICATION MCSpec
INVARIANTS
    SleepsSafely
PROPERTIES
    Served
    StallReachedAtRest
    Retires
CHECK_DEADLOCK FALSE
