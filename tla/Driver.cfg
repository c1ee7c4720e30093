CONSTANTS
    Clients = {a, b}
    Budget = 2
    Slice = 1
    StallAfter = 2
    StallFatal = FALSE
    InCallbacks = {"add", "remove", "stop", "progress"}
    BetweenTurns = {"add", "remove", "kick"}
    Happens = {"arrive", "close", "raise", "expire", "foreign", "owner"}
    MaxSerial = 3
    MaxBacklog = 1
SPECIFICATION MCSpec
INVARIANTS
    OncePerEpisode
    InOrder
PROPERTIES
    StallEarned
SYMMETRY Symmetry
CHECK_DEADLOCK FALSE
