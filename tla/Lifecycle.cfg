CONSTANTS
    Shutdowns = {c1, c2}
    Fallback = fb
    MaxDepth = 3
    Clients = {p, q}
    NoClient = NoClient
    Calls = {"poll", "poll timeout", "poll callback", "loop", "loop callback", "loop serial"}
    Nested = TRUE
    Dispose = TRUE
    MaxIds = 3
    MaxCalls = 2
SPECIFICATION MCSpec
INVARIANTS
    RetryPossible
    EndsClean
    ReadUntilClosed
    KeptInOrder
PROPERTIES
    NoDuplicateClose
SYMMETRY Symmetry
CHECK_DEADLOCK FALSE
