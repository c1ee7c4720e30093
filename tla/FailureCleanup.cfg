CONSTANTS
    Clients = {c1, c2}
    Senders = {s1, s2}
    NoClient = NoClient
    MaxCloses = 2
    MayThrow = TRUE
    MayReject = TRUE
    MayExpire = TRUE
SPECIFICATION Spec
SYMMETRY Symmetry
INVARIANTS
    LedgerSound
    NoDuplicateClose
    Retirement
    DrainExcludesSends
    WaitJustified
CHECK_DEADLOCK FALSE
