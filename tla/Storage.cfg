CONSTANTS
    Capacity = 2
    TTL = 2
    MaxItems = 6
    MaxTime = 3
    Types = {t1, t2}
    NoType = NoType
    MaxInterest = 2
    Lazy = TRUE
SPECIFICATION MCSpec
INVARIANTS
    Bounded
PROPERTIES
    Kept
    DropsOldest
SYMMETRY Symmetry
CHECK_DEADLOCK FALSE
