CONSTANTS
    Owners = {o1, o2}
    Clients = {1, 2}
    None = None
    Sends = {"close"}
    MaxGen = 2
    MaxUpdates = 0
    MayFail = TRUE
    MayThrow = FALSE
SPECIFICATION Spec
SYMMETRY Symmetry
INVARIANTS
    SingleReceiver
    DemandServed
    JoinOnlyUnowned
CHECK_DEADLOCK FALSE
