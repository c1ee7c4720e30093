CONSTANTS
    Producers = {p1, p2, p3}
    Room = 2
    MaxWork = 3
    MayFail = TRUE
    v = v
    w = w
    a = a
    b = b
    Vms = {v, w}
    Clients = {a, b}
    VmOf <- Created
    MaxBacklog = 1
SPECIFICATION MCSpec
INVARIANTS
    NoLostWakeup
    HubWakes
PROPERTIES
    IsLevelEvent
    Served
CHECK_DEADLOCK FALSE
