CONSTANTS
    Coroutines = {co}
    Main = Main
    None = None
    Kinds = {"Future"}
    MaxRequests = 1
    MaxEvents = 1
    MaxHandlers = 1
    MaxNested = 0
    ExternalResume = FALSE
    CoroutinesFail = TRUE
SPECIFICATION Spec
INVARIANTS
    NoWaiterForgotten
