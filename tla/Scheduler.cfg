CONSTANTS
    Coroutines = {co}
    Main = Main
    None = None
    Kinds = {"Raw", "Future", "Task", "LegacyRequest", "LegacyAwait"}
    MaxRequests = 2
    MaxEvents = 2
    MaxHandlers = 2
    MaxNested = 1
    ExternalResume = TRUE
    CoroutinesFail = TRUE
SPECIFICATION MCSpec
INVARIANTS
    Consistent
    HonestOutcome
    WaitersReached
    FailureReportedOnce
    SerialInOrder
