\* Orders the exchange itself cancels are posted again without end.
SPECIFICATION Spec
CONSTANTS
    Actions <- OpenAndClose
    Quantity = 1
    ContractSize = 1
    RetryLimit = 2
    CancelLimit = 3
    CrashLimit = 0
    PollLimit = 1
    PartialReports <- PartialOnly
    Lossy = FALSE
    Switchable = FALSE
INVARIANTS
    RepostsBounded
CHECK_DEADLOCK FALSE
