\* A leg under fairness: a driver that reports partial fills as partial, lost
\* replies, a death of the worker, a cancel by the exchange.
SPECIFICATION FairSpec
CONSTANTS
    Actions <- OpenAndClose
    Quantity = 2
    ContractSize = 1
    RetryLimit = 2
    CancelLimit = 1
    CrashLimit = 1
    PollLimit = 1
    PartialReports <- PartialOnly
    Lossy = TRUE
    Switchable = FALSE
INVARIANTS
    NoOverRecording
PROPERTIES
    FollowsLifecycle
    EventuallySettled
CHECK_DEADLOCK FALSE
