\* A leg, opening or closing, with every fault switched on.
SPECIFICATION Spec
CONSTANTS
    Actions <- OpenAndClose
    Quantity = 2
    ContractSize = 2
    RetryLimit = 2
    CancelLimit = 1
    CrashLimit = 1
    PollLimit = 1
    PartialReports <- BothReports
    Lossy = TRUE
    Switchable = TRUE
INVARIANTS
    TypeOK
    LiveOrdersKnown
    RestingLeavesNothingLive
    OneLiveOrder
    OrdersPaidFor
    RetryBudget
    LiveOrderWithinPlan
CHECK_DEADLOCK FALSE
