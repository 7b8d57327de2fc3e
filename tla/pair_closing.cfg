\* A close that fails before its retries are used up.
SPECIFICATION FairSpec
CONSTANTS
    MaxExecutions = 3
    MaxOpenings = 1
    MaxRequests = 0
    CrashLimit = 0
    RetryLimit = 1
    LegSize = 1
    MaxPosition = 1
    MaxHeld = 1
    Gaps = FALSE
    Refusals = TRUE
    Switchable = FALSE
PROPERTIES
    ClosingEnds
CHECK_DEADLOCK FALSE
