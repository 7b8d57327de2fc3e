\* The user asks to close a pair that is still opening.
SPECIFICATION Spec
CONSTANTS
    MaxExecutions = 2
    MaxOpenings = 1
    MaxRequests = 1
    CrashLimit = 0
    RetryLimit = 1
    LegSize = 1
    MaxPosition = 1
    MaxHeld = 1
    Gaps = FALSE
    Refusals = FALSE
    Switchable = FALSE
INVARIANTS
    ClosedIsFlat
CHECK_DEADLOCK FALSE
