\* Two openings of one pair, and a death of the worker.
SPECIFICATION Spec
CONSTANTS
    MaxExecutions = 3
    MaxOpenings = 2
    MaxRequests = 0
    CrashLimit = 1
    RetryLimit = 1
    LegSize = 1
    MaxPosition = 2
    MaxHeld = 2
    Gaps = FALSE
    Refusals = FALSE
    Switchable = FALSE
CONSTRAINT UpToALapse
INVARIANTS
    TypeOK
    PositionLookedAfter
CHECK_DEADLOCK FALSE
