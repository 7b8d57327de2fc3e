\* One opening the user may ask to close at any time, with room for two closes.
SPECIFICATION Spec
CONSTANTS
    MaxExecutions = 3
    MaxOpenings = 1
    MaxRequests = 1
    CrashLimit = 0
    RetryLimit = 1
    LegSize = 1
    MaxPosition = 1
    MaxHeld = 1
    Gaps = FALSE
    Refusals = FALSE
    Switchable = FALSE
CONSTRAINT UpToALapse
INVARIANTS
    PositionLookedAfter
CHECK_DEADLOCK FALSE
