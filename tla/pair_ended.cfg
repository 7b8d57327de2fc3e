\* A batch read before its legs were ended.
SPECIFICATION Spec
CONSTANTS
    MaxExecutions = 1
    MaxOpenings = 1
    MaxRequests = 0
    CrashLimit = 0
    RetryLimit = 1
    LegSize = 1
    MaxPosition = 1
    MaxHeld = 1
    Gaps = FALSE
    Refusals = FALSE
    Switchable = FALSE
PROPERTIES
    EndedLegStaysEnded
CHECK_DEADLOCK FALSE
