\* One opening in partial fills and reposts, or under deaths, a request and a
\* rule that is disabled, and the close that follows it.
SPECIFICATION Spec
CONSTANTS
    MaxExecutions = 2
    MaxOpenings = 1
    MaxRequests = 1
    CrashLimit = 1
    RetryLimit = 2
    LegSize = 2
    MaxPosition = 2
    MaxHeld = 1
    Gaps = FALSE
    Refusals = FALSE
    Switchable = TRUE
CONSTRAINT PartsOrDisturbances
INVARIANTS
    PositionLookedAfter
CHECK_DEADLOCK FALSE
