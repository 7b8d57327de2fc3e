\* One opening under fairness, with every fault; deaths are followed up.
SPECIFICATION FairSpec
CONSTANTS
    MaxExecutions = 3
    MaxOpenings = 1
    MaxRequests = 0
    CrashLimit = 1
    RetryLimit = 1
    LegSize = 1
    MaxPosition = 1
    MaxHeld = 1
    Gaps = TRUE
    Refusals = TRUE
    Switchable = TRUE
CONSTRAINT UpToALapseOrDeath
PROPERTIES
    UnhedgedIsResolved
CHECK_DEADLOCK FALSE
