SPECIFICATION ServicesSpec
CONSTANTS
    Wallets = {1, 2}
    SwapWallets = {2}
    TwoPlaces = {2}
    MasterKeys = {"a", "b"}
    MaxTransfers = 2
    TransferWorkers = {"w1", "w2"}
    RefusalKinds = {"withdraw_disabled", "api_auth_failed"}
    TransferScenes <- MCTransferScenes
    AccountIds = {1, 2}
    Credentials = {"a", "b"}
    Amounts = {0, 900, 1960}
    Ratios = {0, 37}
    TriggerRatio = 80
    Networks = {"trc20"}
    AccountScenes <- MCAccountScenes
    Servers = {"web", "worker"}
    RuleIds = {"r1"}
    Rates = {0, 10, 20}
    Sizes = {0, 5}
    RecordIds = {"t1"}
    SchemaScenes <- MCSchemaScenes
    Requests = {"q1", "q2"}
    Tokens = {"t1"}
    UserNames = {"u1", "u2"}
    SessionScenes <- MCSessionScenes
    Clients = {"c1", "c2"}
    Fields = {"f1", "f2"}
    StoreScenes <- MCStoreScenes
    Pairs = {1, 2}
    FrozenPairs = {}
    LeftVenue <- MCLeftVenue
    RightVenue <- MCRightVenue
    OpportunityScenes <- MCAllOpportunityScenes
INVARIANTS
    TransferTypeOK MovedOnce ExecutingHasExecutor OneOpenPerCreator
    FreezeIsEarned SuccessIsReal FailureIsExplained
    VerdictIsEarned CacheFollowsRows AmountsAgree PlanIsModest
    ThresholdScaledOnce ServesCompleteSchema
    SomeoneIsAdmin EndedStaysEnded
    MarkedIsFound
    LivePageIsLive NetRateIsEarned
PROPERTIES
    ReleaseIsExplained RecordsSettle
    RestartKeepsRules RestartKeepsRecords
    RowsOfThePartCatchUp
CHECK_DEADLOCK FALSE
