SPECIFICATION CommandsSpec
CONSTANTS
    Null = Null
    TornFile = TornFile
    StagedTypes <- MCStagedTypes
    StagedRootOf <- MCStagedRootOf
    StagedReferents = {"b"}
    WithoutDirectory = {"r2"}
    RemoteRoots = {"r1"}
    Keys = {k1, k2}
    MaxStagings = 2
    MaxDisturbances = 2
    k1 = k1
    k2 = k2
    k3 = k3
    x = x
    y = y
    z = z
    T = T
    U = U
    OracleTypes = {T, U}
    ObjectIds = {x, y, z}
    OracleKeys = {k1, k2, k3}
    InstanceName <- MCInstanceName
    OracleRequests <- MCOracleRequests
    RefreshRoots <- MCRefreshRoots
    RefreshPlans <- MCRefreshPlans
    NameOrder <- MCNameOrder
    SnakeOf <- MCEmpty
    SlugOf <- MCEmpty
    IntegerOf <- MCEmpty
    PartsOf <- MCEmpty
    UnsafeKeys = {}
    MaxImportMoves = 4
    TokensOf <- TokensInItems
    WithTokens <- SubstituteReferenceTokens
    BindingRefused <- UncoveredTokens
    LaneTypes <- MCLaneTypes
    LaneOrder <- MCLaneOrder
    PullResults <- MCPullResults
    LaneTrees <- MCLaneTrees
    MaxLaneRuns = 2
    Transitions = {"b"}
    Callers = {"w1"}
    Origins = {"a", "b", "c", "o"}
    HostOf <- MCHostOf
    Domains = {"d"}
    Under <- MCUnder
    HttpRequests <- MCHttpRequests
    MaxHttpRetries = 1
    MaxRedirects = 1
PROPERTY PendingMovesHold
CHECK_DEADLOCK FALSE
