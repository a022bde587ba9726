SPECIFICATION Spec
CONSTANTS
    Order <- MCOrder1
    Planners = {p1}
    Contents <- MCContents
    InitContents <- MCInitOne
    Invocations <- MCSaveFull
    Derived = {}
    DataRoots = {}
    RefRoots = {}
    RemoteBackend = {}
    BackendGiven = TRUE
    Staged <- MCStaged
    Bodies <- MCEditBodies
    CleanerRuns = FALSE
    MaxPlans = 1
    MaxEdits = 2
    Null = Null
    Torn = Torn
    Attrs <- MCAttrs
    SetAttrs <- MCSetAttrs
    ListAttrs = {}
    Scalars <- MCScalars
    Round <- MCRound
    Policies <- MCPolicies
    Controls = {k1, k2}
    Options <- MCStrict
    Disturbs = TRUE
INVARIANTS
    TypeOK
    NoUnseenChangeAtApply
    AppliedFromDeclaredInputs
    SnapshotScrubbed
CHECK_DEADLOCK FALSE
