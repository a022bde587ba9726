SPECIFICATION Spec
CONSTANTS
    Order <- MCOrder1
    Planners = {p1}
    Contents <- MCContents
    InitContents <- MCInitOne
    Invocations <- MCSave
    Derived = {}
    DataRoots = {}
    RefRoots = {}
    RemoteBackend = {}
    BackendGiven = TRUE
    Staged <- MCStaged
    Bodies <- MCMixedBodies
    CleanerRuns = FALSE
    MaxPlans = 1
    MaxEdits = 2
    Null = Null
    Torn = Torn
    Attrs <- MCAttrs
    SetAttrs <- MCSetAttrs
    ListAttrs = {}
    Scalars <- MCScalars
    Round <- MCRound
    Policies <- MCPolicies
    InitPolicies <- MCPolicy
    Controls = {k1, k2}
    Modes <- MCBoth
    Disturbs = TRUE
SYMMETRY MCSymmetry
INVARIANTS
    RowsTellTheTruth
    ReportIsOfOneMoment
CHECK_DEADLOCK FALSE
