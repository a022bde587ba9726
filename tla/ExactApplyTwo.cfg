SPECIFICATION Spec
CONSTANTS
    Order <- MCOrder2
    Planners = {p1}
    Contents <- MCInitOne
    InitContents <- MCInitOne
    Invocations <- MCSave
    Derived = {"r2"}
    DataRoots = {}
    RefRoots = {}
    RemoteBackend = {}
    BackendGiven = TRUE
    Staged <- MCStaged
    Bodies <- MCTwoBodies
    CleanerRuns = FALSE
    MaxPlans = 2
    MaxEdits = 0
    Null = Null
    Torn = Torn
    Attrs <- MCAttrs
    SetAttrs <- MCSetAttrs
    ListAttrs = {}
    Scalars <- MCScalars
    Round <- MCRound
    Policies <- MCNoPolicy
    Controls = {k1}
    Options <- MCConsents
    Disturbs = FALSE
INVARIANTS
    OnlyConsentedApplied
PROPERTIES
    ImplementsApprovedApply
CHECK_DEADLOCK FALSE
