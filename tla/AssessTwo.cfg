SPECIFICATION Spec
CONSTANTS
    Order <- MCOrder2
    Planners = {p1}
    Contents <- MCInitOne
    InitContents <- MCInitOne
    Invocations <- MCSaveFull
    Derived = {}
    DataRoots = {}
    RefRoots = {}
    RemoteBackend = {}
    BackendGiven = TRUE
    Staged <- MCStaged
    Bodies <- MCFullBodies
    CleanerRuns = FALSE
    MaxPlans = 3
    MaxEdits = 0
    Null = Null
    Torn = Torn
    Attrs <- MCAttrs
    SetAttrs <- MCSetAttrs
    ListAttrs = {}
    Scalars <- MCScalars
    Round <- MCRound
    Policies <- MCPolicy
    InitPolicies <- MCPolicy
    Controls = {k1}
    Modes <- MCAdopt
    Disturbs = FALSE
INVARIANTS
    CopiesAreScrubbed
CHECK_DEADLOCK FALSE
