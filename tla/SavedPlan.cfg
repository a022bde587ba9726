SPECIFICATION SPSpec
CONSTANTS
    Order <- MCOrder1
    Planners = {p1}
    Contents <- MCContents
    InitContents <- MCInit
    Invocations <- MCAll
    Derived = {}
    DataRoots = {}
    RefRoots = {"r1"}
    RemoteBackend = {}
    BackendGiven = TRUE
    Staged <- MCStaged
    Bodies <- MCBodies
    CleanerRuns = TRUE
    MaxPlans = 2
    MaxEdits = 2
    Null = Null
    Torn = Torn
INVARIANTS
    SourcesBindPlan
    AttestationTellsScope
    FailedSaveLeavesNothing
CHECK_DEADLOCK FALSE
