SPECIFICATION FairGroupsSpec
CONSTANTS
    Commands = {c1, c2}
    MaxSignals = 3
    Hosts = {TRUE, FALSE}
    Null = Null
INVARIANTS
    NoStrandedGroup
PROPERTIES
    NobodyWaitsForEver
CHECK_DEADLOCK FALSE
