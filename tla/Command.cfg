SPECIFICATION FairSpec
CONSTANTS
    Child = child
    Descendants = {kid}
    Settings <- MCSettings
    Limit <- MCLimit
    MaxChunks <- MCMaxChunks
    Null = Null
INVARIANTS
    ResultIsTrue
PROPERTIES
    QuietAfterStop
    CommandEnds
CHECK_DEADLOCK FALSE
