SPECIFICATION Spec
CONSTANTS
    Wanted <- MCWanted
    ProductOf <- MCProductOf
    Products <- MCProducts
    IdentityOf <- MCIdentity
    Adapters = {"zia", "zpa"}
    Concurrencies = {1, 2, 3}
    Answers <- MCAnswers
    Leftovers <- MCLeftovers
    MaxRuns = 1
    Null = Null
INVARIANTS
    ReportIsOrderFree
    NoProductStarves
    FilesTellTheRun
CHECK_DEADLOCK FALSE
