SPECIFICATION Spec
CONSTANTS
    Wanted <- MCWanted
    ProductOf <- MCProductOf
    Products <- MCProducts
    IdentityOf <- MCIdentity
    Adapters = {"zia", "zpa"}
    Concurrencies = {1, 2}
    Answers <- MCAnswers
    Leftovers <- MCLeftovers
    MaxRuns = 1
    Null = Null
INVARIANTS
    EveryItemHasItsOutcome
CHECK_DEADLOCK FALSE
