\* Four hosts, at most three at a time; a name occurs twice; any of them may hang.
CONSTANTS
    h1 = h1
    h2 = h2
    h3 = h3
    Hosts <- FourHosts
    Values = {v}
    Errors = {e}
    None = None
    MaxCap = 3
SPECIFICATION FairSpec
INVARIANTS
    CapConserved
PROPERTIES
    KeepsPromise
    OthersAnswer
    CallerReturns
CHECK_DEADLOCK FALSE
