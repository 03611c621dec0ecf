SPECIFICATION Spec
CONSTANTS
    A = A
    B = B
    NoHost = NoHost
    MaxEntries = 2
    MaxRoots = 1
    MaxChanges = 2
    MaxFailures = 2
    Configs <- MCConfigs
    Offers <- MCOffers
    Fallback <- MCFallback
CHECK_DEADLOCK FALSE
INVARIANTS NamesMatch
