SPECIFICATION FairSpec
CONSTANTS
    INF = 10
    Router <- R3
    Cost <- Line
    UPDATES <- LinkUpdates
    CRASHES = {3}
    UNRELIABLE <- EndLossy
    MaxInFlight <- OneEachWay
INVARIANTS
    SumsFit
    FirstLinkIntact
PROPERTIES
    Converges
