SPECIFICATION Spec
CONSTANTS
    INF = 65535
    Router <- R3
    Cost <- Line
    UPDATES = {}
    CRASHES = {3}
    UNRELIABLE <- NoPairs
    MaxInFlight <- OneEachWay
INVARIANTS
    FirstLink
