SPECIFICATION Spec
CONSTANTS
    INF = 65535
    Router <- R4
    Cost <- Kite
    UPDATES <- FarUpdates
    CRASHES = {}
    UNRELIABLE <- NoPairs
    MaxInFlight <- KiteRoom
INVARIANTS
    NeverBelow
PROPERTIES
    OnlyImproves
CONSTRAINT
    Counted
