SPECIFICATION Spec
CONSTANTS
    Client = {1, 2}
    Long = {1}
    Overlaid <- Beginnings
    Counted = {2}
    MaxConns = 2
    MaxCommands = 2
INVARIANTS
    SortedByPort
    RelayedFaithfully
    CountedOnce
\* The bounds end a run.
CHECK_DEADLOCK FALSE
