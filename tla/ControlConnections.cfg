SPECIFICATION FairSpec
CONSTANTS
    Commands = {1, 2, 4}
    FreedMemory = {"found", "missing", "unreadable"}
    MaxConns = 2
    MaxRequests = 2
INVARIANTS
    Watched
    KnownWhileWhole
    PoliteReady
PROPERTIES
    ImplementsControl
    Answered
\* The bounds, CRASH and what ends the process end a run.
CHECK_DEADLOCK FALSE
