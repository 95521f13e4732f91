SPECIFICATION Spec
CONSTANTS
    Commands = {1, 2}
    FreedMemory = {"found"}
    MaxConns = 1
    MaxRequests = 1
INVARIANTS
    AlwaysReady
\* The bounds, CRASH and what ends the process end a run.
CHECK_DEADLOCK FALSE
