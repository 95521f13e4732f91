SPECIFICATION Spec
CONSTANTS
    MaxMsgs = 2
    LETTERS = 26
    MaxInFlight = 2
    Corrupt = Corrupt
    window_size = 2
INVARIANTS
    NoCrash
\* Layer 5 stops after MaxMsgs messages and the event list empties.
CHECK_DEADLOCK FALSE
