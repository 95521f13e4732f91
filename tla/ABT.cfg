SPECIFICATION FairSpec
CONSTANTS
    MaxMsgs = 4
    LETTERS = 26
    MaxInFlight = 3
    Corrupt = Corrupt
INVARIANTS
    HeadTracksReceiver
    NoSilentStall
PROPERTIES
    ImplementsDelivery
    EventuallyAcknowledged
\* Layer 5 stops after MaxMsgs messages and the event list empties.
CHECK_DEADLOCK FALSE
