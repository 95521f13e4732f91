SPECIFICATION FairSpec
CONSTANTS
    MaxMsgs = 4
    LETTERS = 26
    MaxInFlight = 2
    Corrupt = Corrupt
    window_size = 3
INVARIANTS
    HeadTracksReceiver
    NothingHeldBack
    NoSilentStall
    IInv
PROPERTIES
    HeadMonotone
    ImplementsDelivery
    EventuallyAcknowledged
\* Layer 5 stops after MaxMsgs messages and the event list empties.
CHECK_DEADLOCK FALSE
