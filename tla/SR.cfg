SPECIFICATION FairSpec
CONSTANTS
    MaxMsgs = 4
    LETTERS = 26
    MaxInFlight = 2
    Corrupt = Corrupt
    window_size = 2
INVARIANTS
    ReceivedIsStored
    NeverIgnored
    RetransmissionCovers
    TimerCoversList
    NoSilentStall
PROPERTIES
    ImplementsDelivery
    EventuallyDelivered
\* Layer 5 stops after MaxMsgs messages and the event list empties.
CHECK_DEADLOCK FALSE
