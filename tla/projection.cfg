SPECIFICATION FairSpec
CONSTANTS
    EventId <- Events3
    Worker = {w1, w2}
    NoEvent = NoEvent
    MaxFaults = 2
INVARIANTS
    ConvergesToNewest
    SerialAgreement
PROPERTIES
    ImplementsLatestEvent
    EventuallyFolded
CHECK_DEADLOCK FALSE
