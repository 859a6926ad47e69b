SPECIFICATION ChatFairSpec
CONSTANTS
    EventId <- Events2
    Worker = {w1}
    NoEvent = NoEvent
    MaxFaults = 0
    Key = {k1}
    SendWorker = {s1}
    NoKey = NoKey
    MaxCopies <- Copies
    MaxSendFaults = 0
PROPERTY
    RetryReturnsOriginal
CHECK_DEADLOCK FALSE
