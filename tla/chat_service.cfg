SPECIFICATION ChatFairSpec
CONSTANTS
    EventId <- Events2
    Worker = {w1}
    NoEvent = NoEvent
    MaxFaults = 0
    Key = {k1}
    SendWorker = {s1, s2}
    NoKey = NoKey
    MaxCopies <- Copies
    MaxSendFaults = 1
INVARIANTS
    ChatTypeOK
    FramesMatchRows
    ClosedBarsSends
    EverySendAnswered
PROPERTIES
    NoThreadWithoutFriendship
    OnlyAcceptReopens
    EverySendHandled
CHECK_DEADLOCK FALSE
