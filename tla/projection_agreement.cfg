SPECIFICATION Spec
CONSTANTS
    EventId <- Events3
    Worker = {w1, w2}
    NoEvent = NoEvent
    MaxFaults = 0
INVARIANT
    Agreement
CHECK_DEADLOCK FALSE
