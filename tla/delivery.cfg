SPECIFICATION FairSpec
CONSTANTS
    Conn = {c1, c2}
    Sub <- Subs
    Capacity = 2
    MaxFrames = 2
    MaxFaults = 1
INVARIANTS
    TypeOK
    NothingLost
    OrderedOnce
PROPERTIES
    EveryFrameSettles
CHECK_DEADLOCK FALSE
