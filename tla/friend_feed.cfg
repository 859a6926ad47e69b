SPECIFICATION FeedSpec
CONSTANTS
    User = {a, b}
    Request = {r1, r2}
    Handler = {h1, h2}
    NoUser = NoUser
    None = None
    MaxCrashes = 1
    EventId <- Events5
    Worker = {w1}
    NoEvent = NoEvent
    MaxFaults = 0
SYMMETRY Symmetry
INVARIANTS
    TypeOK
    AnnouncedOnce
    SerialConsistency
    GateFollowsFriendship
PROPERTY
    ImplementsBefriending
CHECK_DEADLOCK FALSE
