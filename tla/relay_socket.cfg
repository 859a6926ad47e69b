SPECIFICATION FairSpec
CONSTANTS
    Socket <- Sockets
    MaxFaults = 2
    MaxOnline = 1
    MaxFocus = 1
INVARIANTS
    TypeOK
    OneAttempt
    FocusIsReported
PROPERTIES
    LinkComesBack
CHECK_DEADLOCK FALSE
