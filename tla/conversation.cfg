SPECIFICATION Spec
CONSTANTS
    MaxRows = 2
    MaxMine = 1
    Page = 1
    MaxFaults = 1
INVARIANTS
    TypeOK
    ShownOnce
    NothingOldMissed
    MarksKeepUp
CHECK_DEADLOCK FALSE
