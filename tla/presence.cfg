SPECIFICATION Spec
CONSTANTS
    Conn = {c1, c2}
    Sub = {s1, s2}
    NoSub = NoSub
    MaxFocus = 2
    MaxFaults = 1
SYMMETRY Symmetry
INVARIANTS
    TypeOK
    WatcherConverges
CHECK_DEADLOCK FALSE
