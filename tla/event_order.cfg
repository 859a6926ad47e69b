SPECIFICATION Spec
CONSTANTS
    User = {a, b}
    Request = {r1, r2}
    Handler = {h1, h2}
    NoUser = NoUser
    None = None
    MaxCrashes = 0
SYMMETRY Symmetry
INVARIANT
    NewestEventTells
CHECK_DEADLOCK FALSE
