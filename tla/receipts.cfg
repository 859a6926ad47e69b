SPECIFICATION Spec
CONSTANTS
    Receipt <- Envelopes
    Worker = {w1, w2}
    NoReceipt = NoReceipt
    MaxFaults = 1
INVARIANTS
    TypeOK
    ReadWithinDelivered
    MarksAreEarned
    NoReceiptLost
PROPERTIES
    MarksNeverRegress
CHECK_DEADLOCK FALSE
