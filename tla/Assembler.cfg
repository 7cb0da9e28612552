SPECIFICATION Spec
CONSTANTS
    HdrLen = 2
    AsmSize = 6
    RecvSize = 3
    MaxLen = 7
    MaxMsgs = 3
INVARIANTS
    NothingPending
    NoByteLost
    SmallNeverOverflows
PROPERTIES
    ImplementsDelivery
CHECK_DEADLOCK FALSE
