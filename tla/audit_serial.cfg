CONSTANTS
    c1 = c1
    c2 = c2
    c3 = c3
    c4 = c4
    Calls <- FourCalls
    MaxInstances = 1
    MaxFailures = 1
SPECIFICATION Spec
INVARIANTS
    TypeOK
    SerialInv
    ChainIntact
    EveryQueryRecorded
    LossIsEvident
    TamperEvident
PROPERTY ImplementsAuditLog
CHECK_DEADLOCK FALSE
