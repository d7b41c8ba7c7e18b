SPECIFICATION Spec
CONSTANTS
    EntityIds = {7}
    Consumers = {c1, c2}
    NoMessage = NoMessage
    LockLimit = 2
    MaxRows = 2
    MaxRowsPerId = 2
    MaxCopies = 1
    MaxManual = 1
    MaxFaults <- CrashAndRedelivery
SYMMETRY Symmetry
INVARIANTS
    TypeOK
    OneExtractionAtATime
    NoLockDeadlock
    ProcessedTaskHasBlock
    FollowUpsLostOnlyByCrash
PROPERTY ImplementsExtraction
CHECK_DEADLOCK FALSE
