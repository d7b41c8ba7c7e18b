SPECIFICATION Spec
CONSTANTS
    EntityIds = {0, 1}
    KnownStarts = {0}
    Consumers = {c1, c2}
    NoMessage = NoMessage
    LockLimit = 1
    MaxRows = 2
    MaxRowsPerId = 1
    MaxCopies = 1
    MaxManual = 0
    MaxFaults <- NoFault
SYMMETRY Symmetry
INVARIANT ProcessedEraHasRewards
CHECK_DEADLOCK FALSE
