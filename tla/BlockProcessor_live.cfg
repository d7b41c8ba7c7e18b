SPECIFICATION FairSpec
CONSTANTS
    EntityIds = {7}
    Consumers = {c1}
    NoMessage = NoMessage
    LockLimit = 2
    MaxRows = 2
    MaxRowsPerId = 2
    MaxCopies = 1
    MaxManual = 0
    MaxFaults <- OneOfEach
PROPERTY EveryTaskExtracted
CHECK_DEADLOCK FALSE
