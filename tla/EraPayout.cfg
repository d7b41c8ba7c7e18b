SPECIFICATION DetailedSpec
CONSTANTS
    EntityIds = {1, 2}
    KnownStarts = {}
    Consumers = {c1, c2}
    NoMessage = NoMessage
    LockLimit = 1
    MaxRows = 2
    MaxRowsPerId = 1
    MaxCopies = 1
    MaxManual = 0
    MaxFaults <- OneOfEach
    val1 = val1
    val2 = val2
    nom1 = nom1
    nom2 = nom2
    Session <- Sessions
    Exposure <- Exposures
    Points <- SomePoints
    Payee <- Payees
    Concurrent = 2
    ChunkSize = 1
SYMMETRY Symmetry
CONSTRAINT AtMostOneFault
INVARIANTS
    TypeOK
    PayoutTypeOK
    EraStoredWithItsTask
    StakeIsTheExposure
    RewardsRepeatStake
PROPERTIES
    SkippedOnlyTooEarly
    ImplementsEraRecords
CHECK_DEADLOCK FALSE
