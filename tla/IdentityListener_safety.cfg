SPECIFICATION FairSpec
CONSTANTS
    a = a
    Accounts = {a}
    Blocks = {1, 2, 3}
    EventsOf <- EventsOfBlock
    Signers <- SignersOfBlock
    Writers = {w1, w2}
    NoBlock = NoBlock
    ChunkSize = 2
    MaxRows = 4
    MaxFaults <- OneOfEach
INVARIANTS
    TypeOK
    OnlyLateRowsPassed
    AccountsFollowEvents
PROPERTY EveryEventHandled
CHECK_DEADLOCK FALSE
