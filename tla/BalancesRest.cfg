SPECIFICATION FairSpec
CONSTANTS
    EntityIds = {0, 1}
    Consumers = {c1}
    NoMessage = NoMessage
    LockLimit = 2
    MaxRows = 3
    MaxRowsPerId = 2
    MaxCopies = 1
    MaxManual = 0
    MaxFaults <- AnyFault
    alice = alice
    bob = bob
    Accounts = {alice, bob}
    Trace <- SmallTrace
    Misread = Misread
    NoBalance = NoBalance
    Calls = {r1}
    Ranges <- Both
    ChunkSize = 1
    MaxIncidents = 1
INVARIANTS
    TypeOK
    BalancesOfTheChain
    ProcessedBlockHasBalances
    RestartSendsAll
PROPERTIES
    RestartEnds
    StoredBlockGetsBalances
CHECK_DEADLOCK FALSE
