SPECIFICATION FairSpec
CONSTANTS
    a = a
    b = b
    c = c
    x = x
    y = y
    Accounts = {a, b, c}
    Infos = {x, y}
    Null = Null
    Absent = Absent
    Extrinsics <- SomeExtrinsics
    MaxDeep = 2
    ChunkSize = 2
    MaxExtrinsics = 4
    MaxCrashes = 1
INVARIANTS
    TypeOK
    ParentAsSaid
PROPERTIES
    ChildrenFollow
    SavingEnds
CHECK_DEADLOCK FALSE
