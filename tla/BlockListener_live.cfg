SPECIFICATION FairSpec
CONSTANTS
    Calls = {c1, c2}
    Horizon = 3
    FirstHead = 1
    ChunkSize = 2
    MaxEvents <- NoFailure
PROPERTY EveryBlockGetsTask
CHECK_DEADLOCK FALSE
