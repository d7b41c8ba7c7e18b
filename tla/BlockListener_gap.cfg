SPECIFICATION Spec
CONSTANTS
    Calls = {c1, c2}
    Horizon = 3
    FirstHead = 1
    ChunkSize = 2
    MaxEvents <- OneFailure
SYMMETRY Symmetry
INVARIANT PreloadsAllBlocks
CHECK_DEADLOCK FALSE
