SPECIFICATION Spec
CONSTANTS
    Calls = {c1, c2}
    Horizon = 3
    FirstHead = 1
    ChunkSize = 2
    MaxEvents <- OneOfEach
CONSTRAINT AloneOrOverlapping
SYMMETRY Symmetry
INVARIANTS
    TypeOK
    NoGapWithoutFailure
    OneTaskPerBlock
    MessagesFollowRows
PROPERTY StateNeverGoesBack
CHECK_DEADLOCK FALSE
