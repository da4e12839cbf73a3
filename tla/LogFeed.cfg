CONSTANTS
    Viewers = {v1, v2}
    Streams = {stdout, stderr}
    BufferSize = 2
    MaxLines = 4
SPECIFICATION Spec
CHECK_DEADLOCK FALSE
SYMMETRY FeedSymmetry
INVARIANT TypeOK
INVARIANT NothingMissed
