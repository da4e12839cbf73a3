CONSTANTS
    Streams = {v1, v2}
    None = None
    MaxRestarts = 1
    Window = 2
SPECIFICATION FairSpec
CHECK_DEADLOCK FALSE
INVARIANT TypeOK
INVARIANT NoOrphans
INVARIANT StoppedStaysStopped
INVARIANT RestartsAreLimited
PROPERTY DeadStreamsRestart
