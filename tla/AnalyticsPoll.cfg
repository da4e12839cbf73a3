CONSTANTS
    Callers = {loop1, loop2}
    Closer = closer
    None = None
    CallerKind = "poll"
    MaxEvents = 4
    MaxDrops = 2
    Backpressure = FALSE
    ForcedReconnects = FALSE
    LongEvents = FALSE
SPECIFICATION FairSpec
CHECK_DEADLOCK FALSE
INVARIANT TypeOK
INVARIANT CloseResets
PROPERTY LateStopSpares
PROPERTY FeedSpec
PROPERTY StopEndsEvent
