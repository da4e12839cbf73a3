CONSTANTS
    Callers = {h1, h2}
    Closer = closer
    None = None
    CallerKind = "http"
    MaxEvents = 2
    MaxDrops = 1
    Backpressure = TRUE
    ForcedReconnects = TRUE
    LongEvents = TRUE
SPECIFICATION Spec
CHECK_DEADLOCK FALSE
SYMMETRY CallerSymmetry
PROPERTY StartComesFirst
