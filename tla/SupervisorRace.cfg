CONSTANTS
    Callers = {h1, h2}
    None = None
    Requests = {"start", "stop", "restart", "delete"}
    AutoRestart = TRUE
    MaxAttempts = 1
    SpawnFails = TRUE
    MaxRequests = 3
    MaxCrashes = 2
SPECIFICATION Spec
CHECK_DEADLOCK FALSE
SYMMETRY CallerSymmetry
INVARIANT StopHaltsRestart
INVARIANT RestartingIsPending
