CONSTANTS
    Callers = {h}
    None = None
    Requests = {"stop", "restart"}
    AutoRestart = TRUE
    MaxAttempts = 0
    SpawnFails = FALSE
    MaxRequests = 4
    MaxCrashes = 2
SPECIFICATION FairSpec
CHECK_DEADLOCK FALSE
INVARIANT TypeOK
INVARIANT Supervised
PROPERTY ResetIsEarned
PROPERTY CrashIsAnswered
PROPERTY StopCompletes
