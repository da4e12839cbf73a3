CONSTANTS
    Objects = {person}
    None = None
    InOrder = FALSE
    Timeouts = TRUE
    MaxEvents = 4
    MaxMessages = 4
    MaxDrops = 1
SPECIFICATION FairSpec
CHECK_DEADLOCK FALSE
INVARIANT MapIsLive
PROPERTY EventsEnd
PROPERTY MessagesAreHandled
