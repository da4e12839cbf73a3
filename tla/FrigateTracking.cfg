CONSTANTS
    Objects = {person, car}
    None = None
    InOrder = TRUE
    Timeouts = FALSE
    MaxEvents = 4
    MaxMessages = 6
    MaxDrops = 0
SPECIFICATION Spec
CHECK_DEADLOCK FALSE
SYMMETRY ObjectSymmetry
INVARIANT TypeOK
INVARIANT OwnEvents
INVARIANT ObjectsFollowed
INVARIANT DeferredStopHappens
