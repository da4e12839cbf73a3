CONSTANTS
    MaxConfigs = 3
    Cameras = {c1, c2}
    NoCamera = NoCamera
SPECIFICATION FairSpec
CHECK_DEADLOCK FALSE
INVARIANT TypeOK
INVARIANT OneRelay
PROPERTY RelayCatchesUp
PROPERTY EveryCameraBoots
