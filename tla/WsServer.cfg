SPECIFICATION FairSpec
CONSTANTS
    Clients = {c1}
    Channels = {"vr", "robot"}
    QueueSize = 2
    MaxFrames = 2
    MaxControl = 1
    MaxRequests = 3
INVARIANTS ControlNotCrowdedOut LateFramesBounded
PROPERTIES NeverBackwards TakenFrameDelivered
CHECK_DEADLOCK FALSE
