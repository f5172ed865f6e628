SPECIFICATION FairSpec
CONSTANTS
    MaxRequests = 5
    MaxPauses = 1
    MaxAttempts = 1
    MaxWeight = 1
    MotionMode = TRUE
INVARIANTS StaleTargetsBounded HandsOverAtHome
PROPERTIES ImplementsLatestValue RequestIsTaken CleanUpEnds
CHECK_DEADLOCK FALSE
