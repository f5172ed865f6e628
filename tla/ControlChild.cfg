SPECIFICATION FairSpec
CONSTANT MaxCommands = 2
INVARIANTS StopNeverLost NoMotionBeforeStart PauseBoundsMotion LastReport
PROPERTIES ImplementsContract StopEndsProcess StartNotDropped OrphanNeverSetsUp
CHECK_DEADLOCK FALSE
