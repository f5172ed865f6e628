SPECIFICATION Spec
CONSTANTS
    MaxRestarts = 1
    SignalsFail = FALSE
    MaxSpawn = 3
    MaxGroups = 1
PROPERTY StoppedMeansStopped
CHECK_DEADLOCK FALSE
