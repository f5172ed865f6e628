SPECIFICATION FairSpec
CONSTANTS
    MaxGen = 2
    MaxPipe = 1
    Reported = {"READY"}
    Stoppers = {"rpc"}
    Teleop = {"RUNNING"}
INVARIANT StaleWritesBounded
PROPERTY ExitNoticed
CHECK_DEADLOCK FALSE
