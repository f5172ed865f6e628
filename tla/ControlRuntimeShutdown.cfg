SPECIFICATION Spec
CONSTANTS
    MaxGen = 2
    MaxPipe = 1
    Reported = {"RUNNING", "STOPPED"}
    Stoppers = {"rpc", "shutdown"}
    Teleop = {}
INVARIANTS OneControlProcess LiveIsSupervised
PROPERTY StopMeansStopped
CHECK_DEADLOCK FALSE
