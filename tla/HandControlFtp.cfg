SPECIFICATION HandSpec
CONSTANTS
    HandKinds = {"inspire_ftp"}
    MaxHandFrames = 2
    MaxHandFaults = 0
PROPERTY SendsCommands
CHECK_DEADLOCK FALSE
