SPECIFICATION ClientSpec
CONSTANTS
    Readers = {"pump"}
    MaxPackets = 2
INVARIANT ReceiverStays
CHECK_DEADLOCK FALSE
