SPECIFICATION MCSpec
CONSTANTS
    Readers = {"pump"}
    MaxPackets = 2
    MaxGenerations = 2
    MaxEvents = 2
    MaxSamples = 3
    DisplayModes = {"zmq", "webrtc", "pass_through"}
    MaxImages = 2
    MaxVisits = 2
PROPERTIES DisplayInOrder DisplayFollows VrInOrder NewestVrArrives LastImageSeen
CHECK_DEADLOCK FALSE
