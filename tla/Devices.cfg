SPECIFICATION MCSpec
CONSTANTS
    Cameras = {"cam"}
    Hands = {"hand"}
    MaxStarts = 2
    MaxChanges = 2
    MaxVisits = 2
    Kinds = {"isolated", "realsense", "opencv", "uvc", "isaacsim"}
    Streams = {"zmq", "webrtc"}
    MaxFaults = 2
    MaxSequence = 2
    QueueLimit = 2
    HandKinds = {"brainco_hand", "brainco_ctrl", "inspire_dfx", "inspire_ftp", "dex3", "dex1"}
    MaxHandFrames = 2
    MaxHandFaults = 1
INVARIANT StatusFollowsStream
PROPERTIES ChangesReported OneCaptureInOrder CameraRecovers CloseEndsCommands LastPoseCommanded
CHECK_DEADLOCK FALSE
