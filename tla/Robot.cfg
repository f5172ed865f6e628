SPECIFICATION MCSpec
CONSTANTS
    MaxEpisodes = 2
    MaxItems = 3
    MaxFaults = 1
    Robots = {"H1", "G1_23"}
    Watched = {1, 5}
    Positions = {0, 2}
    SlowStep = 1
    FastStep = 2
    MaxTargets = 1
    MaxAttempts = 1
INVARIANTS EpisodeIsWhole NoOvershoot
CHECK_DEADLOCK FALSE
