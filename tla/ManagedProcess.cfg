SPECIFICATION FairSpec
CONSTANTS
    MaxRestarts = 1
    SignalsFail = TRUE
    MaxSpawn = 3
    MaxGroups = 1
INVARIANT NoForgottenProcess
PROPERTIES StopSticks RestartsThrottled StopKillsGroup CrashHandled
CHECK_DEADLOCK FALSE
