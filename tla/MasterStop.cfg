\* The daemon is told to quit by SIGQUIT, while its children crash.
SPECIFICATION FairSpec
CONSTANTS
    WorkerNum = 2
    InitMayFail = FALSE
    Strangers = FALSE
    MaxCrashes = 1
    MaxForkFails = 0
PROPERTIES StopEnds RunsAgain
CHECK_DEADLOCK FALSE
