\* Children crash, fail to initialise, and cannot be forked; signals come at any time.
SPECIFICATION Spec
CONSTANTS
    WorkerNum = 2
    InitMayFail = TRUE
    Strangers = TRUE
    MaxCrashes = 1
    MaxForkFails = 1
INVARIANTS TypeOK LeavesNobody KeepsTrack
PROPERTY FailedStaysDown
CHECK_DEADLOCK FALSE
