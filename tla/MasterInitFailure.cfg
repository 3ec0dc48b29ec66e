\* A failed handle_init while another worker has just been forked.
SPECIFICATION FairSpec
CONSTANTS
    WorkerNum = 2
    InitMayFail = TRUE
    Strangers = FALSE
    MaxCrashes = 0
    MaxForkFails = 0
PROPERTY InitFailureEnds
CHECK_DEADLOCK FALSE
