\* One worker, a peer that pipelines and one that waits for each response; neither is timed out.
SPECIFICATION FairSpec
CONSTANTS
    k1 = k1  k2 = k2  a1 = a1  a2 = a2  w1 = w1  w2 = w2
    Conns <- TwoConns
    Addrs <- TwoAddrs
    Fds <- TwoFds
    Workers <- OneWorker
    Pieces = 1
    Requests = 2
    Incarnations = 1
    QueueCap = 2
    PipeCap = 2
    PipeRead = 2
    ClientLimit = 0
    Pipelining <- FirstConn
    Hooks <- OkClose
    Greets <- Silent
    Faults = FALSE
    Timeouts = FALSE
    MortalWorkers <- Nobody
    Nil = Nil
INVARIANTS CloseFollows InOrder
PROPERTY Answered
CHECK_DEADLOCK FALSE
