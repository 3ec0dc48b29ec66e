\* Two whole requests that arrive together.
SPECIFICATION FairSpec
CONSTANTS
    k1 = k1  k2 = k2  a1 = a1  a2 = a2  w1 = w1  w2 = w2
    Conns <- OneConn
    Addrs <- OneAddr
    Fds <- OneFd
    Workers <- OneWorker
    Pieces = 1
    Requests = 2
    Incarnations = 1
    QueueCap = 2
    PipeCap = 1
    PipeRead = 1
    ClientLimit = 0
    Pipelining <- OneConn
    Hooks <- OkOnly
    Greets <- Silent
    Faults = FALSE
    Timeouts = FALSE
    MortalWorkers <- Nobody
    Nil = Nil
PROPERTY WholeIsDispatched
CHECK_DEADLOCK FALSE
