\* A client that takes the address and descriptor of one that timed out.
SPECIFICATION Spec
CONSTANTS
    k1 = k1  k2 = k2  a1 = a1  a2 = a2  w1 = w1  w2 = w2
    Conns <- TwoConns
    Addrs <- OneAddr
    Fds <- OneFd
    Workers <- OneWorker
    Pieces = 1
    Requests = 1
    Incarnations = 1
    QueueCap = 2
    PipeCap = 1
    PipeRead = 1
    ClientLimit = 0
    Pipelining <- Nobody
    Hooks <- OkOnly
    Greets <- Silent
    Faults = FALSE
    Timeouts = TRUE
    MortalWorkers <- Nobody
    Nil = Nil
INVARIANT RightClient
CHECK_DEADLOCK FALSE
