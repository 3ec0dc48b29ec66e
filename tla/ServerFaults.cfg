\* Everything may fail: peers, hooks, workers, the connection process.
SPECIFICATION Spec
CONSTANTS
    k1 = k1  k2 = k2  a1 = a1  a2 = a2  w1 = w1  w2 = w2
    Conns <- TwoConns
    Addrs <- TwoAddrs
    Fds <- TwoFds
    Workers <- TwoWorkers
    Pieces = 2
    Requests = 1
    Incarnations = 2
    QueueCap = 1
    PipeCap = 1
    PipeRead = 1
    ClientLimit = 1
    Pipelining <- TwoConns
    Hooks <- AnyResult
    Greets <- Maybe
    Faults = TRUE
    Timeouts = TRUE
    MortalWorkers <- TwoWorkers
    Nil = Nil
INVARIANTS TypeOK NoDangling NoLostWakeup OnlyTwinsMixedUp NoDuplicates
CHECK_DEADLOCK FALSE
