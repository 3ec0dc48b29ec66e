\* send_queue: two workers push and wait holding the lock, the connection
\* process pops.  Blocks are at most half of the ring.
SPECIFICATION FairSpec
CONSTANTS
    p1 = p1  p2 = p2  c1 = c1  c2 = c2  short = short  long = long
    Producers <- TwoProducers
    Consumers <- OneConsumer
    Msgs <- ShortLong
    MsgLen <- Len24
    Start = 1
    Size = 10
    PushLock = TRUE
    PushWait = TRUE
    PopLock = FALSE
    PopWait = FALSE
    MayDie <- Nobody
    MayStop <- Nobody
    NoMsg = NoMsg
    NoProc = NoProc
PROPERTIES IsFifo PushesEnd
