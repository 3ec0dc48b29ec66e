\* The comment of shmq.c:141 where a block may end exactly at Size.
SPECIFICATION Spec
CONSTANTS
    p1 = p1  p2 = p2  c1 = c1  c2 = c2  short = short  long = long
    Producers <- OneProducer
    Consumers <- TwoConsumers
    Msgs <- ShortLong
    MsgLen <- Len23
    Start = 1
    Size = 7
    PushLock = FALSE
    PushWait = FALSE
    PopLock = TRUE
    PopWait = TRUE
    MayDie <- Nobody
    MayStop <- Nobody
    NoMsg = NoMsg
    NoProc = NoProc
INVARIANT HeadNotAtStart
