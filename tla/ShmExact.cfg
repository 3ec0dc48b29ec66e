\* recv_queue: the connection process pushes, two workers pop, one of them may be
\* told to stop, and any of the three may die.  Blocks of 2 and 3 words in 5 words: a
\* block may end exactly at Size.
SPECIFICATION FairSpec
CONSTANTS
    p1 = p1  p2 = p2  c1 = c1  c2 = c2  short = short  long = long
    Producers <- OneProducer
    Consumers <- TwoConsumers
    Msgs <- ShortLong
    MsgLen <- Len23
    Start = 1
    Size = 6
    PushLock = FALSE
    PushWait = FALSE
    PopLock = TRUE
    PopWait = TRUE
    MayDie <- Everyone
    MayStop <- OneConsumer
    NoMsg = NoMsg
    NoProc = NoProc
INVARIANTS TypeOK IInv OneInside SoundUnlessStale
PROPERTY BlocksArePopped
