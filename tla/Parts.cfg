SPECIFICATION PartsSpec
CONSTANTS
    Pids = {1, 2, 3}
    Inodes = {1, 2, 3}
    Crashes = 1
    Faults = TRUE
    None = None
    NULL = NULL
    Values = {"u", "v"}
    log_number = 3
    LogFaults = 1
    OneSize = 1
    OneLines = 16
    OneInodes = {1, 2, 3, 4, 5}
    Writers = {1, 2}
    ManySize = 0
    ManyLines = 4
    ManyInodes = {1, 2, 3, 4, 5, 6, 7}
    Nodes = {1, 2, 3}
    Keys <- FourKeys
    hash_func <- Colliding
    HASH_INIT_SLOTS = 1
    TableSlots = 4
    InitSlots = 2
    VecSlots = 8
    VecCount = 4
    W = 16
    Chars <- SomeChars
    MaxLen = 4
    MaxRoom = 6
    Pieces <- SomePieces
    Sets <- SomeSets
    Seps <- SomeSeps
    Period = 2
    Delays = {0, 1}
    MaxId = 3
    MaxTime = 5
INVARIANTS
    NamesTheDaemon OnlyOverlapMisfires KeepsLatest LinesInOrder Agrees VisitsAll
    IsTheMap IsAnArray IsAString ReadsRight PassIsFair
CHECK_DEADLOCK FALSE
