SPECIFICATION FairSpec
CONSTANTS
    w1 = w1
    w2 = w2
    w3 = w3
    server = server
    tool = tool
    movies = movies
    later = later
    k1 = k1
    k2 = k2
    Sets = {movies, later}
    Keys = {k1, k2}
    Writers = {w1, w2}
    Processes = {server, tool}
    ProcessOf <- OwnProcess
    Ops <- EveryKind
    Files <- Startup
    Mounts = {"dir", "file"}
    Faults = {"dir"}
    LockStale = 2
    LockWait = 1
    SlowHolders = FALSE
    NoOp = NoOp
    NoText = NoText
INVARIANTS
    OneHolder
    KeysAreUnique
PROPERTIES
    OperationsAreAtomic
    EditsKeepTheRest
    CallsReturn
CHECK_DEADLOCK FALSE
