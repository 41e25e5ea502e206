CONSTANTS
    Files = {1}
    RrdFiles = {1}
    Stamps = {1, 2, 3}
    UpdateArgs <- Two
    Conns = {c1, c2}
    QueueThreads = {q1}
    WriteInterval = 2
    FlushInterval = 1
    WriteJitter = 1
    MaxLag = 1
    JournalDir = FALSE
    JournalMax = 0
    MaxJournalFailures = 0
    ConfigFlush = TRUE
    Commands = {"update", "flush", "flushall", "forget"}
    StaleClients = FALSE
    Clock = TRUE
    Signals = {"INT"}
    MaxSignals = 1
    MaxCrashes = 0
    MaxStarts = 0
    MaxJournalled = 0
    LoseBuffered = FALSE
    CanFail = FALSE
SPECIFICATION Spec
SYMMETRY Threads
INVARIANTS
    TypeOK
    QueueSound
    ItemsSound
    StalenessBounded
    NothingLost
    WaiterCovered
    WaitedItemStays
    NoRequestDuringCleanup
    LockSound
CHECK_DEADLOCK FALSE
