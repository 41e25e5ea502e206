CONSTANTS
    Files = {1, 2}
    RrdFiles = {1}
    Stamps = {1, 2}
    UpdateArgs <- One
    Conns = {c1}
    QueueThreads = {q1}
    WriteInterval = 1
    FlushInterval = 1
    WriteJitter = 0
    MaxLag = 0
    JournalDir = TRUE
    JournalMax = 1
    MaxJournalFailures = 1
    ConfigFlush = FALSE
    Commands = {"update", "forget"}
    StaleClients = FALSE
    Clock = TRUE
    Signals = {"INT"}
    MaxSignals = 1
    MaxCrashes = 0
    MaxStarts = 1
    MaxJournalled = 2
    LoseBuffered = TRUE
    CanFail = FALSE
SPECIFICATION Spec
INVARIANTS
    Recoverable
CHECK_DEADLOCK FALSE
