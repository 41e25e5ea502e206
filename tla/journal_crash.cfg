CONSTANTS
    Files = {1}
    RrdFiles = {1}
    Stamps = {1, 2}
    UpdateArgs <- One
    Conns = {c1}
    QueueThreads = {q1, q2}
    WriteInterval = 1
    FlushInterval = 1
    WriteJitter = 0
    MaxLag = 0
    JournalDir = TRUE
    JournalMax = 1
    MaxJournalFailures = 0
    ConfigFlush = FALSE
    Commands = {"update", "flush", "forget"}
    StaleClients = FALSE
    Clock = TRUE
    Signals = {}
    MaxSignals = 0
    MaxCrashes = 1
    MaxStarts = 1
    MaxJournalled = 2
    LoseBuffered = TRUE
    CanFail = FALSE
SPECIFICATION Spec
SYMMETRY Threads
INVARIANTS
    Recoverable
CHECK_DEADLOCK FALSE
