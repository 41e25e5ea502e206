CONSTANTS
    Files = {1}
    RrdFiles = {1}
    Stamps = {1, 2}
    UpdateArgs <- One
    Conns = {c1, c2}
    QueueThreads = {q1}
    WriteInterval = 1
    FlushInterval = 1
    WriteJitter = 1
    MaxLag = 0
    JournalDir = FALSE
    JournalMax = 0
    MaxJournalFailures = 0
    ConfigFlush = TRUE
    Commands = {"update", "flush"}
    StaleClients = FALSE
    Clock = FALSE
    Signals = {}
    MaxSignals = 0
    MaxCrashes = 0
    MaxStarts = 0
    MaxJournalled = 0
    LoseBuffered = FALSE
    CanFail = FALSE
SPECIFICATION Spec
INVARIANTS
    FlushMeansWritten
CHECK_DEADLOCK FALSE
