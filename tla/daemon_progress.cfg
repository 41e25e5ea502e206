CONSTANTS
    Files = {1}
    RrdFiles = {1}
    Stamps = {1, 2}
    UpdateArgs <- One
    Conns = {c1}
    QueueThreads = {q1}
    WriteInterval = 1
    FlushInterval = 1
    WriteJitter = 1
    MaxLag = 0
    JournalDir = FALSE
    JournalMax = 0
    MaxJournalFailures = 0
    ConfigFlush = TRUE
    Commands = {"update", "flush", "flushall", "forget"}
    StaleClients = FALSE
    Clock = TRUE
    Signals = {"INT"}
    MaxSignals = 1
    MaxCrashes = 0
    MaxStarts = 0
    MaxJournalled = 0
    LoseBuffered = FALSE
    CanFail = TRUE
SPECIFICATION FairSpec
PROPERTIES
    FlushAnswered
    QueueDrains
    SignalEndsDaemon
CHECK_DEADLOCK FALSE
