SPECIFICATION Spec
CONSTANTS
    DataSources <- MCDataSources
    Archives <- MCArchives
    PdpStep = 2
    Inputs <- MCInputs
    Wishes <- MCWishes
    StartTimes = {3}
    Random = {1}
    MaxTime = 12
    MaxUpdates = 3
    MaxResizes = 1
    MaxResize = 1
    W32 = 16
    W64 = 64
INVARIANTS PdpPrepSound RowsSound FetchSound
PROPERTIES PdpIsMean KeepsNewestRows
CHECK_DEADLOCK FALSE
