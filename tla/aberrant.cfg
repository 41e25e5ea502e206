CONSTANTS
    Files <- MCAberrantFiles
    RowCnt = 2
    Observed <- MCObserved
    Elapsed = {1, 2, 3}
    Lengths = {1, 2}
    Thresholds = {1, 2}
    MaxUpdates = 4
SPECIFICATION Spec
INVARIANTS OrderIrrelevant FailureWindow
CHECK_DEADLOCK FALSE
