CONSTANTS
    Builds = {"mmap", "legacy", "copy"}
    Procs = {p1, p2}
    Archives = {1, 2}
    RowCnt = 2
    MaxTime = 6
    MaxJump = 3
    MaxArgs = 2
    Scenarios = {{"kill"}, {"read"}}
SPECIFICATION Spec
SYMMETRY Updaters
INVARIANTS ArchivesRight FetchShift
PROPERTY TimeForward
CHECK_DEADLOCK FALSE
