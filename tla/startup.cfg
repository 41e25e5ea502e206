SPECIFICATION Spec
CONSTANTS
    Modes = {"options", "daemons"}
    Options <- MCOptions
    MaxOptions = 4
    Procs = {1, 2, 3}
    Overlap = FALSE
    Kills = TRUE
INVARIANTS SocketsRestricted DaemonFound
PROPERTIES RefusedForReason
CHECK_DEADLOCK FALSE
