SPECIFICATION Spec
CONSTANTS
    p1 = p1
    p2 = p2
    Apps = {a1}
    Writes = {w1}
    Inodes <- MCInodes
    MaxInstances = 2
    Procs <- MCProcs
    KeepCount = 1
    MaxClock = 2
    MaxFiles = 2
    MaxMoves = 1
    MaxCommands = 2
    MaxDeaths = 1
CHECK_DEADLOCK FALSE
SYMMETRY MCSymmetry
INVARIANTS
    NothingLost
    OwnWalOnly
    RecoveryPointKept
    HealthyBackupIsNotOfReplaced
