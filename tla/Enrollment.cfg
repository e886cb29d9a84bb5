SPECIFICATION EnSpec
CONSTANTS
    None = None
    MaxEnrollments = 2
    MaxPairings = 2
    MaxInstalls = 1
    MaxFaults = 1
INVARIANTS EnTypeOK UsersInstallKept NoDeadInstall NoOrphanEntry UnchangedMeansDone
CHECK_DEADLOCK FALSE
