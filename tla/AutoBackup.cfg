SPECIFICATION BackupSpec
CONSTANTS
    Node = {n1, n2}
    MaxLog = 2
    MaxLeaderMoves = 2
    MaxRestarts = 1
    MaxFailures = 1
    NumRetries = 1
INVARIANT StoredIsWhole
PROPERTY LastChangeIsStored
CHECK_DEADLOCK FALSE
