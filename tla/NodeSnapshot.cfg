CONSTANTS
    Writers = {"take", "install"}
    Readers = {"fsm"}
    MaxSnapshots = 3
    MaxIndex = 3
    MaxLog = 3
    MaxCrashes = 1
    MaxFaults = 1
    Failing = {"rename", "commit", "move", "replay", "unlink", "resize", "unset", "reap"}
    Troubles = {{"refused", "persist", "transfer", "crash"}, {"busy", "io"}}
SPECIFICATION NodeSpec
INVARIANTS LiveIsExact SnapshotIsExact NothingMissing
CHECK_DEADLOCK FALSE
