CONSTANTS
    Writers = {w1, w2}
    Readers = {r1}
    MaxSnapshots = 3
    MaxIndex = 2
    MaxCrashes = 2
    MaxFaults = 1
    Failing = {"open", "process", "rename", "commit", "unlink",
               "size", "resize", "unset", "reap", "rmdir", "rmdata"}
SPECIFICATION FairSpec
INVARIANTS SnapshotsAreWhole StoreInv
PROPERTIES RefinesAtomic ReadersFreezeStore Available
CHECK_DEADLOCK FALSE
