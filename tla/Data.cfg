SPECIFICATION DataSpec
CONSTANTS
    Node = {n1, n2}
    Requests <- MCRequests
    MaxLog = 3
    MaxRestarts = 1
    LastIndex = 3
    MaxCrashes = 2
    Pages = 2
    MaxFrames = 5
    MaxEntries = 4
    MaxBootCrashes = 1
    Streams = {"a", "b"}
    FileLen <- MCFileLen
    ChunkSize = 2
    Replicas = {n1, n2}
    MaxChunkLog = 4
    MaxRestores = 1
SYMMETRY Nodes
INVARIANTS ReplicasAgree OpenedIsExact CompactedIsExact BootIsAsLoaded ChunkedLoadIsExact
PROPERTY FailedTransactionLeavesNothing
CHECK_DEADLOCK FALSE
