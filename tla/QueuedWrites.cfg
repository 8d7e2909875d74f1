CONSTANTS
    Writers = {w1, w2}
    MaxSize = 1
    BatchSize = 2
    MaxWrites = 3
    MaxFailures = 2
SPECIFICATION FairWritesSpec
INVARIANTS QueueInv WaitedIsApplied FirstInOrder
PROPERTIES RefinesFifo AcceptedIsApplied ShutdownEnds
CHECK_DEADLOCK FALSE
