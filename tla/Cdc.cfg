SPECIFICATION CdcSpec
CONSTANTS
    Writers = {"readEvents"}
    MaxSize = 2
    BatchSize = 2
    MaxWrites = 6
    ChanLen = 1
    MaxAttempts = 2
    MaxEntries = 2
    MaxLeaderChanges = 2
 
PROPERTIES EveryEventSettles StopReturns
CHECK_DEADLOCK FALSE
