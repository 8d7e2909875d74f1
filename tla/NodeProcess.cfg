SPECIFICATION ProcessSpec
CONSTANTS
    Node = {n1, n2, n3}
    NoNode = NoNode
    ObserverChanLen = 1
    MaxWrites = 1
    MaxElections = 2
    MaxExits = 1
INVARIANT RestoresIntoEmpty
PROPERTY BecomesReady
CHECK_DEADLOCK FALSE
