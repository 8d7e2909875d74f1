SPECIFICATION ServingSpec
CONSTANTS
    n1 = n1
    n2 = n2
    n3 = n3
    Node <- MCNode
    Quorum <- MCQuorum
    Writer = {w}
    Reader = {r}
    Levels = {"linearizable"}
    RequestLevels = {}
    MaxTerm = 2
    MaxLog = 4
    MaxConfig = 0
    MaxRestarts = 0
INVARIANTS Linearizable ReadsInv
SYMMETRY ServingSymmetry
CHECK_DEADLOCK FALSE
