SPECIFICATION ServingSpec
CONSTANTS
    n1 = n1
    n2 = n2
    n3 = n3
    Node <- MCNode
    Quorum <- MCQuorum
    Writer = {c1}
    Reader = {c1}
    Levels = {"linearizable"}
    RequestLevels = {"linearizable"}
    MaxTerm = 2
    MaxLog = 4
    MaxConfig = 0
    MaxRestarts = 0
INVARIANTS RequestLinearizable
SYMMETRY ServingSymmetry
CHECK_DEADLOCK FALSE
