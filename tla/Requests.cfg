SPECIFICATION RequestsSpec
CONSTANTS
    n1 = n1
    n2 = n2
    n3 = n3
    Node <- MCNode
    Quorum <- MCQuorum
    Writer = {c1}
    Reader = {c1}
    Levels = {"linearizable", "strong", "weak", "none"}
    RequestLevels = {"linearizable", "strong", "weak", "none"}
    MaxTerm = 2
    MaxLog = 2
    MaxConfig = 1
    MaxRestarts = 1
    Req = {r1, r2}
    Kinds = {"execute", "query", "request", "load", "remove", "backup"}
    Member = {here, there}
    Here = here
    None = None
    Conn = {k1, k2}
    PoolCap = 1
    Retries = 1
    MaxMoves = 1
INVARIANTS AnswerIsOwn ReportedIsDone
SYMMETRY RequestsSymmetry
CHECK_DEADLOCK FALSE
