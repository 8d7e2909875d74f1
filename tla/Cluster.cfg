SPECIFICATION ClusterSpec
CONSTANTS
    a = a
    b = b
    c = c
    NoHost = NoHost
    Hosts = {a, b, c}
    Targets <- TwoTargets
    Expect = 2
    Joining = {c}
    MaxCrash = 1
    MaxLost = 1
    DiscoNodes = {"a", "b", "c"}
    Voters = {"a", "b"}
    MaxTrouble = 2
    Conns = {c1, c2, c3}
    Services = {"raft", "cluster"}
INVARIANTS OneCluster OneDiscoCluster NoSendOnClosed
PROPERTIES BootstrapEnds DiscoveryEnds NetworkEnds
CHECK_DEADLOCK FALSE
