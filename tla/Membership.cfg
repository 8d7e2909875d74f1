SPECIFICATION MemberSpec
CONSTANTS
    Proc <- MCProc
    Identity <- MCIdentity
    Seed <- MCSeed
    ReapVoters = FALSE
    ReapNonvoters = TRUE
    RemoveRetries = 1
    MaxLeaders = 2
    MaxTimeouts = 1
    MaxReaps = 1
INVARIANTS MembershipIsAsAsked
PROPERTY Rejoins
CHECK_DEADLOCK FALSE
