SPECIFICATION Spec
CONSTANTS
    t1 = t1
    t2 = t2
    None = None
    N = 2
    Me = 1
    DebugAssertions = FALSE
    EnvMessages <- RestartMessages
    EnvTxs = {t1}
    ValidTx <- AllValid
    PersistImmediately = FALSE
    ProposeThreshold = 1
    TxsBlockLimit = 2
    SkipEmptyBlocks = FALSE
    Events = {"repeat"}
    MaxEpoch = 1
    MaxRound = 2
    SpareRounds = 0
    MaxRestarts = 1
INVARIANTS VotesAreCached MajorityLocks MajorityCommits
CHECK_DEADLOCK FALSE
