SPECIFICATION Spec
CONSTANTS
    t1 = t1
    t2 = t2
    None = None
    N = 4
    Me = 4
    DebugAssertions = FALSE
    EnvMessages <- AuditorMessages
    EnvTxs = {t1, t2}
    ValidTx <- AllValid
    PersistImmediately = FALSE
    ProposeThreshold = 1
    TxsBlockLimit = 2
    SkipEmptyBlocks = FALSE
    Events = {"retry"}
    MaxEpoch = 3
    MaxRound = 2
    SpareRounds = 0
    MaxRestarts = 0
INVARIANTS MajorityCommits NoPanic
PROPERTY MissingIsRequested
CHECK_DEADLOCK FALSE
