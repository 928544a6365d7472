SPECIFICATION Spec
CONSTANTS
    t1 = t1
    t2 = t2
    None = None
    N = 4
    Me = 1
    DebugAssertions = FALSE
    EnvMessages <- Responses
    EnvTxs = {t1, t2}
    ValidTx <- FirstInvalid
    PersistImmediately = FALSE
    ProposeThreshold = 1
    TxsBlockLimit = 2
    SkipEmptyBlocks = FALSE
    Events = {}
    MaxEpoch = 1
    MaxRound = 2
    SpareRounds = 0
    MaxRestarts = 0
INVARIANT NoPanic
CHECK_DEADLOCK FALSE
