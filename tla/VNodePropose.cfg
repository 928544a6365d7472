SPECIFICATION Spec
CONSTANTS
    t1 = t1
    t2 = t2
    None = None
    N = 4
    Me = 2
    DebugAssertions = FALSE
    EnvMessages = {}
    EnvTxs = {t1}
    ValidTx <- AllValid
    PersistImmediately = FALSE
    ProposeThreshold = 1
    TxsBlockLimit = 2
    SkipEmptyBlocks = FALSE
    Events = {}
    MaxEpoch = 1
    MaxRound = 1
    SpareRounds = 0
    MaxRestarts = 1
INVARIANT OneProposePerRound
CHECK_DEADLOCK FALSE
