SPECIFICATION Spec
CONSTANTS
    t1 = t1
    t2 = t2
    None = None
    N = 4
    Me = 1
    DebugAssertions = FALSE
    EnvMessages <- CatchUpMessages
    EnvTxs = {t1, t2}
    ValidTx <- AllValid
    PersistImmediately = FALSE
    ProposeThreshold = 1
    TxsBlockLimit = 2
    SkipEmptyBlocks = FALSE
    Events = {"pause"}
    MaxEpoch = 3
    MaxRound = 1
    SpareRounds = 0
    MaxRestarts = 0
INVARIANTS NoPanic MemoryMatchesDb ChainIsValid
CHECK_DEADLOCK FALSE
