SPECIFICATION FairSpec
CONSTANTS
    t1 = t1
    t2 = t2
    None = None
    N = 1
    Me = 0
    DebugAssertions = FALSE
    EnvMessages = {}
    EnvTxs = {t1, t2}
    ValidTx <- ExpiringTx
    PersistImmediately = FALSE
    ProposeThreshold = 1
    TxsBlockLimit = 1
    SkipEmptyBlocks = TRUE
    Events = {"flush", "shutdown"}
    MaxEpoch = 3
    MaxRound = 3
    SpareRounds = 1
    MaxRestarts = 1
INVARIANTS PoolCounter PoolIsUncommitted MemoryMatchesDb
PROPERTIES VotesInCurrentEpoch Progress
CHECK_DEADLOCK FALSE
