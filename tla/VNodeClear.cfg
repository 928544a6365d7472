SPECIFICATION Spec
CONSTANTS
    t1 = t1
    t2 = t2
    None = None
    N = 2
    Me = 1
    DebugAssertions = FALSE
    EnvMessages <- CommitMessages
    EnvTxs = {t1}
    ValidTx <- AllValid
    PersistImmediately = FALSE
    ProposeThreshold = 1
    TxsBlockLimit = 2
    SkipEmptyBlocks = FALSE
    Events = {"crash_in_commit"}
    MaxEpoch = 1
    MaxRound = 1
    SpareRounds = 0
    MaxRestarts = 1
INVARIANT VotesAreCached
CHECK_DEADLOCK FALSE
