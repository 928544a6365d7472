SPECIFICATION Spec
CONSTANTS
    t1 = t1
    t2 = t2
    None = None
    N = 4
    Me = 3
    DebugAssertions = FALSE
    EnvMessages <- VotingMessages
    EnvTxs = {}
    ValidTx <- AllValid
    PersistImmediately = FALSE
    ProposeThreshold = 1
    TxsBlockLimit = 2
    SkipEmptyBlocks = FALSE
    Events = {}
    MaxEpoch = 1
    MaxRound = 2
    SpareRounds = 0
    MaxRestarts = 0
INVARIANTS TypeOK NoPanic MajorityLocks
PROPERTY ImplementsLockVoting
CHECK_DEADLOCK FALSE
