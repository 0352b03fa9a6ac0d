SPECIFICATION Spec
CONSTANTS
    Addrs = {a1, a2}
    SIKs = {k1}
    NoSIK = NoSIK
    Elections = {p1}
    TempSIKs = {p1}
    EndBlock <- MCEndBlock
    MaxCensusSize = 2
    Hysteresis = 1
    KeyBase = 2
    MaxSikHeight = 4
    MaxSteps = 2
    Procs = {p1}
    Voters = {v1, v2}
    Options = {o1, o2}
    Metas = {1, 2}
    NoTitle = NoTitle
    NoTx = NoTx
    IgnoreLiveResults = FALSE
    MidBlockBootstrap = FALSE
    BlockStoreBase = 1
    ScheduledEnd = 2
    MaxIdxHeight = 2
    MaxTxs = 2
    MaxOverwrites = 2
    MaxIdxCrashes = 1
    MaxLevels = 3
    ArboValues = {v1, v2}
    CPULevels = 2
    MainTrees = {"Extra", "Processes"}
    TreeProcess = "Processes"
    Pids = {"p1"}
    Nullifiers = {"n1"}
    Vals = {1, 2}
    PlainVals = {1}
    NoTree = NoTree
    NoSnapshot = NoSnapshot
    SnapshotInterval = 1
    KeepRecent = 1
    SnapshotChunks = 2
    MaxVersion = 2
    MaxWrites = 2
    Private = {c1}
    People = {k1}
    NoURI = NoURI
    Error = Error
    MaxImports = 1
    MaxPublications = 2
    MaxCrashes = 1
    Named = {1}
    FirstIndexed = 3
    Zero = Zero
    MaxBlocks = 4
    MaxItemsPerPage = 2
    DefaultItemsPerPage = 2
    Limits = {Zero, 1}
    Accounts = {1, 2}
    MaxByte = 1
    KvValues = {1, 2}
    KvTxs = {t1, t2}
    MaxOps = 2
    Callers = {c1, c2}
    Signers = {o, d}
    Absent = {d}
    Docs = {1, 2}
    MaxCalls = 2
    MaxBlockTxs = 2
    None = None
    VoteTxs = {e1, e2}
    Roots = {1}
    Siks = {1}
    Anonymous = TRUE
    MaxVoteOverwrites = 1
    PoolCensusSize = 1
    TransactionBlocksTTL = 1
    RecheckInterval = 2
    MaxPendingTxAttempts = 1
    PurgeInterval = 1
    PurgeThreshold = 1
    NoEntry = NoEntry
INVARIANTS
    AssignedSIKsExist
    NewRootStaysValid
    
    
    TitleOfCurrentMetadata
    TreeHoldsItsContent
    CommittedStateIsReadable
    
    PagesMissNothing
    AnswersAgree
    
    ReplyNamesElection
    PinnedIsSubmitted
    
    
    
    
CHECK_DEADLOCK FALSE
