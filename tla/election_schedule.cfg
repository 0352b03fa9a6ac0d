SPECIFICATION Spec
CONSTANTS
    Uint32 = 8
    BlockTime = 1
    MaxProcessSize = 2
    MetadataFork = 2
    KeyIndexes = {}
    Roots = {root1}
    Metadatas = {meta1}
    Nil = Nil
    Pids = {p1, p2}
    RandomIds = {r1, r2}
    Voters = {v1}
    Requests <- TimedRequests
    Durations = {1, 3, 6}
    CensusSizes = {0}
    TimeSteps = {0, 1, 2}
    GenesisTime = 1
    MaxHeight = 4
    MaxTime = 6
INVARIANTS
    IstCommitNeverFails
    NoElectionOverdue
PROPERTIES
    NonInterruptibleRunsToItsEnd
