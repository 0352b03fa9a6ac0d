SPECIFICATION Spec
CONSTANTS
    Uint32 = 16
    BlockTime = 1
    MaxProcessSize = 2
    MetadataFork = 2
    KeyIndexes = {1, 2}
    Roots = {root1}
    Metadatas = {meta1}
    Nil = Nil
    Pids = {p1}
    RandomIds = {r1}
    Voters = {v1}
    Requests <- BallotRequests
    Durations = {2, 3}
    CensusSizes = {0}
    TimeSteps = {0, 1, 2}
    GenesisTime = 1
    MaxHeight = 4
    MaxTime = 5
INVARIANTS
    RevealedIsFinished
