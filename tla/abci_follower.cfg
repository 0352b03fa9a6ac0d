SPECIFICATION Spec
CONSTANTS
    Blocks = {b1, b2, b3}
    InvalidBlocks = {}
    IsProposer = FALSE
    Roles = {TRUE,FALSE}
    Nil = Nil
    MaxHeight = 3
    MaxCrashes = 2
INVARIANTS
    SavedStateIsDecidedState
PROPERTIES
    DecidedBlocksAreSaved
