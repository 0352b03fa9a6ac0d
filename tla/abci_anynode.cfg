SPECIFICATION Spec
CONSTANTS
    Blocks = {b1, b2, b3}
    InvalidBlocks = {b3}
    IsProposer = TRUE
    Roles = {TRUE,FALSE}
    Nil = Nil
    MaxHeight = 2
    MaxCrashes = 1
INVARIANTS
    FinalizeReturnsDecidedRoot
