SPECIFICATION Spec
CONSTANTS
    Addr = {1, 2, 3, 4}
    Genesis <- MCGenesis
    Steady = {1, 2}
    maxPower = 12
    minPower = 1
    newValidatorPower = 2
    powerIncrement = 1
    updatePowerPeriod = 2
    positiveScoreThreshold = 80
    inactiveGraceBlocks = 2
    Nil = Nil
    MaxHeight = 8
INVARIANTS UpdatesAccepted EngineFollowsState
PROPERTIES EvictedAfterGrace ThreeValidatorsStay SignersKeepPower NewcomersKeepPower
