CONSTANTS
    PolicyCount = 2
    Pod = {x}
    Selects <- MCSelects
    Timed <- MCTimed
    MaxVersion = 2
    MaxDisturbances = 1
    Attempts = 2
    RV <- MCRV
    NoEntry = NoEntry
    NoJob = NoJob
    NoMap = NoMap
SPECIFICATION Spec
INVARIANT TypeOK
PROPERTY RegistrySpec
CHECK_DEADLOCK FALSE
