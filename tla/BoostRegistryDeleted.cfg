CONSTANTS
    PolicyCount = 1
    Pod = {x}
    Selects <- MCSelects
    Timed <- MCTimed
    MaxVersion = 1
    MaxDisturbances = 1
    Attempts = 2
    RV <- MCRV
    NoEntry = NoEntry
    NoJob = NoJob
    NoMap = NoMap
SPECIFICATION FairSpec
PROPERTY DeletedEntryGone
CHECK_DEADLOCK FALSE
