CONSTANTS
    PolicyCount = 1
    Pod = {x}
    Selects <- MCSelects
    Timed <- MCAllTimed
    MaxVersion = 2
    MaxDisturbances = 2
    Attempts = 1
    RV <- MCRV
    NoEntry = NoEntry
    NoJob = NoJob
    NoMap = NoMap
    Gpu = {0, 1}
    GpusOf <- MCGpusOf
    TierOf <- MCTierOf
    Baseline <- MCBaseline
SPECIFICATION FairFollowSpec
INVARIANT SkipIsSafe
PROPERTY Converges
PROPERTY TiersHold
PROPERTY TiersFollow
CHECK_DEADLOCK FALSE
