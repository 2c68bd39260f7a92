CONSTANTS
    GPU = {g1, g2}
    Configs <- MCQuotaPRS
    Budget = 100
    HwMax = 100
    IdlePower = 5
    SolverFails = FALSE
    Threshold = 70
    Emergency = 40
    MinCap = 20
    HotRatio <- MCHotRatio
    Margin <- MCMargin
    Boost <- MCBoost
    Derate <- MCDerate
    Utils <- MCUtils
SPECIFICATION Spec
PROPERTY FloorWins
