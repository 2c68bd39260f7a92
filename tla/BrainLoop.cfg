CONSTANTS
    GPU = {g1, g2}
    Configs <- MCEveryBrain
    Budget = 100
    HwMax = 100
    IdlePower = 5
    SolverFails = TRUE
    Threshold = 70
    Emergency = 40
    MinCap = 20
    HotRatio <- MCHotRatio
    Margin <- MCMargin
    Boost <- MCBoost
    Derate <- MCDerate
    Utils <- MCUtils
SPECIFICATION BothSpec
INVARIANT TypeOK
PROPERTIES OvershootShrinks RaiseBounded ShedInOneTick BoostFitsBudget ThrottledNeverRaised SlicesKept
PROPERTIES SteadyIdleReclaimed SteadyBusyServed SteadyLPEndsAtFloor
