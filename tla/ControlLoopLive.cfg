CONSTANTS
    GPUCount = 2
    DomainCount = 2
    DomainOf <- MCTwoDomains
    Sim = TRUE
    EmergencyThreshold = 9
    EmergencyCap = 6
    BrainCaps <- MCGenerousBrain
    BootCaps <- MCBootCaps
    Draws <- MCDraws
SPECIFICATION FairSpec
PROPERTIES OverloadTripped TripUndone FailsafeStops
