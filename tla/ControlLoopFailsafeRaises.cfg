CONSTANTS
    GPUCount = 1
    DomainCount = 1
    DomainOf <- MCOneDomain
    Sim = FALSE
    EmergencyThreshold = 9
    EmergencyCap = 6
    BrainCaps <- MCBrainCaps
    BootCaps <- MCBootCaps
    Draws <- MCDraws
SPECIFICATION Spec
PROPERTY FailsafeOnlyLowers
