CONSTANTS
    GPUCount = 3
    AgentGPUCount = 1
    DomainCount = 2
    DomainOf <- MCDomainOf
    ConnCount = 2
    BrainCaps <- MCBrainCaps
    BootCaps <- MCBootCaps
    EmergencyCap = 6
SPECIFICATION FairSpec
INVARIANTS TypeOK DecidedInForce
PROPERTIES DecisionSettles OverloadCapped
