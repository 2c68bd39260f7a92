CONSTANTS
    GPUCount = 3
    DomainCount = 1
    DomainOf <- MCUnmanaged
    Sim = FALSE
    EmergencyThreshold = 9
    EmergencyCap = 6
    BrainCaps <- MCBrainCaps
    BootCaps <- MCBootCaps
    Draws <- MCSaturated
SPECIFICATION Spec
INVARIANTS TypeOK PushedInForce
PROPERTIES CapChangesHaveCause UnmanagedStaysCapped
