CONSTANTS
    MaxGen = 3
    ValidGens = {1, 3}
    MaxUpsets = 1
    NoFile = NoFile
    Domain = {"a", "b", "c", "d", "r", "s"}
    NodeOf <- MCNodeOf
    BudgetW <- MCBudgetW
    OverheadW <- MCOverheadW
    RackOf <- MCRackOf
    RackW <- MCRackW
    ClusterW = 24
    AdoptedMinW = 3
    Deployments <- MCDeployments
    MaxChanges = 2
    NoRack = NoRack
    None = None
SPECIFICATION BudgetSpec
INVARIANT DomainTypeOK
INVARIANT HandledIsThere
INVARIANT ClusterTypeOK
INVARIANT RoundFits
INVARIANT RackFits
PROPERTY StoreSpec
PROPERTY TopologyFollows
PROPERTY ParamsFollow
PROPERTY Settles
CHECK_DEADLOCK FALSE
