------------------------------ MODULE NodeBudget ------------------------------
(***************************************************************************)
(* Where the budget of a node's controller comes from.  On Kubernetes it   *)
(* is the topology the operator writes (DomainConfig), and no store is     *)
(* linked: main of standalone.py never sets node_state_store.  With a      *)
(* store (ClusterBudget) the topology is a file nobody writes.  A behaviour*)
(* is one of either.                                                       *)
(***************************************************************************)
EXTENDS DomainConfig, ClusterBudget

budgetVars == <<domainVars, clusterVars>>

BudgetInit == DomainInit /\ ClusterInit

BudgetNext ==
    \/ cluster.store = "none" /\ DomainNext /\ UNCHANGED clusterVars
    \/ cluster.store # "none" /\ ClusterNext /\ UNCHANGED domainVars

BudgetSpec == BudgetInit /\ [][BudgetNext]_budgetVars /\ DomainFairness /\ ClusterFairness
===============================================================================
