---------------------------- MODULE ClusterBudget ----------------------------
(***************************************************************************)
(* A budget for each node of a cluster: the coordinator reads what the     *)
(* nodes published to a shared store, splits the cluster's budget by their *)
(* draws and publishes the shares (src/opendps/controller/                 *)
(* cluster_coordinator.py); the controller of a node adopts its share at   *)
(* each tick, or falls back to its topology (standalone.py, pdn/model.py). *)
(*                                                                         *)
(* The coordinator, each node and each controller go step by step.  The    *)
(* store is Redis, whose keys are read one by one and expire, or one of    *)
(* the process, read at once and kept for ever; or there is none, and no   *)
(* coordinator.  Watts are integers and divisions round down.              *)
(***************************************************************************)
EXTENDS Integers, FiniteSets, Functions

CONSTANTS
    Domain,             \* the power domains of the cluster
    NodeOf,             \* the node of a domain
    BudgetW,            \* budget_w of a domain in its topology file
    OverheadW,          \* node_overhead_w
    RackOf,             \* rack_name, or NoRack
    RackW,              \* the budget_w of the racks
    ClusterW,           \* total_cluster_budget_w
    AdoptedMinW,        \* adopted_budget_min_w
    Deployments,        \* bound: stores and domains, with their draws, looked at
    MaxChanges,         \* bound: changes of load and nodes, failures
    NoRack, None

Node == {NodeOf[d] : d \in Domain}

\* from_dict: a rack that a domain names is there.
IsTopology ==
    /\ BudgetW \in [Domain -> Nat] /\ OverheadW \in [Domain -> Nat]
    /\ DOMAIN RackOf = Domain
    /\ \A d \in Domain : RackOf[d] # NoRack => RackOf[d] \in DOMAIN RackW
    /\ NoRack \notin DOMAIN RackW /\ \A r \in DOMAIN RackW : RackW[r] \in Nat

ASSUME ClusterParameters ==
    /\ IsTopology /\ IsFiniteSet(Domain)
    /\ ClusterW \in Nat \ {0} /\ AdoptedMinW \in Nat /\ MaxChanges \in Nat
    /\ None \notin Nat
    /\ \A c \in Deployments :
          /\ c.store \in {"none", "redis", "memory"} /\ c.published \in BOOLEAN
          /\ \A d \in DOMAIN c.draws : d \in Domain /\ c.draws[d] \subseteq Nat

VARIABLES
    cluster,     \* the deployment
    up,          \* the nodes that run
    draw,        \* the draw of each domain
    state,       \* the store: what each node published last
    adopted,     \* the store: the budget of each domain
    override,    \* adopted_budget_w, in the controller of each domain
    coord,       \* the coordinator: "idle", "get", "publish"
    keys,        \* the keys it still has to get, or to set
    got,         \* the states it read
    changes      \* changes so far

coordinator == <<coord, keys, got>>
clusterVars == <<cluster, up, draw, state, adopted, override, coord, keys, got, changes>>

Active == DOMAIN cluster.draws
NodeState(d) == [domain |-> d, draw |-> draw[d]]

ClusterInit ==
    /\ cluster \in Deployments
    /\ up = {NodeOf[d] : d \in Active}
    /\ draw \in {w \in [Active -> UNION {cluster.draws[d] : d \in Active}] :
                    \A d \in Active : w[d] \in cluster.draws[d]}
    /\ state = [n \in Node |-> IF cluster.published /\ n \in up
                              THEN NodeState(CHOOSE d \in Active : NodeOf[d] = n)
                              ELSE None]
    /\ adopted = [d \in Active |-> None]
    /\ override = [d \in Active |-> None]
    /\ coord = "idle" /\ keys = {} /\ got = {} /\ changes = 0
---------------------------------------------------------------------------
(***************************************************************************)
(* The budget the brains size caps by.                                     *)
(***************************************************************************)
OnRack(r) == {d \in Active : RackOf[d] = r}
Watts(S) == SumFunctionOnSet(BudgetW, S)
AtLeastZero(x) == IF x < 0 THEN 0 ELSE x

\* Mutant: only the peers of a domain share its rack.
ShareOfPeers(d) ==
    LET total == Watts(OnRack(RackOf[d]) \ {d})
    IN  IF RackOf[d] # NoRack /\ total > RackW[RackOf[d]] /\ RackW[RackOf[d]] > 0
        THEN (BudgetW[d] * RackW[RackOf[d]]) \div total
        ELSE BudgetW[d]

RackShare(d) ==
    LET total == Watts(OnRack(RackOf[d]))
    IN  IF RackOf[d] # NoRack /\ total > RackW[RackOf[d]] /\ RackW[RackOf[d]] > 0
        THEN (BudgetW[d] * RackW[RackOf[d]]) \div total
        ELSE BudgetW[d]

\* A domain's budget, with the share of its node not yet taken off.
InForce(d) == IF override[d] # None THEN override[d] ELSE RackShare(d)

\* domain_budget_w
DomainBudgetW(d) == AtLeastZero(InForce(d) - OverheadW[d])
---------------------------------------------------------------------------
(***************************************************************************)
(* The nodes.                                                              *)
(***************************************************************************)
Changed == changes < MaxChanges /\ changes' = changes + 1

\* publish: under the name of the node, whatever the domain.
Publish(d) ==
    /\ NodeOf[d] \in up
    /\ state' = [state EXCEPT ![NodeOf[d]] = NodeState(d)]
    /\ UNCHANGED <<cluster, up, draw, adopted, override, coordinator, changes>>

DrawChanges(d) ==
    /\ Changed
    /\ \E w \in cluster.draws[d] \ {draw[d]} : draw' = [draw EXCEPT ![d] = w]
    /\ UNCHANGED <<cluster, up, state, adopted, override, coordinator>>

\* A node goes, or comes with a new controller.
NodeFlips(n) ==
    /\ Changed /\ n \in {NodeOf[d] : d \in Active}
    /\ up' = IF n \in up THEN up \ {n} ELSE up \cup {n}
    /\ override' = [d \in Active |-> IF NodeOf[d] = n THEN None ELSE override[d]]
    /\ UNCHANGED <<cluster, draw, state, adopted, coordinator>>

\* The TTL of a key of Redis runs out: of a node that is gone, or of one that is
\* late with its next publication, or the coordinator with its.
Late(n) == IF n \in up THEN Changed ELSE UNCHANGED changes

StateExpires(n) ==
    /\ cluster.store = "redis" /\ state[n] # None
    /\ Late(n)
    /\ state' = [state EXCEPT ![n] = None]
    /\ UNCHANGED <<cluster, up, draw, adopted, override, coordinator>>

BudgetExpires(d) ==
    /\ cluster.store = "redis" /\ adopted[d] # None
    /\ Late(NodeOf[d])
    /\ adopted' = [adopted EXCEPT ![d] = None]
    /\ UNCHANGED <<cluster, up, draw, state, override, coordinator>>

\* Mutant: the least budget is not plausible either.
AdoptsAbove(d) ==
    override' = [override EXCEPT ![d] = IF adopted[d] # None /\ adopted[d] > AdoptedMinW
                                        THEN adopted[d] ELSE None]

\* run_once, the start of a domain: adopt_budget or release_budget.
Adopts(d) ==
    override' = [override EXCEPT ![d] = IF adopted[d] # None /\ adopted[d] >= AdoptedMinW
                                        THEN adopted[d] ELSE None]

Tick(d) ==
    /\ NodeOf[d] \in up
    /\ Adopts(d)
    /\ UNCHANGED <<cluster, up, draw, state, adopted, coordinator, changes>>

\* A read that fails: the topology's budget for this tick.
TickUnread(d) ==
    /\ NodeOf[d] \in up /\ Changed
    /\ override' = [override EXCEPT ![d] = None]
    /\ UNCHANGED <<cluster, up, draw, state, adopted, coordinator>>
---------------------------------------------------------------------------
(***************************************************************************)
(* The coordinator.                                                        *)
(***************************************************************************)
TotalDraw(states) == SumFunction([s \in states |-> s.draw])
FloorW(n) == ClusterW \div (2 * n)
CeilW(n) == (2 * ClusterW) \div n

\* Mutant: hands the whole budget out on top of the floors.
ShareOfAll(s, states) ==
    LET n == Cardinality(states)
        total == IF TotalDraw(states) = 0 THEN 1 ELSE TotalDraw(states)
        extra == (s.draw * ClusterW) \div total
    IN  IF FloorW(n) + extra > CeilW(n) THEN CeilW(n) ELSE FloorW(n) + extra

\* rebalance: half the fair share, and of the rest a part by draw, up to double
\* the fair share.
Share(s, states) ==
    LET n == Cardinality(states)
        surplus == ClusterW - n * FloorW(n)
        total == IF TotalDraw(states) = 0 THEN 1 ELSE TotalDraw(states)
        extra == (s.draw * surplus) \div total
    IN  IF FloorW(n) + extra > CeilW(n) THEN CeilW(n) ELSE FloorW(n) + extra

\* get_all: the keys first and then each value, or all at once.
Collect ==
    /\ coord = "idle" /\ cluster.store # "none"
    /\ LET there == {n \in Node : state[n] # None}
       IN  IF cluster.store = "redis"
           THEN coord' = "get" /\ keys' = there /\ got' = {}
           ELSE /\ coord' = "publish"
                /\ got' = {state[n] : n \in there}
                /\ keys' = {state[n].domain : n \in there}
    /\ UNCHANGED <<cluster, up, draw, state, adopted, override, changes>>

\* Mutant: takes it that a key that was there still is.
GetsExpired ==
    /\ coord = "get" /\ keys # {}
    /\ \E n \in keys :
          /\ keys' = keys \ {n}
          /\ got' = got \cup {state[n]}
    /\ UNCHANGED <<cluster, up, draw, state, adopted, override, coord, changes>>

Get ==
    /\ coord = "get" /\ keys # {}
    /\ \E n \in keys :
          /\ keys' = keys \ {n}
          /\ got' = IF state[n] = None THEN got ELSE got \cup {state[n]}
    /\ UNCHANGED <<cluster, up, draw, state, adopted, override, coord, changes>>

Rebalance ==
    /\ coord = "get" /\ keys = {}
    /\ coord' = "publish"
    /\ keys' = {s.domain : s \in got}
    /\ UNCHANGED <<cluster, up, draw, state, adopted, override, got, changes>>

\* set_adopted_budget, for one after another.
SetAdopted ==
    /\ coord = "publish" /\ keys # {}
    /\ \E s \in got :
          /\ s.domain \in keys
          /\ keys' = keys \ {s.domain}
          /\ adopted' = [adopted EXCEPT ![s.domain] = Share(s, got)]
    /\ UNCHANGED <<cluster, up, draw, state, override, coord, got, changes>>

RoundEnds ==
    /\ coord = "publish" /\ keys = {}
    /\ coord' = "idle" /\ got' = {}
    /\ UNCHANGED <<cluster, up, draw, state, adopted, override, keys, changes>>

\* The store fails or the coordinator restarts, with part of a round published.
RoundFails ==
    /\ coord # "idle" /\ Changed
    /\ coord' = "idle" /\ keys' = {} /\ got' = {}
    /\ UNCHANGED <<cluster, up, draw, state, adopted, override>>

Coordinates == Collect \/ Get \/ Rebalance \/ SetAdopted \/ RoundEnds

ClusterNext ==
    \/ \E d \in Active : \/ Publish(d) \/ DrawChanges(d) \/ BudgetExpires(d)
                         \/ Tick(d) \/ TickUnread(d)
    \/ \E n \in Node : NodeFlips(n) \/ StateExpires(n)
    \/ Coordinates \/ RoundFails

\* Nodes publish, the coordinator goes on round after round, controllers tick, and
\* Redis drops the keys of a node that is gone.
ClusterFairness ==
    /\ \A d \in Domain :
          /\ WF_clusterVars(d \in Active /\ Publish(d))
          /\ WF_clusterVars(d \in Active /\ Tick(d))
          /\ WF_clusterVars(d \in Active /\ NodeOf[d] \notin up /\ BudgetExpires(d))
    /\ \A n \in Node : WF_clusterVars(n \notin up /\ StateExpires(n))
    /\ WF_clusterVars(Coordinates)

ClusterSpec == ClusterInit /\ [][ClusterNext]_clusterVars
---------------------------------------------------------------------------
\* Types; a round counts a node once, and none whose state is gone
\* (cluster_coordinator.py:94).
ClusterTypeOK ==
    /\ cluster \in Deployments /\ up \subseteq Node
    /\ draw \in [Active -> Nat]
    /\ \A n \in Node : state[n] # None =>
          /\ state[n].domain \in Active /\ NodeOf[state[n].domain] = n
          /\ state[n].draw \in cluster.draws[state[n].domain]
    /\ adopted \in [Active -> Nat \cup {None}]
    /\ override \in [Active -> Nat \cup {None}]
    /\ coord \in {"idle", "get", "publish"}
    /\ None \notin got
    /\ \A s \in got : s.domain \in Active /\ s.draw \in Nat
    /\ \A s, t \in got : NodeOf[s.domain] = NodeOf[t.domain] => s = t
    /\ changes \in 0 .. MaxChanges

\* The hard invariant of N14 (cluster_coordinator.py:134): whichever nodes a round
\* saw, however stale or torn what it read, the budgets it publishes fit the
\* cluster, and each node has half its fair share and at most double.
RoundFits ==
    (coord = "publish" /\ got # {}) =>
        /\ SumFunction([s \in got |-> Share(s, got)]) <= ClusterW
        /\ \A s \in got : /\ Share(s, got) >= FloorW(Cardinality(got))
                          /\ Share(s, got) <= CeilW(Cardinality(got))

\* The domains of a rack that no coordinator gave a budget share that of the rack
\* (docs/N17-rack-tier.md), whatever its other domains were given.  A rack of 0 W
\* scales nothing (model.py:82).
RackFits ==
    \A r \in DOMAIN RackW :
        LET Own == {d \in OnRack(r) : override[d] = None}
        IN  RackW[r] > 0 => SumFunction([d \in Own |-> DomainBudgetW(d)]) <= RackW[r]

\* Each node has one domain, and half a fair share is plausible.
Plain ==
    /\ Active # {}
    /\ \A d, e \in Active : NodeOf[d] = NodeOf[e] => d = e
    /\ FloorW(Cardinality(Active)) >= AdoptedMinW

Running == {d \in Active : NodeOf[d] \in up}
Together == SumFunction([d \in Running |-> InForce(d)])

\* The rounds are about the running nodes alone: all run, or what those that went
\* had published has expired.
Counted == Running = Active \/ cluster.store = "redis"

\* All is handed out, but for less than a watt for each node with a draw that the
\* division here loses, or the ceiling leaves the surplus of a node as headroom
\* (cluster_coordinator.py:141).
Loaded == {d \in Running : draw[d] > 0}
HandedOut ==
    \/ ClusterW - Together < Cardinality(Loaded)
    \/ \E d \in Running : InForce(d) = CeilW(Cardinality(Running))

\* Once loads, nodes and the store are quiet, the running nodes go by budgets that
\* fit the cluster together for good, the shares of nodes that went, of earlier
\* rounds and of half-published ones forgotten; and where these are forgotten and
\* there is load, what is left over is left by the ceiling.
Settles ==
    <>[](Plain =>
            /\ Together <= ClusterW
            /\ Counted /\ Loaded # {} => HandedOut)
==============================================================================
