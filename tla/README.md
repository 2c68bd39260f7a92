# OpenDPS: TLA+ models, checks and proofs

OpenDPS divides the power budget of a rack among GPUs. A *brain* decides a power
cap for every GPU each tick, a *controller* writes the caps to the device, a
*failsafe* thread lowers the cap of a GPU that draws too much, and a Kubernetes
*operator* publishes the policies the brains are configured from. This directory
holds models of that code, the configurations TLC checks them with, and proofs
for TLAPS. Paths below are relative to the repository; `opendps/` stands for
`src/opendps/`.

## 1. The system

### Components

| Component | State it keeps | Operations | What is hard | What makes it correct | Modelled in |
|---|---|---|---|---|---|
| Brains (`opendps/brain/`) | averages of the draws, its own last caps | `decide` of DPM, PRS, job-prs, priority-prs, thermal-prs, `note_applied_caps` | feedback through the device over many ticks; floors, margins and ceilings applied in an order that breaks sums | how far the caps may exceed the budget, how fast they rise, idle watts reclaimed, a throttled GPU never raised | `Brains`, `BrainLoop` |
| Quota and CVXPY brains (`brain/quota_prs.py`, `cvxpy_brain.py`, `pdn/quota.py`) | a PRS brain per tenant; averages, a PRS brain to fall back on | `decide` | slices below the floors, GPUs of no tenant, a solver that fails now and then, an objective that never asks for the draw | a tenant stays within its slice and the rest within what is left | `Brains`, `BrainLoop` |
| Standalone controller (`controller/standalone.py`) | topology, brain, adopted budgets, the parameters it started with | `run_once`, `run` | several calls per GPU that may each fail, a failsafe between any two; a store and a registry that may fail at any tick | a decision that was pushed is in force; tiers and budgets are those last read | `ControlLoop` (the tick), `BrainLoop` (the tick closed over the fleet), `PrioritySource` and `ClusterBudget` (what comes before a decision) |
| Node agent (`agent/process.py`, `failsafe.py`, `nvml_agent.py`) | caps on the device, stop event, NVML open or shut | failsafe scan, trip, `stop`, `SIGTERM`, driver calls | two threads without a lock, shutdown under way, reads that fail as 0 W | every cap has a cause, overload is capped, stop is obeyed | `ControlLoop` |
| Simulated fleet (`sim/backend.py`) | cap and utilisation of each GPU | `set_power_cap`, `get_power_draw`, `tick` | the draw follows the cap | - | inside `BrainLoop` |
| Job tracker (`agent/job_tracker.py`) | busy GPUs | poll, `is_gpu_busy` | a failed poll looks like an idle node | a job is seen, and forgotten | only as the arbitrary `flagged` of `BrainLoop` |
| PDN model (`pdn/model.py`) | budgets, racks, adopted budgets | `domain_budget_w`, `adopt_budget`, `release_budget` | scaling against a rack, adopted budgets that supersede it | domain budgets fit their rack | `ClusterBudget` |
| Operator (`operator/handlers.py`) | ConfigMaps at the API server, digest and selector caches | handlers of three resources, pod events, timer | many threads on one ConfigMap, conflicts, creation races, retries, restarts, stale listings | one policy per change, the aggregate is that of the entries, no handler drops a key of another, convergence | `BoostRegistry` (JobPowerPolicy), `DomainConfig` (PowerDomain, PowerPolicy) |
| Priority configuration (`controller/priority_config.py`) | last good tiers, resource version | `poll`, `snapshot` | missing, malformed or unchanged data, API down | last known good, never a mix of two versions | `PrioritySource` |
| Cluster coordinator (`controller/cluster_coordinator.py`) | published node states, adopted budgets | `publish`, `rebalance`, `get_adopted_budget` | nodes that leave, keys that expire, budgets read half old and half new | every round fits the cluster; what the nodes go by does once things are quiet | `ClusterBudget` |
| Agent IPC (`controller/agent_bridge.py`, `crates/opendps-agent`) | caps last sent, frames on their way, the backend mutex | `push_caps`, `get_draws`, `set_cap`, Rust failsafe | lost and overtaken frames, a panic under the mutex, an agent that ends and starts | a decision that was read is in force, one that lasts gets there, overload is capped | `AgentIpc` |
| Agent metrics (`crates/opendps-agent/src/metrics.rs`) | histogram counters | `observe`, `render` | relaxed atomics read one by one | a rendered histogram is consistent | not modelled (section 6) |
| Telemetry (`opendps/telemetry/`, `collector/`) | accumulated energy | HTTP scrapes, parsing | I/O | - | not modelled (section 6) |
| Deployment, dashboards, scripts | - | - | - | - | not modelled: no logic of the program |

### How they interact

* The controller calls the brain with the draws, caps and hardware limits of one
  domain, then writes the caps it returns one at a time through the actuator.
* The failsafe thread calls the same actuator for every GPU of the node, on its
  own clock, and neither thread takes a lock. The signal handler runs in the
  controller's thread: it stops the failsafe, waits 2 s for it and shuts NVML.
* job-prs asks the job tracker, thermal-prs the throttle flags in the telemetry,
  priority-prs the tiers the priority source last read.
* The operator writes one ConfigMap per power domain and one shared one,
  `opendps-job-boosts`; the priority source of each node reads the latter.
* For each power domain the operator also writes a ConfigMap with the topology
  and the brain's parameters, which the controller reads when it starts.
* The cluster coordinator hands each controller a budget that supersedes the
  one in the topology, through a store both reach.

## 2. The models

### Brains and BrainLoop

`Brains` gives each `decide()` as an operator from what a brain knows and sees
to the caps and what it knows next. A PRS brain is a record of its `alpha`, its
raise `rate`, `ewma` (the averages) and `last` (its own last caps); `<<>>` is an
empty dictionary. quota-prs keeps one such record for each tenant and scales
what it decides to the tenant's slice. The linear program of cvxpy is the set of
its optima, any of which a solver may return; `SolverFails` lets it fail in any
tick, and PRS then decides from averages that saw no other tick. Watts are natural numbers, fractions are pairs, and every
division rounds down where the code has floats; the classification of a GPU as
hot or idle is exact.

`BrainLoop` closes a brain over the simulated fleet. Variables: `limit` and
`util` (`SimGpu`), `brain`, the `name` of the brain in use, `flagged` (the busy
GPUs for job-prs, the throttled ones for thermal-prs) and `tier`. One action,
`Tick`, is one tick of the controller on one domain (`Control`: read, decide,
write with the clamp of the backend) followed by the resampling of the loads.
Another, `Trip`, is a `FailsafeLoop` on the same fleet (it takes any actuator) that
lowers a GPU between two ticks; `lowered` remembers which, until the next tick.
`SteadyTick` keeps loads and flags as they are. Loads are any member of `Utils`,
so every sequence of loads is considered, not one seeded run. The fleet starts
uncapped, as the presets make it. job-prs is told any set of busy GPUs, which
covers a job tracker that is late or whose poll failed. `MCBrainLoopBoth` runs both
loops at once: a behaviour is of `Spec` or, when `steady`, of `SteadySpec`. Failed reads and writes are not in this model:
the simulated backend has none, and `ControlLoop` has them for any brain.

### ControlLoop

The agent process: the controller thread (`TickStart`, `ReadGpu`, `Decide`,
`Push`, `DomainDone`), the failsafe thread (`FsRead`, `FsTrip`, `FsWake`) and
the signal handler (`Signal`, `Shutdown`), one action per call to the driver, so
that the other thread may run between any two. The brain is arbitrary: a
decision is any assignment of caps from `BrainCaps` to the GPUs with telemetry.
`Sim = TRUE` is the simulated fleet, where no call fails and the draw is bounded
by the cap; `Sim = FALSE` is NVML, where a read may fail (and is then 0 W), a
write may be refused, the draw need not obey the cap, and the telemetry of a
tick may cover any subset of the GPUs. After `Shutdown` every NVML call fails.
`TickFails` is an exception that `run` logs (`standalone.py:412`): it ends the tick,
and the domains that were to come are not controlled in it.
`overridden` and `rejected` are history: what the failsafe took over, and what
the driver refused, since the telemetry of the present tick was read.

### AssignmentRegistry and BoostRegistry

`AssignmentRegistry` is what a reader of the shared ConfigMap may rely on: an
entry at most per policy, the resolved assignments of exactly these entries, and
no change that touches two policies.

`BoostRegistry` is `operator/handlers.py` from the JobPowerPolicy handlers down
to `_write_boost_registry`. kopf runs the handlers of one policy one at a time
in a thread, the 30 s timer in another and the events of a pod in a third; each
goes through listing the pods (`ListPods`), reading the ConfigMap (`ReadMap`)
and replacing it under the resource version it read (`Commit`, or `Refused` on a
409, up to three tries). `Fails` is any call that fails, a write that was stored
and reported a failure included: kopf runs a handler or timer again later and
drops an event. `Crash` is a restart of the operator: threads are lost, pods come
again as events, unfinished handlers run again. Users create, change and delete
policies and pods at any moment. An entry is abstracted to the policy's version
(its uid and generation in one number) and the pods it resolved.

`disturbances` bounds what makes a behaviour long: changes of a policy, pods
that come or go, restarts, and in `PrioritySource` the removal of the ConfigMap.

External to the code under `src/`, modelled from how it is used: the API server
(optimistic concurrency on `resourceVersion`) and kopf (one handler at a time
per object, retry of a handler that raised, finalizers held until the delete
handler succeeded). Only annotated pods are modelled, so the digest cache
decides nothing; the selector cache serves pods without the annotation, which
are assigned nothing.

### PrioritySource

The reader of that ConfigMap on each node, composed with `BoostRegistry` itself
and not with an idealised registry: `PollReads`, `PollMissing` (404), `PollFails`,
beside every action of the operator and its users (`RegistryStep`).
`tiers` is `_snapshot`. Resource versions are never given twice, so of the one
remembered only `known` matters: whether it is that of the ConfigMap in force.
An assignment is refused, and the whole payload with it, when its `priorityClass`
is not one of `VALID_TIERS`; only assignments of this node are looked at.
`gpuBoostPct` breaks ties between equal tiers and does not reach the brain, so
it is left out.

### DomainStore and DomainConfig

`DomainStore` is what a controller that mounts the ConfigMap of a domain may rely
on: a key goes only with the whole map, the topology never goes back to an older
one, and once the PowerDomain is gone (`owned`) there is none (`NothingLeft`).
`DomainConfig` implements it with `owned <- domain \in {"live", "deleting"}` and
`store <- file`.

The other ConfigMap of the operator, one for each PowerDomain. The handler of the
PowerDomain writes `topology.json` by patch, create, patch again
(`PatchTopology`, `CreateTopology`, `PatchAgain`); the handler of the PowerPolicy
writes `params.json` and then an annotation (`WriteParams`, `Annotate`); users may
keep a key of their own in it (`OtherKey`). A PowerPolicy that is removed leaves its
handler running (`late`, `WriteLate`). The data of a key is the generation
of the spec it was made from. `OnDomainDelete` deletes the whole map.
`ControllerStarts` reads it, once. API server and kopf are external as above.

### ClusterBudget and NodeBudget

`ClusterBudget` is the other source of a budget. Nodes publish (`Publish`), the
coordinator lists the keys, reads each, computes and publishes one budget after
another (`Collect`, `Get`, `Rebalance`, `SetAdopted`, `RoundEnds`), a controller
adopts or releases at the start of each tick (`Tick`, `TickUnread`). `RedisStore`
is read key by key and its keys expire; `InMemoryStore` is read at once under its
lock and forgets nothing. `cluster` is the deployment of a behaviour: the store
and the domains with their possible draws. `DomainBudgetW` is
`domain_budget_w`. External: Redis; the loop that calls `publish` and
`rebalance` again and again, of which `src/` holds only one round, in the command
line of the coordinator.

`NodeBudget` puts the two side by side as the code does: with a store in the
configuration the coordinator's budgets count, without one the topology the
operator wrote. `main` never sets `node_state_store`, so a controller that
started from the command line has none.

### AgentIpc

The other way to reach the device (`--actuator agent`): the controller sends
each decision of a domain to the Rust agent on a TCP connection of its own, one
frame per GPU (`Decide`, `SendFrame`, `SendDone`, `SendFails`), and gets no
answer. `frames` is what the agent has not read yet, for each connection; a
thread per connection reads one frame at a time (`Handle`), so frames of one
connection keep their order and those of two do not. `Applied` reaches the
driver; `Dropped` is refused by it or by the poisoned mutex; `Panics` is a frame
that names a GPU the agent does not have, which ends its thread and poisons the
mutex. The failsafe thread (`FsRead`, `FsTrips`, `FsRefused`) goes to the device
directly. `AgentStops` loses what is on its way; limits stay in the driver, as
under NVML. `AgentStarts` may fail to bind the port (`listening`), which the agent
logs and never tries again (`ipc.rs:89`): it runs on, and every connection is
refused. Draws are abstracted to above the threshold or not (`over`).
`disturbed` is history: the GPUs of the last decision for which it was overtaken,
lost, dropped or followed by a trip. The operating system's socket buffers are
modelled from how both ends use them; a send on a connection whose other end is
gone is lost or fails. The queries `get_draws` and `get_caps` change nothing and
are left out, and with them the record `_last_caps`, which is `decision`.

## 3. What TLC checks

| Run | Instance | Properties |
|---|---|---|
| `BrainLoop` | 2 GPUs, 1 unit = 10 W, floor 20, limit 100, budget 100, loads 5/50/100 %, all seven brains (PRS with and without the raise limiter, quota-prs with one tenant of all GPUs, with GPUs of no tenant and with a slice of 30 below floors of 40, cvxpy with a solver that may fail), a failsafe with threshold 70 and emergency cap 40; and the steady loop of PRS, with and without the limiter, and of cvxpy with a solver that does not fail | `TypeOK`, `OvershootShrinks`, `RaiseBounded`, `ShedInOneTick`, `BoostFitsBudget`, `ThrottledNeverRaised`, `SlicesKept`; of the steady loop `SteadyIdleReclaimed`, `SteadyBusyServed`, `SteadyLPEndsAtFloor` |
| `BrainLoopBudget` | 2 GPUs under PRS | `WithinBudget` is violated |
| `BrainLoopJobSettles` | 2 GPUs under job-prs, steady | `JobShareConverges` is violated |
| `BrainLoopQuotaFloor` | 2 GPUs under quota-prs, the same quotas | `FloorWins` is violated |
| `ControlLoop` | NVML, 3 GPUs, the third in no domain | `TypeOK`, `PushedInForce`, `CapChangesHaveCause`, `UnmanagedStaysCapped` |
| `ControlLoopLive` | simulated, two domains of one GPU, a brain that never decides the emergency cap | `OverloadTripped`, `TripUndone`, `FailsafeStops` |
| `ControlLoopFailsafeRaises` | NVML, 1 GPU | `FailsafeOnlyLowers` is violated |
| `BoostRegistry` | 2 policies, 1 pod, no timers, 2 tries, 1 disturbance | `TypeOK`, `RegistrySpec` |
| `BoostRegistryLive` | 1 policy with its timer, 1 pod, 2 disturbances, a node with 2 GPUs; the policy goes from `critical` to a tier the node does not know | `SkipIsSafe`, `Converges`, `TiersHold`, `TiersFollow` |
| `BoostRegistryDeleted` | 1 policy, 1 pod | `DeletedEntryGone` is violated |
| `AgentIpc` | 3 GPUs in two domains, of which the agent has the first, 2 connections | `TypeOK`, `DecidedInForce`, `DecisionSettles`, `OverloadCapped` |
| `NodeBudget` | no store, 3 specs of a PowerDomain (one invalid) and of a PowerPolicy, 1 failure; Redis and 2 nodes; a store in the process and 4 nodes, or one node with 2 domains on a rack | `DomainTypeOK`, `HandledIsThere`, `ClusterTypeOK`, `RoundFits`, `RackFits`, `StoreSpec`, `TopologyFollows`, `ParamsFollow`, `Settles` |

### What the passing runs show

* **Brains.** The documentation promises that the caps fit the budget. They do
  not always (next section), and `OvershootShrinks` says what holds instead: the
  GPUs at the floor aside, the caps fit the budget or are at most 0.6 x 1.3 = 0.78
  of all caps before the tick, so an excess beyond the floors dies out
  geometrically, whatever the loads do and however the averages lag. `ShedInOneTick` is the stronger promise of DPM.
  `RaiseBounded` is about the device and not about the brain's own record. It
  excepts the GPUs that the failsafe lowered since the last tick: the limiter,
  which "prevents a GPU's allowance from jumping in one tick" (`prs.py:158`),
  compares with what the brain decided before the trip, so that such a GPU gets all
  of it back at once. Without the exception TLC finds the jump.
  `BoostFitsBudget` and `ThrottledNeverRaised` say the wrappers do not undo
  what they add. Under steady loads, idle watts end at the floor for good and
  the busy GPU ends with all that is left. `SlicesKept` is what quota-prs adds:
  every tick, each tenant's caps fit its slice and all caps the budget, lagging
  averages and slices that do not reach the floors of their GPUs included. In that
  last case the documentation promises the opposite (`FloorWins`, next section).
  `LPEndsAtFloor` is what the program of cvxpy comes to:
  it minimises the caps of the hot GPUs and nothing asks for their draw, so under
  any steady load every cap ends at the floor, that of the busy GPUs too.
* **Agent.** `PushedInForce` relates the device to the decision that is being
  pushed while the failsafe writes to the same GPUs. `CapChangesHaveCause`
  excludes any cap neither thread had a reason for, and any write after NVML
  was shut. `UnmanagedStaysCapped` is a consequence nobody wrote down: the
  failsafe covers all GPUs of the node, the brain those of its domains, so a
  tripped GPU outside them stays at the emergency cap for good.
* **Registry.** `RegistrySpec` is the refinement of `AssignmentRegistry` under
  conflicts, retries, lost calls and restarts. `Converges` needs the timer: with
  it, an entry that a slow thread overwrote with older news is put right.
* **Tiers.** `SkipIsSafe` is about the one shortcut of `poll`: a version is
  skipped only when its tiers are those in force, whatever was refused, removed or
  restarted in between. `TiersHold` says that the tiers of the brain change only to
  those of a registry that is valid as a whole: a read that fails or a payload that
  is refused, for one assignment alone, leaves the last good ones. `TiersFollow` goes from
  the JobPowerPolicy through the operator, conflicts and restarts to the brain of
  the node.
* **Domain ConfigMap.** `TopologyFollows` and `ParamsFollow` hold in whichever order
  the two resources are made, with a create that is answered 409, calls that fail
  after they were stored, and restarts. `HandledIsThere` is the safety they rest
  on: a spec that kopf will not run again is in the map, also when somebody else
  made the map between the patch and the create. `StoreSpec` is the refinement of
  `DomainStore`: the topology, the parameters and the users' own keys do not cost
  each other their place, and a try that is repeated does not put an older topology
  back.
* **Cluster.** `RoundFits` is the invariant of `docs/N14-multinode.md`, for a round of
  any states, those of nodes that went or that changed while they were read
  included. The budgets the nodes go by meet it only once things are quiet:
  `Settles`. It also says that, once the store has forgotten the nodes that went,
  nothing of the cluster's budget is left over under load, but for what the ceiling
  of twice the fair share withholds (`cluster_coordinator.py:141`): in the cluster of
  four nodes of which one is loaded the rest of the budget is given to nobody, as
  `docs/N14-multinode.md:32` and `test_rebalance_respects_ceiling` have it. `RackFits` is the rack of
  `docs/N17-rack-tier.md` for the domains that adopted nothing.
* **Agent over TCP.** `DecidedInForce` says what the silence of the protocol
  still allows: the caps in force are those decided unless one of four things
  came between, and nothing else comes between. It excuses all four;
  `DecisionSettles` says that sending everything again each tick repairs them. It
  assumes that no frame panics and that the agent bound its port when it last
  started: after a panic all frames are dropped for good, without a port all
  connections are refused, and in both cases `OverloadCapped` is what is left: an
  overloaded GPU is at the emergency cap or below it again and again.

### What the violated properties show

* `WithinBudget`: `brain/prs.py:38` says "<= budget by construction". Two
  uncapped 1000 W GPUs at half load are both classified idle and keep 1.3 times
  their average each, about 1220 W of a budget of 1000 W. priority-prs inherits
  it when fewer than two GPUs are contended (`priority_prs.py:81` returns before
  the scaling).
* `JobShareConverges`: `docs/N12-job-awareness.md:59` says the loop converges. A
  GPU at half load alternates between hot (a large cap) and idle (1.3 times its
  average) for ever, because the ratio that classifies it divides by the cap.
* `FailsafeOnlyLowers`: `agent/failsafe.py:9`. The emergency cap is written
  whatever cap is in force, so it raises a GPU the brain has just lowered. The
  Rust failsafe reads and writes in the same way (`FsRead`, `FsTrips` of `AgentIpc`)
  and promises the same: `failsafe.rs:9-11` says "cap-lower-only" and "(<= current
  cap)", and its test `failsafe_does_not_raise_caps` compares with the emergency cap
  only. That is why `OverloadCapped` asks for the emergency cap *or less*: a GPU
  that the controller holds below it needs no trip.
* `FloorWins`: `docs/N13-quota-enforcement.md:40-42` and the comment at
  `quota_prs.py:89-91` say that the floor wins over an infeasible slice.
  `quota_prs.py:93` scales the caps of the tenant to the slice whatever the floors:
  two GPUs with floors of 200 W and a slice of 300 W are decided 150 W each.
* `DeletedEntryGone`: `operator/handlers.py:304`. A pod event that listed a
  policy before its deletion publishes its entry after it, and nothing is left
  to remove it.

### Where code and documentation differ, without a run

These were met while modelling; none has a run of its own.

* `docs/N17-rack-tier.md:17` says that every brain sizes caps against
  `domain_budget_w`. `quota_prs.py:37` and `cvxpy_brain.py:78` read
  `budget_w`, so that racks, overheads and adopted budgets do not reach them.
* `docs/N17-rack-tier.md:26` says that a rack is never exceeded. An adopted budget
  supersedes the share of the rack (`pdn/model.py:76`), so it can be.
* `pdn/model.py:70-75` describes the scaling of a rack for any budget;
  `model.py:82` asks for `rack.budget_w > 0`, so a rack of 0 W scales nothing. In
  the same way a domain of 0 W is not renormalised by job-prs
  (`job_aware_prs.py:51`), nor a slice of 0 W by quota-prs (`quota_prs.py:93`).
  `RackFits`, `BoostFitsBudget` and `SlicesKept` are about budgets above 0.
* `docs/N14-multinode.md:22` says that the budgets of the nodes fit the cluster's.
  That holds of a round; budgets of two rounds may be in force at once, and a node
  that cannot read its budget, or finds it below `adopted_budget_min_w`, goes by
  its topology's.
* A PowerDomain that is deleted and made anew loses its `params.json`
  (`handlers.py:152`), and its PowerPolicy, which has not changed, is not handled
  again. `ParamsFollow` says what is left: a policy whose handler is still due.
* A PowerPolicy has no delete handler, so nothing holds it while its handler runs.
  Deleted and made anew, the handler of the old one may write `params.json` after
  that of the new (`WriteLate`), and nothing writes it again: `DomainStore` promises
  an order of the topologies, and none of the parameters.

### Bounds, and why they are enough

* `BrainLoop`: 10 W to the unit keeps the state space small and each constant
  (floor, limit, idle draw) at its default value. Two GPUs are one that gains
  and one that loses. Three
  loads make a GPU idle at the floor, idle or hot depending on its cap, and
  always hot. The averages lag by one half per tick (the code's default is 0.3)
  so that they take few values; wrappers, whose rule does not depend on the lag,
  are run with no lag. The failsafe's threshold is crossed by a GPU at full load
  whose cap is 80 or more, as decided or as the fleet starts.
* `ControlLoop`: two GPUs of a domain give every interleaving of one push with
  another's trip, the third is the one of no domain. Caps and draws are one
  value on each side of the threshold and of the emergency cap. Nothing is
  bounded in time: the process runs for ever.
* `BoostRegistry`: `MaxVersion` bounds the creations and changes of a policy,
  `MaxDisturbances` all that comes after its first creation (changes, creations
  anew, pod events, restarts) together, `Timed` the policies with a timer. Two
  disturbances in `BoostRegistryLive` are a change that meets a pod event or a
  restart, of the operator or of the controller. Two threads are enough for a conflict and two tries for giving up;
  `BoostRegistryLive` has one, after which kopf begins anew. The proofs drop all these
  bounds. `RV` has one version more than threads can
  hold, since a new version need only differ from those. Deadlock is not checked
  there: when the bounds are spent, the users have nothing more to do.

* `PrioritySource`: a GPU the pod holds and one it does not; `critical` is above
  the baseline and the tier nobody knows is refused.
* `DomainConfig`: of three specs the second is invalid, so that a refused one comes
  between two good ones; one failed call, restart or own key of a user.
* `ClusterBudget`: watts are a few units (a cluster of 24). Two nodes are one that
  stays and one that goes; four are needed for the ceiling of twice the fair share
  to bind, and their states are published from the start. Two changes (a load, a
  node, a failed read, a failed round, a late key) are one that goes and one that
  comes, or a failure while loads change.
* `AgentIpc`: two connections are one that overtakes the other. The domain of
  the GPUs the agent lacks has two, so that a panic loses a later frame too.
  One GPU of the agent keeps liveness checkable; a decision that is lost half way
  for two GPUs the agent has is in the proof, which is for any number, and not in
  the run.

### Fairness, and why the code justifies it

* `SteadySpec`: the controller's loop ticks for ever (`standalone.py:401`).
* `ControlLoop`: both threads keep running (weak fairness of each thread);
  strong fairness of what a scan reads and of the acceptance of a write, because
  the next scan and the next tick try again. An exception may end any number of
  ticks, at any domain; strong fairness of deciding for a domain and of getting
  through it says that not every tick fails before or at the same one.
  `ControlLoopLive` is run on the simulated fleet, whose calls do not fail.
* `BoostRegistry`: kopf starts what is due and runs on what it started (weak
  fairness); the calls made by handlers and timers, which kopf repeats, succeed
  some time (strong fairness). Threads of pod events have weak fairness only:
  their failure is never repeated. Liveness is claimed once the users' bounded
  changes have stopped.
* `PrioritySource`: the controller polls before each tick (weak fairness of
  `PollReads` and `PollMissing`); polls may fail in between at any time.
* `DomainConfig`: kopf runs the handlers that are due and runs them again after a
  failure (weak fairness of each handler); failures are bounded.
* `ClusterBudget`: nodes publish, controllers tick, the coordinator goes on round
  after round (weak fairness of each), and Redis drops the keys of a node that is
  gone. `Settles` is about clusters with one domain for each node whose floor is
  plausible (`Plain`), once the bounded changes have stopped.
* `AgentIpc`: all threads run (weak fairness; of each connection thread apart);
  strong fairness of sending a frame, of finishing a domain's decision, of
  applying a frame and of the failsafe's read and write, because the next tick
  and the next scan try again. Nothing makes the agent start again or its bind
  succeed: both liveness properties are about a time when it stays up, and
  `DecisionSettles` is about an agent that listens.

## 4. What is proved

All proofs are for arbitrary values of the constants under the assumptions
named in the modules.

* `ControlLoop_proofs`: `SpecTypeOK`, `SpecPushedInForce`,
  `SpecCapChangesHaveCause`, `SpecUnmanagedStaysCapped`, for any number of GPUs
  and domains and any brain. `PushedInForce` is not inductive alone:
  `IInv` adds that, while pushing, the decision is for exactly the sampled GPUs of
  the domain at hand and that what is still to push is part of it
  (`DecisionOfDomain`). The action properties follow
  from that invariant, one case per action.
* `BoostRegistry_proofs`: `SpecTypeOK` and `SpecImplementsRegistry`, for any
  number of policies, pods, tries, changes and restarts. The refinement rests on
  the invariant `IInv`: a thread between listing and writing has a job
  (`JobAtHand`); a thread that holds the version in force holds the content in
  force (`SeenIsCurrent`, because a new version differs from all that are held);
  the aggregate in the ConfigMap is that of its entries (`Aggregated`). Two
  lemmas carry the argument: every step leaves the ConfigMap or is one thread's
  write (`OneWrite`), and a thread about to write has just read what is in force
  or was about to write before (`AboutToWrite`). `NoneIsNone` (the markers for
  "nothing" are no data) and `RegistryParameters` are the assumptions.
* `AgentIpc_proofs`: `SpecTypeOK` and `SpecDecidedInForce`, for any fleet, any
  part of it the agent has, any number of connections and any brain, under
  `IpcParameters`. `DecidedInForce` alone is not inductive: `OnItsWay` adds that
  a frame of an undisturbed GPU carries the present decision on whichever
  connection it is, so that reading the last such frame establishes it. One
  lemma for each thread.

* `PrioritySource_proofs`: `FollowSkipIsSafe` and `FollowTiersHold`, for any
  policies, pods, GPUs, tiers and failures. A step of the composition keeps the
  invariant of `BoostRegistry_proofs` (`FollowRegistry`); `SkipIsSafe` is inductive
  beside it, because whatever writes the ConfigMap ends `known`. `FollowTiersHold`
  says of a refused payload that the brain takes nothing of it.
* `NodeBudget_proofs`, on the operator's side: `DomainSafe`, `DomainHandledIsThere`,
  `DomainImplementsStore` and `DomainLeavesNothing`, for any number of specs, any of
  them valid, and of failures, under `DomainParameters`. The type invariant is
  inductive because a spec is looked at before its handler goes on (`at # "idle" =>
  spec \in ValidGens`). `HandledIsThere` needs `HandledInv`: a handler runs only for
  a spec that is not handled and never for one to come (`genDone <= gen`,
  `spec <= gen`), and between its create and its second patch there is a map. The
  refinement needs `NeverBack` besides: the handler runs only while the PowerDomain
  is there, and what it is to write is no older than what the map has; the steps
  then are those of `DomainStore` one by one (`StoreStep`). `DomainLeavesNothing`
  shows what the abstraction is for: it is proved from the steps of `DomainStore`
  and holds of the handlers by the refinement. On the side of the coordinator the
  module lifts the theorems below. A behaviour of `NodeBudget` has either the
  operator at work or the coordinator, the other idle; both kinds are behaviours of
  `DomainConfig` (`BudgetIsDomain`) and of `ClusterBudget` (`BudgetIsCluster`).
* `ClusterBudget_proofs`: `ClusterTypeSafe`, `ClusterRoundFits` and
  `ClusterRackFits`, for any number of nodes, domains and racks, any draws and
  budgets of a topology, and any failures. `ClusterInv` adds to the types that a
  node publishes draws its deployment can have, and that what a round has read is
  of the nodes it listed. `RoundFits` then is arithmetic: each share is rounded
  down from a part of the budget, clamped between half and twice the fair share,
  and scaled when that does not fit.
* `BrainLoop_proofs`: every property of the run `BrainLoop`, for any number of
  GPUs, any loads, tuning, budget and quota, and a solver that may pick any
  optimum and fail at any time: `LoopTypeSafe`, `LoopOvershootShrinks`,
  `LoopRaiseBounded`, `LoopShedInOneTick`, `LoopBoostFitsBudget`,
  `LoopThrottledNeverRaised`, `LoopSlicesKept`. `SteadyIsLoop` says that they hold
  of the steady loop too. The assumptions are `BrainParameters` and
  `LoopParameters`; of the latter `MinCap <= HwMax` is what keeps the brain's own
  record in the range of the device (the floor is 200 W, the GPUs of the presets
  take 1000 W or more). The inductive invariant `LoopInv` gives the brain the form
  its name asks for (`BrainOK`: for each tenant of quota-prs a PRS brain of that
  tenant's GPUs) and adds `LimitIsLast`: for PRS, what the device has is what the
  limiter compares with, but for the GPUs the failsafe lowered in between.
  `LimitIsLast` carries `LoopRaiseBounded`, and its exception is that of the
  theorem. Each brain has lemmas
  of its own about one decision (`PRSDecideType`, `PRSDecideShrinks`,
  `JobCapsType`, `ThermalCapsType`, `QuotaCapsType`, `OptimaType`, ...), and the
  theorems put them together.
* `SumTheorems` is what both need of the folds of the community modules, with
  which the sums are defined: that the sum over a set takes out any one element
  (`SumRemove`), what holds of each value holds of the sum (`SumBound`), disjoint
  sets add up (`SumUnion`, `SumOfParts`). The prover cannot instantiate an
  induction theorem; each proof takes a minimal set for which the fact fails
  (`MinimalSubset`, from the library's theorem that inclusion is well-founded on
  the subsets of a finite set) and removes an element.

`LoopInv`, `DomainInv` and `ClusterInv` were checked by TLC, as invariants of the
instances of `BrainLoop` and `NodeBudget`, before they were proved.

Every safety property of a passing run is proved. Only model-checked: all liveness
(`Converges`, `OverloadTripped`, `TripUndone`, `FailsafeStops`,
`SteadyIdleReclaimed`, `SteadyBusyServed`, `SteadyLPEndsAtFloor`, `DecisionSettles`,
`OverloadCapped`, `TiersFollow`,
`TopologyFollows`, `ParamsFollow`, `Settles`), which needs fairness and `ENABLED`,
beyond the provers installed.

## 5. Plan

The order is by how much of the system depends on the part.

1. `Brains`, `BrainLoop`, `ControlLoop`, `BoostRegistry`, `AgentIpc`,
   `PrioritySource`, `DomainConfig`, `ClusterBudget` and `NodeBudget`, with the
   proofs of section 4: done.
2. `DomainStore`, which `DomainConfig` implements, stated and proved as
   `AssignmentRegistry` is for `BoostRegistry`: done.
3. `BrainLoop` with a trip between two ticks, for the raise limiter whose baseline
   is the brain's own output and not the cap the failsafe left: done.
4. The latency histogram of the Rust agent, observed and rendered at once.

## 6. Not modelled, and why

HTTP, parsing of Prometheus and Redfish replies, command lines, dashboards and
manifests are input and output without state of their own. The energy accountant
adds up what it is given and nothing decides by it. The job tracker is one thread
that replaces a dictionary under a lock; what a late or failed poll can make of it
is in `BrainLoop`, `nvidia-smi` is not. The metrics of the Rust agent are counters
that no decision reads. `validate_allocation` is called by tests alone. How a
solver finds an optimum is its own; which optima there are is modelled. Floating
point is abstracted to integers, so no property is about rounding; non-finite
draws, which the coordinator's command line refuses, are no draws of the model. The
selector and digest caches of the operator save calls for pods without the
annotation or without a change, and decide nothing for the annotated pods that are
modelled. The status patches of the operator are for people. Real time is
abstracted to order everywhere: the intervals of tick, scan, join, timer and TTL
appear as "some time".
