----------------------------- MODULE BrainLoop -----------------------------
(***************************************************************************)
(* The closed control loop of one power domain on the simulated fleet:     *)
(* StandaloneController.run_once with --sim (src/opendps/controller/       *)
(* standalone.py) around one brain and SimBackend (src/opendps/sim).       *)
(*                                                                         *)
(* One action is one whole tick: read every draw and cap, decide, push     *)
(* every cap, resample the load.  Between two ticks a FailsafeLoop on the  *)
(* same fleet (src/opendps/agent/failsafe.py) may lower caps; what it does *)
(* inside a tick, to a brain of any kind, is in ControlLoop.               *)
(***************************************************************************)
EXTENDS Brains

CONSTANTS
    GPU,           \* the GPUs of the domain
    Configs,       \* the --brain option, its tuning and the quota file: records
                   \* with fields name, alpha, rate and quota
    Budget,        \* domain_budget_w of the domain
    HwMax,         \* SimGpu.max_cap_w, the same for every GPU
    Utils,         \* the utilisations a GPU may show, in percent
    IdlePower,     \* _IDLE_POWER_W
    SolverFails,   \* the solver of cvxpy may raise an exception
    Threshold,     \* emergency_threshold_w of the failsafe
    Emergency      \* emergency_cap_w

\* PRS, alone or wrapped; DPM, which shares their form; and the others.
PRSNames == {"dpm", "prs", "job-prs", "priority-prs", "thermal-prs"}
BrainNames == PRSNames \cup {"quota-prs", "cvxpy"}

ASSUME LoopParameters ==
    /\ IsFiniteSet(GPU)
    /\ \A c \in Configs :
          /\ c.name \in BrainNames /\ IsAlpha(c.alpha) /\ c.rate \in Nat
          /\ IsQuota(c.quota, GPU)
    /\ Budget \in Nat /\ HwMax \in Nat /\ IdlePower \in Nat
    /\ MinCap <= HwMax      \* 200 W, of GPUs of the presets that take 1000
    /\ Utils \subseteq 0 .. 100
    /\ SolverFails \in BOOLEAN
    /\ Threshold \in Nat /\ Emergency \in Nat /\ Emergency < Threshold

VARIABLES
    limit,         \* SimGpu.cap_w
    util,          \* SimGpu._current_util
    name,          \* ControllerConfig.brain_type
    quota,         \* ControllerConfig.quota_config, empty but for quota-prs
    brain,         \* its state: a PRS brain, alone or wrapped, a PRS brain for
                   \* each tenant, or that of cvxpy; DPM has none
    flagged,       \* GPUs with a job (job-prs) or over temperature (thermal-prs)
    tier,          \* the tier map last set (priority-prs)
    lowered        \* the GPUs the failsafe has lowered since the last tick

vars == <<limit, util, name, quota, brain, flagged, tier, lowered>>

\* SimGpu.power_draw_w: 85% of the cap at full load over an idle floor, and
\* never above the cap.
SimDraw(w, u) == Least((w * u * 85) \div 10000 + IdlePower, w)
Draw == [g \in GPU |-> SimDraw(limit[g], util[g])]

\* SimBackend.set_power_cap: the backend clamps to [0, max].
Clamped(w) == Least(Most(0, w), HwMax)

MaxCaps == [g \in GPU |-> HwMax]

\* What decide() returns, and the PRS brain it leaves, given the decision of the
\* PRS brain inside.  job-prs does not report back what it made of it.
Caps(prs) ==
    CASE name = "dpm" -> DPMCaps(Budget, Draw, limit, MaxCaps)
      [] name = "prs" -> prs
      [] name = "job-prs" -> JobCaps(prs, Budget, MaxCaps, flagged)
      [] name = "priority-prs" ->
            PriorityCaps(prs, Budget, Draw, limit, MaxCaps, tier)
      [] name = "thermal-prs" -> ThermalCaps(prs, limit, MaxCaps, flagged)

Left(prsBrain, caps) ==
    CASE name = "dpm" -> brain
      [] name \in {"prs", "job-prs"} -> prsBrain
      [] name \in {"priority-prs", "thermal-prs"} -> NoteApplied(prsBrain, caps)

\* What may come with a tick; a brain that ignores an input sees one value.
GpuSets(b) == IF b \in {"job-prs", "thermal-prs"} THEN SUBSET GPU ELSE {{}}
TierMaps(b) == IF b = "priority-prs" THEN [GPU -> {"low", "critical"}]
               ELSE {[g \in GPU |-> "normal"]}

NewBrain(c) ==
    CASE c.name \in PRSNames -> NewPRS(c.alpha, c.rate)
      [] c.name = "quota-prs" -> [t \in DOMAIN c.quota |-> NewPRS(c.alpha, c.rate)]
      [] c.name = "cvxpy" -> NewLP(c.alpha)

\* A preset fleet starts uncapped (sim/presets.py).
Init ==
    /\ limit = MaxCaps
    /\ util \in [GPU -> Utils]
    /\ \E c \in Configs : name = c.name /\ quota = c.quota /\ brain = NewBrain(c)
    /\ flagged \in GpuSets(name)
    /\ tier \in TierMaps(name)
    /\ lowered = {}

\* What decide() leaves, and the caps as the backend takes them.
Decided(caps, left) ==
    /\ limit' = [g \in GPU |-> Clamped(caps[g])]
    /\ brain' = left
    /\ lowered' = {}
    /\ UNCHANGED <<name, quota>>

\* decide() of PRS and its wrappers, and of DPM.
ByPRS ==
    /\ name \in PRSNames
    /\ \E prs \in {PRSDecide(brain, Budget, Draw, limit, MaxCaps)} :
          \E caps \in {Caps(prs.caps)} : Decided(caps, Left(prs.brain, caps))

\* quota-prs, which never reports back what it made of the tenants' decisions.
ByTenants ==
    /\ name = "quota-prs"
    /\ \E own \in {TenantsDecide(brain, Budget, Draw, limit, MaxCaps, quota)} :
          Decided(QuotaCaps(own, Budget, MaxCaps, quota),
                  [t \in DOMAIN quota |-> own[t].brain])

\* cvxpy: a solution of the program, or the decision of PRS if there is none or
\* the solver failed.  The averages of PRS stand still in between.
BySolver ==
    /\ name = "cvxpy"
    /\ Feasible(Budget, MaxCaps)
    /\ \E ewma \in {Blended(brain.alpha, brain.ewma, Draw)} :
          \E caps \in Optima(Budget, ewma, MaxCaps) :
              Decided(caps, [brain EXCEPT !.ewma = ewma])

ByFallback ==
    /\ name = "cvxpy"
    /\ SolverFails \/ ~Feasible(Budget, MaxCaps)
    /\ \E prs \in {PRSDecide(brain.fallback, Budget, Draw, limit, MaxCaps)} :
          Decided(prs.caps,
                  [brain EXCEPT !.ewma = Blended(brain.alpha, brain.ewma, Draw),
                                !.fallback = prs.brain])

\* run_once(): decide on what is read now, push the caps.
Control == ByPRS \/ ByTenants \/ BySolver \/ ByFallback

\* SimBackend.tick() closes the tick; jobs, temperatures and tiers move too.
Tick ==
    /\ Control
    /\ util' \in [GPU -> Utils]
    /\ flagged' \in GpuSets(name)
    /\ tier' \in TierMaps(name)

\* FailsafeLoop._run on one GPU.
Trip ==
    /\ \E g \in GPU :
          /\ Draw[g] > Threshold
          /\ limit' = [limit EXCEPT ![g] = Clamped(Emergency)]
          /\ lowered' = lowered \cup {g}
    /\ UNCHANGED <<util, name, quota, brain, flagged, tier>>

Next == Tick \/ Trip

Spec == Init /\ [][Next]_vars

\* The loop without a failsafe, under a load that no longer changes: every tick is taken,
\* `while True: run_once(); sleep` (StandaloneController.run).
SteadyTick == Control /\ UNCHANGED <<util, flagged, tier>>
SteadySpec == Init /\ [][SteadyTick]_vars /\ WF_vars(SteadyTick)

---------------------------------------------------------------------------
PRSBrains ==
    CASE name \in PRSNames -> {brain}
      [] name = "quota-prs" -> {brain[t] : t \in DOMAIN quota}
      [] name = "cvxpy" -> {brain.fallback}

\* Types: a cap, the averages of the draws and the brain's own record of the
\* caps never leave the hardware range.
TypeOK ==
    /\ limit \in [GPU -> 0 .. HwMax]
    /\ util \in [GPU -> Utils]
    /\ name \in BrainNames
    /\ flagged \in GpuSets(name)
    /\ tier \in TierMaps(name)
    /\ lowered \subseteq GPU
    /\ \A b \in PRSBrains : \A f \in {b.ewma, b.last} : f \in [DOMAIN f -> 0 .. HwMax]
    /\ name = "cvxpy" => brain.ewma \in [DOMAIN brain.ewma -> 0 .. HwMax]

\* The step is a tick, and not the failsafe.
Decides == lowered' = {}

\* The GPUs held at the floor.
Pinned(w) == {g \in GPU : w[g] <= MinCap}

\* An idle GPU was below the threshold of the cap it held, and keeps its average
\* plus the margin: at most this part of that cap.
Retained == <<HotRatio[1] * (Margin[1] + Margin[2]), HotRatio[2] * Margin[2]>>

\* prs.py:11 sets the goal "keeping sum cap_i <= domain budget".  What a tick
\* really does is weaker: the GPUs held at the floor aside, the caps it leaves fit
\* the budget, or else are a fixed fraction less than all caps before it, however
\* long the load varies and the averages lag (prs, priority-prs), and when they
\* stand still while a solver decides (cvxpy).  A GPU of cap 0 W would count as
\* idle whatever its average (prs.py:121).
OvershootShrinks ==
    [][Decides /\ (name \in {"prs", "priority-prs", "cvxpy"}) /\ (\A g \in GPU : limit[g] > 0)
        => SumFunctionOnSet(limit', GPU \ Pinned(limit'))
            <= Most(Budget, Times(Retained, SumFunction(limit)))]_vars

\* prs.py:38 says of the new caps "<= budget by construction", the test
\* test_brain_prs.py:69 "must always be", priority-prs "never exceeded"
\* (docs/N15-priority-preemption.md).  Checked from the first decision on, with
\* a budget that could give every GPU its floor.
WithinBudget == brain.last # <<>> => SumFunction(limit) <= Budget

\* DPM: when the fleet draws more than the budget, one tick is enough to bring
\* the caps down to it, the GPUs held at the floor aside (dpm.py:55).
ShedInOneTick ==
    [][Decides /\ name = "dpm" /\ SumFunction(Draw) > Budget
        => SumFunctionOnSet(limit', GPU \ Pinned(limit')) <= Budget]_vars

\* The limiter of prs.py:70 seen from the device: the cap that is really in force
\* never rises by more than the rate in a tick, although the limiter compares with
\* the brain's own last output and never reads the device again.  For the same
\* reason it does not hold back a GPU that the failsafe has lowered in between:
\* that one is given back in a single tick what it was decided before.
RaiseBounded ==
    [][Decides /\ name = "prs" /\ brain.rate > 0
        => \A g \in GPU \ lowered : limit'[g] <= limit[g] + brain.rate]_vars

\* job-prs renormalises after the boost (job_aware_prs.py:46): with a job on any
\* GPU the domain fits its budget, floors included.  A budget of 0 W renormalises
\* nothing (`if budget and total > budget`, job_aware_prs.py:51).
BoostFitsBudget ==
    [][Decides /\ name = "job-prs" /\ flagged # {} /\ Budget > 0
        => SumFunction(limit') <= Budget]_vars

\* thermal-prs: "a throttled GPU is never raised, only backed off"
\* (thermal_prs.py:40), however far PRS or the redistribution would go.
ThrottledNeverRaised ==
    [][Decides /\ name = "thermal-prs" => \A g \in flagged : limit'[g] <= limit[g]]_vars

\* quota-prs: each tenant stays within its slice and the GPUs of no tenant take
\* only what the slices leave, "the hard guarantee N13 exists to provide"
\* (docs/N13-quota-enforcement.md:37), with a lagging brain too.  The code keeps it
\* even where N13 gives it up, when the floors of a tenant do not fit its slice
\* (see FloorWins).  A slice of 0 W renormalises nothing (quota_prs.py:93).
SlicesKept ==
    [][Decides /\ name = "quota-prs" /\ (\A t \in DOMAIN quota : Slice(quota, t, Budget) > 0)
        => /\ \A t \in DOMAIN quota :
                 SumFunctionOnSet(limit', quota[t].gpus) <= Slice(quota, t, Budget)
           /\ SumFunction(limit') <= Budget]_vars

\* docs/N13-quota-enforcement.md:40 and the comment at quota_prs.py:89: when the
\* floors of a tenant's GPUs exceed its slice, "the floor wins".
FloorWins ==
    [][Decides /\ name = "quota-prs"
        => \A t \in DOMAIN quota :
              MinCap * Cardinality(quota[t].gpus) > Slice(quota, t, Budget)
              => \A g \in quota[t].gpus : limit'[g] >= MinCap]_vars

\* Under a steady load: the GPUs whose draw stays below the reclaim threshold
\* even of the floor, and the GPU that is alone in being fully loaded.
QuietUtils == {u \in Utils : ~AtLeast(SimDraw(HwMax, u), HotRatio, MinCap)}
Quiet(g) == util[g] \in QuietUtils
Alone(g) == util[g] = 100 /\ \A h \in GPU \ {g} : Quiet(h)

\* Under a steady load the watts of an idle GPU are reclaimed for good: its cap
\* ends at the floor and stays there (prs.py:6).
IdleReclaimed ==
    \A g \in GPU : name = "prs" /\ Quiet(g) => <>[](limit[g] = MinCap)

\* ... and they reach the one GPU that is busy: it ends with everything the
\* floors of the others leave (prs.py:7).
BusyServed ==
    \A g \in GPU : name = "prs" /\ Alone(g)
        => <>[](limit[g] >= Least(HwMax, Budget - MinCap * (Cardinality(GPU) - 1)))

\* What the program of cvxpy makes of a steady load, whatever it is: the sum of
\* the caps of the hot GPUs is minimised and nothing asks for their draw
\* (cvxpy_brain.py:93), so a GPU that was hot gets the floor, draws no more than
\* that, and never counts as hot again.  All end at the floor, the busy included.
LPEndsAtFloor == name = "cvxpy" => <>[](\A g \in GPU : limit[g] = MinCap)

\* docs/N12-job-awareness.md:59 says of the closed loop of job-prs, with a job
\* on some GPU, that "it converges to a higher steady-state share".
JobShareConverges == flagged # {} => <>[][limit' = limit]_vars
============================================================================
