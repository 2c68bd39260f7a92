------------------------------ MODULE Brains ------------------------------
(***************************************************************************)
(* The decision functions of the brains (src/opendps/brain), as pure       *)
(* operators over integer watts.  One decision concerns one power domain.  *)
(*                                                                         *)
(* The code computes in floating point; here every quotient is rounded     *)
(* down, in a unit chosen by the instance (10 W in the MC modules).        *)
(* Classification (ewma / cap >= threshold) is exact: it is compared by    *)
(* cross multiplication.                                                   *)
(*                                                                         *)
(* A telemetry sample is three functions over the GPUs reported this tick: *)
(*   draw, cap, max   (DomainState.gpu_draws, gpu_caps, gpu_max_caps)      *)
(* and the PRS brain is a record of its two tuning options and of two      *)
(* functions over the GPUs it has seen:                                    *)
(*   alpha, rate      (ewma_alpha, cap_raise_rate_w_per_tick)              *)
(*   ewma, last       (PRSBrain._ewma[domain], PRSBrain._last_caps[domain])*)
(***************************************************************************)
EXTENDS Integers, Functions, FiniteSets

CONSTANTS
    MinCap,        \* min_cap_w: the floor of a cap
    HotRatio,      \* reclaim_threshold, a fraction <<numerator, denominator>>
    Margin,        \* idle_floor_margin, a fraction
    Boost,         \* priority_boost of job-prs, a fraction
    Derate         \* thermal_derate, a fraction

IsFraction(q) == q[1] \in Nat /\ q[2] \in Nat \ {0}

ASSUME BrainParameters ==
    /\ MinCap \in Nat
    /\ IsFraction(HotRatio)
    /\ IsFraction(Margin)
    /\ IsFraction(Boost)
    /\ IsFraction(Derate) /\ Derate[1] < Derate[2]

Least(a, b) == IF a <= b THEN a ELSE b
Most(a, b) == IF a >= b THEN a ELSE b

\* The whole part of q * w, for a fraction q and watts w.
Times(q, w) == (q[1] * w) \div q[2]

\* Mutant: compares each cap with the budget, not their sum.
ScaledEachTo(caps, budget) ==
    [g \in DOMAIN caps |-> Least(caps[g], budget)]

\* x scaled down so that the caps sum to at most the budget; unchanged when
\* they already do, or when the budget is zero (`if budget and total > budget`).
ScaledTo(caps, budget) ==
    LET total == SumFunction(caps)
    IN  IF budget > 0 /\ total > budget
        THEN [g \in DOMAIN caps |-> (caps[g] * budget) \div total]
        ELSE caps

\* PRSBrain.__init__: a smoothing factor in (0, 1], a rate of 0 for no limit.
IsAlpha(q) == IsFraction(q) /\ 0 < q[1] /\ q[1] <= q[2]
NewPRS(alpha, rate) == [alpha |-> alpha, rate |-> rate, ewma |-> <<>>, last |-> <<>>]

---------------------------------------------------------------------------
(***************************************************************************)
(* DPM, brain v1: stateless.                                               *)
(***************************************************************************)
\* Mutant: takes the share of the cap held instead of the draw.
DPMCapsOfCap(budget, draw, cap, max) ==
    LET total == SumFunction(draw)
    IN  IF total <= budget
        THEN max
        ELSE [g \in DOMAIN draw |->
                 Most(MinCap, Least(cap[g], (cap[g] * budget) \div total))]

DPMCaps(budget, draw, cap, max) ==
    LET total == SumFunction(draw)
        Share(g) == (draw[g] * budget) \div total
    IN  IF total <= budget
        THEN max
        ELSE [g \in DOMAIN draw |-> Most(MinCap, Least(cap[g], Share(g)))]

---------------------------------------------------------------------------
(***************************************************************************)
(* PRS, brain v2: reclaim from idle GPUs, redistribute to hot ones.        *)
(***************************************************************************)

\* Mutant: adds the old average without its weight.
Accumulated(alpha, ewma, draw) ==
    LET Prev(g) == IF g \in DOMAIN ewma THEN ewma[g] ELSE draw[g]
    IN  [g \in DOMAIN draw |-> Times(alpha, draw[g]) + Prev(g)]

\* A GPU never seen before is seeded with its own draw.
Blended(alpha, ewma, draw) ==
    LET Prev(g) == IF g \in DOMAIN ewma THEN ewma[g] ELSE draw[g]
        Blend(g) == (alpha[1] * draw[g] + (alpha[2] - alpha[1]) * Prev(g))
                        \div alpha[2]
    IN  [g \in DOMAIN ewma \cup DOMAIN draw |->
            IF g \in DOMAIN draw THEN Blend(g) ELSE ewma[g]]

AtLeast(w, ratio, cap) == cap > 0 /\ w * ratio[2] >= ratio[1] * cap

HotGpus(ewma, cap) == {g \in DOMAIN cap : AtLeast(ewma[g], HotRatio, cap[g])}

\* Mutant: puts the floor under the draw instead of comparing with it.
IdleCapOverFloor(ewma, max) == Least(MinCap + ewma + Times(Margin, ewma), max)

IdleCap(ewma, max) == Least(Most(MinCap, ewma + Times(Margin, ewma)), max)

\* Mutant: gives a hot GPU what it draws, not its share.
HotCapsAsDrawn(hot, budget, ewma, max) ==
    [g \in hot |-> Most(MinCap, Least(max[g], ewma[g]))]

HotCaps(hot, budget, ewma, max) ==
    LET total == SumFunctionOnSet(ewma, hot)
        Share(g) == IF total > 0 THEN (ewma[g] * budget) \div total
                                 ELSE budget \div Cardinality(hot)
    IN  [g \in hot |-> Most(MinCap, Least(max[g], Share(g)))]

\* Mutant: forgets to take the idle floors off the budget.
PRSTargetsUnreserved(budget, ewma, cap, max) ==
    LET hot == HotGpus(ewma, cap)
        hotCaps == HotCaps(hot, budget, ewma, max)
    IN  [g \in DOMAIN cap |-> IF g \in hot THEN hotCaps[g]
                                           ELSE IdleCap(ewma[g], max[g])]

\* The unlimited targets: idle floors first, the rest of the budget to the hot.
PRSTargets(budget, ewma, cap, max) ==
    LET hot == HotGpus(ewma, cap)
        idleCaps == [g \in DOMAIN cap \ hot |-> IdleCap(ewma[g], max[g])]
        hotBudget == Most(0, budget - SumFunction(idleCaps))
        hotCaps == HotCaps(hot, hotBudget, ewma, max)
    IN  [g \in DOMAIN cap |-> IF g \in hot THEN hotCaps[g] ELSE idleCaps[g]]

\* The N5 limiter: only a raise is limited, against the brain's own last
\* output, or against the reported cap the first time the GPU is seen.
RaiseLimited(rate, target, last, cap) ==
    LET Prev(g) == IF g \in DOMAIN last THEN last[g] ELSE cap[g]
    IN  [g \in DOMAIN target |->
            IF rate > 0 /\ target[g] > Prev(g)
            THEN Least(target[g], Prev(g) + rate)
            ELSE target[g]]

\* Mutant: remembers the target instead of what the limiter left of it.
PRSDecideByTarget(self, budget, draw, cap, max) ==
    LET ewma == Blended(self.alpha, self.ewma, draw)
        targets == PRSTargets(budget, ewma, cap, max)
    IN  [caps |-> RaiseLimited(self.rate, targets, self.last, cap),
         brain |-> [self EXCEPT !.ewma = ewma, !.last = targets]]

\* decide(): the caps to push and the brain that is left for the next tick.
PRSDecide(self, budget, draw, cap, max) ==
    LET ewma == Blended(self.alpha, self.ewma, draw)
        targets == PRSTargets(budget, ewma, cap, max)
        caps == RaiseLimited(self.rate, targets, self.last, cap)
    IN  [caps |-> caps, brain |-> [self EXCEPT !.ewma = ewma, !.last = caps]]

\* note_applied_caps(): a wrapping brain reports what it really returned.
NoteApplied(self, caps) == [self EXCEPT !.last = caps]
---------------------------------------------------------------------------
(***************************************************************************)
(* The brains that wrap PRS: from the caps PRS decided (prs) to the caps   *)
(* they push.                                                              *)
(***************************************************************************)

\* job-prs: raise the busy GPUs, then renormalise the domain to its budget.
JobCaps(prs, budget, max, busy) ==
    IF busy \cap DOMAIN prs = {} THEN prs
    ELSE ScaledTo([g \in DOMAIN prs |->
                      IF g \in busy
                      THEN Least(prs[g] + Times(Boost, prs[g]), max[g])
                      ELSE prs[g]],
                  budget)

\* TIER_WEIGHTS, doubled so that they are whole numbers.
TierWeight == [low |-> 1, normal |-> 2, high |-> 4, critical |-> 8]
Tiers == DOMAIN TierWeight

\* The GPUs that draw near their reported cap and so compete for budget.
Contended(draw, cap) == {g \in DOMAIN cap : AtLeast(draw[g], HotRatio, cap[g])}

\* Each contended GPU gets its floor and a part of what the others leave of the
\* budget, weighted by draw and tier.
Tiered(contended, prs, budget, draw, max, tier) ==
    LET reserved == SumFunctionOnSet(prs, DOMAIN prs \ contended)
        surplus == Most(0, budget - reserved - MinCap * Cardinality(contended))
        weight == [g \in contended |-> draw[g] * TierWeight[tier[g]]]
        Part(g) == (surplus * weight[g]) \div Most(1, SumFunction(weight))
    IN  [g \in DOMAIN prs |->
            IF g \in contended THEN Least(MinCap + Part(g), max[g]) ELSE prs[g]]

\* priority-prs: by tier, as soon as two GPUs or more compete.
PriorityCaps(prs, budget, draw, cap, max, tier) ==
    IF Cardinality(Contended(draw, cap)) < 2 \/ budget = 0 THEN prs
    ELSE ScaledTo(Tiered(Contended(draw, cap), prs, budget, draw, max, tier), budget)

\* Mutant: backs off from the PRS proposal alone.
DeratedFromProposal(proposal, held) ==
    Most(MinCap, Times(<<Derate[2] - Derate[1], Derate[2]>>, proposal))

\* A throttled GPU is backed off from the lower of the PRS proposal and the
\* cap it holds, towards the floor but never above that lower value.
Derated(proposal, held) ==
    LET base == Least(proposal, held)
    IN  Least(base, Most(MinCap, Times(<<Derate[2] - Derate[1], Derate[2]>>, base)))

\* The freed watts handed out in proportion to the headroom of each GPU.
Shared(freed, headroom) ==
    LET total == SumFunction(headroom)
    IN  [g \in DOMAIN headroom |->
            IF freed > 0 /\ total > 0
            THEN (Least(freed, total) * headroom[g]) \div total
            ELSE 0]

\* thermal-prs: derate the throttled GPUs, hand the freed watts to the others.
ThermalCaps(prs, cap, max, hot) ==
    LET throttled == hot \cap DOMAIN prs
        reduced == [g \in throttled |-> Derated(prs[g], cap[g])]
        freed == SumFunctionOnSet(prs, throttled) - SumFunction(reduced)
        extra == Shared(freed, [g \in DOMAIN prs \ throttled |->
                                    Most(0, max[g] - prs[g])])
    IN  IF throttled = {} THEN prs
        ELSE [g \in DOMAIN prs |->
                 IF g \in throttled THEN reduced[g] ELSE prs[g] + extra[g]]

---------------------------------------------------------------------------
(***************************************************************************)
(* quota-prs: a PRS brain of its own for each tenant, inside the tenant's  *)
(* slice of the budget.  A quota gives each tenant its GPUs and its        *)
(* percentage (QuotaConfig); self gives each tenant its PRS brain.         *)
(***************************************************************************)

\* QuotaConfig.validate() and TenantQuota.__post_init__, and the check of the
\* controller that the GPUs belong to the domain.
IsQuota(quota, gpus) ==
    LET Tenants == DOMAIN quota
    IN  /\ IsFiniteSet(Tenants)
        /\ \A t \in Tenants : quota[t].pct \in 1 .. 100 /\ quota[t].gpus \subseteq gpus
        /\ SumFunction([t \in Tenants |-> quota[t].pct]) <= 100
        /\ \A t, u \in Tenants : t # u => quota[t].gpus \cap quota[u].gpus = {}

Slice(quota, t, budget) == (quota[t].pct * budget) \div 100

\* The GPUs of no tenant.
Unassigned(quota, gpus) == gpus \ UNION {quota[t].gpus : t \in DOMAIN quota}

\* Mutant: takes the slices off the budget before the tenants' GPUs are scaled.
LeftoverOfBudget(budget, used, free, max) ==
    [g \in free |-> Least(budget \div Cardinality(free), max[g])]

\* What the tenants leave of the budget, in equal parts.
Leftover(budget, used, free, max) ==
    [g \in free |-> Least(Most(0, budget - used) \div Cardinality(free), max[g])]

\* The decision of each tenant's brain in its slice.
TenantsDecide(self, budget, draw, cap, max, quota) ==
    [t \in DOMAIN quota |->
        LET Own(f) == Restrict(f, quota[t].gpus)
        IN  PRSDecide(self[t], Slice(quota, t, budget), Own(draw), Own(cap), Own(max))]

\* The caps of all, given those decisions: scaled down to the slice, the floors
\* of PRS included.
QuotaCaps(decided, budget, max, quota) ==
    LET slices == [t \in DOMAIN quota |->
                      ScaledTo(decided[t].caps, Slice(quota, t, budget))]
        used == SumFunction([t \in DOMAIN quota |-> SumFunction(slices[t])])
        rest == Leftover(budget, used, Unassigned(quota, DOMAIN max), max)
    IN  [g \in DOMAIN max |->
            IF g \in DOMAIN rest THEN rest[g]
            ELSE LET t == CHOOSE u \in DOMAIN quota : g \in quota[u].gpus
                 IN  slices[t][g]]

---------------------------------------------------------------------------
(***************************************************************************)
(* cvxpy: a linear program over the caps, with PRS to fall back on.  self  *)
(* has averages of its own and the PRS brain, with no raise limit.         *)
(***************************************************************************)
NewLP(alpha) == [alpha |-> alpha, ewma |-> <<>>, fallback |-> NewPRS(alpha, 0)]

\* Here a GPU is hot when its average is near its hardware limit.
LPHot(ewma, max) == HotGpus(ewma, [g \in DOMAIN max |-> Most(max[g], 1)])

\* The program has a solution: every GPU can have the floor.
Feasible(budget, max) ==
    /\ MinCap * Cardinality(DOMAIN max) <= budget
    /\ \A g \in DOMAIN max : MinCap <= max[g]

\* The caps whose sum is minimised: those of the hot GPUs, or all.
Objective(ewma, max) ==
    IF LPHot(ewma, max) = {} THEN DOMAIN max ELSE LPHot(ewma, max)

\* Mutant: maximises the sum, whatever the budget.
OptimaMaximal(budget, ewma, max) ==
    {[g \in DOMAIN max |-> IdleCap(ewma[g], max[g])]}

\* The optimal solutions.  Nothing keeps a minimised cap above the floor.  The
\* others may take any value up to their ceiling that the budget leaves; of these
\* a simplex solver, which the code prefers, returns a vertex: each cap at one of
\* its bounds, but for one that is cut down to the budget.
Optima(budget, ewma, max) ==
    LET Free == DOMAIN max \ Objective(ewma, max)
        Raised(up) == [g \in DOMAIN max |-> IF g \in up THEN IdleCap(ewma[g], max[g])
                                                       ELSE MinCap]
        Excess(caps) == Most(0, SumFunction(caps) - budget)
        Cut(caps, g) == [caps EXCEPT ![g] = @ - Excess(caps)]
    IN  {Raised({})} \cup
        {caps \in {Cut(Raised(up), g) : up \in SUBSET Free, g \in Free} :
            \A g \in Free : caps[g] >= MinCap}
===========================================================================
