---------------------------- MODULE ControlLoop ----------------------------
(***************************************************************************)
(* The node agent (src/opendps/agent/process.py): two threads of one       *)
(* process write the power caps of the same GPUs and share no lock.        *)
(*                                                                         *)
(*  - the controller thread (StandaloneController.run) reads telemetry,    *)
(*    asks the brain for caps and pushes them one GPU at a time, domain    *)
(*    after domain;                                                        *)
(*  - the failsafe thread (FailsafeLoop._run) scans all GPUs and sets the  *)
(*    emergency cap on one whose draw it read above the threshold.         *)
(*                                                                         *)
(* A SIGTERM runs its handler on the controller thread, wherever that is.  *)
(*                                                                         *)
(* What the brain decides is left open (any caps in BrainCaps): the        *)
(* theorems hold for every brain.  The decisions are modelled in Brains    *)
(* and closed over the simulated fleet in BrainLoop.                       *)
(***************************************************************************)
EXTENDS Integers

CONSTANTS
    GPUCount,             \* nvmlDeviceGetCount
    DomainCount,          \* managed domains, controlled in order 1, 2, ...
    DomainOf,             \* the domain of each GPU; 0: in no managed domain
    Sim,                  \* --sim: a SimBackend and telemetry from it, instead
                          \* of NVML and telemetry from Prometheus
    EmergencyThreshold,   \* emergency_threshold_w
    EmergencyCap,         \* emergency_cap_w
    BrainCaps,            \* the caps a brain may decide
    BootCaps,             \* the caps in force when the agent starts
    Draws                 \* the draws its workload may ask of a GPU

GPU == 0 .. GPUCount - 1
Domain == 1 .. DomainCount

ASSUME AgentParameters ==
    /\ GPUCount \in Nat \ {0}
    /\ DomainCount \in Nat \ {0}
    /\ DomainOf \in [GPU -> 0 .. DomainCount]
    /\ Sim \in BOOLEAN
    /\ BrainCaps \subseteq Nat
    /\ BootCaps \subseteq Nat
    /\ Draws \subseteq Nat

\* FailsafeLoop.__init__ refuses any other pair.
ASSUME EmergencyBelowThreshold ==
    /\ EmergencyThreshold \in Nat
    /\ EmergencyCap \in Nat
    /\ EmergencyCap < EmergencyThreshold

VARIABLES
    limit,        \* the power management limit of each GPU
    draw,         \* what its workload asks for
    proc,         \* "running", "stopping" (signal handler), "closed" (NVML shut)
    phase,        \* the controller: "sleep", "read", "push"
    domain,       \* the domain run_once is at
    sampled,      \* the GPUs whose telemetry this tick has
    decision,     \* decision.caps
    todo,         \* the GPUs of the decision not pushed yet
    fs,           \* the failsafe: "scan", "trip", "sleep", "stopped"
    fsGpu,        \* the GPU its scan is at
    overridden,   \* history: GPUs tripped after this tick sampled them
    rejected      \* history: GPUs whose last write the driver refused

device == <<limit, draw>>
controller == <<phase, domain, sampled, decision, todo>>
failsafe == <<fs, fsGpu>>
vars == <<limit, draw, proc, phase, domain, sampled, decision, todo,
          fs, fsGpu, overridden, rejected>>

\* Mutant: also takes in the GPUs of no managed domain.
MembersAndUnmanaged(d) == {g \in GPU : DomainOf[g] \in {0, d}}

Members(d) == {g \in GPU : DomainOf[g] = d}

Init ==
    /\ limit \in [GPU -> BootCaps]
    /\ draw \in [GPU -> Draws]
    /\ proc = "running"
    /\ phase = "sleep" /\ domain = 1
    /\ sampled = {} /\ decision = [g \in {} |-> 0] /\ todo = {}
    /\ fs = "scan" /\ fsGpu = 0
    /\ overridden = {} /\ rejected = {}

---------------------------------------------------------------------------
(***************************************************************************)
(* The device.  NvmlActuator.set_power_cap logs an NVML error and returns, *)
(* so a write can be lost without its caller knowing; after nvmlShutdown   *)
(* every write is.  A write to the simulated fleet does not fail.          *)
(***************************************************************************)
\* Mutant: the write gets through after NVML is shut.
AcceptedWhenClosed(g, w) ==
    /\ limit' = [limit EXCEPT ![g] = w]
    /\ rejected' = rejected \ {g}

Accepted(g, w) ==
    /\ proc # "closed"
    /\ limit' = [limit EXCEPT ![g] = w]
    /\ rejected' = rejected \ {g}

Refused(g) ==
    /\ Sim => proc = "closed"
    /\ limit' = limit
    /\ rejected' = rejected \cup {g}

SetPowerCap(g, w) == Accepted(g, w) \/ Refused(g)

\* get_power_draw.  SimGpu.power_draw_w is clamped to the limit; a real GPU may
\* overshoot it for a while, and that is what the failsafe is for.
PowerDraw(g) == IF Sim /\ draw[g] > limit[g] THEN limit[g] ELSE draw[g]

Workload(g) ==
    /\ \E w \in Draws : draw' = [draw EXCEPT ![g] = w]
    /\ UNCHANGED <<limit, proc, phase, domain, sampled, decision, todo,
                   fs, fsGpu, overridden, rejected>>

---------------------------------------------------------------------------
(***************************************************************************)
(* The controller thread.  It takes no step once the signal handler runs.  *)
(***************************************************************************)

\* run_once() begins.  From Prometheus one sample covers the GPUs of all
\* domains that are in it; from the actuator each GPU is read in its domain.
TickStart ==
    /\ proc = "running" /\ phase = "sleep"
    /\ phase' = "read" /\ domain' = 1
    /\ IF Sim THEN sampled' = {} ELSE sampled' \in SUBSET GPU
    /\ overridden' = {}
    /\ UNCHANGED <<limit, draw, proc, decision, todo, fs, fsGpu, rejected>>

\* get_power_draw, get_power_cap of the next GPU of the domain.
ReadGpu(g) ==
    /\ proc = "running" /\ phase = "read"
    /\ Sim
    /\ g \in Members(domain) \ sampled
    /\ \A h \in Members(domain) \ sampled : g <= h
    /\ sampled' = sampled \cup {g}
    /\ UNCHANGED <<limit, draw, proc, phase, domain, decision, todo,
                   fs, fsGpu, overridden, rejected>>

\* brain.decide(): a GPU without telemetry is skipped.
Decide ==
    /\ proc = "running" /\ phase = "read"
    /\ Sim => Members(domain) \subseteq sampled
    /\ decision' \in [Members(domain) \cap sampled -> BrainCaps]
    /\ todo' = Members(domain) \cap sampled
    /\ phase' = "push"
    /\ UNCHANGED <<limit, draw, proc, domain, sampled, fs, fsGpu,
                   overridden, rejected>>

\* Mutant: one refused write ends the push loop.
PushUntilRefused(g) ==
    /\ proc = "running" /\ phase = "push"
    /\ g \in todo
    /\ \/ Accepted(g, decision[g]) /\ todo' = todo \ {g}
       \/ Refused(g) /\ todo' = {}
    /\ UNCHANGED <<draw, proc, phase, domain, sampled, decision,
                   fs, fsGpu, overridden>>

\* set_power_cap(gpu_idx, cap_w) of the push loop.
Push(g) ==
    /\ proc = "running" /\ phase = "push"
    /\ g \in todo
    /\ SetPowerCap(g, decision[g])
    /\ todo' = todo \ {g}
    /\ UNCHANGED <<draw, proc, phase, domain, sampled, decision,
                   fs, fsGpu, overridden>>

\* Mutant: run_once returns after its first domain.
DomainDoneReturns ==
    /\ proc = "running" /\ phase = "push" /\ todo = {}
    /\ phase' = "sleep"
    /\ UNCHANGED <<limit, draw, proc, domain, sampled, decision, todo, fs,
                   fsGpu, overridden, rejected>>

\* The push loop is over: the next domain, or the sleep of the main loop.
DomainDone ==
    /\ proc = "running" /\ phase = "push" /\ todo = {}
    /\ IF domain < DomainCount
       THEN phase' = "read" /\ domain' = domain + 1
       ELSE phase' = "sleep" /\ domain' = domain
    /\ UNCHANGED <<limit, draw, proc, sampled, decision, todo, fs, fsGpu,
                   overridden, rejected>>

\* An exception ends the tick, for the domains that were to come too; run() logs it
\* and sleeps.  The reads of a GPU raise none: the brain may, and what comes after.
TickFails ==
    /\ proc = "running"
    /\ \/ phase = "read" /\ (Sim => Members(domain) \subseteq sampled)
       \/ phase = "push"
    /\ phase' = "sleep" /\ todo' = {}
    /\ UNCHANGED <<limit, draw, proc, domain, sampled, decision, fs, fsGpu,
                   overridden, rejected>>

---------------------------------------------------------------------------
(***************************************************************************)
(* The failsafe thread.                                                    *)
(***************************************************************************)
\* Mutants: the scan leaves out the last GPU, or goes one beyond it.
NextGpuSkipsLast ==
    IF fsGpu < GPUCount - 2
    THEN fs' = "scan" /\ fsGpu' = fsGpu + 1
    ELSE fs' = "sleep" /\ fsGpu' = fsGpu

NextGpuBeyondLast ==
    IF fsGpu < GPUCount
    THEN fs' = "scan" /\ fsGpu' = fsGpu + 1
    ELSE fs' = "sleep" /\ fsGpu' = fsGpu

NextGpu ==
    IF fsGpu < GPUCount - 1
    THEN fs' = "scan" /\ fsGpu' = fsGpu + 1
    ELSE fs' = "sleep" /\ fsGpu' = fsGpu

\* A read of NVML that fails, as all do once it is shut, reports 0 W.
FsRead ==
    /\ fs = "scan"
    /\ \E w \in {0, PowerDraw(fsGpu)} :
          /\ w = 0 \/ proc # "closed"
          /\ w = PowerDraw(fsGpu) \/ ~Sim \/ proc = "closed"
          /\ IF w > EmergencyThreshold
             THEN fs' = "trip" /\ fsGpu' = fsGpu
             ELSE NextGpu
    /\ UNCHANGED <<limit, draw, proc, phase, domain, sampled, decision, todo,
                   overridden, rejected>>

\* The cap is set on the strength of the draw read before, whatever the
\* controller has done in between.
FsTrip ==
    /\ fs = "trip"
    /\ SetPowerCap(fsGpu, EmergencyCap)
    /\ overridden' = IF fsGpu \in sampled THEN overridden \cup {fsGpu}
                                          ELSE overridden
    /\ NextGpu
    /\ UNCHANGED <<draw, proc, phase, domain, sampled, decision, todo>>

\* Mutant: the stop event is never looked at.
FsWakeAlways ==
    /\ fs = "sleep"
    /\ fsGpu' = 0 /\ fs' = "scan"
    /\ UNCHANGED <<limit, draw, proc, phase, domain, sampled, decision, todo,
                   overridden, rejected>>

\* The stop event is looked at between two scans only.
FsWake ==
    /\ fs = "sleep"
    /\ fsGpu' = 0
    /\ fs' = IF proc = "running" THEN "scan" ELSE "stopped"
    /\ UNCHANGED <<limit, draw, proc, phase, domain, sampled, decision, todo,
                   overridden, rejected>>

---------------------------------------------------------------------------
(***************************************************************************)
(* Shutdown (_shutdown in process.py).                                     *)
(***************************************************************************)
Signal ==
    /\ proc = "running"
    /\ proc' = "stopping"
    /\ UNCHANGED <<limit, draw, phase, domain, sampled, decision, todo,
                   fs, fsGpu, overridden, rejected>>

\* failsafe.stop() returns when the thread has ended, or after two seconds
\* whether it has or not; then nvmlShutdown.
Shutdown ==
    /\ proc = "stopping"
    /\ proc' = "closed"
    /\ UNCHANGED <<limit, draw, phase, domain, sampled, decision, todo,
                   fs, fsGpu, overridden, rejected>>

---------------------------------------------------------------------------
Controller ==
    \/ TickStart
    \/ \E g \in GPU : ReadGpu(g)
    \/ Decide
    \/ \E g \in GPU : Push(g)
    \/ DomainDone
    \/ TickFails

Failsafe == FsRead \/ FsTrip \/ FsWake

Next ==
    \/ Controller
    \/ Failsafe
    \/ \E g \in GPU : Workload(g)
    \/ Signal
    \/ Shutdown

Spec == Init /\ [][Next]_vars

\* Both threads are scheduled; the driver does not refuse the same write for
\* ever, nor fail the same read, and ticks do not fail at the same place for ever.
FsReadsDraw(g) ==
    fs = "scan" /\ fsGpu = g /\ FsRead /\ (PowerDraw(g) > EmergencyThreshold => fs' = "trip")
FsTrips(g) == fs = "trip" /\ fsGpu = g /\ FsTrip /\ Accepted(g, EmergencyCap)
DecidesFor(d) == domain = d /\ Decide
DomainEnds(d) == domain = d /\ DomainDone
Pushes(g) == Push(g) /\ Accepted(g, decision[g])

Fairness ==
    /\ WF_vars(Controller)
    /\ WF_vars(Failsafe)
    /\ WF_vars(Shutdown)
    /\ \A g \in GPU : SF_vars(FsReadsDraw(g)) /\ SF_vars(FsTrips(g))
                                              /\ SF_vars(Pushes(g))
    /\ \A d \in Domain : SF_vars(DecidesFor(d)) /\ SF_vars(DomainEnds(d))

FairSpec == Spec /\ Fairness
---------------------------------------------------------------------------
\* Types.
TypeOK ==
    /\ limit \in [GPU -> Nat]
    /\ draw \in [GPU -> Nat]
    /\ proc \in {"running", "stopping", "closed"}
    /\ phase \in {"sleep", "read", "push"}
    /\ domain \in Domain
    /\ sampled \subseteq GPU
    /\ todo \subseteq GPU
    /\ DOMAIN decision \subseteq GPU
    /\ decision \in [DOMAIN decision -> BrainCaps]
    /\ fs \in {"scan", "trip", "sleep", "stopped"}
    /\ fsGpu \in GPU
    /\ overridden \subseteq GPU
    /\ rejected \subseteq GPU

\* While a decision is being pushed (standalone.py:330), the part of it that
\* was pushed is in force on the device, but for what the failsafe took over
\* after the telemetry was read and what the driver refused.
PushedInForce ==
    phase = "push" =>
        \A g \in DOMAIN decision \ todo :
            limit[g] = decision[g] \/ g \in overridden \/ g \in rejected

\* Two writers and no lock: a cap changes only to the value the running brain
\* decided for a GPU of the domain it is at, or to the emergency cap on a GPU
\* that was read over the threshold; nothing changes once NVML is shut.
CapChangesHaveCause ==
    [][\A g \in GPU : limit'[g] # limit[g] =>
          /\ proc # "closed"
          /\ \/ /\ proc = "running" /\ phase = "push"
                /\ DomainOf[g] = domain /\ g \in sampled
                /\ limit'[g] = decision[g]
             \/ /\ fs = "trip" /\ fsGpu = g
                /\ limit'[g] = EmergencyCap]_vars

\* The failsafe scans every GPU of the node, the brain raises caps only in its
\* domains: a GPU of no managed domain, once tripped, stays at the emergency
\* cap (failsafe.py:100 against standalone.py:270).
UnmanagedStaysCapped ==
    [][\A g \in Members(0) :
          limit[g] = EmergencyCap => limit'[g] = EmergencyCap]_vars

\* failsafe.py:5: an overloaded GPU is capped, however the brain interleaves.
\* The brain may raise the cap again, so what is promised is a cap at the
\* emergency level again and again as long as the overload lasts.
OverloadTripped ==
    \A g \in GPU :
        <>[](proc = "running" /\ draw[g] > EmergencyThreshold)
        => []<>(limit[g] <= EmergencyThreshold)

\* failsafe.py:9: raising the cap back is the brain's job.  On the simulated
\* fleet, where every tick has telemetry of every GPU, it does so for all GPUs
\* of its domains (a brain that would decide the emergency cap itself aside).
TripUndone ==
    \A g \in GPU : DomainOf[g] # 0 =>
        (limit[g] = EmergencyCap
            ~> limit[g] # EmergencyCap \/ proc # "running")

\* failsafe.stop(): once a stop is asked for, the thread ends.
FailsafeStops == proc # "running" ~> fs = "stopped"

\* failsafe.py:9 "the failsafe only ever *lowers* caps", and the test
\* test_agent_failsafe.py:65.
FailsafeOnlyLowers ==
    [][fs = "trip" /\ fs' # "trip" => limit'[fsGpu] <= limit[fsGpu]]_vars
============================================================================
