-------------------------- MODULE ControlLoop_proofs --------------------------
(***************************************************************************)
(* Proofs about ControlLoop, for any number of GPUs and domains, any brain *)
(* and any driver failures.                                                *)
(***************************************************************************)
EXTENDS ControlLoop, TLAPS

\* What a push works from: a decision over the sampled GPUs of the domain at
\* hand, of which some are still to be pushed.
DecisionOfDomain ==
    phase = "push" =>
        /\ DOMAIN decision = Members(domain) \cap sampled
        /\ todo \subseteq DOMAIN decision

IInv == TypeOK /\ DecisionOfDomain /\ PushedInForce

\* The initial states satisfy the invariant: nothing is sampled or decided yet.
LEMMA InitIInv == Init => IInv
<1> USE AgentParameters DEF AgentParameters
<1> SUFFICES ASSUME Init PROVE IInv
    OBVIOUS
<1>1. TypeOK
  <2>1. 0 \in GPU /\ 1 \in Domain
    BY DEF GPU, Domain
  <2>2. limit \in [GPU -> Nat] /\ draw \in [GPU -> Nat]
    BY DEF Init
  <2>3. DOMAIN decision = {} /\ decision \in [DOMAIN decision -> BrainCaps]
    BY DEF Init
  <2> QED
    BY <2>1, <2>2, <2>3 DEF Init, TypeOK
<1>2. DecisionOfDomain /\ PushedInForce
    BY DEF Init, DecisionOfDomain, PushedInForce
<1> QED
    BY <1>1, <1>2 DEF IInv

\* The two steps every writer of a cap takes keep the types.
LEMMA SetPowerCapType ==
    ASSUME TypeOK, NEW g \in GPU, NEW w \in Nat, SetPowerCap(g, w)
    PROVE  /\ limit' \in [GPU -> Nat]
           /\ rejected' \subseteq GPU
           /\ limit'[g] = w \/ g \in rejected'
           /\ \A h \in GPU \ {g} : /\ limit'[h] = limit[h]
                                   /\ h \in rejected => h \in rejected'
    BY DEF TypeOK, SetPowerCap, Accepted, Refused

\* The scan moves inside the GPUs of the node.
LEMMA NextGpuType ==
    ASSUME TypeOK, NextGpu
    PROVE  fs' \in {"scan", "sleep"} /\ fsGpu' \in GPU
    BY AgentParameters DEF AgentParameters, TypeOK, NextGpu, GPU

\* The invariant is inductive: every step of either thread keeps it.
LEMMA NextIInv == IInv /\ [Next]_vars => IInv'
<1> USE AgentParameters, EmergencyBelowThreshold
    DEF AgentParameters, EmergencyBelowThreshold
<1> SUFFICES ASSUME IInv, [Next]_vars PROVE IInv'
    OBVIOUS
<1>1. CASE TickStart
  <2>1. TypeOK'
    BY <1>1 DEF IInv, TypeOK, TickStart, Domain
  <2>2. DecisionOfDomain' /\ PushedInForce'
    BY <1>1 DEF TickStart, DecisionOfDomain, PushedInForce
  <2> QED
    BY <2>1, <2>2 DEF IInv
<1>2. ASSUME NEW g \in GPU, ReadGpu(g) PROVE IInv'
  <2>1. TypeOK'
    BY <1>2 DEF IInv, TypeOK, ReadGpu
  <2>2. DecisionOfDomain' /\ PushedInForce'
    BY <1>2 DEF ReadGpu, DecisionOfDomain, PushedInForce
  <2> QED
    BY <2>1, <2>2 DEF IInv
<1>3. CASE Decide
  <2>1. /\ DOMAIN decision' = Members(domain) \cap sampled
        /\ decision' \in [DOMAIN decision' -> BrainCaps]
        /\ todo' = DOMAIN decision'
    BY <1>3 DEF Decide
  <2>2. TypeOK'
    BY <1>3, <2>1 DEF IInv, TypeOK, Decide, Members
  <2>3. DecisionOfDomain' /\ PushedInForce'
    BY <1>3, <2>1 DEF Decide, DecisionOfDomain, PushedInForce, Members
  <2> QED
    BY <2>2, <2>3 DEF IInv
<1>4. ASSUME NEW g \in GPU, Push(g) PROVE IInv'
  <2>1. g \in DOMAIN decision /\ decision[g] \in Nat /\ SetPowerCap(g, decision[g])
    BY <1>4 DEF IInv, TypeOK, DecisionOfDomain, Push
  <2>2. /\ limit' \in [GPU -> Nat]
        /\ rejected' \subseteq GPU
        /\ limit'[g] = decision[g] \/ g \in rejected'
        /\ \A h \in GPU \ {g} : /\ limit'[h] = limit[h]
                                /\ h \in rejected => h \in rejected'
    BY <2>1, SetPowerCapType DEF IInv
  <2>3. TypeOK'
    BY <1>4, <2>2 DEF IInv, TypeOK, Push
  <2>4. DecisionOfDomain'
    BY <1>4 DEF IInv, DecisionOfDomain, Push, Members
  <2>5. PushedInForce'
    BY <1>4, <2>2 DEF IInv, TypeOK, PushedInForce, Push
  <2> QED
    BY <2>3, <2>4, <2>5 DEF IInv
<1>5. CASE DomainDone
  <2>1. TypeOK'
    BY <1>5 DEF IInv, TypeOK, DomainDone, Domain
  <2>2. DecisionOfDomain' /\ PushedInForce'
    BY <1>5 DEF DomainDone, DecisionOfDomain, PushedInForce
  <2> QED
    BY <2>1, <2>2 DEF IInv
<1>6. CASE FsRead
  <2>1. fs' \in {"scan", "sleep", "trip"} /\ fsGpu' \in GPU
    BY <1>6, NextGpuType DEF IInv, TypeOK, FsRead
  <2>2. TypeOK'
    BY <1>6, <2>1 DEF IInv, TypeOK, FsRead
  <2>3. DecisionOfDomain' /\ PushedInForce'
    BY <1>6 DEF IInv, FsRead, DecisionOfDomain, PushedInForce, Members
  <2> QED
    BY <2>2, <2>3 DEF IInv
<1>7. CASE FsTrip
  <2>1. fs' \in {"scan", "sleep"} /\ fsGpu' \in GPU /\ fsGpu \in GPU
    BY <1>7, NextGpuType DEF IInv, TypeOK, FsTrip
  <2>2. /\ limit' \in [GPU -> Nat]
        /\ rejected' \subseteq GPU
        /\ \A h \in GPU \ {fsGpu} : /\ limit'[h] = limit[h]
                                    /\ h \in rejected => h \in rejected'
    BY <1>7, <2>1, SetPowerCapType DEF IInv, FsTrip
  <2>3. TypeOK'
    BY <1>7, <2>1, <2>2 DEF IInv, TypeOK, FsTrip
  <2>4. DecisionOfDomain'
    BY <1>7 DEF IInv, DecisionOfDomain, FsTrip, Members
  <2>5. PushedInForce'
    BY <1>7, <2>2 DEF IInv, TypeOK, DecisionOfDomain, PushedInForce, FsTrip
  <2> QED
    BY <2>3, <2>4, <2>5 DEF IInv
<1>8. CASE FsWake
  <2>1. TypeOK'
    <3>1. 0 \in GPU
      BY DEF GPU
    <3> QED
      BY <1>8, <3>1 DEF IInv, TypeOK, FsWake
  <2>2. DecisionOfDomain' /\ PushedInForce'
    BY <1>8 DEF IInv, FsWake, DecisionOfDomain, PushedInForce, Members
  <2> QED
    BY <2>1, <2>2 DEF IInv
<1>9. ASSUME NEW g \in GPU, Workload(g) PROVE IInv'
  <2>1. TypeOK'
    BY <1>9 DEF IInv, TypeOK, Workload
  <2>2. DecisionOfDomain' /\ PushedInForce'
    BY <1>9 DEF IInv, Workload, DecisionOfDomain, PushedInForce, Members
  <2> QED
    BY <2>1, <2>2 DEF IInv
<1>10. CASE Signal \/ Shutdown
  <2>1. TypeOK'
    BY <1>10 DEF IInv, TypeOK, Signal, Shutdown
  <2>2. DecisionOfDomain' /\ PushedInForce'
    BY <1>10 DEF IInv, Signal, Shutdown, DecisionOfDomain, PushedInForce, Members
  <2> QED
    BY <2>1, <2>2 DEF IInv
<1>11. CASE UNCHANGED vars
    BY <1>11 DEF IInv, TypeOK, DecisionOfDomain, PushedInForce, Members, vars
<1>12. CASE TickFails
  <2>1. TypeOK'
    BY <1>12 DEF IInv, TypeOK, TickFails
  <2>2. DecisionOfDomain' /\ PushedInForce'
    BY <1>12 DEF TickFails, DecisionOfDomain, PushedInForce
  <2> QED
    BY <2>1, <2>2 DEF IInv
<1> QED
    BY <1>1, <1>2, <1>3, <1>4, <1>5, <1>6, <1>7, <1>8, <1>9, <1>10, <1>11, <1>12
    DEF Next, Controller, Failsafe

\* Type correctness and the part of the invariant the runs check.
THEOREM SpecInvariant == Spec => []IInv
    BY InitIInv, NextIInv, PTL DEF Spec

\* The types of every variable of the agent hold in every reachable state.
THEOREM SpecTypeOK == Spec => []TypeOK
<1>1. IInv => TypeOK
    BY DEF IInv
<1> QED
    BY SpecInvariant, <1>1, PTL

\* What was pushed of a decision stays in force while the rest is pushed, but
\* for the failsafe and for refused writes (standalone.py:330).
THEOREM SpecPushedInForce == Spec => []PushedInForce
<1>1. IInv => PushedInForce
    BY DEF IInv
<1> QED
    BY SpecInvariant, <1>1, PTL

\* The steps that leave every cap alone.
LEMMA OthersLeaveCaps ==
    ASSUME [Next]_vars,
           ~ \E g \in GPU : Push(g),
           ~ FsTrip
    PROVE  limit' = limit
<1>1. CASE Controller
    BY <1>1 DEF Controller, TickStart, ReadGpu, Decide, DomainDone, TickFails
<1>2. CASE Failsafe
    BY <1>2 DEF Failsafe, FsRead, FsWake
<1>3. CASE \/ \E g \in GPU : Workload(g)
           \/ Signal \/ Shutdown \/ UNCHANGED vars
    BY <1>3 DEF Workload, Signal, Shutdown, vars
<1> QED
    BY <1>1, <1>2, <1>3 DEF Next

\* Two lock-free writers, one cause for each change of a cap: a decision of the
\* running brain for its own domain, or a trip; none after nvmlShutdown.
THEOREM SpecCapChangesHaveCause == Spec => CapChangesHaveCause
<1> DEFINE Cause(g) ==
        /\ proc # "closed"
        /\ \/ /\ proc = "running" /\ phase = "push"
              /\ DomainOf[g] = domain /\ g \in sampled
              /\ limit'[g] = decision[g]
           \/ /\ fs = "trip" /\ fsGpu = g
              /\ limit'[g] = EmergencyCap
<1>1. ASSUME IInv, [Next]_vars, NEW g \in GPU, limit'[g] # limit[g]
      PROVE  Cause(g)
  <2>1. CASE \E h \in GPU : Push(h)
    <3>1. PICK h \in GPU : Push(h)
      BY <2>1
    <3>2. Accepted(h, decision[h]) /\ h = g
      BY <1>1, <3>1 DEF IInv, TypeOK, Push, SetPowerCap, Accepted, Refused
    <3>3. g \in Members(domain) \cap sampled
      BY <1>1, <3>1, <3>2 DEF IInv, DecisionOfDomain, Push
    <3>4. limit'[g] = decision[g] /\ proc # "closed"
      BY <1>1, <3>2 DEF IInv, TypeOK, Accepted
    <3> QED
      BY <3>1, <3>3, <3>4 DEF Push, Members
  <2>2. CASE FsTrip
    <3>1. Accepted(fsGpu, EmergencyCap) /\ fsGpu = g
      BY <1>1, <2>2 DEF IInv, TypeOK, FsTrip, SetPowerCap, Accepted, Refused
    <3>2. limit'[g] = EmergencyCap /\ proc # "closed"
      BY <1>1, <3>1 DEF IInv, TypeOK, Accepted
    <3> QED
      BY <2>2, <3>1, <3>2 DEF FsTrip
  <2> QED
    BY <1>1, <2>1, <2>2, OthersLeaveCaps
<1>2. IInv /\ [Next]_vars
        => [\A g \in GPU : limit'[g] # limit[g] => Cause(g)]_vars
    BY <1>1
<1> QED
    BY <1>2, SpecInvariant, PTL DEF Spec, CapChangesHaveCause

\* A GPU outside the managed domains is never raised again once it was tripped.
THEOREM SpecUnmanagedStaysCapped == Spec => UnmanagedStaysCapped
<1>1. ASSUME IInv, [Next]_vars, NEW g \in Members(0), limit[g] = EmergencyCap
      PROVE  limit'[g] = EmergencyCap
  <2>1. g \in GPU /\ DomainOf[g] = 0 /\ domain # 0
    BY <1>1, AgentParameters DEF AgentParameters, Members, IInv, TypeOK, Domain
  <2>2. CASE \E h \in GPU : Push(h)
    <3>1. PICK h \in GPU : Push(h)
      BY <2>2
    <3>2. h \in Members(domain)
      BY <1>1, <3>1 DEF IInv, DecisionOfDomain, Push
    <3> QED
      BY <1>1, <2>1, <3>1, <3>2
      DEF Members, IInv, TypeOK, Push, SetPowerCap, Accepted, Refused
  <2>3. CASE FsTrip
    BY <1>1, <2>1, <2>3
    DEF IInv, TypeOK, FsTrip, SetPowerCap, Accepted, Refused
  <2> QED
    BY <1>1, <2>2, <2>3, OthersLeaveCaps
<1>2. IInv /\ [Next]_vars
        => [\A g \in Members(0) :
               limit[g] = EmergencyCap => limit'[g] = EmergencyCap]_vars
    BY <1>1
<1> QED
    BY <1>2, SpecInvariant, PTL DEF Spec, UnmanagedStaysCapped
===============================================================================
