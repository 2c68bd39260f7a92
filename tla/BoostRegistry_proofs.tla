------------------------- MODULE BoostRegistry_proofs -------------------------
(***************************************************************************)
(* Proofs about BoostRegistry, for any number of policies, pods, tries and *)
(* restarts: the shared ConfigMap implements AssignmentRegistry.           *)
(***************************************************************************)
EXTENDS BoostRegistry, TLAPS

\* A thread between the listing of pods and its write has a job.
JobAtHand == \A w \in Worker : pc[w] \in {"read", "write"} => job[w] \in Job

\* The resource version tells the content: a thread that read the version in
\* force read what is in force.
SeenIsCurrent ==
    \A w \in Worker : pc[w] = "write" /\ ~Conflict(w) => seen[w] = cm

\* resolved-assignments.json is the aggregate of the entries beside it.
Aggregated == cm # NoMap => cm.resolved = Resolved(cm.entries)

IInv == TypeOK /\ JobAtHand /\ SeenIsCurrent /\ Aggregated

---------------------------------------------------------------------------
\* What the operators on the data of the ConfigMap return.
LEMMA EntriesType ==
    ASSUME NEW map \in Maps \cup {NoMap}
    PROVE  Entries(map) \in [Policy -> Entry \cup {NoEntry}]
    BY DEF Entries, Maps

LEMMA ResolvedType ==
    ASSUME NEW e \in [Policy -> Entry \cup {NoEntry}]
    PROVE  Resolved(e) \in SUBSET (Pod \X Policy \X (0 .. MaxVersion))
<1>1. ASSUME NEW p \in Policy, e[p] # NoEntry
      PROVE  Assigned(p, e[p]) \subseteq Pod \X Policy \X (0 .. MaxVersion)
  <2>1. e[p] \in Entry
    BY <1>1
  <2> QED
    BY <2>1 DEF Entry, Assigned
<1> QED
    BY <1>1 DEF Resolved

\* A write that is stored: a new version, one entry changed, the aggregate made
\* anew; nobody holds the version.
LEMMA StoresType ==
    ASSUME IInv, NEW w \in Worker, pc[w] = "write", Stores(w)
    PROVE  /\ cm' \in Maps
           /\ cm'.entries = [Entries(cm) EXCEPT ![job[w].policy] = job[w].entry]
           /\ cm'.resolved = Resolved(cm'.entries)
           /\ \A x \in Worker : VersionOf(cm') # VersionOf(seen[x])
<1> USE NoneIsNone DEF NoneIsNone
<1>1. seen[w] = cm /\ job[w] \in Job
    BY DEF IInv, SeenIsCurrent, JobAtHand, Stores
<1> DEFINE new == Updated(w, seen[w])
<1>2. new \in [Policy -> Entry \cup {NoEntry}]
  <2>1. Entries(cm) \in [Policy -> Entry \cup {NoEntry}]
    BY EntriesType DEF IInv, TypeOK
  <2> QED
    BY <1>1, <2>1 DEF Updated, Job
<1>3. PICK v \in RV : /\ NewVersion(v)
                      /\ cm' = [rv |-> v, entries |-> new, resolved |-> Resolved(new)]
    BY DEF Stores
<1>4. Resolved(new) \in SUBSET (Pod \X Policy \X (0 .. MaxVersion))
    BY <1>2, ResolvedType
<1>5. cm' \in Maps
    BY <1>2, <1>3, <1>4 DEF Maps
<1>6. cm'.entries = [Entries(cm) EXCEPT ![job[w].policy] = job[w].entry]
    BY <1>1, <1>3 DEF Updated
<1>7. ASSUME NEW x \in Worker PROVE VersionOf(cm') # VersionOf(seen[x])
  <2>1. VersionOf(cm') = v
    BY <1>3, <1>5 DEF VersionOf
  <2>2. CASE seen[x] = NoMap
    BY <2>1, <2>2 DEF VersionOf
  <2>3. CASE seen[x] # NoMap
    <3>1. seen[x].rv \in Held
      BY <2>3 DEF Held
    <3> QED
      BY <1>3, <2>1, <2>3, <3>1 DEF VersionOf, NewVersion
  <2> QED
    BY <2>2, <2>3
<1> QED
    BY <1>3, <1>5, <1>6, <1>7

---------------------------------------------------------------------------
\* What the pieces every thread is made of do to its own state.
LEMMA FinishType ==
    ASSUME TypeOK, NEW w \in Worker, job[w] \in Job, Finish(w)
    PROVE  /\ pc' \in [Worker -> {"idle", "list", "read", "write"}]
           /\ job' \in [Worker -> Job \cup {NoJob}]
           /\ tasks' \in [Worker -> SUBSET Task]
           /\ seen' \in [Worker -> Maps \cup {NoMap}]
           /\ attempt' \in [Worker -> 1 .. Attempts]
           /\ handled' \in [Policy -> 0 .. MaxVersion]
           /\ phase' \in [Policy -> {"absent", "live", "deleting", "cleaned"}]
           /\ version' = version
           /\ pc'[w] \in {"idle", "list"}
           /\ \A x \in Worker \ {w} : /\ pc'[x] = pc[x] /\ job'[x] = job[x]
                                      /\ seen'[x] = seen[x]
    BY RegistryParameters DEF RegistryParameters, TypeOK, Finish, Job

LEMMA RaiseType ==
    ASSUME TypeOK, NEW w \in Worker, Raise(w)
    PROVE  /\ pc' \in [Worker -> {"idle", "list", "read", "write"}]
           /\ job' \in [Worker -> Job \cup {NoJob}]
           /\ tasks' \in [Worker -> SUBSET Task]
           /\ seen' \in [Worker -> Maps \cup {NoMap}]
           /\ attempt' \in [Worker -> 1 .. Attempts]
           /\ UNCHANGED <<phase, version, handled>>
           /\ pc'[w] = "idle"
           /\ \A x \in Worker \ {w} : /\ pc'[x] = pc[x] /\ job'[x] = job[x]
                                      /\ seen'[x] = seen[x]
    BY RegistryParameters DEF RegistryParameters, TypeOK, Raise, policies

---------------------------------------------------------------------------
LEMMA InitIInv == Init => IInv
<1> SUFFICES ASSUME Init PROVE IInv
    OBVIOUS
<1> USE RegistryParameters, NoneIsNone DEF RegistryParameters, NoneIsNone, Init
<1>1. TypeOK
    BY DEF TypeOK
<1>2. JobAtHand /\ SeenIsCurrent /\ Aggregated
    BY DEF JobAtHand, SeenIsCurrent, Aggregated
<1> QED
    BY <1>1, <1>2 DEF IInv

\* A thread starts with policies to resolve, or stays idle.
LEMMA StartsType ==
    ASSUME IInv, NEW w \in Worker, NEW todo \in SUBSET Task, Starts(w, todo),
           event' \in SUBSET Pod
    PROVE  TypeOK' /\ JobAtHand'
<1>1. pc'[w] \in {"idle", "list"} /\ \A x \in Worker \ {w} : pc'[x] = pc[x]
    BY DEF IInv, TypeOK, Starts
<1>2. TypeOK'
    BY DEF IInv, TypeOK, Starts, server
<1>3. JobAtHand'
    BY <1>1 DEF IInv, JobAtHand, Starts
<1> QED
    BY <1>2, <1>3

\* The steps of the users and the restart of the operator.
LEMMA OutsideType ==
    ASSUME IInv, Users \/ (\E p \in Policy : PolicyReleased(p)) \/ Crash
    PROVE  TypeOK' /\ JobAtHand'
<1> USE RegistryParameters DEF RegistryParameters, IInv, TypeOK, JobAtHand
<1>1. ASSUME NEW p \in Policy, PolicyCreated(p) \/ PolicyChanged(p) \/ PolicyDeleted(p)
                               \/ PolicyReleased(p)
      PROVE  TypeOK' /\ JobAtHand'
    BY <1>1 DEF PolicyCreated, PolicyChanged, PolicyDeleted, PolicyReleased, threads, Disturbed
<1>2. ASSUME NEW x \in Pod, PodChanged(x)
      PROVE  TypeOK' /\ JobAtHand'
    BY <1>2 DEF PodChanged, Disturbed, policies, threads
<1>3. CASE Crash
    BY <1>3 DEF Crash, Disturbed, server
<1> QED
    BY <1>1, <1>2, <1>3 DEF Users

\* The steps of a thread.
LEMMA GoesType ==
    ASSUME IInv, NEW w \in Worker, Goes(w)
    PROVE  TypeOK' /\ JobAtHand'
<1>1. CASE ListPods(w)
  <2>1. PICK t \in tasks[w] :
            job' = [job EXCEPT ![w] = [policy |-> t.policy, version |-> t.version,
                                       entry |-> [version |-> t.version,
                                                  pods |-> pods \cap Selects[t.policy]]]]
    BY <1>1 DEF ListPods
  <2>2. t \in Task
    BY DEF IInv, TypeOK
  <2>3. job'[w] \in Job /\ job' \in [Worker -> Job \cup {NoJob}]
    BY <2>1, <2>2 DEF IInv, TypeOK, Task, Job, Entry
  <2>4. TypeOK'
    BY <1>1, <2>3 DEF IInv, TypeOK, ListPods, server
  <2>5. JobAtHand'
    BY <1>1, <2>1, <2>3 DEF IInv, JobAtHand, TypeOK, ListPods
  <2> QED
    BY <2>4, <2>5
<1>2. CASE ReadMap(w)
  <2>1. job[w] \in Job
    BY <1>2 DEF IInv, JobAtHand, ReadMap
  <2>2. CASE Finish(w)
    <3>1. TypeOK'
      BY <1>2, <2>1, <2>2, FinishType DEF IInv, TypeOK, ReadMap
    <3>2. JobAtHand'
      BY <2>1, <2>2, FinishType DEF IInv, JobAtHand
    <3> QED
      BY <3>1, <3>2
  <2>3. CASE /\ seen' = [seen EXCEPT ![w] = cm]
             /\ pc' = [pc EXCEPT ![w] = "write"]
             /\ UNCHANGED <<policies, handled, tasks, job, attempt>>
    <3>1. TypeOK'
      BY <1>2, <2>3 DEF IInv, TypeOK, ReadMap, policies
    <3>2. JobAtHand'
      BY <2>1, <2>3 DEF IInv, TypeOK, JobAtHand
    <3> QED
      BY <3>1, <3>2
  <2> QED
    BY <1>2, <2>2, <2>3 DEF ReadMap
<1>3. CASE Commit(w)
  <2>1. job[w] \in Job /\ pc[w] = "write" /\ Stores(w) /\ Finish(w)
    BY <1>3 DEF IInv, JobAtHand, Commit
  <2>2. TypeOK'
    BY <1>3, <2>1, StoresType, FinishType DEF IInv, TypeOK, Commit
  <2>3. JobAtHand'
    BY <2>1, FinishType DEF IInv, JobAtHand
  <2> QED
    BY <2>2, <2>3
<1>4. CASE Refused(w)
  <2>1. CASE Raise(w)
    <3>1. TypeOK'
      BY <1>4, <2>1, RaiseType DEF IInv, TypeOK, Refused
    <3>2. JobAtHand'
      BY <2>1, RaiseType DEF IInv, JobAtHand
    <3> QED
      BY <3>1, <3>2
  <2>2. CASE ~Raise(w)
    <3>1. attempt' \in [Worker -> 1 .. Attempts]
      BY <1>4, <2>2, RegistryParameters DEF IInv, TypeOK, Refused, RegistryParameters
    <3>2. TypeOK'
      BY <1>4, <2>2, <3>1 DEF IInv, TypeOK, Refused, policies
    <3>3. JobAtHand'
      BY <1>4, <2>2 DEF IInv, TypeOK, JobAtHand, Refused
    <3> QED
      BY <3>2, <3>3
  <2> QED
    BY <2>1, <2>2
<1>5. CASE Fails(w)
  <2>1. cm' \in Maps \cup {NoMap}
    BY <1>5, StoresType DEF IInv, TypeOK, Fails
  <2>2. Raise(w)
    BY <1>5 DEF Fails
  <2>3. TypeOK'
    BY <1>5, <2>1, <2>2, RaiseType DEF IInv, TypeOK, Fails
  <2>4. JobAtHand'
    BY <2>2, RaiseType DEF IInv, JobAtHand
  <2> QED
    BY <2>3, <2>4
<1> QED
    BY <1>1, <1>2, <1>3, <1>4, <1>5 DEF Goes

\* The starts of the threads.
LEMMA BeginType ==
    ASSUME IInv, \/ \E p \in Policy : OnChange(p) \/ OnDelete(p)
                 \/ \E p \in Timed : OnTimer(p)
                 \/ \E x \in Pod : OnPodEvent(x)
    PROVE  TypeOK' /\ JobAtHand'
<1> USE RegistryParameters DEF RegistryParameters, Worker, Handler, Timer, PodEvents
<1>1. \A p \in Policy : AsOf(p) \in Task
    BY DEF IInv, TypeOK, AsOf, Task
<1>2. event \in SUBSET Pod
    BY DEF IInv, TypeOK
<1>3. ASSUME NEW p \in Policy, OnChange(p)
      PROVE  TypeOK' /\ JobAtHand'
    BY <1>1, <1>2, <1>3, StartsType DEF OnChange
<1>4. ASSUME NEW p \in Timed, OnTimer(p)
      PROVE  TypeOK' /\ JobAtHand'
    BY <1>1, <1>2, <1>4, StartsType DEF OnTimer
<1>5. ASSUME NEW x \in Pod, OnPodEvent(x)
      PROVE  TypeOK' /\ JobAtHand'
  <2>1. {AsOf(p) : p \in Listed} \in SUBSET Task
    BY <1>1 DEF Listed
  <2> QED
    BY <1>2, <1>5, <2>1, StartsType DEF OnPodEvent
<1>6. ASSUME NEW p \in Policy, OnDelete(p)
      PROVE  TypeOK' /\ JobAtHand'
  <2> DEFINE w == <<"handler", p>>
  <2>1. job'[w] \in Job /\ job' \in [Worker -> Job \cup {NoJob}]
    BY <1>6 DEF IInv, TypeOK, OnDelete, Job
  <2>2. TypeOK'
    BY <1>6, <2>1 DEF IInv, TypeOK, OnDelete, server
  <2>3. JobAtHand'
    BY <1>6, <2>1 DEF IInv, TypeOK, JobAtHand, OnDelete
  <2> QED
    BY <2>2, <2>3
<1> QED
    BY <1>3, <1>4, <1>5, <1>6

---------------------------------------------------------------------------
\* Every step leaves the ConfigMap as it is or is a write of one thread.
LEMMA OneWrite ==
    ASSUME IInv, [Next]_vars
    PROVE  cm' = cm \/ \E w \in Worker : pc[w] = "write" /\ Stores(w)
<1>1. CASE Users
    BY <1>1 DEF Users, PolicyCreated, PolicyChanged, PolicyDeleted, PodChanged, Disturbed
<1>2. ASSUME NEW p \in Policy, OnChange(p) \/ OnDelete(p) \/ PolicyReleased(p)
      PROVE  cm' = cm
    BY <1>2 DEF OnChange, OnDelete, PolicyReleased, Starts, server
<1>3. ASSUME NEW p \in Timed, OnTimer(p)
      PROVE  cm' = cm
    BY <1>3 DEF OnTimer, Starts, server
<1>4. ASSUME NEW x \in Pod, OnPodEvent(x)
      PROVE  cm' = cm
    BY <1>4 DEF OnPodEvent, Starts, server
<1>5. ASSUME NEW w \in Worker, Goes(w)
      PROVE  cm' = cm \/ (pc[w] = "write" /\ Stores(w))
    BY <1>5 DEF Goes, ListPods, ReadMap, Commit, Refused, Fails, server
<1>6. CASE Crash
    BY <1>6 DEF Crash, Disturbed, server
<1>7. CASE UNCHANGED vars
    BY <1>7 DEF vars
<1> QED
    BY <1>1, <1>2, <1>3, <1>4, <1>5, <1>6, <1>7 DEF Next

\* A thread about to write has just read what is in force, or was already.
LEMMA AboutToWrite ==
    ASSUME IInv, [Next]_vars, NEW x \in Worker, pc'[x] = "write"
    PROVE  \/ pc[x] = "write" /\ seen'[x] = seen[x]
           \/ seen'[x] = cm /\ cm' = cm
<1> USE DEF IInv, TypeOK
<1>1. CASE Users
    BY <1>1 DEF Users, PolicyCreated, PolicyChanged, PolicyDeleted, PodChanged, Disturbed, threads
<1>2. ASSUME NEW p \in Policy, OnChange(p) \/ OnDelete(p) \/ PolicyReleased(p)
      PROVE  pc[x] = "write" /\ seen'[x] = seen[x]
    BY <1>2 DEF OnChange, OnDelete, PolicyReleased, Starts, threads
<1>3. ASSUME NEW p \in Timed, OnTimer(p)
      PROVE  pc[x] = "write" /\ seen'[x] = seen[x]
    BY <1>3 DEF OnTimer, Starts
<1>4. ASSUME NEW y \in Pod, OnPodEvent(y)
      PROVE  pc[x] = "write" /\ seen'[x] = seen[x]
    BY <1>4 DEF OnPodEvent, Starts
<1>5. ASSUME NEW w \in Worker, Goes(w)
      PROVE  \/ pc[x] = "write" /\ seen'[x] = seen[x]
             \/ seen'[x] = cm /\ cm' = cm
  <2>1. CASE ListPods(w)
    BY <2>1 DEF ListPods
  <2>2. CASE ReadMap(w)
    BY <2>2, FinishType DEF JobAtHand, ReadMap
  <2>3. CASE Commit(w)
    BY <2>3, FinishType DEF JobAtHand, Commit
  <2>4. CASE Refused(w)
    BY <2>4, RaiseType DEF Refused
  <2>5. CASE Fails(w)
    BY <2>5, RaiseType DEF Fails
  <2> QED
    BY <1>5, <2>1, <2>2, <2>3, <2>4, <2>5 DEF Goes
<1>6. CASE Crash
    BY <1>6 DEF Crash, Disturbed
<1>7. CASE UNCHANGED vars
    BY <1>7 DEF vars
<1> QED
    BY <1>1, <1>2, <1>3, <1>4, <1>5, <1>6, <1>7 DEF Next

LEMMA Inductive == IInv /\ [Next]_vars => IInv'
<1> SUFFICES ASSUME IInv, [Next]_vars PROVE IInv'
    OBVIOUS
<1>1. TypeOK' /\ JobAtHand'
  <2>1. CASE UNCHANGED vars
    BY <2>1 DEF vars, IInv, TypeOK, JobAtHand
  <2>2. CASE Next
    BY <2>2, OutsideType, BeginType, GoesType DEF Next
  <2> QED
    BY <2>1, <2>2
<1>2. SeenIsCurrent'
  <2> SUFFICES ASSUME NEW x \in Worker, pc'[x] = "write", ~Conflict(x)'
               PROVE  seen'[x] = cm'
      BY DEF SeenIsCurrent
  <2>1. VersionOf(cm') = VersionOf(seen'[x])
    BY DEF Conflict, VersionOf
  <2>2. CASE seen'[x] = cm /\ cm' = cm
    BY <2>2
  <2>3. CASE pc[x] = "write" /\ seen'[x] = seen[x] /\ cm' = cm
    BY <2>1, <2>3 DEF IInv, SeenIsCurrent, Conflict
  <2>4. CASE seen'[x] = seen[x] /\ \E w \in Worker : pc[w] = "write" /\ Stores(w)
    BY <2>1, <2>4, StoresType
  <2> QED
    BY <2>2, <2>3, <2>4, AboutToWrite, OneWrite
<1>3. Aggregated'
  <2>1. CASE cm' = cm
    BY <2>1 DEF IInv, Aggregated, Resolved
  <2>2. CASE \E w \in Worker : pc[w] = "write" /\ Stores(w)
    BY <2>2, StoresType DEF Aggregated, Resolved
  <2> QED
    BY <2>1, <2>2, OneWrite
<1> QED
    BY <1>1, <1>2, <1>3 DEF IInv

\* IInv holds of every reachable state.
THEOREM SpecInvariant == Spec => []IInv
    BY InitIInv, Inductive, PTL DEF Spec

\* TypeOK: the types of handlers.py's threads and of the ConfigMap they share.
THEOREM SpecTypeOK == Spec => []TypeOK
<1>1. IInv => TypeOK
    BY DEF IInv
<1> QED
    BY <1>1, SpecInvariant, PTL

\* RegistrySpec: however the handlers, timers and pod events interleave, and
\* whatever fails, each change of the ConfigMap publishes or removes the entry of
\* one policy and leaves its siblings (handlers.py:569), and the aggregate under
\* resolved-assignments.json is always that of the entries.
THEOREM SpecImplementsRegistry == Spec => RegistrySpec
<1> DEFINE shown == IF cm = NoMap THEN {} ELSE cm.resolved
<1>1. Init => Registry!Init
    BY DEF Init, Registry!Init, Entries
<1>2. IInv /\ [Next]_vars => [Registry!Next]_<<Entries(cm), shown>>
  <2> SUFFICES ASSUME IInv, [Next]_vars
               PROVE  [Registry!Next]_<<Entries(cm), shown>>
      OBVIOUS
  <2>1. CASE cm' = cm
    BY <2>1 DEF Entries
  <2>2. ASSUME NEW w \in Worker, pc[w] = "write", Stores(w)
        PROVE  Registry!Next
    <3>1. seen[w] = cm /\ job[w] \in Job
      BY <2>2 DEF IInv, SeenIsCurrent, JobAtHand, Stores
    <3>2. job[w].policy \in Policy /\ job[w].entry \in Entry \cup {NoEntry}
      BY <3>1 DEF Job
    <3>3. cm' # NoMap
      BY <2>2, StoresType, NoneIsNone DEF NoneIsNone
    <3>4. /\ cm'.entries = [Entries(cm) EXCEPT ![job[w].policy] = job[w].entry]
          /\ cm'.resolved = Resolved(cm'.entries)
      BY <2>2, StoresType
    <3>5. Entries(cm)' = cm'.entries /\ shown' = cm'.resolved
      BY <3>3 DEF Entries
    <3>6. Entries(cm)' = [Entries(cm) EXCEPT ![job[w].policy] = job[w].entry]
      BY ONLY <3>4, <3>5
    <3>7. shown' = Registry!Resolved(Entries(cm)')
      BY ONLY <3>4, <3>5 DEF Resolved, Registry!Resolved
    <3>8. Registry!Publish(job[w].policy, job[w].entry)
      BY <3>6, <3>7 DEF Registry!Publish, Registry!Resolved
    <3> QED
      BY <3>2, <3>8 DEF Registry!Next
  <2> QED
    BY <2>1, <2>2, OneWrite
<1> QED
    BY <1>1, <1>2, SpecInvariant, PTL DEF Spec, RegistrySpec, Registry!Spec
===============================================================================
