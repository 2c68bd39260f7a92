---------------------------- MODULE BoostRegistry ----------------------------
(***************************************************************************)
(* The JobPowerPolicy handlers of the operator (src/opendps/operator/      *)
(* handlers.py): several threads read, change and replace one shared       *)
(* ConfigMap, opendps-job-boosts, with only its resourceVersion between    *)
(* them.                                                                   *)
(*                                                                         *)
(* kopf runs one handler at a time for an object: a thread per policy for  *)
(* its creation, changes and deletion, a thread per pod for its events.    *)
(* The 30 s timer of a policy has a thread of its own.  Every thread calls *)
(* the API step by step (list the pods, read the ConfigMap, replace it)    *)
(* and any call may fail, or succeed and report a failure.                 *)
(***************************************************************************)
EXTENDS Integers

CONSTANTS
    PolicyCount,      \* policies are numbered in the order of their names
    Pod,              \* pods with a gpu-indices annotation
    Selects,          \* the pods the matchLabels of a policy select
    Timed,            \* bound: the policies whose timer is considered
    MaxVersion,       \* bound: creations and changes of one policy
    MaxDisturbances,  \* bound: changes, pod events, crashes
    Attempts,         \* tries of _write_boost_registry, 3
    RV,               \* resource versions a ConfigMap may have
    NoEntry,          \* a policy has no key in the ConfigMap
    NoJob,            \* a thread has nothing to write
    NoMap             \* there is no ConfigMap

Policy == 1 .. PolicyCount

ASSUME RegistryParameters ==
    /\ PolicyCount \in Nat
    /\ Selects \in [Policy -> SUBSET Pod]
    /\ Timed \subseteq Policy
    /\ MaxVersion \in Nat /\ MaxDisturbances \in Nat
    /\ Attempts \in Nat \ {0}
    /\ RV \subseteq Nat

\* An entry holds the generation of the policy and the pods it resolved; the
\* ConfigMap has no key for a policy that is not published.
Entry == [version : 0 .. MaxVersion, pods : SUBSET Pod]

\* The ConfigMap: its resourceVersion, the entries, and the aggregate of their
\* assignments under resolved-assignments.json.
Maps == [rv : RV, entries : [Policy -> Entry \cup {NoEntry}],
         resolved : SUBSET (Pod \X Policy \X (0 .. MaxVersion))]

ASSUME NoneIsNone == NoEntry \notin Entry /\ NoMap \notin RV \cup Maps

Handler == {"handler"} \X Policy
Timer == {"timer"} \X Timed
PodEvents == {"event"} \X Pod
Worker == Handler \cup Timer \cup PodEvents

\* One registry write a thread makes: for which policy, as of which version, and
\* the entry it publishes; version 0 removes the entry.
Task == [policy : Policy, version : 0 .. MaxVersion]
Job == [policy : Policy, version : 0 .. MaxVersion, entry : Entry \cup {NoEntry}]

VARIABLES
    phase,         \* each policy at the API server: "absent", "live",
                   \* "deleting", or "cleaned" once its delete handler succeeded
    version,       \* its uid and generation, as one number; 0 before the first
    handled,       \* the version its handler last succeeded with
    pods,          \* the pods at the API server
    event,         \* pods with an event the operator has not looked at
    disturbances,  \* how many of those so far
    cm,            \* the ConfigMap: rv, entries, resolved; or NoMap
    pc,            \* where each thread is: "idle", "list", "read", "write"
    tasks,         \* the policies it still has to resolve
    job,           \* the write it is at
    seen,          \* the ConfigMap it read
    attempt        \* which try of _write_boost_registry this is

policies == <<phase, version>>
server == <<phase, version, pods, cm>>
threads == <<pc, tasks, job, seen, attempt>>
vars == <<phase, version, handled, pods, event, disturbances, cm,
          pc, tasks, job, seen, attempt>>

\* The assignments of an entry: which pod, under which policy and generation.
Assigned(p, e) == {<<x, p, e.version>> : x \in e.pods}

\* _aggregate_resolved_assignments
Resolved(entries) ==
    UNION {Assigned(p, entries[p]) : p \in {q \in Policy : entries[q] # NoEntry}}

Init ==
    /\ phase = [p \in Policy |-> "absent"]
    /\ version = [p \in Policy |-> 0]
    /\ handled = [p \in Policy |-> 0]
    /\ pods = {} /\ event = {} /\ disturbances = 0
    /\ cm = NoMap
    /\ pc = [w \in Worker |-> "idle"]
    /\ tasks = [w \in Worker |-> {}]
    /\ job = [w \in Worker |-> NoJob]
    /\ seen = [w \in Worker |-> NoMap]
    /\ attempt = [w \in Worker |-> 1]

---------------------------------------------------------------------------
(***************************************************************************)
(* The API server: users change policies and pods.                         *)
(***************************************************************************)
Disturbed == disturbances < MaxDisturbances /\ disturbances' = disturbances + 1

PolicyCreated(p) ==
    /\ phase[p] = "absent" /\ version[p] < MaxVersion
    /\ phase' = [phase EXCEPT ![p] = "live"]
    /\ version' = [version EXCEPT ![p] = @ + 1]
    /\ IF version[p] = 0 THEN UNCHANGED disturbances ELSE Disturbed
    /\ UNCHANGED <<handled, pods, event, cm, threads>>

PolicyChanged(p) ==
    /\ phase[p] = "live" /\ version[p] < MaxVersion
    /\ version' = [version EXCEPT ![p] = @ + 1]
    /\ Disturbed
    /\ UNCHANGED <<phase, handled, pods, event, cm, threads>>

\* The finalizer of kopf keeps a deleted policy until its handler succeeded.
PolicyDeleted(p) ==
    /\ phase[p] = "live"
    /\ phase' = [phase EXCEPT ![p] = "deleting"]
    /\ UNCHANGED <<version, handled, pods, event, disturbances, cm, threads>>

PolicyReleased(p) ==
    /\ phase[p] = "cleaned"
    /\ p \in Timed => pc[<<"timer", p>>] = "idle"
    /\ phase' = [phase EXCEPT ![p] = "absent"]
    /\ UNCHANGED <<version, handled, pods, event, disturbances, cm, threads>>

\* A pod comes or goes; its watch event is queued.
PodChanged(x) ==
    /\ Disturbed
    /\ pods' = IF x \in pods THEN pods \ {x} ELSE pods \cup {x}
    /\ event' = event \cup {x}
    /\ UNCHANGED <<policies, handled, cm, threads>>

---------------------------------------------------------------------------
(***************************************************************************)
(* A thread starts.                                                        *)
(***************************************************************************)
Starts(w, todo) ==
    /\ pc[w] = "idle"
    /\ tasks' = [tasks EXCEPT ![w] = todo]
    /\ pc' = [pc EXCEPT ![w] = IF todo = {} THEN "idle" ELSE "list"]
    /\ UNCHANGED <<server, handled, disturbances, job, seen, attempt>>

AsOf(p) == [policy |-> p, version |-> version[p]]

\* on_jobpowerpolicy_change
OnChange(p) ==
    /\ phase[p] = "live" /\ handled[p] # version[p]
    /\ Starts(<<"handler", p>>, {AsOf(p)})
    /\ UNCHANGED event

\* on_jobpowerpolicy_delete
OnDelete(p) ==
    /\ phase[p] = "deleting" /\ pc[<<"handler", p>>] = "idle"
    /\ pc' = [pc EXCEPT ![<<"handler", p>>] = "read"]
    /\ job' = [job EXCEPT ![<<"handler", p>>] =
                  [policy |-> p, version |-> 0, entry |-> NoEntry]]
    /\ UNCHANGED <<server, handled, event, disturbances, tasks, seen, attempt>>

\* Mutant: leaves alone what the handler of the policy has dealt with.
OnTimerIfUnhandled(p) ==
    /\ phase[p] = "live" /\ handled[p] # version[p]
    /\ Starts(<<"timer", p>>, {AsOf(p)})
    /\ UNCHANGED event

\* resync_jobpowerpolicy
OnTimer(p) ==
    /\ phase[p] = "live"
    /\ Starts(<<"timer", p>>, {AsOf(p)})
    /\ UNCHANGED event

\* on_pod_event: an event of an annotated pod lists the policies, those being
\* deleted included, and reconciles each as it was listed.
Listed == {p \in Policy : phase[p] # "absent"}

OnPodEvent(x) ==
    /\ x \in event
    /\ event' = event \ {x}
    /\ Starts(<<"event", x>>, {AsOf(p) : p \in Listed})
---------------------------------------------------------------------------
(***************************************************************************)
(* A thread goes on.                                                       *)
(***************************************************************************)
\* _list_matching_pods, for the first policy in the order of names.
ListPods(w) ==
    /\ pc[w] = "list"
    /\ \E t \in tasks[w] :
          /\ \A u \in tasks[w] : t.policy <= u.policy
          /\ tasks' = [tasks EXCEPT ![w] = @ \ {t}]
          /\ job' = [job EXCEPT ![w] =
                        [policy |-> t.policy, version |-> t.version,
                         entry |-> [version |-> t.version,
                                    pods |-> pods \cap Selects[t.policy]]]]
    /\ pc' = [pc EXCEPT ![w] = "read"]
    /\ UNCHANGED <<server, handled, event, disturbances, seen, attempt>>

\* The write is done: the next policy of a pod event, or the end of the thread.
\* kopf remembers what a handler of a policy has dealt with.
Finish(w) ==
    LET p == job[w].policy
    IN  /\ pc' = [pc EXCEPT ![w] = IF tasks[w] = {} THEN "idle" ELSE "list"]
        /\ job' = [job EXCEPT ![w] = NoJob]
        /\ seen' = [seen EXCEPT ![w] = NoMap]
        /\ attempt' = [attempt EXCEPT ![w] = 1]
        /\ handled' = IF w \in Handler THEN [handled EXCEPT ![p] = job[w].version]
                                       ELSE handled
        /\ phase' = IF w \in Handler /\ job[w].version = 0
                    THEN [phase EXCEPT ![p] = "cleaned"]
                    ELSE phase
        /\ UNCHANGED <<version, tasks>>

\* An exception ends the thread.  kopf runs a handler or a timer again later;
\* an event is gone.
Raise(w) ==
    /\ pc' = [pc EXCEPT ![w] = "idle"]
    /\ tasks' = [tasks EXCEPT ![w] = {}]
    /\ job' = [job EXCEPT ![w] = NoJob]
    /\ seen' = [seen EXCEPT ![w] = NoMap]
    /\ attempt' = [attempt EXCEPT ![w] = 1]
    /\ UNCHANGED <<policies, handled>>

\* The data of the ConfigMap a thread builds from what it read.
Entries(map) == IF map = NoMap THEN [p \in Policy |-> NoEntry] ELSE map.entries
Updated(w, map) == [Entries(map) EXCEPT ![job[w].policy] = job[w].entry]

\* read_namespaced_config_map; nothing is written when nothing changes.
ReadMap(w) ==
    /\ pc[w] = "read"
    /\ IF /\ cm # NoMap
          /\ Updated(w, cm) = cm.entries
          /\ Resolved(Updated(w, cm)) = cm.resolved
       THEN Finish(w)
       ELSE /\ seen' = [seen EXCEPT ![w] = cm]
            /\ pc' = [pc EXCEPT ![w] = "write"]
            /\ UNCHANGED <<policies, handled, tasks, job, attempt>>
    /\ UNCHANGED <<pods, event, disturbances, cm>>

\* The API server gives a version nobody can hold; the least one will do.
Held == {m.rv : m \in ({cm} \cup {seen[w] : w \in Worker}) \ {NoMap}}
NewVersion(v) == v \in RV \ Held /\ \A u \in RV \ Held : v <= u

\* Mutant: replaces the ConfigMap whatever its version.
NeverConflicts(w) == FALSE

VersionOf(map) == IF map = NoMap THEN NoMap ELSE map.rv
Conflict(w) == VersionOf(cm) # VersionOf(seen[w])

\* create_namespaced_config_map or replace_namespaced_config_map.
Stores(w) ==
    LET new == Updated(w, seen[w])
    IN  /\ ~Conflict(w)
        /\ \E v \in RV : /\ NewVersion(v)
                         /\ cm' = [rv |-> v, entries |-> new, resolved |-> Resolved(new)]

Commit(w) ==
    /\ pc[w] = "write"
    /\ Stores(w) /\ Finish(w)
    /\ UNCHANGED <<pods, event, disturbances>>

\* Mutant: counts the tries from zero.
RefusedFromZero(w) ==
    /\ pc[w] = "write" /\ Conflict(w) /\ cm # NoMap
    /\ IF attempt[w] <= Attempts
       THEN /\ attempt' = [attempt EXCEPT ![w] = @ + 1]
            /\ pc' = [pc EXCEPT ![w] = "read"]
            /\ seen' = [seen EXCEPT ![w] = NoMap]
            /\ UNCHANGED <<policies, handled, tasks, job>>
       ELSE Raise(w)
    /\ UNCHANGED <<pods, event, disturbances, cm>>

\* 409: try again, or give up after the last try.  A ConfigMap that is gone when
\* it is to be replaced is a 404, which is raised.
Refused(w) ==
    /\ pc[w] = "write" /\ Conflict(w) /\ cm # NoMap
    /\ IF attempt[w] < Attempts
       THEN /\ attempt' = [attempt EXCEPT ![w] = @ + 1]
            /\ pc' = [pc EXCEPT ![w] = "read"]
            /\ seen' = [seen EXCEPT ![w] = NoMap]
            /\ UNCHANGED <<policies, handled, tasks, job>>
       ELSE Raise(w)
    /\ UNCHANGED <<pods, event, disturbances, cm>>

\* A call fails; a write may have been stored all the same.
Fails(w) ==
    /\ pc[w] # "idle"
    /\ UNCHANGED cm \/ (pc[w] = "write" /\ Stores(w))
    /\ Raise(w)
    /\ UNCHANGED <<pods, event, disturbances>>

\* The operator restarts: its threads are gone, every pod there is comes again
\* as an event, and the handlers that had not succeeded will run again.
Crash ==
    /\ Disturbed
    /\ pc' = [w \in Worker |-> "idle"]
    /\ tasks' = [w \in Worker |-> {}]
    /\ job' = [w \in Worker |-> NoJob]
    /\ seen' = [w \in Worker |-> NoMap]
    /\ attempt' = [w \in Worker |-> 1]
    /\ event' = pods
    /\ UNCHANGED <<server, handled>>
---------------------------------------------------------------------------
Users ==
    \/ \E p \in Policy : PolicyCreated(p) \/ PolicyChanged(p) \/ PolicyDeleted(p)
    \/ \E x \in Pod : PodChanged(x)

Goes(w) == ListPods(w) \/ ReadMap(w) \/ Commit(w) \/ Refused(w) \/ Fails(w)

Next ==
    \/ Users
    \/ \E p \in Policy : OnChange(p) \/ OnDelete(p) \/ PolicyReleased(p)
    \/ \E p \in Timed : OnTimer(p)
    \/ \E x \in Pod : OnPodEvent(x)
    \/ \E w \in Worker : Goes(w)
    \/ Crash

Spec == Init /\ [][Next]_vars

\* kopf runs what is due, threads go on, and the calls of what kopf repeats do
\* not fail for ever.
Fairness ==
    /\ \A p \in Policy : /\ WF_vars(OnChange(p)) /\ WF_vars(OnDelete(p))
                         /\ WF_vars(PolicyReleased(p))
    /\ \A p \in Timed : WF_vars(OnTimer(p))
    /\ \A x \in Pod : WF_vars(OnPodEvent(x))
    /\ \A w \in Worker : WF_vars(Goes(w))
    /\ \A w \in Handler \cup Timer :
          SF_vars(ListPods(w)) /\ SF_vars(ReadMap(w)) /\ SF_vars(Commit(w))

FairSpec == Spec /\ Fairness
---------------------------------------------------------------------------
\* Types.
TypeOK ==
    /\ phase \in [Policy -> {"absent", "live", "deleting", "cleaned"}]
    /\ version \in [Policy -> 0 .. MaxVersion]
    /\ handled \in [Policy -> 0 .. MaxVersion]
    /\ pods \subseteq Pod /\ event \subseteq Pod
    /\ disturbances \in 0 .. MaxDisturbances
    /\ cm \in Maps \cup {NoMap}
    /\ pc \in [Worker -> {"idle", "list", "read", "write"}]
    /\ tasks \in [Worker -> SUBSET Task]
    /\ job \in [Worker -> Job \cup {NoJob}]
    /\ seen \in [Worker -> Maps \cup {NoMap}]
    /\ attempt \in [Worker -> 1 .. Attempts]

\* What every reader of the ConfigMap relies on, however the threads interleave:
\* one policy at a time, siblings untouched, the aggregate that of the entries
\* (handlers.py:569).  RegistrySpec is the abstract specification.
Registry ==
    INSTANCE AssignmentRegistry
    WITH entries <- Entries(cm),
         resolved <- IF cm = NoMap THEN {} ELSE cm.resolved
RegistrySpec == Registry!Spec

\* "This provides deterministic recovery" (docs/N22-live-kubernetes-handoff.md):
\* whatever failed, crashed or was overwritten by a thread with older news, once
\* users and crashes stop every policy is published as it is.
Converges ==
    \A p \in Policy :
        <>[](phase[p] = "live"
             => Entries(cm)[p] = [version |-> version[p],
                                  pods |-> pods \cap Selects[p]])

\* handlers.py:304 "Remove the deleted policy without disturbing sibling registry
\* entries".
DeletedEntryGone ==
    \A p \in Policy :
        <>[](phase[p] = "absent") => <>[](Entries(cm)[p] = NoEntry)
============================================================================
