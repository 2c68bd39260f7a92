---------------------------- MODULE PrioritySource ----------------------------
(***************************************************************************)
(* The controller of one node follows the ConfigMap of BoostRegistry       *)
(* (src/opendps/controller/priority_config.py): before each tick it polls  *)
(* the ConfigMap and gives the brain the priority tiers it holds then.     *)
(*                                                                         *)
(* Resource versions are never given twice and are only compared for       *)
(* equality, so all that matters of the one remembered is whether it is    *)
(* that of the ConfigMap in force; a write of the ConfigMap ends that.     *)
(***************************************************************************)
EXTENDS BoostRegistry

CONSTANTS
    Gpu,           \* the GPUs of the node
    GpusOf,        \* the GPUs of the node a pod holds; none for other nodes
    TierOf,        \* the priorityClass of a version of a policy
    Baseline       \* --gpu-tiers, "normal" for a GPU it does not name

VALID_TIERS == {"low", "normal", "high", "critical"}
TIER_RANK == [low |-> 0, normal |-> 1, high |-> 2, critical |-> 3]

\* The operator passes any priorityClass on; only the schema of the CRD knows
\* the valid ones.
ASSUME SourceParameters ==
    /\ GpusOf \in [Pod -> SUBSET Gpu]
    /\ TierOf \in [Policy -> [1 .. MaxVersion -> STRING]]
    /\ Baseline \in [Gpu -> VALID_TIERS]

VARIABLES
    known,     \* _resource_version is that of the ConfigMap in force
    tiers      \* _snapshot, which set_tiers gives the brain

followVars == <<vars, known, tiers>>

FollowInit == Init /\ known = FALSE /\ tiers = Baseline
---------------------------------------------------------------------------
\* _parse: of the assignments of this node, the highest tier of each GPU; one
\* that is not valid spoils the payload, those of other nodes are not looked at.
Claims(assignments, g) ==
    {TierOf[a[2]][a[3]] : a \in {b \in assignments : g \in GpusOf[b[1]]}}

WellFormed(assignments) == \A g \in Gpu : Claims(assignments, g) \subseteq VALID_TIERS

Highest(S) == CHOOSE t \in S : \A u \in S : TIER_RANK[u] <= TIER_RANK[t]

\* Mutant: updates the last snapshot instead of the baseline.
MergedOntoLast(assignments) ==
    [g \in Gpu |-> IF Claims(assignments, g) = {} THEN tiers[g]
                   ELSE Highest(Claims(assignments, g))]

Merged(assignments) ==
    [g \in Gpu |-> IF Claims(assignments, g) = {} THEN Baseline[g]
                   ELSE Highest(Claims(assignments, g))]

\* Mutant: remembers the version before it has looked at the payload.
ReadsVersionFirst ==
    /\ cm # NoMap /\ ~known
    /\ known' = TRUE
    /\ tiers' = IF WellFormed(cm.resolved) THEN Merged(cm.resolved) ELSE tiers
    /\ UNCHANGED vars

\* Mutant: leaves an invalid assignment out instead of refusing the payload.
ReadsValidPart ==
    /\ cm # NoMap /\ ~known
    /\ known' = TRUE
    /\ tiers' = Merged({a \in cm.resolved : TierOf[a[2]][a[3]] \in VALID_TIERS})
    /\ UNCHANGED vars

\* poll: a version that is known or a payload that does not parse changes nothing.
PollReads ==
    /\ cm # NoMap /\ ~known
    /\ WellFormed(cm.resolved)
    /\ known' = TRUE
    /\ tiers' = Merged(cm.resolved)
    /\ UNCHANGED vars

\* poll: 404
PollMissing ==
    /\ cm = NoMap
    /\ known' = FALSE
    /\ tiers' = Baseline
    /\ UNCHANGED vars

\* poll, _get_api: no client, no permission, or any other failure of the call.
PollFails == UNCHANGED <<vars, known, tiers>>

\* The controller restarts; main polls before the first tick.
ControllerRestarts ==
    /\ Disturbed
    /\ known' = FALSE
    /\ tiers' = Baseline
    /\ UNCHANGED <<policies, handled, pods, event, cm, threads>>

\* Somebody deletes the ConfigMap.
MapRemoved ==
    /\ cm # NoMap /\ Disturbed
    /\ cm' = NoMap
    /\ known' = FALSE
    /\ UNCHANGED <<tiers, policies, handled, pods, event, threads>>

\* Users and the operator.
RegistryStep ==
    /\ Next
    /\ known' = (known /\ cm' = cm)
    /\ UNCHANGED tiers

FollowNext ==
    \/ RegistryStep
    \/ PollReads \/ PollMissing \/ PollFails
    \/ ControllerRestarts \/ MapRemoved

FollowSpec == FollowInit /\ [][FollowNext]_followVars

\* The controller polls before each tick, and polls do not fail for ever.
FairFollowSpec ==
    /\ FollowSpec /\ Fairness
    /\ WF_followVars(PollReads) /\ WF_followVars(PollMissing)
---------------------------------------------------------------------------
\* A poll skips a version it knows: then the brain has what that version holds,
\* whatever was refused, lost or rewritten since (priority_config.py:106).
SkipIsSafe ==
    known => /\ cm # NoMap
             /\ WellFormed(cm.resolved) /\ tiers = Merged(cm.resolved)

\* "preserving the last-known-good snapshot on bad data" (priority_config.py:73):
\* the tiers change only to those of a whole and valid registry in force, never to
\* the valid part of a bad one, and fall back to the baseline only without a
\* registry or with a new controller.
TiersHold ==
    [][\/ tiers' = tiers
       \/ cm # NoMap /\ WellFormed(cm.resolved) /\ tiers' = Merged(cm.resolved)
       \/ cm = NoMap /\ tiers' = Baseline
       \/ ControllerRestarts]_followVars

\* What the live policies ask for the GPUs of the node.
Asked(g) ==
    {TierOf[p][version[p]] :
        p \in {q \in Policy : /\ phase[q] = "live"
                              /\ \E x \in pods \cap Selects[q] : g \in GpusOf[x]}}

Intended ==
    [g \in Gpu |-> IF Asked(g) = {} THEN Baseline[g] ELSE Highest(Asked(g))]

\* Nothing is left of deleted policies (see DeletedEntryGone), no tier is bad.
Sound ==
    /\ \A p \in Policy : phase[p] # "live" => Entries(cm)[p] = NoEntry
    /\ \A g \in Gpu : Asked(g) \subseteq VALID_TIERS

\* From the JobPowerPolicy to the brain (docs/N22-live-kubernetes-handoff.md):
\* once users and crashes stop, the brain decides by the tiers the live policies
\* ask for, with nothing left of earlier versions, pods or registries.
TiersFollow == <>[](Sound => tiers = Intended)
==============================================================================
