----------------------------- MODULE DomainConfig -----------------------------
(***************************************************************************)
(* The PowerDomain and PowerPolicy handlers of the operator (src/opendps/  *)
(* operator/handlers.py) and the ConfigMap of one domain they write: the   *)
(* topology under one key, the parameters of the brain under another.      *)
(* Others may keep a key there too, such as quota.json.                    *)
(*                                                                         *)
(* kopf runs the handlers of one object one at a time, those of the domain *)
(* and of the policy side by side.  A deleted PowerDomain stays until its  *)
(* delete handler succeeded.  A PowerPolicy has none and just goes; the    *)
(* one made in its place is another object, whose handler may run beside   *)
(* what still runs of the old.  The controller reads the ConfigMap,        *)
(* mounted as files, when it starts.                                       *)
(***************************************************************************)
EXTENDS Integers

CONSTANTS
    MaxGen,        \* bound: specs of the PowerDomain, and of the PowerPolicy
    ValidGens,     \* those of the PowerDomain with GPUs and a positive budget
    MaxUpsets,     \* bound: calls that fail, crashes, and users at the map
    NoFile         \* there is no ConfigMap

Gen == 1 .. MaxGen

\* 0 for a key that is not there; no spec without GPUs or budget gets into it.
Files == [topology : {0} \cup ValidGens, params : {0} \cup Gen, other : BOOLEAN]

ASSUME DomainParameters ==
    /\ MaxGen \in Nat /\ MaxUpsets \in Nat
    /\ ValidGens \subseteq Gen
    /\ NoFile \notin Files

VARIABLES
    domain,       \* the PowerDomain: "absent", "live", "deleting", "cleaned"
    gen,          \* its spec; 0 before the first
    genDone,      \* the spec its handler is done with
    policy,       \* the spec of the PowerPolicy; 0 while there is none
    policyGen,    \* the last spec it had
    policyDone,   \* the spec its handler is done with
    file,         \* the ConfigMap of the domain
    at,           \* where the handler of the domain is
    spec,         \* the spec that handler runs for
    policyAt,     \* where the handler of the policy is
    policySpec,   \* the spec that handler runs for
    late,         \* the specs that handlers of removed PowerPolicies will write
    loaded,       \* what the controller started with
    upsets        \* upsets so far

domainVars == <<domain, gen, genDone, policy, policyGen, policyDone, file,
                at, spec, policyAt, policySpec, late, loaded, upsets>>
domainThread == <<at, spec>>
policyThread == <<policyAt, policySpec, late>>
policyObject == <<policy, policyGen, policyDone>>

DomainInit ==
    /\ domain = "absent" /\ gen = 0 /\ genDone = 0
    /\ policy = 0 /\ policyGen = 0 /\ policyDone = 0
    /\ file = NoFile
    /\ at = "idle" /\ spec = 0 /\ policyAt = "idle" /\ policySpec = 0
    /\ late = {} /\ loaded = NoFile /\ upsets = 0
---------------------------------------------------------------------------
(***************************************************************************)
(* Users.                                                                  *)
(***************************************************************************)
Upset == upsets < MaxUpsets /\ upsets' = upsets + 1

DomainApplied ==
    /\ domain \in {"absent", "live"} /\ gen < MaxGen
    /\ domain' = "live" /\ gen' = gen + 1
    /\ UNCHANGED <<genDone, policyObject, file, domainThread, policyThread, loaded, upsets>>

DomainDeleted ==
    /\ domain = "live"
    /\ domain' = "deleting"
    /\ UNCHANGED <<gen, genDone, policyObject, file, domainThread, policyThread, loaded, upsets>>

DomainReleased ==
    /\ domain = "cleaned"
    /\ domain' = "absent"
    /\ UNCHANGED <<gen, genDone, policyObject, file, domainThread, policyThread, loaded, upsets>>

PolicyApplied ==
    /\ policyGen < MaxGen
    /\ policyGen' = policyGen + 1 /\ policy' = policyGen + 1
    /\ UNCHANGED <<domain, gen, genDone, policyDone, file, domainThread, policyThread,
                   loaded, upsets>>

PolicyRemoved ==
    /\ policy # 0
    /\ policy' = 0
    /\ late' = IF policyAt = "params" THEN late \cup {policySpec} ELSE late
    /\ policyAt' = "idle" /\ policySpec' = 0
    /\ UNCHANGED <<domain, gen, genDone, policyGen, policyDone, file, domainThread,
                   loaded, upsets>>

\* Somebody puts a file of their own into the ConfigMap.
OtherKey ==
    /\ Upset
    /\ file' = IF file = NoFile THEN [topology |-> 0, params |-> 0, other |-> TRUE]
               ELSE [file EXCEPT !.other = TRUE]
    /\ UNCHANGED <<domain, gen, genDone, policyObject, domainThread, policyThread, loaded>>

Users ==
    \/ DomainApplied \/ DomainDeleted \/ DomainReleased
    \/ PolicyApplied \/ PolicyRemoved \/ OtherKey
---------------------------------------------------------------------------
(***************************************************************************)
(* The handlers of the PowerDomain.                                        *)
(***************************************************************************)
\* Mutant: looks at the spec only once it is written.
ChangeUnchecked ==
    /\ domain = "live" /\ genDone # gen /\ at = "idle"
    /\ at' = "patch" /\ spec' = gen /\ UNCHANGED genDone
    /\ UNCHANGED <<domain, gen, policyObject, file, policyThread, loaded, upsets>>

\* on_powerdomain_change: a spec that is not valid is not tried again.
OnDomainChange ==
    /\ domain = "live" /\ genDone # gen /\ at = "idle"
    /\ IF gen \in ValidGens
       THEN at' = "patch" /\ spec' = gen /\ UNCHANGED genDone
       ELSE genDone' = gen /\ UNCHANGED domainThread
    /\ UNCHANGED <<domain, gen, policyObject, file, policyThread, loaded, upsets>>

\* The handler succeeded.
DomainDone ==
    /\ genDone' = spec
    /\ at' = "idle" /\ spec' = 0

\* A handler raises; kopf runs it again.
DomainRetried ==
    /\ at' = "idle" /\ spec' = 0
    /\ UNCHANGED genDone

\* Mutant: writes a map with no key but its own.
ReplaceTopology ==
    /\ file # NoFile
    /\ file' = [topology |-> spec, params |-> 0, other |-> FALSE]

\* patch_namespaced_config_map merges: the other keys stay.
MergeTopology ==
    /\ file # NoFile
    /\ file' = [file EXCEPT !.topology = spec]

\* _patch_or_create_cm: patch; on 404 create; on 409 patch again.
PatchTopology ==
    /\ at = "patch"
    /\ \/ MergeTopology /\ DomainDone
       \/ file = NoFile /\ at' = "create" /\ UNCHANGED <<spec, genDone, file>>
    /\ UNCHANGED <<domain, gen, policyObject, policyThread, loaded, upsets>>

\* Mutant: a ConfigMap that came in between will do.
CreateOrLeave ==
    /\ at = "create"
    /\ file' = IF file = NoFile THEN [topology |-> spec, params |-> 0, other |-> FALSE]
               ELSE file
    /\ DomainDone
    /\ UNCHANGED <<domain, gen, policyObject, policyThread, loaded, upsets>>

CreateTopology ==
    /\ at = "create"
    /\ \/ /\ file = NoFile
          /\ file' = [topology |-> spec, params |-> 0, other |-> FALSE]
          /\ DomainDone
       \/ file # NoFile /\ at' = "again" /\ UNCHANGED <<spec, genDone, file>>
    /\ UNCHANGED <<domain, gen, policyObject, policyThread, loaded, upsets>>

\* No 404: the map goes only with OnDomainDelete, which kopf never runs beside it.
PatchAgain ==
    /\ at = "again"
    /\ MergeTopology /\ DomainDone
    /\ UNCHANGED <<domain, gen, policyObject, policyThread, loaded, upsets>>

\* on_powerdomain_delete: the ConfigMap goes, the keys of others with it.
OnDomainDelete ==
    /\ domain = "deleting" /\ at = "idle"
    /\ file' = NoFile
    /\ domain' = "cleaned"
    /\ UNCHANGED <<gen, genDone, policyObject, domainThread, policyThread, loaded, upsets>>
---------------------------------------------------------------------------
(***************************************************************************)
(* The handler of the PowerPolicy.                                         *)
(***************************************************************************)
OnPolicyChange ==
    /\ policy # 0 /\ policyDone # policy /\ policyAt = "idle"
    /\ policyAt' = "params" /\ policySpec' = policy /\ UNCHANGED late
    /\ UNCHANGED <<domain, gen, genDone, policyObject, file, domainThread, loaded, upsets>>

\* Mutant: is done although there is no ConfigMap yet.
WriteOrDrop ==
    /\ policyAt = "params"
    /\ file' = IF file = NoFile THEN NoFile ELSE [file EXCEPT !.params = policySpec]
    /\ policyAt' = "annotate" /\ UNCHANGED <<policySpec, late>>
    /\ UNCHANGED <<domain, gen, genDone, policyObject, domainThread, loaded, upsets>>

\* _write_domain_params: a 404 is tried again later.
WriteParams ==
    /\ policyAt = "params"
    /\ \/ /\ file # NoFile
          /\ file' = [file EXCEPT !.params = policySpec]
          /\ policyAt' = "annotate" /\ UNCHANGED policySpec
       \/ /\ file = NoFile
          /\ policyAt' = "idle" /\ policySpec' = 0
          /\ UNCHANGED file
    /\ UNCHANGED <<domain, gen, genDone, policyObject, domainThread, late, loaded, upsets>>

\* _annotate_domain_configmap: a 404 is only logged.
Annotate ==
    /\ policyAt = "annotate"
    /\ policyDone' = policySpec
    /\ policyAt' = "idle" /\ policySpec' = 0
    /\ UNCHANGED <<domain, gen, genDone, policy, policyGen, file, domainThread, late,
                   loaded, upsets>>

\* The same for a PowerPolicy that is gone; of a 404 nothing comes any more.
WriteLate ==
    /\ \E p \in late :
          /\ late' = late \ {p}
          /\ file' = IF file = NoFile THEN NoFile ELSE [file EXCEPT !.params = p]
    /\ UNCHANGED <<domain, gen, genDone, policyObject, domainThread, policyAt, policySpec,
                   loaded, upsets>>
---------------------------------------------------------------------------
\* A call fails, its write done or not.
DomainCallFails ==
    /\ at # "idle" /\ Upset
    /\ \/ UNCHANGED file
       \/ at # "create" /\ MergeTopology
       \/ /\ at = "create" /\ file = NoFile
          /\ file' = [topology |-> spec, params |-> 0, other |-> FALSE]
    /\ DomainRetried
    /\ UNCHANGED <<domain, gen, policyObject, policyThread, loaded>>

DeleteFails ==
    /\ domain = "deleting" /\ at = "idle" /\ Upset
    /\ file' = NoFile
    /\ UNCHANGED <<domain, gen, genDone, policyObject, domainThread, policyThread, loaded>>

PolicyCallFails ==
    /\ policyAt # "idle" /\ Upset
    /\ \/ UNCHANGED file
       \/ /\ policyAt = "params" /\ file # NoFile
          /\ file' = [file EXCEPT !.params = policySpec]
    /\ policyAt' = "idle" /\ policySpec' = 0
    /\ UNCHANGED <<domain, gen, genDone, policyObject, domainThread, late, loaded>>

\* Nobody tries it again.
LateCallFails ==
    /\ Upset
    /\ \E p \in late : late' = late \ {p}
    /\ UNCHANGED <<domain, gen, genDone, policyObject, file, domainThread, policyAt,
                   policySpec, loaded>>

\* The operator restarts; what had not succeeded runs again.
OperatorRestarts ==
    /\ Upset
    /\ at' = "idle" /\ spec' = 0 /\ policyAt' = "idle" /\ policySpec' = 0
    /\ late' = {}
    /\ UNCHANGED <<domain, gen, genDone, policyObject, file, loaded>>

\* main: the topology file has to be there, the parameters need not.
ControllerStarts ==
    /\ file # NoFile /\ file.topology # 0
    /\ loaded' = file
    /\ UNCHANGED <<domain, gen, genDone, policyObject, file, domainThread, policyThread,
                   upsets>>

DomainHandler == OnDomainChange \/ PatchTopology \/ CreateTopology \/ PatchAgain
                 \/ OnDomainDelete
PolicyHandler == OnPolicyChange \/ WriteParams \/ Annotate \/ WriteLate

DomainNext ==
    \/ Users
    \/ DomainHandler \/ PolicyHandler
    \/ DomainCallFails \/ DeleteFails \/ PolicyCallFails \/ LateCallFails
    \/ OperatorRestarts
    \/ ControllerStarts

DomainSpec == DomainInit /\ [][DomainNext]_domainVars

\* kopf runs the handlers that are due, and they go on.
DomainFairness == WF_domainVars(DomainHandler) /\ WF_domainVars(PolicyHandler)
---------------------------------------------------------------------------
\* Types; the ConfigMap, and so the controller, never get a topology that the
\* operator refused (handlers.py:129-132), whatever it held when the refusal came.
DomainTypeOK ==
    /\ domain \in {"absent", "live", "deleting", "cleaned"}
    /\ gen \in {0} \cup Gen /\ genDone \in {0} \cup Gen
    /\ policy \in {0} \cup Gen /\ policyGen \in {0} \cup Gen /\ policyDone \in {0} \cup Gen
    /\ file \in Files \cup {NoFile}
    /\ at \in {"idle", "patch", "create", "again"}
    /\ spec \in {0} \cup Gen
    /\ at # "idle" => spec \in ValidGens
    /\ policyAt \in {"idle", "params", "annotate"}
    /\ policySpec \in {0} \cup Gen
    /\ policyAt # "idle" => policySpec \in Gen
    /\ late \subseteq Gen
    /\ loaded \in Files \cup {NoFile}
    /\ upsets \in 0 .. MaxUpsets

\* What the reader of the ConfigMap relies on, whatever fails or restarts: a key goes
\* only with the whole map, when the PowerDomain is deleted (handlers.py:474 "so a
\* sibling params.json written by the PowerPolicy handler is preserved"), an older
\* topology never takes the place of a newer one, and a domain that is gone leaves
\* none.  StoreSpec is the abstract specification.
Store ==
    INSTANCE DomainStore
    WITH Topology <- ValidGens, Params <- Gen, NoStore <- NoFile,
         owned <- domain \in {"live", "deleting"}, store <- file
StoreSpec == Store!Spec

\* A spec that kopf takes for handled, and so never runs again, is what the ConfigMap
\* holds, whoever made the map between the 404 of the patch and the create
\* (handlers.py:483 "so our data keys still land").
HandledIsThere ==
    domain = "live" /\ genDone = gen /\ gen \in ValidGens
        => file # NoFile /\ file.topology = gen

\* Once users and failures stop, the ConfigMap of a PowerDomain holds its topology
\* (handlers.py:483 "so our data keys still land").
TopologyFollows ==
    <>[](domain = "live" /\ gen \in ValidGens
         => file # NoFile /\ file.topology = gen)

\* A PowerPolicy gets into the ConfigMap of a domain that stays, in whichever order
\* the two are made (handlers.py:654 "rather than silently dropping the params
\* forever").  One that was written is not written again when the domain is deleted
\* and made anew, not even before its handler is done.
ParamsFollow ==
    \A p \in Gen :
        (policy = p /\ policyDone # p /\ ~(policyAt = "annotate" /\ policySpec = p))
            ~> \/ policy # p \/ domain # "live" \/ gen \notin ValidGens
               \/ (file # NoFile /\ file.params = p)
===============================================================================
