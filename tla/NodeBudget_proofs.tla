-------------------------- MODULE NodeBudget_proofs --------------------------
(***************************************************************************)
(* Proofs about DomainConfig, for any number of specs, of them valid, and  *)
(* of failures: what the ConfigMap of a domain may hold, that what is      *)
(* handled is there, and that the handlers implement DomainStore.          *)
(* Then the composition: with a store or without, what is proved of the    *)
(* ConfigMap (here) and of the coordinator (ClusterBudget_proofs) holds.   *)
(***************************************************************************)
EXTENDS NodeBudget, ClusterBudget_proofs

LEMMA DomainInitType == DomainInit => DomainTypeOK
    BY DomainParameters DEF DomainParameters, DomainInit, DomainTypeOK, Gen

\* A ConfigMap that is made, with one key.
LEMMA NewMapType ==
    /\ [topology |-> 0, params |-> 0, other |-> TRUE] \in Files
    /\ \A t \in ValidGens : [topology |-> t, params |-> 0, other |-> FALSE] \in Files
    BY DEF Files

\* The steps of users and of the controller.
LEMMA UsersType ==
    ASSUME DomainTypeOK, Users \/ ControllerStarts
    PROVE  DomainTypeOK'
<1> USE DomainParameters
    DEF DomainParameters, DomainTypeOK, Gen, Files, policyObject, domainThread, policyThread
<1>1. CASE DomainApplied
    BY <1>1 DEF DomainApplied
<1>2. CASE DomainDeleted \/ DomainReleased
    BY <1>2 DEF DomainDeleted, DomainReleased
<1>3. CASE PolicyApplied
    BY <1>3 DEF PolicyApplied
<1>4. CASE PolicyRemoved
    BY <1>4 DEF PolicyRemoved
<1>5. CASE OtherKey
  <2>1. file' \in Files
    BY <1>5, NewMapType DEF OtherKey
  <2> QED
    BY <1>5, <2>1 DEF OtherKey, Upset
<1>6. CASE ControllerStarts
    BY <1>6 DEF ControllerStarts
<1> QED
    BY <1>1, <1>2, <1>3, <1>4, <1>5, <1>6 DEF Users

\* The steps of the handlers.
LEMMA HandlersType ==
    ASSUME DomainTypeOK, DomainHandler \/ PolicyHandler
    PROVE  DomainTypeOK'
<1> USE DomainParameters
    DEF DomainParameters, DomainTypeOK, Gen, Files, policyObject, domainThread, policyThread
<1>1. CASE OnDomainChange
    BY <1>1 DEF OnDomainChange
<1>2. CASE PatchTopology
    BY <1>2 DEF PatchTopology, MergeTopology, DomainDone
<1>3. CASE CreateTopology
  <2>1. file' \in Files \cup {NoFile}
    BY <1>3, NewMapType DEF CreateTopology
  <2> QED
    BY <1>3, <2>1 DEF CreateTopology, DomainDone
<1>4. CASE PatchAgain
    BY <1>4 DEF PatchAgain, MergeTopology, DomainDone
<1>5. CASE OnDomainDelete
    BY <1>5 DEF OnDomainDelete
<1>6. CASE OnPolicyChange
    BY <1>6 DEF OnPolicyChange
<1>7. CASE WriteParams
    BY <1>7 DEF WriteParams
<1>8. CASE Annotate
    BY <1>8 DEF Annotate
<1>9. CASE WriteLate
    BY <1>9 DEF WriteLate
<1> QED
    BY <1>1, <1>2, <1>3, <1>4, <1>5, <1>6, <1>7, <1>8, <1>9 DEF DomainHandler, PolicyHandler

\* Calls that fail, and restarts.
LEMMA FailuresType ==
    ASSUME DomainTypeOK,
           \/ DomainCallFails \/ DeleteFails \/ PolicyCallFails \/ LateCallFails
           \/ OperatorRestarts
    PROVE  DomainTypeOK'
<1> USE DomainParameters
    DEF DomainParameters, DomainTypeOK, Gen, Files, policyObject, domainThread, policyThread,
        Upset
<1>1. CASE DomainCallFails
  <2>1. file' \in Files \cup {NoFile}
    BY <1>1, NewMapType DEF DomainCallFails, MergeTopology
  <2> QED
    BY <1>1, <2>1 DEF DomainCallFails, DomainRetried
<1>2. CASE DeleteFails
    BY <1>2 DEF DeleteFails
<1>3. CASE PolicyCallFails
    BY <1>3 DEF PolicyCallFails
<1>4. CASE LateCallFails
    BY <1>4 DEF LateCallFails
<1>5. CASE OperatorRestarts
    BY <1>5 DEF OperatorRestarts
<1> QED
    BY <1>1, <1>2, <1>3, <1>4, <1>5

\* DomainTypeOK: among the types, that no topology the operator refused is ever in
\* the ConfigMap or in a controller (handlers.py:129-132).
THEOREM DomainSafe == DomainSpec => []DomainTypeOK
<1>1. DomainTypeOK /\ [DomainNext]_domainVars => DomainTypeOK'
  <2>1. ASSUME DomainTypeOK, UNCHANGED domainVars PROVE DomainTypeOK'
    BY <2>1 DEF domainVars, DomainTypeOK
  <2> QED
    BY <2>1, UsersType, HandlersType, FailuresType DEF DomainNext
<1> QED
    BY <1>1, DomainInitType, PTL DEF DomainSpec

---------------------------------------------------------------------------
(***************************************************************************)
(* What is handled is there.  A handler runs only for a spec that is not   *)
(* handled, so that none of its calls is late; and between its create and  *)
(* its second patch the map stays, as the one that drops it is the delete  *)
(* handler of the same object.                                             *)
(***************************************************************************)
HandledInv ==
    /\ HandledIsThere
    /\ genDone <= gen
    /\ at # "idle" => genDone # gen /\ spec <= gen
    /\ at = "again" => file # NoFile

LEMMA HandledInit == DomainInit => HandledInv
    BY DEF DomainInit, HandledInv, HandledIsThere

\* A step that leaves the topology in the ConfigMap, and the handler of the domain.
LEMMA HandledAside ==
    ASSUME DomainTypeOK, HandledInv,
           file # NoFile => file' # NoFile /\ file'.topology = file.topology,
           UNCHANGED <<domain, gen, genDone>>,
           UNCHANGED domainThread \/ at' = "idle"
    PROVE  HandledInv'
    BY DEF HandledInv, HandledIsThere, domainThread

\* The steps of the domain's own handler.
LEMMA HandledByHandler ==
    ASSUME DomainTypeOK, HandledInv, DomainHandler
    PROVE  HandledInv'
<1> USE DomainParameters DEF DomainParameters, DomainTypeOK, HandledInv, HandledIsThere, Gen
<1>1. CASE OnDomainChange
    BY <1>1 DEF OnDomainChange, domainThread
<1>2. ASSUME MergeTopology, at # "idle"
      PROVE  file' # NoFile /\ file'.topology = spec
  <2>1. file \in Files /\ spec \in ValidGens
    BY <1>2 DEF MergeTopology
  <2>2. file' \in Files /\ file'.topology = spec
    BY <1>2, <2>1 DEF MergeTopology, Files
  <2> QED
    BY <2>2
<1>3. CASE PatchTopology
    BY <1>2, <1>3 DEF PatchTopology, DomainDone
<1>4. CASE CreateTopology
  <2>1. [topology |-> spec, params |-> 0, other |-> FALSE] # NoFile
    BY <1>4, NewMapType DEF CreateTopology
  <2> QED
    BY <1>4, <2>1 DEF CreateTopology, DomainDone
<1>5. CASE PatchAgain
    BY <1>2, <1>5 DEF PatchAgain, DomainDone
<1>6. CASE OnDomainDelete
    BY <1>6 DEF OnDomainDelete, domainThread
<1> QED
    BY <1>1, <1>3, <1>4, <1>5, <1>6 DEF DomainHandler

\* A write of the parameters.
LEMMA ParamsAside ==
    ASSUME DomainTypeOK, WriteParams \/ WriteLate \/ PolicyCallFails
    PROVE  /\ \/ file' = file
              \/ file # NoFile /\ \E p \in Gen : file' = [file EXCEPT !.params = p]
           /\ file # NoFile => file' # NoFile /\ file'.topology = file.topology
<1>1. \/ file' = file
      \/ file # NoFile /\ \E p \in Gen : file' = [file EXCEPT !.params = p]
    BY DEF DomainTypeOK, WriteParams, WriteLate, PolicyCallFails
<1>2. ASSUME file \in Files, NEW p \in Gen, file' = [file EXCEPT !.params = p]
      PROVE  file' \in Files /\ file'.topology = file.topology
    BY <1>2 DEF Files
<1> QED
    BY <1>1, <1>2, DomainParameters DEF DomainTypeOK, DomainParameters

\* The steps of the others, and the failures.
LEMMA HandledByOthers ==
    ASSUME DomainTypeOK, HandledInv, [DomainNext]_domainVars, ~DomainHandler
    PROVE  HandledInv'
<1> USE DomainParameters DEF DomainParameters
<1>1. CASE DomainApplied
    BY <1>1 DEF DomainApplied, DomainTypeOK, HandledInv, HandledIsThere, Gen, domainThread
<1>2. CASE DomainDeleted \/ DomainReleased
    BY <1>2 DEF DomainDeleted, DomainReleased, HandledInv, HandledIsThere, domainThread
<1>3. CASE OtherKey
  <2>1. file # NoFile => file' # NoFile /\ file'.topology = file.topology
    BY <1>3 DEF OtherKey, DomainTypeOK, Files
  <2> QED
    BY <1>3, <2>1, HandledAside DEF OtherKey
<1>4. CASE WriteParams \/ WriteLate \/ PolicyCallFails
  <2>1. file # NoFile => file' # NoFile /\ file'.topology = file.topology
    BY <1>4, ParamsAside
  <2> QED
    BY <1>4, <2>1, HandledAside DEF WriteParams, WriteLate, PolicyCallFails
<1>5. CASE DomainCallFails
    BY <1>5, NewMapType
    DEF DomainCallFails, DomainRetried, MergeTopology, DomainTypeOK, HandledInv,
        HandledIsThere, Files
<1>6. CASE DeleteFails
    BY <1>6 DEF DeleteFails, HandledInv, HandledIsThere, domainThread
<1>7. CASE PolicyApplied \/ PolicyRemoved \/ OnPolicyChange \/ Annotate
           \/ LateCallFails \/ OperatorRestarts \/ ControllerStarts
           \/ UNCHANGED domainVars
    BY <1>7, HandledAside
    DEF PolicyApplied, PolicyRemoved, OnPolicyChange, Annotate, LateCallFails,
        OperatorRestarts, ControllerStarts, domainVars, domainThread
<1> QED
    BY <1>1, <1>2, <1>3, <1>4, <1>5, <1>6, <1>7 DEF DomainNext, Users, PolicyHandler

\* HandledIsThere: no spec that kopf takes for handled is missing from the ConfigMap,
\* for any specs, failures and restarts, and whoever else makes the map first
\* (handlers.py:483).
THEOREM DomainHandledIsThere == DomainSpec => []HandledIsThere
<1>1. DomainTypeOK /\ HandledInv /\ [DomainNext]_domainVars => HandledInv'
    BY HandledByHandler, HandledByOthers
<1>2. HandledInv => HandledIsThere
    BY DEF HandledInv
<1> QED
    BY <1>1, <1>2, HandledInit, DomainSafe, PTL DEF DomainSpec
---------------------------------------------------------------------------
(***************************************************************************)
(* The handlers implement DomainStore.  The handler of a domain runs only  *)
(* while the PowerDomain is there, and what it is to write is never older  *)
(* than what the map has.                                                  *)
(***************************************************************************)
Owned == domain \in {"live", "deleting"}

NeverBack ==
    /\ at # "idle" => Owned
    /\ file # NoFile => file.topology <= gen /\ (at # "idle" => file.topology <= spec)

DomainInv == DomainTypeOK /\ HandledInv /\ NeverBack

\* What the steps of a domain's handler, the failing ones included, do to the map.
LEMMA HandlerPuts ==
    ASSUME DomainInv,
           \/ PatchTopology \/ CreateTopology \/ PatchAgain
           \/ DomainCallFails
    PROVE  /\ spec \in ValidGens /\ at # "idle"
           /\ file' = file \/ Store!PutTopology(spec)
<1> USE DEF DomainInv
<1>1. spec \in ValidGens /\ at # "idle" /\ domain' = domain
    BY DEF DomainTypeOK, PatchTopology, CreateTopology, PatchAgain, DomainCallFails
<1>2. Owned /\ (file # NoFile => file.topology <= spec)
    BY <1>1 DEF NeverBack
<1>3. \/ file' = file
      \/ MergeTopology
      \/ file = NoFile /\ file' = [topology |-> spec, params |-> 0, other |-> FALSE]
    BY DEF PatchTopology, CreateTopology, PatchAgain, DomainCallFails
<1> QED
    BY <1>1, <1>2, <1>3 DEF Owned, MergeTopology, Store!PutTopology

\* What is put is the spec of the handler.
LEMMA PutIsSpec ==
    ASSUME DomainTypeOK, Store!PutTopology(spec), spec \in ValidGens
    PROVE  file' # NoFile /\ file'.topology = spec
<1>1. ASSUME NEW f \in Files
      PROVE  LET g == [f EXCEPT !.topology = spec] IN g \in Files /\ g.topology = spec
    BY DEF Files
<1>2. LET g == [topology |-> spec, params |-> 0, other |-> FALSE]
      IN  g \in Files /\ g.topology = spec
    BY DEF Files
<1>3. \/ file' = [file EXCEPT !.topology = spec] /\ file \in Files
      \/ file' = [topology |-> spec, params |-> 0, other |-> FALSE]
    BY DEF DomainTypeOK, Store!PutTopology
<1> QED
    BY <1>1, <1>2, <1>3, DomainParameters DEF DomainParameters

\* A step that leaves the topology in the map keeps it, if the handler goes no further.
LEMMA NeverBackAside ==
    ASSUME DomainInv, gen' \in Nat, gen <= gen', DomainTypeOK',
           file' # NoFile => \/ file # NoFile /\ file'.topology = file.topology
                             \/ file'.topology = 0,
           \/ at' = "idle"
           \/ UNCHANGED domainThread /\ Owned'
    PROVE  NeverBack'
<1>1. gen \in Nat /\ spec \in Nat /\ spec' \in Nat
    BY DomainParameters DEF DomainInv, DomainTypeOK, DomainParameters, Gen
<1>2. file # NoFile => file.topology \in Nat
  <2>1. file \in Files => file.topology \in {0} \cup ValidGens
    BY DEF Files
  <2>2. {0} \cup ValidGens \subseteq Nat
    BY DomainParameters DEF DomainParameters, Gen
  <2>3. file # NoFile => file \in Files
    BY DEF DomainInv, DomainTypeOK
  <2> QED
    BY ONLY <2>1, <2>2, <2>3
<1> QED
    BY <1>1, <1>2 DEF DomainInv, NeverBack, domainThread

LEMMA NeverBackStep ==
    ASSUME DomainInv, [DomainNext]_domainVars, DomainTypeOK'
    PROVE  NeverBack'
<1>1. CASE PatchTopology \/ CreateTopology \/ PatchAgain \/ DomainCallFails
  <2>1. spec \in ValidGens /\ at # "idle" /\ domain' = domain /\ gen' = gen /\ spec <= gen
    BY <1>1, HandlerPuts
    DEF PatchTopology, CreateTopology, PatchAgain, DomainCallFails, DomainInv, HandledInv
  <2>2. CASE file' = file
    <3>1. at' = "idle" \/ spec' = spec
      BY <1>1, <2>1
      DEF PatchTopology, CreateTopology, PatchAgain, DomainCallFails, DomainDone, DomainRetried
    <3> QED
      BY <2>1, <2>2, <3>1 DEF DomainInv, NeverBack, Owned
  <2>3. CASE file' # file
    <3>1. file' # NoFile /\ file'.topology = spec
      BY <1>1, <2>1, <2>3, HandlerPuts, PutIsSpec DEF DomainInv
    <3>2. at' = "idle"
      BY <1>1, <2>3
      DEF PatchTopology, CreateTopology, PatchAgain, DomainCallFails, DomainDone, DomainRetried
    <3> QED
      BY <2>1, <3>1, <3>2 DEF NeverBack
  <2> QED
    BY <2>2, <2>3
<1>2. CASE OnDomainChange
    BY <1>2, DomainParameters
    DEF OnDomainChange, DomainInv, DomainTypeOK, DomainParameters, HandledInv, NeverBack,
        Owned, Gen, domainThread
<1>3. CASE DomainApplied
  <2>1. gen' \in Nat /\ gen <= gen' /\ file' = file /\ UNCHANGED domainThread /\ Owned'
    BY <1>3, DomainParameters
    DEF DomainApplied, DomainInv, DomainTypeOK, DomainParameters, Gen, Owned
  <2> QED
    BY <2>1, NeverBackAside
<1>4. ASSUME gen' = gen
      PROVE  gen' \in Nat /\ gen <= gen'
    BY <1>4, DomainParameters DEF DomainInv, DomainTypeOK, DomainParameters, Gen
<1>5. CASE DomainDeleted \/ DomainReleased \/ OnDomainDelete \/ DeleteFails
  <2>1. gen' = gen /\ UNCHANGED domainThread /\ (file' = file \/ file' = NoFile)
    BY <1>5 DEF DomainDeleted, DomainReleased, OnDomainDelete, DeleteFails
  <2>2. at' = "idle" \/ Owned'
    BY <1>5 DEF DomainDeleted, DomainReleased, OnDomainDelete, DeleteFails, DomainInv,
                NeverBack, Owned, domainThread
  <2> QED
    BY <1>4, <2>1, <2>2, NeverBackAside
<1>6. CASE OtherKey
  <2>1. \/ file' = [topology |-> 0, params |-> 0, other |-> TRUE]
        \/ file # NoFile /\ file' = [file EXCEPT !.other = TRUE]
    BY <1>6 DEF OtherKey
  <2>2. file # NoFile => [file EXCEPT !.other = TRUE].topology = file.topology
    BY DEF DomainInv, DomainTypeOK, Files
  <2>3. gen' = gen /\ UNCHANGED <<domain, domainThread>>
    BY <1>6 DEF OtherKey
  <2>4. at' = "idle" \/ Owned'
    BY <2>3 DEF DomainInv, NeverBack, Owned, domainThread
  <2>5. file' # NoFile => \/ file # NoFile /\ file'.topology = file.topology
                          \/ file'.topology = 0
    <3>1. CASE file # NoFile /\ file' = [file EXCEPT !.other = TRUE]
      BY ONLY <2>2, <3>1
    <3>2. CASE file' = [topology |-> 0, params |-> 0, other |-> TRUE]
      BY ONLY <3>2
    <3> QED
      BY <2>1, <3>1, <3>2
  <2> QED
    BY <1>4, <2>3, <2>4, <2>5, NeverBackAside
<1>7. CASE WriteParams \/ WriteLate \/ PolicyCallFails
  <2>1. gen' = gen /\ UNCHANGED <<domain, domainThread>>
    BY <1>7 DEF WriteParams, WriteLate, PolicyCallFails
  <2>2. at' = "idle" \/ Owned'
    BY <2>1 DEF DomainInv, NeverBack, Owned, domainThread
  <2>3. file' # NoFile => file # NoFile /\ file'.topology = file.topology
    BY <1>7, ParamsAside DEF DomainInv
  <2> QED
    BY <1>4, <2>1, <2>2, <2>3, NeverBackAside
<1>8. CASE PolicyApplied \/ PolicyRemoved \/ OnPolicyChange \/ Annotate \/ LateCallFails
           \/ OperatorRestarts \/ ControllerStarts \/ UNCHANGED domainVars
  <2>1. /\ gen' = gen /\ file' = file /\ domain' = domain
        /\ at' = "idle" \/ UNCHANGED domainThread
    BY <1>8 DEF PolicyApplied, PolicyRemoved, OnPolicyChange, Annotate, LateCallFails,
                OperatorRestarts, ControllerStarts, domainVars, domainThread
  <2>2. at' = "idle" \/ Owned'
    BY <2>1 DEF DomainInv, NeverBack, Owned, domainThread
  <2> QED
    BY <1>4, <2>1, <2>2, NeverBackAside
<1> QED
    BY <1>1, <1>2, <1>3, <1>5, <1>6, <1>7, <1>8
    DEF DomainNext, Users, DomainHandler, PolicyHandler

\* Every step is one of DomainStore, or changes nothing it shows.
LEMMA StoreStep ==
    ASSUME DomainInv, [DomainNext]_domainVars
    PROVE  [Store!Next]_<<Owned, file>>
<1>1. CASE PatchTopology \/ CreateTopology \/ PatchAgain \/ DomainCallFails
  <2>1. domain' = domain
    BY <1>1 DEF PatchTopology, CreateTopology, PatchAgain, DomainCallFails
  <2> QED
    BY <1>1, <2>1, HandlerPuts DEF Store!Next, Owned
<1>2. CASE OnDomainDelete \/ DeleteFails
  <2>1. Store!Drop
    BY <1>2 DEF OnDomainDelete, DeleteFails, Store!Drop
  <2> QED
    BY <2>1 DEF Store!Next
<1>3. CASE OtherKey
  <2>1. Store!PutOther
    BY <1>3 DEF OtherKey, Store!PutOther
  <2> QED
    BY <2>1 DEF Store!Next
<1>4. CASE WriteParams \/ WriteLate \/ PolicyCallFails
  <2>1. domain' = domain
    BY <1>4 DEF WriteParams, WriteLate, PolicyCallFails
  <2>2. file' = file \/ \E p \in Gen : Store!PutParams(p)
    BY <1>4, <2>1, ParamsAside DEF DomainInv, Store!PutParams
  <2> QED
    BY <2>1, <2>2 DEF Store!Next, Owned
<1>5. CASE DomainApplied
  <2>1. CASE domain = "live"
    BY <1>5, <2>1 DEF DomainApplied, Owned
  <2>2. CASE domain = "absent"
    <3>1. Store!Own
      BY <1>5, <2>2 DEF DomainApplied, Store!Own
    <3> QED
      BY <3>1 DEF Store!Next
  <2> QED
    BY <1>5, <2>1, <2>2 DEF DomainApplied
<1>6. CASE DomainDeleted \/ DomainReleased
    BY <1>6 DEF DomainDeleted, DomainReleased, Owned
<1>7. CASE PolicyApplied \/ PolicyRemoved \/ OnPolicyChange \/ Annotate \/ LateCallFails
           \/ OperatorRestarts \/ ControllerStarts \/ OnDomainChange
           \/ UNCHANGED domainVars
    BY <1>7 DEF PolicyApplied, PolicyRemoved, OnPolicyChange, Annotate, LateCallFails,
                OperatorRestarts, ControllerStarts, OnDomainChange, domainVars, Owned
<1> QED
    BY <1>1, <1>2, <1>3, <1>4, <1>5, <1>6, <1>7
    DEF DomainNext, Users, DomainHandler, PolicyHandler

THEOREM DomainInvariant == DomainSpec => []DomainInv
<1>1. DomainInit => NeverBack
    BY DEF DomainInit, NeverBack
<1>2. DomainInv /\ [DomainNext]_domainVars /\ DomainTypeOK' => NeverBack'
    BY NeverBackStep
<1>3. DomainTypeOK /\ HandledInv /\ [DomainNext]_domainVars => HandledInv'
    BY HandledByHandler, HandledByOthers
<1>4. DomainInv <=> DomainTypeOK /\ HandledInv /\ NeverBack
    BY DEF DomainInv
<1> QED
    BY <1>1, <1>2, <1>3, <1>4, HandledInit, DomainSafe, PTL DEF DomainSpec

\* StoreSpec: whatever fails or restarts, and in whichever order the handlers of a
\* PowerDomain and of PowerPolicies run, one removed beneath its handler included, a
\* key is lost only with the whole map (handlers.py:474), and the topology never goes
\* back to that of an older spec.
THEOREM DomainImplementsStore == DomainSpec => StoreSpec
<1>1. DomainInit => Store!Init
    BY DEF DomainInit, Store!Init
<1>2. DomainInv /\ [DomainNext]_domainVars => [Store!Next]_<<Owned, file>>
    BY StoreStep
<1> QED
    BY <1>1, <1>2, DomainInvariant, PTL DEF DomainSpec, StoreSpec, Store!Spec, Owned

\* What DomainStore promises of a domain that is gone: a controller that starts finds
\* no topology, whoever has the ConfigMap now (handlers.py:145).
THEOREM DomainLeavesNothing == DomainSpec => []Store!NothingLeft
<1>1. Store!Init => Store!NothingLeft
    BY DEF Store!Init, Store!NothingLeft
<1>2. DomainTypeOK /\ Store!NothingLeft /\ [Store!Next]_<<Owned, file>> => Store!NothingLeft'
  <2> SUFFICES ASSUME DomainTypeOK, Store!NothingLeft, [Store!Next]_<<Owned, file>>
               PROVE  Store!NothingLeft'
      OBVIOUS
  <2>1. ASSUME NEW f \in Files
        PROVE  /\ \A p \in Gen : [f EXCEPT !.params = p].topology = f.topology
               /\ [f EXCEPT !.other = TRUE].topology = f.topology
    BY DEF Files
  <2>2. file = NoFile \/ file \in Files
    BY DEF DomainTypeOK
  <2>3. CASE UNCHANGED <<Owned, file>> \/ Store!Own \/ Store!Drop
    BY <2>3 DEF Store!NothingLeft, Store!Own, Store!Drop, Owned
  <2>4. CASE Store!PutOther
    <3>1. CASE file = NoFile /\ file' = [topology |-> 0, params |-> 0, other |-> TRUE]
      BY <3>1 DEF Store!NothingLeft
    <3>2. CASE file # NoFile /\ file' = [file EXCEPT !.other = TRUE]
      BY <2>1, <2>2, <2>4, <3>2 DEF Store!NothingLeft, Store!PutOther
    <3> QED
      BY <2>4, <3>1, <3>2 DEF Store!PutOther
  <2>5. CASE \E t \in ValidGens : Store!PutTopology(t)
    BY <2>5 DEF Store!NothingLeft, Store!PutTopology
  <2>6. CASE \E p \in Gen : Store!PutParams(p)
    BY <2>1, <2>2, <2>6 DEF Store!NothingLeft, Store!PutParams
  <2> QED
    BY <2>3, <2>4, <2>5, <2>6 DEF Store!Next
<1>3. Store!Spec <=> Store!Init /\ [][Store!Next]_<<Owned, file>>
    BY DEF Store!Spec, Owned
<1> QED
    BY <1>1, <1>2, <1>3, DomainSafe, DomainImplementsStore, PTL DEF StoreSpec
---------------------------------------------------------------------------
(***************************************************************************)
(* The composition.                                                        *)
(***************************************************************************)
LEMMA BudgetIsDomain == BudgetSpec => DomainSpec
<1>1. BudgetInit => DomainInit
    BY DEF BudgetInit
<1>2. [BudgetNext]_budgetVars => [DomainNext]_domainVars
    BY DEF BudgetNext, budgetVars
<1> QED
    BY <1>1, <1>2, PTL DEF BudgetSpec, DomainSpec

\* DomainTypeOK: whether the budget of a controller comes from the operator or from
\* a coordinator, it never starts with a topology that was refused.
THEOREM BudgetDomainSafe == BudgetSpec => []DomainTypeOK
    BY BudgetIsDomain, DomainSafe, PTL

\* HandledIsThere, in the composition.
THEOREM BudgetHandledIsThere == BudgetSpec => []HandledIsThere
    BY BudgetIsDomain, DomainHandledIsThere, PTL

\* StoreSpec, in the composition.
THEOREM BudgetImplementsStore == BudgetSpec => StoreSpec
    BY BudgetIsDomain, DomainImplementsStore, PTL

LEMMA BudgetIsCluster == BudgetSpec => ClusterSpec
<1>1. BudgetInit => ClusterInit
    BY DEF BudgetInit
<1>2. [BudgetNext]_budgetVars => [ClusterNext]_clusterVars
    BY DEF BudgetNext, budgetVars
<1> QED
    BY <1>1, <1>2, PTL DEF BudgetSpec, ClusterSpec

\* RoundFits, in the composition.
THEOREM BudgetRoundFits == BudgetSpec => []RoundFits
    BY BudgetIsCluster, ClusterRoundFits, PTL

\* RackFits, in the composition.
THEOREM BudgetRackFits == BudgetSpec => []RackFits
    BY BudgetIsCluster, ClusterRackFits, PTL
==============================================================================
