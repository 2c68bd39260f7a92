------------------------ MODULE PrioritySource_proofs ------------------------
(***************************************************************************)
(* Proofs about PrioritySource, for any number of policies, pods, GPUs and *)
(* restarts: what a poll skips is what the brain has, and the tiers change *)
(* only to those of the registry in force.                                 *)
(***************************************************************************)
EXTENDS PrioritySource, BoostRegistry_proofs

\* The invariant of the operator survives the removal of the ConfigMap and the
\* restarts of the controller.
LEMMA FollowRegistry ==
    ASSUME IInv, [FollowNext]_followVars
    PROVE  IInv'
<1> USE RegistryParameters, NoneIsNone DEF RegistryParameters, NoneIsNone
<1>1. CASE RegistryStep
    BY <1>1, Inductive DEF RegistryStep
<1>2. CASE UNCHANGED vars
    BY <1>2, Inductive
<1>3. CASE ControllerRestarts
  <2>1. TypeOK'
    BY <1>3 DEF ControllerRestarts, Disturbed, IInv, TypeOK, policies, threads
  <2>2. JobAtHand' /\ SeenIsCurrent' /\ Aggregated'
    BY <1>3 DEF ControllerRestarts, IInv, JobAtHand, SeenIsCurrent, Aggregated,
                policies, threads, Conflict, VersionOf, Resolved, Assigned
  <2> QED
    BY <2>1, <2>2 DEF IInv
<1>4. CASE MapRemoved
  <2>1. TypeOK'
    BY <1>4 DEF MapRemoved, Disturbed, IInv, TypeOK, policies, threads
  <2>2. JobAtHand' /\ Aggregated'
    BY <1>4 DEF MapRemoved, IInv, JobAtHand, Aggregated, threads
  <2>3. SeenIsCurrent'
    BY <1>4, <2>1 DEF MapRemoved, SeenIsCurrent, Conflict, VersionOf, TypeOK, Maps
  <2> QED
    BY <2>1, <2>2, <2>3 DEF IInv
<1> QED
    BY <1>1, <1>2, <1>3, <1>4
    DEF FollowNext, PollReads, PollMissing, PollFails, followVars

LEMMA FollowInvariant == FollowSpec => []IInv
<1>1. FollowInit => IInv
    BY InitIInv DEF FollowInit
<1>2. IInv /\ [FollowNext]_followVars => IInv'
    BY FollowRegistry
<1> QED
    BY <1>1, <1>2, PTL DEF FollowSpec

LEMMA SkipInit == FollowInit => SkipIsSafe
    BY DEF FollowInit, SkipIsSafe

\* A step of the operator that writes the ConfigMap ends what is known of it; one
\* that does not leaves the ConfigMap and the tiers as they are.
LEMMA SkipStep == SkipIsSafe /\ [FollowNext]_followVars => SkipIsSafe'
<1> SUFFICES ASSUME SkipIsSafe, [FollowNext]_followVars PROVE SkipIsSafe'
    OBVIOUS
<1> USE DEF SkipIsSafe, WellFormed, Merged, Claims
<1>1. CASE RegistryStep
    BY <1>1 DEF RegistryStep
<1>2. CASE PollReads
    BY <1>2 DEF PollReads, vars
<1>3. CASE PollMissing
    BY <1>3 DEF PollMissing
<1>4. CASE ControllerRestarts
    BY <1>4 DEF ControllerRestarts
<1>5. CASE MapRemoved
    BY <1>5 DEF MapRemoved
<1>6. CASE PollFails \/ UNCHANGED followVars
    BY <1>6 DEF PollFails, followVars, vars
<1> QED
    BY <1>1, <1>2, <1>3, <1>4, <1>5, <1>6 DEF FollowNext

\* SkipIsSafe: whatever was written, lost or refused since the last poll that was
\* read, the version check of priority_config.py:106 skips nothing that is new.
THEOREM FollowSkipIsSafe == FollowSpec => []SkipIsSafe
    BY SkipInit, SkipStep, PTL DEF FollowSpec

\* TiersHold: a poll that fails, or reads a payload that is not valid, leaves the
\* tiers of the last good one (priority_config.py:73); what it takes is valid and
\* whole, and no step of the operator or of a user reaches the brain without a poll.
THEOREM FollowTiersHold == FollowSpec => TiersHold
<1>1. ASSUME IInv, [FollowNext]_followVars
      PROVE  [\/ tiers' = tiers
              \/ cm # NoMap /\ WellFormed(cm.resolved) /\ tiers' = Merged(cm.resolved)
              \/ cm = NoMap /\ tiers' = Baseline
              \/ ControllerRestarts]_followVars
  <2>1. CASE RegistryStep
    BY <2>1 DEF RegistryStep
  <2>2. CASE PollReads \/ PollMissing
    BY <2>2 DEF PollReads, PollMissing
  <2>3. CASE ControllerRestarts
    BY <2>3
  <2>4. CASE MapRemoved
    BY <2>4 DEF MapRemoved
  <2>5. CASE PollFails \/ UNCHANGED followVars
    BY <2>5 DEF PollFails, followVars
  <2> QED
    BY <1>1, <2>1, <2>2, <2>3, <2>4, <2>5 DEF FollowNext
<1> QED
    BY <1>1, FollowInvariant, PTL DEF FollowSpec, TiersHold
==============================================================================
