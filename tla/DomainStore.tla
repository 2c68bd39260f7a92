------------------------------ MODULE DomainStore ------------------------------
(***************************************************************************)
(* What the ConfigMap of a domain promises its reader, the controller that *)
(* mounts it: three keys, none of which is lost to a write of another, a   *)
(* topology that never goes back to an older one, and none at all once the *)
(* domain is gone.  Of the parameters no order is promised: nothing holds  *)
(* a PowerPolicy until its handler is done.                                *)
(***************************************************************************)
EXTENDS Integers

CONSTANTS
    Topology,      \* specs of the PowerDomain that make a topology
    Params,        \* specs of the PowerPolicy
    NoStore        \* there is no ConfigMap

VARIABLES
    owned,         \* is there a PowerDomain, one being deleted included?
    store          \* the keys of the ConfigMap, 0 for one that is not there

Init == owned = FALSE /\ store = NoStore

Own ==
    /\ ~owned
    /\ owned' = TRUE
    /\ UNCHANGED store

\* Only the handler of the domain makes the map, but for users.
PutTopology(t) ==
    /\ owned
    /\ \/ /\ store = NoStore
          /\ store' = [topology |-> t, params |-> 0, other |-> FALSE]
       \/ /\ store # NoStore /\ store.topology <= t
          /\ store' = [store EXCEPT !.topology = t]
    /\ UNCHANGED owned

PutParams(p) ==
    /\ store # NoStore
    /\ store' = [store EXCEPT !.params = p]
    /\ UNCHANGED owned

PutOther ==
    /\ \/ /\ store = NoStore
          /\ store' = [topology |-> 0, params |-> 0, other |-> TRUE]
       \/ store # NoStore /\ store' = [store EXCEPT !.other = TRUE]
    /\ UNCHANGED owned

\* The domain goes with the map, or is still to go.
Drop ==
    /\ owned
    /\ store' = NoStore
    /\ owned' \in BOOLEAN

Next ==
    \/ Own \/ PutOther \/ Drop
    \/ \E t \in Topology : PutTopology(t)
    \/ \E p \in Params : PutParams(p)

Spec == Init /\ [][Next]_<<owned, store>>
---------------------------------------------------------------------------
\* A controller that starts where the PowerDomain is gone finds no topology.
NothingLeft == ~owned => store = NoStore \/ store.topology = 0
===============================================================================
