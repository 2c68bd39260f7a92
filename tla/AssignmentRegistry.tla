------------------------- MODULE AssignmentRegistry -------------------------
(***************************************************************************)
(* What the boost registry promises its reader, the node controller: at    *)
(* any moment one entry at most per policy, the resolved assignments of    *)
(* exactly these entries, and no update that touches two policies.         *)
(***************************************************************************)
CONSTANTS
    Policy,        \* names of JobPowerPolicies
    Entry,         \* what may be published for one
    NoEntry,       \* nothing is
    Assigned(_, _) \* the assignments an entry makes, given its policy

VARIABLES
    entries,       \* the entry of each policy
    resolved       \* resolved-assignments.json

Resolved(published) ==
    UNION {Assigned(p, published[p]) : p \in {q \in Policy : published[q] # NoEntry}}

Init ==
    /\ entries = [p \in Policy |-> NoEntry]
    /\ resolved = {}

\* Publish the entry of one policy, or remove it.
Publish(p, e) ==
    /\ entries' = [entries EXCEPT ![p] = e]
    /\ resolved' = Resolved(entries')

Next == \E p \in Policy, e \in Entry \cup {NoEntry} : Publish(p, e)

Spec == Init /\ [][Next]_<<entries, resolved>>
=============================================================================
