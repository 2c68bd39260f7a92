--------------------------- MODULE MCBoostRegistry ---------------------------
(***************************************************************************)
(* Values for TLC.  There is one resource version more than threads, so    *)
(* that a new one can always be given.                                     *)
(***************************************************************************)
EXTENDS BoostRegistry, FiniteSets

MCSelects == [p \in Policy |-> Pod]
MCRV == 0 .. Cardinality(Worker)
MCTimed == {}
==============================================================================
