--------------------------- MODULE MCControlLoop ---------------------------
(***************************************************************************)
(* Values for TLC, in units of 100 W: a threshold of 900 W, an emergency   *)
(* cap of 600 W, brain decisions below it and above the threshold.         *)
(***************************************************************************)
EXTENDS ControlLoop

MCTwoDomains == [g \in GPU |-> g + 1]
MCOneDomain == [g \in GPU |-> 1]
\* The last GPU is in no managed domain.
MCUnmanaged == [g \in GPU |-> IF g = GPUCount - 1 THEN 0 ELSE 1]
MCBrainCaps == {3, 10}
\* A brain that always gives the hardware maximum: every push undoes a trip.
MCGenerousBrain == {10}
MCBootCaps == {10}
MCDraws == {1, 10}
\* Every GPU is fully loaded; a read of it may still fail and report 0 W.
MCSaturated == {10}
============================================================================
