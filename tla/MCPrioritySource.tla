--------------------------- MODULE MCPrioritySource ---------------------------
(***************************************************************************)
(* Values for TLC: a pod with GPU 0 of the node, policies that go from     *)
(* "critical" to "low", or to a priorityClass the controller does not know.*)
(***************************************************************************)
EXTENDS PrioritySource, FiniteSets

MCSelects == [p \in Policy |-> Pod]
MCRV == 0 .. Cardinality(Worker)
MCAllTimed == Policy
MCGpusOf == [x \in Pod |-> {0}]
MCTierOf == [p \in Policy |-> <<"critical", "unknown">>]
MCBaseline == [g \in Gpu |-> "normal"]
==============================================================================
