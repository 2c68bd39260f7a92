----------------------------- MODULE MCNodeBudget -----------------------------
(***************************************************************************)
(* Values for TLC.  Two nodes with a Redis store that come, go and change  *)
(* their loads; four with a store in the process and one that takes all it *)
(* can get, above the ceiling; and one node of two domains on a rack.      *)
(***************************************************************************)
EXTENDS NodeBudget

MCNodeOf == [a |-> 1, b |-> 2, c |-> 3, d |-> 4, r |-> 5, s |-> 5]
MCBudgetW == [a |-> 14, b |-> 14, c |-> 14, d |-> 14, r |-> 20, s |-> 10]
MCOverheadW == [a |-> 1, b |-> 1, c |-> 1, d |-> 1, r |-> 1, s |-> 1]
MCRackOf == [a |-> NoRack, b |-> NoRack, c |-> NoRack, d |-> NoRack,
             r |-> "rack", s |-> "rack"]
MCRackW == [rack |-> 15]
NoDraws == [d \in {} |-> {}]
MCDeployments ==
    {[store |-> "none", published |-> FALSE, draws |-> NoDraws],
     [store |-> "redis", published |-> FALSE,
      draws |-> [a |-> {0, 1, 2}, b |-> {0, 1, 2}]],
     [store |-> "memory", published |-> TRUE,
      draws |-> [a |-> {0, 4}, b |-> {0}, c |-> {0}, d |-> {0}]],
     [store |-> "memory", published |-> FALSE,
      draws |-> [r |-> {1}, s |-> {1}]]}
===============================================================================
