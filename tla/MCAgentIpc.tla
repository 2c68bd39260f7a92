----------------------------- MODULE MCAgentIpc -----------------------------
(***************************************************************************)
(* Values for TLC, in units of 100 W.                                      *)
(***************************************************************************)
EXTENDS AgentIpc

\* The first GPU alone in the first domain.
MCDomainOf == [g \in GPU |-> IF g = 0 THEN 1 ELSE DomainCount]
MCBrainCaps == {3, 10}
MCBootCaps == {10}
============================================================================
