--------------------------- MODULE MCBrainLoopBoth ---------------------------
(***************************************************************************)
(* Two instances in one run: every brain under any load, for what holds of *)
(* each tick, and the steady loop of PRS and cvxpy, for what it comes to.  *)
(***************************************************************************)
EXTENDS MCBrainLoop

VARIABLE steady     \* which of the two a behaviour is of

Steady == INSTANCE BrainLoop WITH Configs <- MCPRSAndLP, SolverFails <- FALSE

bothVars == <<vars, steady>>

BothInit ==
    \/ steady = FALSE /\ Init
    \/ steady = TRUE /\ Steady!Init

BothNext ==
    \/ ~steady /\ Next /\ UNCHANGED steady
    \/ steady /\ Steady!SteadyTick /\ UNCHANGED steady

BothSpec ==
    /\ BothInit /\ [][BothNext]_bothVars
    /\ WF_bothVars(steady /\ Steady!SteadyTick /\ UNCHANGED steady)

\* IdleReclaimed, of the steady loop: the watts of an idle GPU are reclaimed for
\* good (prs.py:6).
SteadyIdleReclaimed == steady => IdleReclaimed

\* BusyServed, of the steady loop: they reach the one GPU that is busy (prs.py:7).
SteadyBusyServed == steady => BusyServed

\* LPEndsAtFloor, of the steady loop: cvxpy leaves every GPU at the floor
\* (cvxpy_brain.py:93).
SteadyLPEndsAtFloor == steady => LPEndsAtFloor
==============================================================================
