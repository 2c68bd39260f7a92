---------------------------- MODULE MCBrainLoop ----------------------------
(***************************************************************************)
(* Values for TLC.  One unit is 10 W: a floor of 200 W, GPUs of up to      *)
(* 1000 W, a 50 W idle draw, the default threshold, margin, boost and      *)
(* derate.  Alpha is 1/2, so that the averages lag but stay few, or 1 where *)
(* the wrapper and not the average is in question.                         *)
(***************************************************************************)
EXTENDS BrainLoop

Config(b, alpha, rate) ==
    [name |-> b, alpha |-> alpha, rate |-> rate, quota |-> <<>>]

\* One tenant of all GPUs, whose slice holds little more than their floors, or less
\* than these; and one tenant beside GPUs of no tenant.
First == CHOOSE g \in GPU : TRUE
Tenant(gpus, pct) == [gpus |-> gpus, pct |-> pct]
MCShared == [a |-> Tenant(GPU, 50)]
MCTight == [a |-> Tenant(GPU, 30)]
MCPartly == [a |-> Tenant({First}, 40)]
Quotas == {[Config("quota-prs", <<1, 2>>, 15) EXCEPT !.quota = q] :
               q \in {MCShared, MCTight, MCPartly}}
MCEveryBrain ==
    { Config("dpm", <<1, 1>>, 0), Config("prs", <<1, 2>>, 0),
      Config("prs", <<1, 2>>, 15), Config("job-prs", <<1, 1>>, 0),
      Config("priority-prs", <<1, 1>>, 0), Config("thermal-prs", <<1, 1>>, 0),
      Config("cvxpy", <<1, 1>>, 0) }
        \cup Quotas
MCQuotaPRS == Quotas
MCPRSAndLP == {Config("prs", <<1, 2>>, 0), Config("prs", <<1, 2>>, 15),
               Config("cvxpy", <<1, 2>>, 0)}
MCPRS == {Config("prs", <<1, 2>>, 0)}
MCJobPRS == {Config("job-prs", <<1, 2>>, 0)}

MCHotRatio == <<6, 10>>
MCMargin == <<3, 10>>
MCBoost == <<15, 100>>
MCDerate == <<15, 100>>

MCUtils == {5, 50, 100}
MCTwoUtils == {5, 100}
============================================================================
