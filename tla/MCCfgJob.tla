------------------------------- MODULE MCCfgJob ------------------------------
(* A deploy that may go wrong in every way, and then one that sweeps what it *)
(* left behind, or a rollout over two routers.                               *)
EXTENDS CfgJob
CONSTANTS r1, r2
Plan(k, s) == [kind |-> k, order |-> s]
MCPlans ==
    <<{Plan("lock", <<r1>>), Plan("reset", <<r1>>)},
      {Plan("lock", <<r1>>), Plan("additions", <<r1, r2>>)}>>
=============================================================================
