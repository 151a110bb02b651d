------------------------------ MODULE MCPayout -------------------------------
(* Two agents and two months.  The pools are 3 sats and 1, the minimum is 2, *)
(* so one login of two is below it and is carried forward, and two logins    *)
(* of two agents do not share the pool evenly.                               *)
EXTENDS PayoutAllocator, TLC

CONSTANTS a1, a2, m1, m2

TwoAgents == {a1, a2}
TwoMonths == {m1, m2}
MCRevenue == (m1 :> 20) @@ (m2 :> 7)
DryAndReal == {TRUE, FALSE}
Dry == {TRUE}
AgentSymmetry == Permutations(TwoAgents)
=============================================================================
