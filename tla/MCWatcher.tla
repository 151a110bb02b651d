------------------------------ MODULE MCWatcher ------------------------------
(* One client with an email and one without, two authorizations for this *)
(* agent at the first and one for another agent.                         *)
EXTENDS AgentWatcher, TLC

CONSTANTS acme, beta, a1, a2, b1

TwoClients == {acme, beta}
OnlyAcme == {acme}
ThreeAuths == {a1, a2, b1}
TwoAgents == {"me", "other"}
MCMe == "me"
MCClientOf == [a \in Auth |-> acme]
MCAgentOf == [a \in Auth |-> IF a = b1 THEN "other" ELSE "me"]
=============================================================================
