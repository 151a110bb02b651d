------------------------------- MODULE MCEnroll -------------------------------
(* Small enrollment instances for TLC: two clients, of which one has a name  *)
(* the other's name and a purpose can spell; up to three authorizations, two *)
(* of them with such a tree; three commitments, two of which spell one leaf. *)
EXTENDS EnrollCommit, TLC

CONSTANTS t1, t2, e1, e2, e3, d1, d2, c1, c1x, c2, x1, x2

OneThread == {t1}
TwoThreads == {t1, t2}
OneEvent == {e1}
ThreeEvents == {e1, e2, e3}
TwoDelegations == {d1, d2}
ThreeCommitments == {c1, c1x, c2}
TwoLeaves == {x1, x2}
TwoClients == {<<"acme">>, <<"acme", "x">>}
TwoPurposes == {<<"allowlist">>, <<"x", "allowlist">>}

(* d1 delegates to the agent of e1 and e3, d2 to the agent of e2. *)
MCAuthAgent == (e1 :> "agent1") @@ (e2 :> "agent2") @@ (e3 :> "agent1")
MCDelegAgent == (d1 :> "agent1") @@ (d2 :> "agent2")

(* e1 and e3 spell acme-x-allowlist, e2 spells acme-allowlist. *)
MCClientOf == [e \in Event |-> IF e = e3 THEN <<"acme", "x">> ELSE <<"acme">>]
MCPurposeOf == [e \in Event |-> IF e = e1 THEN <<"x", "allowlist">> ELSE <<"allowlist">>]
MCStrip == (c1 :> x1) @@ (c1x :> x1) @@ (c2 :> x2)

ThreadSymmetry == Permutations(TwoThreads)
=============================================================================
