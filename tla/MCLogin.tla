------------------------------- MODULE MCLogin -------------------------------
(* Two clients, one with two trees, and two root hashes for all of them. *)
EXTENDS LoginVerify, TLC

CONSTANTS t1, t2, a1, acme, beta, acme1, acme2, beta1, r1, r2

TwoThreads == {t1, t2}
OneThread == {t1}
OneAgent == {a1}
TwoClients == {acme, beta}
ThreeTrees == {acme1, acme2, beta1}
TwoRoots == {r1, r2}
MCOwnerOf == (acme1 :> acme) @@ (acme2 :> acme) @@ (beta1 :> beta)
RootSymmetry == Permutations(TwoRoots)
=============================================================================
