------------------------------ MODULE MCMerkle -------------------------------
(* Eight slots and three leaves, two of which begin with the same digits. *)
EXTENDS MerkleTree, TLC

CONSTANTS x1, x2, x3, h1, h2

ThreeLeaves == {x1, x2, x3}
MCShort == (x1 :> h1) @@ (x2 :> h1) @@ (x3 :> h2)
=============================================================================
