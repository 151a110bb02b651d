--------------------------- MODULE MCProofServer ----------------------------
(* Five bodies: two that are solved, one the generator refuses, one that is *)
(* no JSON and the empty one.  Two circuits: one that is loaded and one     *)
(* with a generator of another prime, which ends the process as one that is *)
(* not loaded does.                                                         *)
EXTENDS ProofServer

CONSTANTS good, better, refused, garbage, ours, foreign, t1, t2

MCInput == {good, better, refused, garbage}
MCParses == {good, better, refused}
MCSolves == {good, better}
MCCircuit == {ours, foreign}
MCForeign == {foreign}
MCWorker == {t1, t2}
=============================================================================
