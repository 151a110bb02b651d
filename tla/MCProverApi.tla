---------------------------- MODULE MCProverApi -----------------------------
(* Two threads, two descriptors: enough for a number to be given out again   *)
(* between its two closings.  Keys with three and with no public signals, an *)
(* empty file and a file that is no key; two witnesses of a key whose values *)
(* are of different lengths, and one that is no witness and has another      *)
(* number of values.                                                         *)
EXTENDS ProverApi, TLC

CONSTANTS t1, t2, h1

MCThread == {t1, t2}
MCDescriptor == {3, 4}
MCRegion == {1, 2}
MCHandle == {h1}
MCZkey == {[exists |-> TRUE, empty |-> FALSE, sound |-> TRUE, nVars |-> 4, nPublic |-> 3],
           [exists |-> TRUE, empty |-> FALSE, sound |-> TRUE, nVars |-> 4, nPublic |-> 0],
           [exists |-> TRUE, empty |-> TRUE, sound |-> FALSE, nVars |-> 0, nPublic |-> 0],
           [exists |-> TRUE, empty |-> FALSE, sound |-> FALSE, nVars |-> 0, nPublic |-> 0]}
MCWitness == {[sound |-> TRUE, nVars |-> 4, digits |-> 77],
              [sound |-> TRUE, nVars |-> 4, digits |-> 1],
              [sound |-> FALSE, nVars |-> 3, digits |-> 1]}
MCDigits == {76, 77}
Symmetric == Permutations(MCThread)
=============================================================================
