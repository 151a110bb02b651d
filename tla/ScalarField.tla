----------------------------- MODULE ScalarField ----------------------------
(***************************************************************************)
(* The numbers modulo the order of the curve's groups, as class RawFr      *)
(* (native/rapidsnark/build/fr.hpp, fr.cpp, fr_raw_generic.cpp) computes   *)
(* with them for native/rapidsnark/src/groth16.cpp: an element is kept in  *)
(* Montgomery form, times Radix, and a product of two elements is divided  *)
(* by Radix again.                                                         *)
(***************************************************************************)
EXTENDS Integers

CONSTANTS Order, Radix

Scalars == 0 .. Order - 1

ScalarInverse(x) == CHOOSE y \in Scalars : (x * y) % Order = 1
Mont(x, y) == (((x * y) % Order) * ScalarInverse(Radix)) % Order
FromMontgomery(x) == Mont(x, 1)
ToMontgomery(x) == (x * Radix) % Order

Power(x, e) == LET f[n \in 0 .. e] == IF n = 0 THEN 1 ELSE (x * f[n - 1]) % Order IN f[e]
=============================================================================
