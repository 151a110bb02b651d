------------------------------- MODULE Pairing ------------------------------
(***************************************************************************)
(* The arithmetic of the verifier's pairing                                 *)
(* (native/rapidsnark/src/groth16.cpp:359-731) on a Barreto-Naehrig curve   *)
(* over the field of FieldPrime elements, and on its twist.                 *)
(*                                                                          *)
(* F1 is class RawFq (native/rapidsnark/build/fq.hpp).  The towers above it *)
(* are the library's, whose repository is a submodule:                      *)
(* F2 is F1[i] with i^2 = -1, F6 is F2[tau] with tau^3 = Xi, F12 is         *)
(* F6[omega] with omega^2 = tau.  An element of F2 is <<a, b>> for a + b i, *)
(* one of F6 is <<x, y, z>> for x tau^2 + y tau + z, one of F12 is <<x, y>> *)
(* for x omega + y.  The code's elements are in Montgomery form, which no   *)
(* operation here can tell from the number itself.                          *)
(*                                                                          *)
(* The operations of the fields are functions, not operators: the           *)
(* application of a function evaluates its arguments once.                  *)
(***************************************************************************)
EXTENDS Integers, Sequences

CONSTANTS
  FieldPrime,   \* q of the curve, 3 modulo 4
  U,            \* the parameter of the curve
  Xi            \* the element of F2 the towers are built with

F1 == 0 .. FieldPrime - 1
F2 == F1 \X F1
F6 == F2 \X F2 \X F2
F12 == F6 \X F6

Pow1[a \in F1, e \in Nat] ==
  IF e = 0 THEN 1
  ELSE (Pow1[(a * a) % FieldPrime, e \div 2] * (IF e % 2 = 1 THEN a ELSE 1)) % FieldPrime
Inv1[a \in F1] == Pow1[a, FieldPrime - 2]

-----------------------------------------------------------------------------
Zero2 == <<0, 0>>
One2 == <<1, 0>>
Add2[a \in F2, b \in F2] == <<(a[1] + b[1]) % FieldPrime, (a[2] + b[2]) % FieldPrime>>
Sub2[a \in F2, b \in F2] == <<(a[1] - b[1]) % FieldPrime, (a[2] - b[2]) % FieldPrime>>
Neg2[a \in F2] == Sub2[Zero2, a]
Double2[a \in F2] == Add2[a, a]
Mul2[a \in F2, b \in F2] ==
  <<(a[1] * b[1] - a[2] * b[2]) % FieldPrime, (a[1] * b[2] + a[2] * b[1]) % FieldPrime>>
Square2[a \in F2] == Mul2[a, a]
MulScalar2[a \in F2, s \in F1] == Mul2[a, <<s, 0>>]
Conjugate2[a \in F2] == <<a[1], (-a[2]) % FieldPrime>>
Inv2[a \in F2] == MulScalar2[Conjugate2[a], Inv1[Mul2[a, Conjugate2[a]][1]]]
Pow2[a \in F2, e \in Nat] ==
  IF e = 0 THEN One2
  ELSE Mul2[Pow2[Square2[a], e \div 2], IF e % 2 = 1 THEN a ELSE One2]

Zero6 == <<Zero2, Zero2, Zero2>>
One6 == <<Zero2, Zero2, One2>>
Add6[a \in F6, b \in F6] == <<Add2[a[1], b[1]], Add2[a[2], b[2]], Add2[a[3], b[3]]>>
Sub6[a \in F6, b \in F6] == <<Sub2[a[1], b[1]], Sub2[a[2], b[2]], Sub2[a[3], b[3]]>>
Neg6[a \in F6] == Sub6[Zero6, a]
Mul6[a \in F6, b \in F6] ==
  << Add2[Add2[Mul2[a[1], b[3]], Mul2[a[2], b[2]]], Mul2[a[3], b[1]]],
     Add2[Add2[Mul2[a[2], b[3]], Mul2[a[3], b[2]]], Mul2[Xi, Mul2[a[1], b[1]]]],
     Add2[Mul2[a[3], b[3]], Mul2[Xi, Add2[Mul2[a[1], b[2]], Mul2[a[2], b[1]]]]] >>
MulScalar6[a \in F6, s \in F2] == <<Mul2[a[1], s], Mul2[a[2], s], Mul2[a[3], s]>>
MulTau[a \in F6] == <<a[2], a[3], Mul2[a[1], Xi]>>

One12 == <<Zero6, One6>>
Mul12[a \in F12, b \in F12] ==
  << Add6[Mul6[a[1], b[2]], Mul6[a[2], b[1]]],
     Add6[Mul6[a[2], b[2]], MulTau[Mul6[a[1], b[1]]]] >>
Square12[a \in F12] == Mul12[a, a]
Conjugate12[a \in F12] == <<Neg6[a[1]], a[2]>>
Exp12[a \in F12, e \in Nat] ==
  IF e = 0 THEN One12
  ELSE LET h == Exp12[Square12[a], e \div 2] IN IF e % 2 = 1 THEN Mul12[h, a] ELSE h
Frobenius[a \in F12] == Exp12[a, FieldPrime]
FrobeniusP2[a \in F12] == Frobenius[Frobenius[a]]

(* The inverse of a, from its norm n to F6 and the image c of that whose *)
(* product with n is in F2.                                              *)
InverseFrom[a \in F12, n \in F12, c \in F12] ==
  Mul12[Conjugate12[a], <<Zero6, MulScalar6[c[2], Inv2[Mul12[n, c][2][3]]]>>]
Conjugates[n \in F12] == Mul12[FrobeniusP2[n], FrobeniusP2[FrobeniusP2[n]]]
Norm[a \in F12] == <<Zero6, Sub6[Mul6[a[2], a[2]], MulTau[Mul6[a[1], a[1]]]]>>
Inv12[a \in F12] == InverseFrom[a, Norm[a], Conjugates[Norm[a]]]

-----------------------------------------------------------------------------
(* A point of the twist in the loop: zz holds Z and zzz holds Z^2. *)
Projective(q) == [x |-> q[1], y |-> q[2], zz |-> One2, zzz |-> One2]

(* What both line functions return: a new point, and a line whose b has     *)
(* been multiplied by x, and whose c by y, of the point it is evaluated at. *)
Line(a, b, c, x, y, zz) ==
  [a |-> a, b |-> b, c |-> c, rOut |-> [x |-> x, y |-> y, zz |-> zz, zzz |-> Square2[zz]]]

(* lineFunctionAdd: r + p, and the line through them, at q. *)
LineFunctionAdd(r, p, q) ==
  LET r2 == Square2[p[2]]
      B == Mul2[p[1], r.zzz]
      D == Mul2[Sub2[Sub2[Square2[Add2[p[2], r.zz]], r2], r.zzz], r.zzz]
      H == Sub2[B, r.x]
      I == Square2[H]
      E1 == Double2[Double2[I]]
      J == Mul2[H, E1]
      L1 == Sub2[Sub2[D, r.y], r.y]
      V == Mul2[r.x, E1]
      x == Sub2[Sub2[Square2[L1], J], Double2[V]]
      zz == Sub2[Sub2[Square2[Add2[r.zz, H]], r.zzz], I]
      y == Sub2[Mul2[Sub2[V, x], L1], Double2[Mul2[r.y, J]]]
      t == Sub2[Sub2[Square2[Add2[p[2], zz]], r2], Square2[zz]]
  IN  Line(Sub2[Double2[Mul2[L1, p[1]]], t],
           Double2[MulScalar2[Neg2[L1], q[1]]],
           Double2[MulScalar2[zz, q[2]]], x, y, zz)

(* lineFunctionDouble: 2 r, and the tangent at r, at q. *)
LineFunctionDouble(r, q) ==
  LET A == Square2[r.x]
      B == Square2[r.y]
      C == Square2[B]
      D == Double2[Sub2[Sub2[Square2[Add2[r.x, B]], A], C]]
      E1 == Add2[Double2[A], A]
      G == Square2[E1]
      x == Sub2[G, Double2[D]]
      zz == Sub2[Sub2[Square2[Add2[r.y, r.zz]], B], r.zzz]
      y == Sub2[Mul2[Sub2[D, x], E1], Double2[Double2[Double2[C]]]]
  IN  Line(Sub2[Sub2[Sub2[Square2[Add2[r.x, E1]], A], G], Double2[Double2[B]]],
           MulScalar2[Neg2[Double2[Mul2[E1, r.zzz]]], q[1]],
           MulScalar2[Double2[Mul2[zz, r.zzz]], q[2]], x, y, zz)

(* mulLine: ret times (a tau + b) omega + c, with three products in F6. *)
MulLine(ret, l) ==
  LET a2 == Mul6[<<Zero2, l.a, l.b>>, ret[1]]
      y == MulScalar6[ret[2], l.c]
      x == Sub6[Sub6[Mul6[Add6[ret[1], ret[2]], <<Zero2, l.a, Add2[l.b, l.c]>>], a2], y]
  IN  <<x, Add6[y, MulTau[a2]]>>

-----------------------------------------------------------------------------
(* The constants of the constructor of Verifier: powers of Xi. *)
XiToPMinus1Over3 == Pow2[Xi, (FieldPrime - 1) \div 3]
XiToPMinus1Over2 == Pow2[Xi, (FieldPrime - 1) \div 2]
XiToPSquaredMinus1Over3 == Pow2[Xi, (FieldPrime * FieldPrime - 1) \div 3][1]

(* The points miller adds last: the image of q under the Frobenius map of *)
(* the curve, and minus the image of that; a mutant has no minus.         *)
FrobeniusOf(q) ==
  <<Mul2[Conjugate2[q[1]], XiToPMinus1Over3], Mul2[Conjugate2[q[2]], XiToPMinus1Over2]>>
Frobenius2Of(q) == <<MulScalar2[q[1], XiToPSquaredMinus1Over3], Neg2[q[2]]>>
MinusFrobenius2Of(q) == <<MulScalar2[q[1], XiToPSquaredMinus1Over3], q[2]>>
Minus(q) == <<q[1], Neg2[q[2]]>>

(* finalExponentiation: the easy part, the powers of its result t1, and  *)
(* the addition chain that combines them.                                *)
Raised[t \in F12] == Mul12[t, FrobeniusP2[t]]
EasyPart[in \in F12] == Raised[Mul12[Conjugate12[in], Inv12[in]]]

LastSquares[t1 \in F12, y0 \in F12, y1 \in F12] ==
  Mul12[Square12[Mul12[t1, y1]], Mul12[t1, y0]]
Chain[t0 \in F12, y0 \in F12, y1 \in F12, y2 \in F12, y3 \in F12, y5 \in F12] ==
  LastSquares[Square12[Mul12[Square12[Mul12[Mul12[y3, y5], t0]], Mul12[t0, y2]]], y0, y1]
HardPart[t1 \in F12, fp2 \in F12, fu \in F12, fu2 \in F12, fu3 \in F12] ==
  LET y4 == Conjugate12[Mul12[fu, Frobenius[fu2]]]
      y5 == Conjugate12[fu2]
      y6 == Conjugate12[Mul12[fu3, Frobenius[fu3]]]
  IN  Chain[Mul12[Mul12[Square12[y6], y4], y5],
            Mul12[Mul12[Frobenius[t1], fp2], Frobenius[fp2]], Conjugate12[t1],
            FrobeniusP2[fu2], Conjugate12[Frobenius[fu]], y5]
Powers[t1 \in F12] ==
  HardPart[t1, FrobeniusP2[t1], Exp12[t1, U], Exp12[Exp12[t1, U], U],
           Exp12[Exp12[Exp12[t1, U], U], U]]
FinalExponentiation[in \in F12] == Powers[EasyPart[in]]
=============================================================================
