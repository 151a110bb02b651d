------------------------------ MODULE MCGroth16 -----------------------------
(***************************************************************************)
(* A small curve with everything the real one has: the Barreto-Naehrig      *)
(* curve y^2 = x^3 + 5 of parameter 1 over the field of 103 elements, whose *)
(* groups have order 97; and a circuit of one constraint, (1 + y + x) x = z *)
(* with y public, in a key made from known random values.                   *)
(***************************************************************************)
EXTENDS Groth16

MCXi == <<2, 1>>
(* 105 = 8 + 97, so the loop for it computes the pairing of 6 u + 2 = 8 up *)
(* to a factor that is bilinear too; it has digits of each sign.           *)
MCDigits == <<1, 0, 0, -1, -1, 0, 0, 1>>

PlusPoint[p \in F2 \X F2, q \in F2 \X F2] ==
  LET l == IF p = q THEN Mul2[Mul2[<<3, 0>>, Square2[p[1]]], Inv2[Double2[p[2]]]]
                    ELSE Mul2[Sub2[q[2], p[2]], Inv2[Sub2[q[1], p[1]]]]
      x == Sub2[Sub2[Square2[l], p[1]], q[1]]
  IN  <<x, Sub2[Mul2[l, Sub2[p[1], x]], p[2]]>>
MultiplesOf(g) ==
  LET f[k \in 1 .. 96] == IF k = 1 THEN g ELSE PlusPoint[f[k - 1], g] IN f
MCPoint2 == MultiplesOf(<< <<86, 29>>, <<88, 47>> >>)
MCPoint1 ==
  LET f == MultiplesOf(<< <<2, 0>>, <<42, 0>> >>) IN [k \in 1 .. 96 |-> <<f[k][1][1], f[k][2][1]>>]
MCGenerated ==
  << << <<35, 96>>, <<48, 61>>, <<33, 52>> >>, << <<10, 24>>, <<94, 96>>, <<48, 92>> >> >>

-----------------------------------------------------------------------------
(* Signals 0 to 3 are one, y, x and z; rows 1 and 2 of the first matrix are *)
(* those the setup adds for one and the public signal.                      *)
Entry(m, c, s) == [m |-> m, c |-> c, s |-> s, coef |-> ToMontgomery(ToMontgomery(1))]
MCCoefs == << Entry(0, 0, 0), Entry(0, 0, 2), Entry(0, 0, 1), Entry(1, 0, 2),
              Entry(0, 1, 0), Entry(0, 2, 1) >>
MCThreads == 1 .. 3
MCBegin == [t \in MCThreads |-> 2 * t - 1]
MCEnd == [t \in MCThreads |-> 2 * t + 1]

Tau == 7
AlphaT == 11
BetaT == 13
GammaT == 17
DeltaT == 19
Over(x, y) == (x * ScalarInverse(y)) % 97

(* The Lagrange polynomial of the i-th power of a root of order n at Tau. *)
Lagrange(root, n, i) ==
  (ScalarInverse(n) * SumFunction(
    [k \in 0 .. n - 1 |-> (Power(ScalarInverse(root), i * k) * Power(Tau, k)) % 97])) % 97
Row(i) == Lagrange(Power(33, 2), 4, i)
AtTau(m, s) ==
  SumFunction([i \in 1 .. 6 |->
    IF MCCoefs[i].m = m /\ MCCoefs[i].s = s THEN Row(MCCoefs[i].c) ELSE 0]) % 97
OfC(s) == (BetaT * AtTau(0, s) + AlphaT * AtTau(1, s) + IF s = 3 THEN Row(0) ELSE 0) % 97
MCKey ==
  [pointsA |-> [s \in 0 .. 3 |-> AtTau(0, s)],
   pointsB1 |-> [s \in 0 .. 3 |-> AtTau(1, s)],
   pointsB2 |-> [s \in 0 .. 3 |-> AtTau(1, s)],
   pointsC |-> [i \in 0 .. 1 |-> Over(OfC(2 + i), DeltaT)],
   pointsH |-> [i \in 0 .. 3 |-> Over(Lagrange(33, 8, 2 * i + 1), DeltaT)],
   alpha1 |-> AlphaT, beta1 |-> BetaT, beta2 |-> BetaT, delta1 |-> DeltaT, delta2 |-> DeltaT]
MCVerificationKey ==
  [alpha |-> AlphaT, beta |-> BetaT, gamma |-> GammaT, delta |-> DeltaT,
   IC |-> <<Over(OfC(0), GammaT), Over(OfC(1), GammaT)>>]

Witness(y, x, z) == <<1, y, x, z>>
Assigned(y, x, z) == [i \in 0 .. 3 |-> Witness(y, x, z)[i + 1]]
MCSatisfying == {Assigned(3, 5, 45), Assigned(0, 0, 0)}
MCWitnesses == MCSatisfying \cup {Assigned(3, 5, 46)}
(* Beside two random numbers, those that make the point A, or the point B, *)
(* of the proof of the first assignment the zero of its group.             *)
ZeroA == Over(-(MultiMul(MCKey.pointsA, Assigned(3, 5, 45)) + AlphaT), DeltaT)
ZeroB == Over(-(MultiMul(MCKey.pointsB2, Assigned(3, 5, 45)) + BetaT), DeltaT)
MCRandoms == {<<2, 3>>, <<ZeroA, 3>>, <<2, ZeroB>>}
MCInputs == { << >>, <<3>>, <<100>>, <<0>>, <<3, 3>> }

(* The proof as it is; with another C; with A and B negated; with A and B   *)
(* times factors that cancel, and every number written with the prime added; *)
(* and with A alone negated.                                                *)
Change(factorA, factorB, shiftC, lift) ==
  [factorA |-> factorA, factorB |-> factorB, shiftC |-> shiftC, lift |-> lift]
MCChanges == {Change(1, 1, 0, 0), Change(1, 1, 1, 0), Change(96, 96, 0, 0),
              Change(2, 49, 0, 1), Change(96, 1, 0, 0)}

(* A point that is not on the curve, and one that is on the twist and not in *)
(* the group; and points of the groups chosen to satisfy the equation.      *)
OffCurve == <<1, 1>>
OffGroup == << <<49, 61>>, <<13, 60>> >>
Document(a, b, c) == [protocol |-> "groth16", pi_a |-> a, pi_b |-> b, pi_c |-> c]
MCForeign ==
  {Document(OffCurve, Affine2(5), Affine1(3)), Document(Affine1(3), OffGroup, Affine1(4)),
   Document(Affine1(2), Affine2(3), Affine1(Over(6 - Constant(<<3>>), DeltaT)))}

-----------------------------------------------------------------------------
ASSUME ~InGroup1(OffCurve) /\ ~InGroup2(OffGroup)

(* What the theorems about the verdict assume of the curve and of the key. *)
ASSUME \A e \in 0 .. 2 * Order : GeneratedTo(e) = One12 <=> e % Order = 0
ASSUME \A d \in 0 .. 40, e \in 0 .. 40 :
         Mul12[GeneratedTo(d), GeneratedTo(e)] = GeneratedTo(d + e)
ASSUME FinalExponentiation[One12] = One12
ASSUME KeyDecides
=============================================================================
