--------------------------- MODULE Groth16Verifier --------------------------
(***************************************************************************)
(* groth16_verify (native/rapidsnark/src/verifier.cpp:93-135) and Verifier *)
(* ::verify, miller and pairingCheck (groth16.cpp:375-425, 583-670,        *)
(* 733-751), the loop of miller one step at a time.                        *)
(*                                                                         *)
(* A point has its coordinates, zero those that are all zero. The points   *)
(* of a document are whatever coordinates it holds; only those the curve   *)
(* library computes, and those of the key, are sure to be multiples of the *)
(* generators, Point1 and Point2.                                          *)
(***************************************************************************)
EXTENDS Pairing, ScalarField, Functions

CONSTANTS
  Digits,           \* sixuPlus2NAF, the lowest digit first
  Point1, Point2,   \* the coordinates of the multiples of the generators
  VerificationKey,  \* the logarithms of alpha, beta, gamma, delta and IC
  Inputs            \* the public signals a verifier may be called with

ASSUME VerifierAssumption ==
  /\ VerificationKey.alpha \in Scalars /\ VerificationKey.beta \in Scalars
  /\ VerificationKey.gamma \in Scalars /\ VerificationKey.delta \in Scalars
  /\ VerificationKey.IC \in Seq(Int) \ {<< >>}
  /\ Inputs \subseteq Seq(Nat)

(* The points of the groups by their logarithm. *)
Group1 == [k \in Scalars |-> IF k = 0 THEN <<0, 0>> ELSE Point1[k]]
Group2 == [k \in Scalars |-> IF k = 0 THEN <<Zero2, Zero2>> ELSE Point2[k]]
Affine1(k) == Group1[k % Order]
Affine2(k) == Group2[k % Order]
Negated(p) == <<p[1], (-p[2]) % FieldPrime>>

(* What the two groups are taken to be: of as many points as the order. *)
ASSUME CurveAssumption ==
  /\ FieldPrime \in Nat \ {0}
  /\ Group1 \in [Scalars -> F1 \X F1] /\ IsInjective(Group1)
  /\ Group2 \in [Scalars -> F2 \X F2] /\ IsInjective(Group2)
  /\ \A k \in Scalars : Negated(Affine1(k)) = Affine1(-k)

(* The logarithm of a point, if it is in the group at all. *)
InGroup1(p) == \E k \in Scalars : Group1[k] = p
InGroup2(q) == \E k \in Scalars : Group2[k] = q
Log1(p) == CHOOSE k \in Scalars : Group1[k] = p
Log2(q) == CHOOSE k \in Scalars : Group2[k] = q

VARIABLES
  at,       \* where the verifier is
  pairs,    \* the arrays a and b of pairingCheck
  pair,     \* the pair it is at
  digit,    \* i of miller's loop; 0: q1 is next, -1: minusQ2, -2: the end
  r, ret,   \* of miller
  acc,      \* of pairingCheck
  given,    \* the public signals of the call
  keyRead,  \* whether its verification key could be read
  code      \* what groth16_verify returns

verifierVars == <<at, pairs, pair, digit, r, ret, acc, given, keyRead, code>>

VALID == 0
INVALID == 1
ERROR == 2
NoCode == 3

Count == Len(Digits) - 1
P == pairs[pair][1]
Q == pairs[pair][2]

VerifierInit ==
  /\ at = "waiting" /\ pairs = << >> /\ pair = 1 /\ digit = 0
  /\ r = Projective(Point2[1]) /\ ret = One12 /\ acc = One12
  /\ given = << >> /\ keyRead = FALSE /\ code = NoCode

-----------------------------------------------------------------------------
(* parse_inputs: every string is reduced modulo the order and converted. *)
ParseInputs(strings) == [i \in DOMAIN strings |-> ToMontgomery(strings[i] % Order)]

(* Verifier::verify up to the call of pairingCheck: the point vkX of the *)
(* public signals, and the four pairs whose product must be one.         *)
(* A mutant: the scalars stay in Montgomery form. *)
VkXUnconverted(inputs) ==
  (VerificationKey.IC[1]
    + SumFunction([i \in DOMAIN inputs |-> VerificationKey.IC[i + 1] * inputs[i]])) % Order
VkX(inputs) ==
  (VerificationKey.IC[1]
    + SumFunction([i \in DOMAIN inputs |-> VerificationKey.IC[i + 1] * FromMontgomery(inputs[i])]))
    % Order

Pairs(p, inputs) ==
  << <<p.A, p.B>>,
     <<Affine1(-VerificationKey.alpha), Affine2(VerificationKey.beta)>>,
     <<Affine1(-VkX(inputs)), Affine2(VerificationKey.gamma)>>,
     <<Negated(p.C), Affine2(VerificationKey.delta)>> >>

(* G1PointAffineFromJson and G2PointAffineFromJson: each number is reduced *)
(* modulo the prime. Nothing asks whether the point is on the curve.       *)
FromJson1(p) == <<p[1] % FieldPrime, p[2] % FieldPrime>>
FromJson2(q) == <<FromJson1(q[1]), FromJson1(q[2])>>
FromJson(d) == [A |-> FromJson1(d.pi_a), B |-> FromJson2(d.pi_b), C |-> FromJson1(d.pi_c)]

(* parse_proof, parse_inputs, parse_key and Verifier::verify throw: another *)
(* protocol or a text that is no proof, no inputs or a text that is none, a *)
(* key that cannot be read, or not as many inputs as it has points for.     *)
ProofRefused(document) == document.protocol # "groth16"
InputsRefused(strings) == strings = << >> \/ Len(strings) + 1 # Len(VerificationKey.IC)

Call(document) ==
  \E strings \in Inputs, readable \in BOOLEAN :
    /\ at = "waiting"
    /\ given' = strings /\ keyRead' = readable
    /\ IF ProofRefused(document) \/ InputsRefused(strings) \/ ~readable
       THEN /\ at' = "returned" /\ code' = ERROR
            /\ UNCHANGED pairs
       ELSE /\ at' = "pair"
            /\ pairs' = Pairs(FromJson(document), ParseInputs(strings))
            /\ UNCHANGED code
    /\ UNCHANGED <<pair, digit, r, ret, acc>>

(* pairingCheck leaves out a pair with the zero of either group. *)
HasZero == P = <<0, 0>> \/ Q = <<Zero2, Zero2>>

Skip ==
  /\ at = "pair" /\ pair <= Len(pairs) /\ HasZero
  /\ pair' = pair + 1
  /\ UNCHANGED <<at, pairs, digit, r, ret, acc, given, keyRead, code>>

(* miller is entered. *)
Enter ==
  /\ at = "pair" /\ pair <= Len(pairs) /\ ~HasZero
  /\ at' = "double" /\ digit' = Count
  /\ r' = Projective(Q) /\ ret' = One12
  /\ UNCHANGED <<pairs, pair, acc, given, keyRead, code>>

Apply(l, square) ==
  /\ r' = l.rOut
  /\ ret' = MulLine(IF square THEN Square12[ret] ELSE ret, l)

NextDigit == digit' = digit - 1 /\ at' = IF digit = 1 THEN "add" ELSE "double"

(* One turn of the loop: the doubling, then an addition if the digit below *)
(* is 1 or -1.                                                             *)
DoubleStep ==
  /\ at = "double"
  /\ Apply(LineFunctionDouble(r, P), digit # Count)
  /\ IF Digits[digit] = 0 THEN NextDigit ELSE at' = "add" /\ UNCHANGED digit
  /\ UNCHANGED <<pairs, pair, acc, given, keyRead, code>>

AddStep ==
  /\ at = "add" /\ digit > 0
  /\ IF Digits[digit] = 1
     THEN Apply(LineFunctionAdd(r, Q, P), FALSE)
     ELSE Apply(LineFunctionAdd(r, Minus(Q), P), FALSE)
  /\ NextDigit
  /\ UNCHANGED <<pairs, pair, acc, given, keyRead, code>>

(* The two additions after the loop: the images of q under the Frobenius *)
(* map, which multiplies by q, and under minus its square.               *)
AddFrobenius ==
  /\ at = "add" /\ digit = 0
  /\ Apply(LineFunctionAdd(r, FrobeniusOf(Q), P), FALSE)
  /\ digit' = -1
  /\ UNCHANGED <<at, pairs, pair, acc, given, keyRead, code>>

AddFrobenius2 ==
  /\ at = "add" /\ digit = -1
  /\ Apply(LineFunctionAdd(r, MinusFrobenius2Of(Q), P), FALSE)
  /\ digit' = -2
  /\ UNCHANGED <<at, pairs, pair, acc, given, keyRead, code>>

(* miller returns and pairingCheck multiplies its result in. *)
Accumulate ==
  /\ at = "add" /\ digit = -2
  /\ acc' = Mul12[acc, ret]
  /\ pair' = pair + 1 /\ at' = "pair"
  /\ UNCHANGED <<pairs, digit, r, ret, given, keyRead, code>>

Finish ==
  /\ at = "pair" /\ pair > Len(pairs)
  /\ code' = IF FinalExponentiation[acc] = One12 THEN VALID ELSE INVALID
  /\ at' = "returned"
  /\ UNCHANGED <<pairs, pair, digit, r, ret, acc, given, keyRead>>

VerifierSteps ==
  Skip \/ Enter \/ DoubleStep \/ AddStep \/ AddFrobenius \/ AddFrobenius2
       \/ Accumulate \/ Finish
=============================================================================
