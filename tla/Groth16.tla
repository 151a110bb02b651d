------------------------------- MODULE Groth16 ------------------------------
(***************************************************************************)
(* A proof from the witness to the exit of the verifier: prover_prove makes *)
(* it (prover.cpp:282-380), it travels as JSON (groth16.cpp:278-324), and   *)
(* the command of main_verifier.cpp answers by its exit status.             *)
(***************************************************************************)
EXTENDS Groth16Prover, Groth16Verifier

CONSTANTS
  Changes,      \* how the document that arrives differs from the proof made
  Foreign,      \* documents that come from elsewhere
  Protocols,    \* the protocols a document may name
  Satisfying,   \* the assignments of Witnesses that satisfy the circuit
  Generated     \* the pairing of the two generators

(* The verification key is the one exported with the proving key. *)
ASSUME ExportAssumption ==
  /\ VerificationKey.alpha = Key.alpha1 /\ VerificationKey.beta = Key.beta2
  /\ VerificationKey.delta = Key.delta1
  /\ Len(VerificationKey.IC) = NPublic + 1

VARIABLES
  document,     \* the proof on its way, or NoDocument
  status        \* the exit status of the verifier, or NoStatus

vars == <<proverVars, verifierVars, document, status>>

NoDocument == [protocol |-> ""]
NoStatus == -1
EXIT_SUCCESS == 0
EXIT_FAILURE == 1

Init == ProverInit /\ VerifierInit /\ document = NoDocument /\ status = NoStatus

ToJson(p) ==
  [protocol |-> "groth16", pi_a |-> Affine1(p.A), pi_b |-> Affine2(p.B), pi_c |-> Affine1(p.C)]

(* A change: factors of the points A and B, a shift of the point C, and how *)
(* often the prime is added to every number that is written.               *)
Changed(p, x) ==
  [A |-> (p.A * x.factorA) % Order, B |-> (p.B * x.factorB) % Order,
   C |-> (p.C + x.shiftC) % Order]
Lifted1(p, n) == <<p[1] + n * FieldPrime, p[2] + n * FieldPrime>>
Lifted2(q, n) == <<Lifted1(q[1], n), Lifted1(q[2], n)>>
Written(d, n, name) ==
  [protocol |-> name, pi_a |-> Lifted1(d.pi_a, n), pi_b |-> Lifted2(d.pi_b, n),
   pi_c |-> Lifted1(d.pi_c, n)]

(* The document is written; that one, a changed one or another may arrive. *)
Send ==
  /\ phase = "proved" /\ document = NoDocument
  /\ \/ \E x \in Changes, name \in Protocols :
          document' = Written(ToJson(Changed(proof, x)), x.lift, name)
     \/ document' \in Foreign
  /\ UNCHANGED <<proverVars, verifierVars, status>>

Verify ==
  /\ document # NoDocument
  /\ Call(document)
  /\ UNCHANGED <<proverVars, document, status>>

Exit ==
  /\ at = "returned" /\ status = NoStatus
  /\ status' = IF code = VALID THEN EXIT_SUCCESS ELSE EXIT_FAILURE
  /\ UNCHANGED <<proverVars, verifierVars, document>>

Next ==
  \/ ProverNext /\ UNCHANGED <<verifierVars, document, status>>
  \/ Send \/ Verify \/ Exit
  \/ VerifierSteps /\ UNCHANGED <<proverVars, document, status>>

Spec == Init /\ [][Next]_vars

-----------------------------------------------------------------------------
(* What the verifier says of the points it gets (verifier.cpp:93-135,       *)
(* groth16.cpp:375-425): it exits with success only for a document of the   *)
(* protocol, a key it could read with a point for every input; and if the   *)
(* points of the document are in the groups, exactly when their logarithms  *)
(* satisfy the equation of Groth16, the inputs taken as plain numbers.      *)
(* Whether they are in the groups is not checked (groth16.cpp:313-337), and *)
(* of documents whose points are not nothing else is said.                  *)
Received == FromJson(document)
InGroups == InGroup1(Received.A) /\ InGroup2(Received.B) /\ InGroup1(Received.C)
PublicOf(x) ==
  VerificationKey.IC[1]
    + SumFunction([i \in DOMAIN x |-> VerificationKey.IC[i + 1] * x[i]])
Constant(x) ==
  VerificationKey.alpha * VerificationKey.beta + PublicOf(x) * VerificationKey.gamma
Equation(a, b, x, c) == (a * b) % Order = (Constant(x) + c * VerificationKey.delta) % Order
ReceivedSatisfies(x) == Equation(Log1(Received.A), Log2(Received.B), x, Log1(Received.C))
EquationChecked ==
  status # NoStatus =>
    LET readable == /\ document.protocol = "groth16" /\ keyRead
                    /\ given # << >> /\ Len(given) + 1 = Len(VerificationKey.IC)
    IN  /\ status = EXIT_SUCCESS => readable
        /\ readable /\ InGroups => (status = EXIT_SUCCESS <=> ReceivedSatisfies(given))

(* From the witness to the verdict (groth16.cpp:49-264, 375-425, 733-751).  *)
(* Take a document whose points are in the groups. If it is equivalent to   *)
(* the proof made, the verifier exits with success exactly when the witness *)
(* satisfies the circuit and the public signals are, modulo the order,      *)
(* those of the witness; and if they are, exactly when it is equivalent.    *)
(* Equivalent means that the equation compares the same with the public     *)
(* signals: the proof itself is, in any spelling, and so is what has both A *)
(* and B negated; a proof of which C alone changed is not.                  *)
Compared(a, b, c) == (a * b - VerificationKey.delta * c) % Order
Equivalent ==
  Compared(Log1(Received.A), Log2(Received.B), Log1(Received.C))
    = Compared(proof.A, proof.B, proof.C)
PublicSignals(x, w) == \A i \in 1 .. NPublic : x[i] % Order = w[i]
Honest == wtns \in Satisfying /\ Len(given) = NPublic /\ PublicSignals(given, wtns)

ProofVerifies ==
  status # NoStatus /\ document.protocol = "groth16" /\ keyRead /\ InGroups =>
    /\ Equivalent => (status = EXIT_SUCCESS <=> Honest)
    /\ Honest => (status = EXIT_SUCCESS <=> Equivalent)

(* What the proof of a witness comes to before it is blinded, as a function *)
(* of the witness alone, and what a key must do for a circuit: tell, by the *)
(* equation, the assignments that satisfy it, with their public signals,    *)
(* from the others.                                                         *)
ExpectedPi(w) ==
  LET rows == [m \in {0, 1} |-> [c \in Domain |-> CellOf(w, m, c)]]
  IN  [PointsOf(w) EXCEPT !.c = (@ + QuotientOf(rows[0], rows[1])) % Order]
Plain(p) == (p.a + Key.alpha1) * (p.b + Key.beta2) - Key.delta1 * p.c
KeyDecides ==
  \A w \in Witnesses, x \in Inputs :
    Len(x) = NPublic =>
      (Plain(ExpectedPi(w)) % Order = Constant(x) % Order
         <=> w \in Satisfying /\ PublicSignals(x, w))

(* What miller returns for a pair of points of the groups                   *)
(* (groth16.cpp:583-670) is, after the final exponentiation, the pairing of *)
(* the generators to the power of the product of the logarithms; and that   *)
(* exponentiation may be left to the end, as pairingCheck does.             *)
GeneratedTo(e) == Exp12[Generated, e]
MillerExact ==
  at = "add" /\ digit = -2 =>
    /\ InGroup1(P) /\ InGroup2(Q) =>
         FinalExponentiation[ret] = GeneratedTo(Log1(P) * Log2(Q))
    /\ FinalExponentiation[Mul12[acc, ret]]
         = Mul12[FinalExponentiation[acc], FinalExponentiation[ret]]

(* What pairingCheck has accumulated after each pair (groth16.cpp:733-751), *)
(* all of them in the groups, is, after the final exponentiation, the       *)
(* pairing of the generators to the power of the sum of the products of the *)
(* logarithms, the pairs with a zero included that it leaves out.           *)
PairingExact ==
  at = "pair" /\ InGroups =>
    FinalExponentiation[acc]
      = GeneratedTo(SumFunction([i \in 1 .. pair - 1 |-> Log1(pairs[i][1]) * Log2(pairs[i][2])]))
=============================================================================
