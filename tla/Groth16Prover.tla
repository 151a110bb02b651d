---------------------------- MODULE Groth16Prover ---------------------------
(***************************************************************************)
(* Prover::prove (native/rapidsnark/src/groth16.cpp:49-264): the proof of   *)
(* one witness, computed by a pool of threads.                              *)
(*                                                                          *)
(* A scalar is a number modulo Order.  The witness and the scalars of a     *)
(* multiplication are plain numbers; elements of the arrays a, b, c are in  *)
(* Montgomery form, times Radix, and the coefficients of the key file are   *)
(* times Radix twice.  A point of either group is its logarithm to the      *)
(* group's generator: add is a sum, mulByScalar a product.  The groups, the *)
(* thread pool and the FFT are libraries whose source is not here.          *)
(***************************************************************************)
EXTENDS ScalarField, Sequences, Functions

CONSTANTS
  NVars, NPublic,
  DomainSize,   \* a power of two
  Root,         \* the power the transforms use: of order 2 * DomainSize
  Coefs,        \* the coefficients of the key file, records m, c, s, coef
  NLOCKS,
  Threads, NoThread,
  Begin, End,   \* the chunk of Coefs that parallelFor gives each thread
  Key,          \* the points of the key file
  Witnesses,    \* the assignments a proof is asked for
  Randoms       \* the pairs r, s that randombytes_buf may draw

Domain == 0 .. DomainSize - 1
Indices == 1 .. Len(Coefs)
Locks == 0 .. NLOCKS - 1
Chunk(t) == Begin[t] .. End[t] - 1

(* What the proofs about this module rest on. *)
ASSUME ProverAssumption ==
  /\ Order \in Nat \ {0} /\ DomainSize \in Nat \ {0} /\ NLOCKS \in Nat \ {0}
  /\ Radix \in Nat /\ \E y \in Scalars : (Radix * y) % Order = 1
  /\ Coefs \in Seq([m : {0, 1}, c : Domain, s : 0 .. NVars - 1, coef : Scalars])
  /\ Witnesses \subseteq [0 .. NVars - 1 -> Scalars]
  /\ NoThread \notin Threads
  /\ Begin \in [Threads -> Nat \ {0}] /\ End \in [Threads -> Nat]
  /\ \A t \in Threads : End[t] <= Len(Coefs) + 1

(* What parallelFor promises: every coefficient is in one chunk. *)
ASSUME ChunksAssumption ==
  /\ \A t, u \in Threads : t # u => Chunk(t) \cap Chunk(u) = {}
  /\ Indices = UNION {Chunk(t) : t \in Threads}

(* What the setup promises: points of one circuit, the same random values  *)
(* in both groups, and a root whose square, like the size of the domain,    *)
(* has an inverse.                                                          *)
Invertible(x) == x \in Scalars /\ \E y \in Scalars : (x * y) % Order = 1
ASSUME KeyAssumption ==
  /\ NVars \in Nat /\ NPublic \in Nat /\ NPublic < NVars
  /\ Key.pointsA \in [0 .. NVars - 1 -> Int]
  /\ Key.pointsB1 \in [0 .. NVars - 1 -> Int] /\ Key.pointsB2 = Key.pointsB1
  /\ Key.pointsC \in [0 .. NVars - NPublic - 2 -> Int]
  /\ Key.pointsH \in [Domain -> Int]
  /\ Key.alpha1 \in Int
  /\ Key.beta1 \in Int /\ Key.beta2 = Key.beta1
  /\ Key.delta1 \in Int /\ Key.delta2 = Key.delta1
  /\ Randoms \subseteq Scalars \X Scalars
ASSUME RootAssumption ==
  Root \in Scalars /\ Invertible(Power(Root, 2)) /\ Invertible(DomainSize)

VARIABLES
  phase,    \* where the calling thread is in prove
  wtns,     \* the witness
  pi,       \* pi_a, pib1, pi_b and pi_c, as far as they are computed
  ab,       \* the arrays a (0) and b (1)
  next,     \* of each thread: the coefficient it is at
  read,     \* of each thread: the cell it read under its lock, or NoValue
  owner,    \* of each lock: the thread that holds it
  proof     \* the finished proof

proverVars == <<phase, wtns, pi, ab, next, read, owner, proof>>

NoValue == -1

(* The values the variables of the accumulation take (groth16.cpp:83-119). *)
ProverTypeOK ==
  /\ phase \in {"msm", "zero", "coefs", "assemble", "proved"}
  /\ wtns \in Witnesses
  /\ ab \in [{0, 1} -> [Domain -> Scalars]]
  /\ next \in [Threads -> Nat \ {0}]
  /\ read \in [Threads -> Scalars \cup {NoValue}]
  /\ owner \in [Locks -> Threads \cup {NoThread}]

-----------------------------------------------------------------------------
(* multiMulByScalarMSM: the sum of the points, each times its scalar. *)
MultiMul(points, scalars) ==
  SumFunction([i \in DOMAIN points |-> points[i] * scalars[i]]) % Order

(* The transforms of a column, and the shift to the odd powers of Root. *)
Transform(v, root, factor) ==
  [k \in Domain |->
    (factor * SumFunction([j \in Domain |-> (v[j] * Power(root, j * k)) % Order])) % Order]
Fft(v) == Transform(v, Power(Root, 2), 1)
Ifft(v) == Transform(v, ScalarInverse(Power(Root, 2)), ScalarInverse(DomainSize))
Shift(v) == [i \in Domain |-> Mont(v[i], ToMontgomery(Power(Root, i)))]
Extended(v) == Fft(Shift(Ifft(v)))

-----------------------------------------------------------------------------
ProverInit ==
  /\ phase = "msm"
  /\ wtns \in Witnesses
  /\ pi = [a |-> 0, b1 |-> 0, b |-> 0, c |-> 0]
  /\ ab = [m \in {0, 1} |-> [i \in Domain |-> 0]]
  /\ next = Begin
  /\ read = [t \in Threads |-> NoValue]
  /\ owner = [l \in Locks |-> NoThread]
  /\ proof = [A |-> 0, B |-> 0, C |-> 0]

(* The four sums over the witness; that of C leaves the public signals out. *)
PointsOf(w) ==
  [a  |-> MultiMul(Key.pointsA, w),
   b1 |-> MultiMul(Key.pointsB1, w),
   b  |-> MultiMul(Key.pointsB2, w),
   c  |-> MultiMul(Key.pointsC, [i \in 0 .. NVars - NPublic - 2 |-> w[NPublic + 1 + i]])]

MultiExp ==
  /\ phase = "msm"
  /\ pi' = PointsOf(wtns)
  /\ phase' = "zero"
  /\ UNCHANGED <<wtns, ab, next, read, owner, proof>>

(* a and b are allocated without a value and set to zero, each cell once. *)
Zero ==
  /\ phase = "zero"
  /\ ab' = [m \in {0, 1} |-> [i \in Domain |-> 0]]
  /\ phase' = "coefs"
  /\ UNCHANGED <<wtns, pi, next, read, owner, proof>>

Column(i) == IF Coefs[i].m = 0 THEN 0 ELSE 1
AuxOf(w, i) == Mont(w[Coefs[i].s], Coefs[i].coef)
Aux(i) == AuxOf(wtns, i)

LockOfSignal(i) == Coefs[i].s % NLOCKS
LockOf(i) == Coefs[i].c % NLOCKS

(* A thread at its next coefficient takes the lock of the row and reads. *)
Take(t) ==
  /\ phase = "coefs" /\ next[t] < End[t] /\ read[t] = NoValue
  /\ owner[LockOf(next[t])] = NoThread
  /\ owner' = [owner EXCEPT ![LockOf(next[t])] = t]
  /\ read' = [read EXCEPT ![t] = ab[Column(next[t])][Coefs[next[t]].c]]
  /\ UNCHANGED <<phase, wtns, pi, ab, next, proof>>

(* It writes the sum; leaving the block releases the lock. *)
Store(t) ==
  /\ read[t] # NoValue
  /\ ab' = [ab EXCEPT ![Column(next[t])][Coefs[next[t]].c] = (read[t] + Aux(next[t])) % Order]
  /\ owner' = [owner EXCEPT ![LockOf(next[t])] = NoThread]
  /\ read' = [read EXCEPT ![t] = NoValue]
  /\ next' = [next EXCEPT ![t] = @ + 1]
  /\ UNCHANGED <<phase, wtns, pi, proof>>

Joined == \A t \in Threads : next[t] >= End[t] /\ read[t] = NoValue

(* When all threads are done: c, the transforms, a * b - c at the odd    *)
(* powers, and the sum over the points of H.                             *)
QuotientOf(a, b) ==
  LET c == [i \in Domain |-> Mont(a[i], b[i])]
      a1 == Extended(a)
      b1 == Extended(b)
      c1 == Extended(c)
      h == [i \in Domain |-> FromMontgomery((Mont(a1[i], b1[i]) - c1[i]) % Order)]
  IN  MultiMul(Key.pointsH, h)

Quotient ==
  /\ phase = "coefs" /\ Joined
  /\ pi' = [pi EXCEPT !.c = (@ + QuotientOf(ab[0], ab[1])) % Order]
  /\ phase' = "assemble"
  /\ UNCHANGED <<wtns, ab, next, read, owner, proof>>

(* The proof from the sums and the two random numbers. *)
Blind(r, s, rs) ==
  LET a == (pi.a + Key.alpha1 + Key.delta1 * r) % Order
      b == (pi.b + Key.beta2 + Key.delta2 * s) % Order
      b1 == (pi.b1 + Key.beta1 + Key.delta1 * s) % Order
  IN  [A |-> a, B |-> b, C |-> (pi.c + a * s + b1 * r - Key.delta1 * rs) % Order]

AssembleMontgomery ==
  /\ phase = "assemble"
  /\ \E x \in Randoms : proof' = Blind(x[1], x[2], Mont(x[1], x[2]))
  /\ phase' = "proved"
  /\ UNCHANGED <<wtns, pi, ab, next, read, owner>>

Assemble ==
  /\ phase = "assemble"
  /\ \E x \in Randoms : proof' = Blind(x[1], x[2], ToMontgomery(Mont(x[1], x[2])))
  /\ phase' = "proved"
  /\ UNCHANGED <<wtns, pi, ab, next, read, owner>>

ProverNext ==
  \/ MultiExp \/ Zero \/ Quotient \/ Assemble
  \/ \E t \in Threads : Take(t) \/ Store(t)

ProverSpec == ProverInit /\ [][ProverNext]_proverVars

-----------------------------------------------------------------------------
(* The accumulation loses nothing (groth16.cpp:98-119): every write of a    *)
(* cell of a or b by a thread adds to the value the cell has at that        *)
(* moment, whatever the other threads wrote between its read and its write. *)
AddsProduct ==
  [][\A t \in Threads :
       next'[t] # next[t] =>
         LET m == Column(next[t])
             c == Coefs[next[t]].c
         IN  /\ ab'[m][c] = (ab[m][c] + Aux(next[t])) % Order
             /\ \A d \in {0, 1}, i \in Domain :
                  <<d, i>> # <<m, c>> => ab'[d][i] = ab[d][i]]_proverVars

(* What the transforms start from (groth16.cpp:98-124): each cell of a and  *)
(* b is the sum of the products of its matrix and row, all of them and each *)
(* once, however the coefficients were divided among the threads and in     *)
(* whatever order these took the locks.                                     *)
Entries(m, c) == {i \in Indices : Column(i) = m /\ Coefs[i].c = c}
CellOf(w, m, c) == SumFunction([i \in Entries(m, c) |-> AuxOf(w, i)]) % Order
SumsComplete ==
  phase \in {"assemble", "proved"} =>
    \A m \in {0, 1}, c \in Domain : ab[m][c] = CellOf(wtns, m, c)

(* The two random numbers blind the proof and cancel (groth16.cpp:217-263): *)
(* what the verifier compares does not depend on them.                      *)
BlindingCancels ==
  phase = "proved" =>
    (proof.A * proof.B - Key.delta1 * proof.C) % Order
      = ((pi.a + Key.alpha1) * (pi.b + Key.beta2) - Key.delta1 * pi.c) % Order
=============================================================================
