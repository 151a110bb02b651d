---------------------------- MODULE Groth16Proofs ---------------------------
(***************************************************************************)
(* The theorems about one proof, from the witness to the exit of the       *)
(* verifier (native/rapidsnark/src/groth16.cpp, verifier.cpp).             *)
(***************************************************************************)
EXTENDS Groth16, FiniteSetTheorems, WellFoundedInduction, TLAPS

-----------------------------------------------------------------------------
(* Arithmetic modulo Order. *)
LEMMA OrderType == Order \in Nat \ {0}
  BY ProverAssumption

LEMMA DivMod ==
  ASSUME NEW x \in Int, NEW n \in Nat \ {0}
  PROVE  x \div n \in Int /\ x % n \in 0 .. n - 1 /\ x = (n * (x \div n)) + (x % n)
OBVIOUS

LEMMA ModUnique ==
  ASSUME NEW n \in Nat \ {0}, NEW k \in Int, NEW x \in 0 .. n - 1
  PROVE  ((n * k) + x) % n = x
OBVIOUS

LEMMA ModInScalars == ASSUME NEW k \in Int PROVE k % Order \in Scalars
  BY OrderType, DivMod DEF Scalars

LEMMA ScalarInt == ASSUME NEW x \in Scalars PROVE x \in Int /\ x \in Nat
  BY OrderType DEF Scalars

LEMMA ModOfScalar == ASSUME NEW x \in Scalars PROVE x % Order = x
<1>1. x \in 0 .. Order - 1 /\ x = (Order * 0) + x
  BY OrderType DEF Scalars
<1> QED BY <1>1, ModUnique, OrderType

(* A number and its remainder differ by a multiple of the order, and numbers *)
(* that differ by a multiple have the same remainder.                        *)
LEMMA Remainder == ASSUME NEW x \in Int PROVE \E k \in Int : x % Order = x + (Order * k)
<1>1. PICK q \in Int : x = (Order * q) + (x % Order)
  BY DivMod, OrderType
<1>2. x % Order \in Int
  BY ModInScalars, ScalarInt
<1>3. -q \in Int /\ x % Order = x + (Order * (-q))
  BY <1>1, <1>2, OrderType
<1> QED BY <1>3

LEMMA ModShift ==
  ASSUME NEW x \in Int, NEW k \in Int PROVE (x + (Order * k)) % Order = x % Order
<1>1. PICK q \in Int : x = (Order * q) + (x % Order)
  BY DivMod, OrderType
<1>2. PICK y \in 0 .. Order - 1 : y = x % Order
  BY ModInScalars DEF Scalars
<1>3. x + (Order * k) = (Order * (q + k)) + y /\ q + k \in Int
  BY <1>1, <1>2, OrderType
<1> QED BY <1>2, <1>3, ModUnique, OrderType

LEMMA ModAdd ==
  ASSUME NEW x \in Int, NEW y \in Int PROVE ((x % Order) + y) % Order = (x + y) % Order
<1>1. PICK k \in Int : x % Order = x + (Order * k)
  BY Remainder
<1>2. (x % Order) + y = (x + y) + (Order * k) /\ x + y \in Int
  BY <1>1, OrderType
<1> QED BY <1>2, ModShift

LEMMA ModMul ==
  ASSUME NEW x \in Int, NEW y \in Int PROVE ((x % Order) * y) % Order = (x * y) % Order
<1>1. PICK k \in Int : x % Order = x + (Order * k)
  BY Remainder
<1>2. (x % Order) * y = (x * y) + (Order * (k * y)) /\ x * y \in Int /\ k * y \in Int
  BY <1>1, OrderType
<1> QED BY <1>2, ModShift

(* Numbers with the same remainder, and their sums and products. *)
Same(x, y) == x % Order = y % Order

LEMMA SameRemainder == ASSUME NEW x \in Int PROVE x % Order \in Int /\ Same(x % Order, x)
  BY ModInScalars, ScalarInt, ModOfScalar DEF Same

LEMMA SameScalars ==
  ASSUME NEW x \in Scalars, NEW y \in Scalars, Same(x, y) PROVE x = y
  BY ModOfScalar DEF Same

LEMMA SameBy ==
  ASSUME NEW x \in Int, NEW y \in Int, NEW k \in Int, x = y + (Order * k) PROVE Same(x, y)
  BY ModShift DEF Same

LEMMA SameTrans ==
  ASSUME NEW x, NEW y, NEW z, Same(x, y), Same(y, z) PROVE Same(x, z)
  BY DEF Same

LEMMA SameSym == ASSUME NEW x, NEW y, Same(x, y) PROVE Same(y, x)
  BY DEF Same

LEMMA SamePlus ==
  ASSUME NEW x \in Int, NEW u \in Int, Same(x, u), NEW y \in Int PROVE Same(x + y, u + y)
<1>1. ((x % Order) + y) % Order = (x + y) % Order
  BY ModAdd
<1>2. ((u % Order) + y) % Order = (u + y) % Order
  BY ModAdd
<1> QED BY <1>1, <1>2 DEF Same

LEMMA SameTimes ==
  ASSUME NEW x \in Int, NEW u \in Int, Same(x, u), NEW y \in Int PROVE Same(x * y, u * y)
<1>1. ((x % Order) * y) % Order = (x * y) % Order
  BY ModMul
<1>2. ((u % Order) * y) % Order = (u * y) % Order
  BY ModMul
<1> QED BY <1>1, <1>2 DEF Same

LEMMA SameSum ==
  ASSUME NEW x \in Int, NEW u \in Int, Same(x, u), NEW y \in Int, NEW v \in Int, Same(y, v)
  PROVE  Same(x + y, u + v)
<1>1. Same(x + y, u + y)
  BY SamePlus
<1>2. Same(y + u, v + u)
  BY SamePlus
<1>3. y + u = u + y /\ v + u = u + v
  OBVIOUS
<1> QED BY <1>1, <1>2, <1>3, SameTrans

LEMMA SameProduct ==
  ASSUME NEW x \in Int, NEW u \in Int, Same(x, u), NEW y \in Int, NEW v \in Int, Same(y, v)
  PROVE  Same(x * y, u * v)
<1>1. Same(x * y, u * y)
  BY SameTimes
<1>2. Same(y * u, v * u)
  BY SameTimes
<1>3. y * u = u * y /\ v * u = u * v
  OBVIOUS
<1> QED BY <1>1, <1>2, <1>3, SameTrans

LEMMA SameNegative ==
  ASSUME NEW x \in Int, NEW u \in Int, Same(x, u) PROVE Same(-x, -u)
<1>1. PICK k \in Int : x % Order = x + (Order * k)
  BY Remainder
<1>2. PICK l \in Int : u % Order = u + (Order * l)
  BY Remainder
<1>3. -x = (-u) + (Order * (k - l)) /\ k - l \in Int /\ -x \in Int /\ -u \in Int
  BY <1>1, <1>2, OrderType DEF Same
<1> QED BY <1>3, SameBy

LEMMA SameDifference ==
  ASSUME NEW x \in Int, NEW u \in Int, Same(x, u), NEW y \in Int, NEW v \in Int, Same(y, v)
  PROVE  Same(x - y, u - v)
<1>1. -y \in Int /\ -v \in Int /\ Same(-y, -v)
  BY SameNegative
<1>2. Same(x + (-y), u + (-v))
  BY <1>1, SameSum
<1>3. x + (-y) = x - y /\ u + (-v) = u - v
  OBVIOUS
<1> QED BY <1>2, <1>3

-----------------------------------------------------------------------------
(* Inverses, and the Montgomery form. *)
LEMMA InverseCorrect ==
  ASSUME NEW x, \E y \in Scalars : (x * y) % Order = 1
  PROVE  ScalarInverse(x) \in Scalars /\ (x * ScalarInverse(x)) % Order = 1
BY DEF ScalarInverse

LEMMA RadixInverse ==
  /\ Radix \in Int /\ ScalarInverse(Radix) \in Scalars /\ ScalarInverse(Radix) \in Int
  /\ (Radix * ScalarInverse(Radix)) % Order = 1
BY ProverAssumption, InverseCorrect, ScalarInt

LEMMA TimesOne == ASSUME NEW x \in Int, NEW e \in Int, e % Order = 1 PROVE Same(x * e, x)
<1>1. Order # 1
  BY ModInScalars DEF Scalars
<1>2. Same(e, 1)
  <2>1. 1 \in Scalars
    BY <1>1, OrderType DEF Scalars
  <2> QED BY <2>1, ModOfScalar DEF Same
<1>3. Same(e * x, 1 * x)
  BY <1>2, SameTimes
<1>4. e * x = x * e /\ 1 * x = x
  OBVIOUS
<1> QED BY <1>3, <1>4

LEMMA MontInScalars ==
  ASSUME NEW x \in Int, NEW y \in Int PROVE Mont(x, y) \in Scalars
<1>1. ((x * y) % Order) * ScalarInverse(Radix) \in Int
  BY RadixInverse, ModInScalars, ScalarInt
<1> QED BY <1>1, ModInScalars DEF Mont

(* A product in Montgomery form is a product divided by Radix. *)
LEMMA MontSame ==
  ASSUME NEW x \in Int, NEW y \in Int PROVE Same(Mont(x, y), (x * y) * ScalarInverse(Radix))
<1>1. PICK m \in Int : m = (x * y) % Order /\ Same(m, x * y)
  BY SameRemainder
<1>2. PICK i \in Int : i = ScalarInverse(Radix)
  BY RadixInverse
<1>3. Mont(x, y) = (m * i) % Order /\ Same(m * i, (x * y) * i)
  BY <1>1, <1>2, SameTimes DEF Mont
<1>4. Same((m * i) % Order, m * i)
  BY SameRemainder
<1> QED BY <1>2, <1>3, <1>4, SameTrans

(* A product in Montgomery form, and the product it stands for. *)
LEMMA MontCorrect ==
  ASSUME NEW x \in Int, NEW y \in Int PROVE ToMontgomery(Mont(x, y)) = (x * y) % Order
<1>1. PICK m \in Int : m = Mont(x, y)
  BY MontInScalars, ScalarInt
<1>2. PICK i \in Int : i = ScalarInverse(Radix) /\ (Radix * i) % Order = 1
  BY RadixInverse
<1>3. PICK p \in Int : p = x * y
  OBVIOUS
<1>4. Same(m, p * i)
  BY <1>1, <1>2, <1>3, MontSame
<1>5. p * i \in Int /\ Radix \in Int /\ Radix * i \in Int
  BY RadixInverse
<1>6. Same(m * Radix, (p * i) * Radix)
  BY <1>4, <1>5, SameTimes
<1>7. (p * i) * Radix = p * (Radix * i)
  BY <1>5
<1>8. Same(p * (Radix * i), p)
  BY <1>2, <1>5, TimesOne
<1>9. Same(m * Radix, p)
  BY <1>6, <1>7, <1>8, SameTrans
<1> QED BY <1>1, <1>3, <1>9 DEF Same, ToMontgomery

LEMMA FromToMontgomery ==
  ASSUME NEW x \in Int PROVE FromMontgomery(ToMontgomery(x)) = x % Order
<1>1. PICK p \in Int : p = x * Radix
  BY RadixInverse
<1>2. PICK m \in Int : m = ToMontgomery(x) /\ Same(m, p)
  BY <1>1, SameRemainder DEF ToMontgomery
<1>3. PICK i \in Int : i = ScalarInverse(Radix) /\ (Radix * i) % Order = 1
  BY RadixInverse
<1>4. Same(Mont(m, 1), (m * 1) * i)
  BY <1>3, MontSame
<1>5. Same(m * i, p * i)
  BY <1>2, SameTimes
<1>6. (m * 1) * i = m * i /\ p * i = x * (Radix * i) /\ Radix * i \in Int
  BY <1>1, RadixInverse
<1>7. Same(x * (Radix * i), x)
  BY <1>3, <1>6, TimesOne
<1>8. Same(Mont(m, 1), x)
  BY <1>4, <1>5, <1>6, <1>7, SameTrans
<1>9. Mont(m, 1) % Order = Mont(m, 1)
  BY MontInScalars, ModOfScalar
<1> QED BY <1>2, <1>8, <1>9 DEF Same, FromMontgomery

-----------------------------------------------------------------------------
(* Sums over finite sets.  SumFunction adds the values of a function one by *)
(* one, each time that of the element CHOOSE takes from those that are left. *)
Picked(s) == CHOOSE x \in s : TRUE

IsSums(sum, f, S) ==
  sum = [s \in SUBSET S |-> IF s = {} THEN 0 ELSE f[Picked(s)] + sum[s \ {Picked(s)}]]

SumsOf(f, S) == CHOOSE sum : IsSums(sum, f, S)
Total(f, S) == SumsOf(f, S)[S]

LEMMA TotalIs == ASSUME NEW f PROVE SumFunction(f) = Total(f, DOMAIN f)
BY DEF SumFunction, SumFunctionOnSet, FoldFunctionOnSet, MapThenFoldSet, IsSums, Picked, SumsOf, Total

LEMMA Least ==
  ASSUME NEW S \in SUBSET Nat, S # {}
  PROVE  \E m \in S : \A k \in S : m <= k
<1>1. PICK m \in S : \A k \in S : <<k, m>> \notin OpToRel(<, Nat)
  BY NatLessThanWellFounded, WFMin, Zenon
<1>2. \A k \in S : ~(k < m)
  BY <1>1, Zenon DEF OpToRel
<1> QED BY <1>2

LEMMA NumberInduction ==
  ASSUME NEW S, 0 \in S, \A n \in Nat : n \in S => n + 1 \in S
  PROVE  Nat \subseteq S
<1> SUFFICES ASSUME Nat \ S # {} PROVE FALSE
  OBVIOUS
<1>1. PICK m \in Nat \ S : \A k \in Nat \ S : m <= k
  BY Least
<1>2. m # 0 /\ m - 1 \in Nat /\ m - 1 \in S
  BY <1>1
<1> QED BY <1>1, <1>2

LEMMA SmallerSet ==
  ASSUME NEW s, IsFiniteSet(s)
  PROVE  /\ Cardinality(s) \in Nat /\ (Cardinality(s) = 0 <=> s = {})
         /\ s # {} => /\ Picked(s) \in s /\ IsFiniteSet(s \ {Picked(s)})
                      /\ Cardinality(s \ {Picked(s)}) = Cardinality(s) - 1
<1>1. s # {} => Picked(s) \in s
  BY DEF Picked
<1> QED BY <1>1, FS_CardinalityType, FS_EmptySet, FS_RemoveElement

(* Induction over the subsets of a finite set. *)
LEMMA SubsetInduction ==
  ASSUME NEW G, IsFiniteSet(G), NEW Sets, {} \in Sets,
         \A s \in SUBSET G : s # {} /\ s \ {Picked(s)} \in Sets => s \in Sets
  PROVE  SUBSET G \subseteq Sets
<1> SUFFICES ASSUME NEW t \in SUBSET G, t \notin Sets PROVE FALSE
  OBVIOUS
<1>0. \A s \in SUBSET G : IsFiniteSet(s)
  BY FS_Subset
<1> DEFINE S == {n \in Nat : \E s \in SUBSET G : s \notin Sets /\ Cardinality(s) = n}
<1>1. S \in SUBSET Nat /\ S # {}
  <2>1. Cardinality(t) \in Nat
    BY <1>0, SmallerSet
  <2> QED BY <2>1
<1>2. PICK n \in S : \A k \in S : n <= k
  BY <1>1, Least
<1>3. PICK s \in SUBSET G : s \notin Sets /\ Cardinality(s) = n
  BY <1>2
<1>4. s # {} /\ s \ {Picked(s)} \notin Sets
  BY <1>3
<1>5. n - 1 \in S
  <2>1. s \ {Picked(s)} \in SUBSET G
    OBVIOUS
  <2>2. Cardinality(s \ {Picked(s)}) = n - 1 /\ n \in Nat /\ n # 0
    BY <1>0, <1>3, <1>4, SmallerSet
  <2> QED BY <1>4, <2>1, <2>2
<1> QED BY <1>2, <1>5

(* The sums exist. *)
LEMMA SumsExist ==
  ASSUME NEW f, NEW G, IsFiniteSet(G) PROVE IsSums(SumsOf(f, G), f, G)
<1> DEFINE Step(g, s) == IF s = {} THEN 0 ELSE f[Picked(s)] + g[s \ {Picked(s)}]
           Upto(n) == {s \in SUBSET G : Cardinality(s) <= n}
           S == {n \in Nat : \E g : \A s \in Upto(n) : g[s] = Step(g, s)}
<1>0. \A s \in SUBSET G : IsFiniteSet(s)
  BY FS_Subset
<1>1. 0 \in S
  <2>1. ASSUME NEW s \in Upto(0) PROVE s = {}
    <3>1. s \in SUBSET G /\ Cardinality(s) <= 0
      OBVIOUS
    <3>2. Cardinality(s) \in Nat /\ (Cardinality(s) = 0 <=> s = {})
      BY <1>0, <3>1, SmallerSet
    <3> QED BY <3>1, <3>2
  <2> DEFINE g == [s \in SUBSET G |-> 0]
  <2>2. \A s \in Upto(0) : g[s] = Step(g, s)
    BY <2>1
  <2> HIDE DEF g, Step, Upto
  <2> QED BY <2>2
<1>2. ASSUME NEW n \in Nat, n \in S PROVE n + 1 \in S
  <2>1. PICK g : \A s \in Upto(n) : g[s] = Step(g, s)
    BY <1>2
  <2> DEFINE h == [s \in SUBSET G |-> IF Cardinality(s) <= n THEN g[s] ELSE Step(g, s)]
  <2>2. ASSUME NEW s \in Upto(n + 1) PROVE h[s] = Step(h, s)
    <3>1. h[s] = Step(g, s)
      BY <2>1
    <3>2. CASE s = {}
      BY <3>1, <3>2
    <3>3. CASE s # {}
      <4>1. IsFiniteSet(s) /\ Cardinality(s) <= n + 1 /\ s \ {Picked(s)} \in SUBSET G
        BY <1>0
      <4>2. Cardinality(s) \in Nat /\ Cardinality(s \ {Picked(s)}) = Cardinality(s) - 1
        BY <3>3, <4>1, SmallerSet
      <4>3. h[s \ {Picked(s)}] = g[s \ {Picked(s)}]
        BY <4>1, <4>2
      <4> HIDE DEF h
      <4> QED BY <3>1, <4>3
    <3> QED BY <3>2, <3>3
  <2> HIDE DEF h, Step, Upto
  <2> QED BY <2>2
<1> HIDE DEF S
<1>3. Nat \subseteq S
  BY <1>1, <1>2, NumberInduction
<1>4. PICK n \in Nat : n = Cardinality(G)
  BY SmallerSet
<1>5. PICK g : \A s \in Upto(n) : g[s] = Step(g, s)
  BY <1>3 DEF S
<1>6. \A s \in SUBSET G : Cardinality(s) <= n
  BY <1>4, FS_Subset
<1>7. IsSums([s \in SUBSET G |-> g[s]], f, G)
  <2>1. \A s \in SUBSET G : g[s] = Step(g, s)
    BY <1>5, <1>6
  <2>2. \A s \in SUBSET G : s # {} => s \ {Picked(s)} \in SUBSET G
    OBVIOUS
  <2> QED BY <2>1, <2>2 DEF IsSums
<1> QED BY <1>7 DEF SumsOf

LEMMA SumsStep ==
  ASSUME NEW f, NEW G, IsFiniteSet(G), NEW s \in SUBSET G
  PROVE  SumsOf(f, G)[s] = IF s = {} THEN 0 ELSE f[Picked(s)] + SumsOf(f, G)[s \ {Picked(s)}]
<1>1. PICK sum : sum = SumsOf(f, G) /\ IsSums(sum, f, G)
  BY SumsExist
<1>2. sum[s] = IF s = {} THEN 0 ELSE f[Picked(s)] + sum[s \ {Picked(s)}]
  BY <1>1 DEF IsSums
<1> QED BY <1>1, <1>2

(* The sum over a set does not depend on the set it is taken in. *)
LEMMA SumsAgree ==
  ASSUME NEW f, NEW G, IsFiniteSet(G), NEW s \in SUBSET G
  PROVE  SumsOf(f, G)[s] = Total(f, s)
<1>0. IsFiniteSet(s)
  BY FS_Subset
<1> DEFINE Sets == {t \in SUBSET s : SumsOf(f, G)[t] = SumsOf(f, s)[t]}
<1>1. {} \in Sets
  BY <1>0, SumsStep
<1>2. ASSUME NEW t \in SUBSET s, t # {}, t \ {Picked(t)} \in Sets PROVE t \in Sets
  <2>1. SumsOf(f, G)[t] = f[Picked(t)] + SumsOf(f, G)[t \ {Picked(t)}]
    BY <1>2, SumsStep
  <2>2. SumsOf(f, s)[t] = f[Picked(t)] + SumsOf(f, s)[t \ {Picked(t)}]
    BY <1>0, <1>2, SumsStep
  <2> QED BY <1>2, <2>1, <2>2
<1> HIDE DEF Sets
<1>3. SUBSET s \subseteq Sets
  BY <1>0, <1>1, <1>2, SubsetInduction
<1>4. s \in Sets
  BY <1>3
<1> QED BY <1>4 DEF Sets, Total

LEMMA TotalNone == ASSUME NEW f PROVE Total(f, {}) = 0
<1>1. IsFiniteSet({})
  BY FS_EmptySet
<1> QED BY <1>1, SumsStep DEF Total

LEMMA TotalStep ==
  ASSUME NEW f, NEW s, IsFiniteSet(s), s # {}
  PROVE  Total(f, s) = f[Picked(s)] + Total(f, s \ {Picked(s)})
<1>1. SumsOf(f, s)[s] = f[Picked(s)] + SumsOf(f, s)[s \ {Picked(s)}]
  BY SumsStep
<1>2. SumsOf(f, s)[s \ {Picked(s)}] = Total(f, s \ {Picked(s)})
  BY SumsAgree
<1> QED BY <1>1, <1>2 DEF Total

LEMMA TotalType ==
  ASSUME NEW f, NEW s, IsFiniteSet(s), NEW D, D \in {Nat, Int}, \A x \in s : f[x] \in D
  PROVE  Total(f, s) \in D
<1> DEFINE Sets == {t \in SUBSET s : Total(f, t) \in D}
<1>1. {} \in Sets
  BY TotalNone
<1>2. ASSUME NEW t \in SUBSET s, t # {}, t \ {Picked(t)} \in Sets PROVE t \in Sets
  <2>1. IsFiniteSet(t) /\ Picked(t) \in t
    BY <1>2, FS_Subset, SmallerSet
  <2>2. Total(f, t) = f[Picked(t)] + Total(f, t \ {Picked(t)})
    BY <1>2, <2>1, TotalStep
  <2> QED BY <1>2, <2>1, <2>2
<1> HIDE DEF Sets
<1>3. s \in Sets
  BY <1>1, <1>2, SubsetInduction
<1> QED BY <1>3 DEF Sets

(* Functions with the same values on a set, modulo the order, have the same *)
(* sums modulo the order.                                                   *)
LEMMA TotalSame ==
  ASSUME NEW f, NEW g, NEW s, IsFiniteSet(s),
         \A x \in s : f[x] \in Int /\ g[x] \in Int /\ Same(f[x], g[x])
  PROVE  Same(Total(f, s), Total(g, s))
<1> DEFINE Sets == {t \in SUBSET s : Same(Total(f, t), Total(g, t))}
<1>1. {} \in Sets
  BY TotalNone DEF Same
<1>2. ASSUME NEW t \in SUBSET s, t # {}, t \ {Picked(t)} \in Sets PROVE t \in Sets
  <2>1. IsFiniteSet(t) /\ IsFiniteSet(t \ {Picked(t)}) /\ Picked(t) \in t
    BY <1>2, FS_Subset, SmallerSet
  <2>2. Total(f, t \ {Picked(t)}) \in Int /\ Total(g, t \ {Picked(t)}) \in Int
    BY <2>1, TotalType
  <2>3. /\ Total(f, t) = f[Picked(t)] + Total(f, t \ {Picked(t)})
        /\ Total(g, t) = g[Picked(t)] + Total(g, t \ {Picked(t)})
    BY <1>2, <2>1, TotalStep
  <2>4. Same(Total(f, t \ {Picked(t)}), Total(g, t \ {Picked(t)}))
    BY <1>2
  <2>5. Same(Total(f, t), Total(g, t))
    BY <2>1, <2>2, <2>3, <2>4, SameSum
  <2> QED BY <2>5
<1> HIDE DEF Sets
<1>3. s \in Sets
  BY <1>1, <1>2, SubsetInduction
<1> QED BY <1>3 DEF Sets

LEMMA TotalEqual ==
  ASSUME NEW f, NEW g, NEW s, IsFiniteSet(s), \A x \in s : f[x] = g[x]
  PROVE  Total(f, s) = Total(g, s)
<1> DEFINE Sets == {t \in SUBSET s : Total(f, t) = Total(g, t)}
<1>1. {} \in Sets
  BY TotalNone
<1>2. ASSUME NEW t \in SUBSET s, t # {}, t \ {Picked(t)} \in Sets PROVE t \in Sets
  <2>1. IsFiniteSet(t) /\ Picked(t) \in t
    BY <1>2, FS_Subset, SmallerSet
  <2>2. /\ Total(f, t) = f[Picked(t)] + Total(f, t \ {Picked(t)})
        /\ Total(g, t) = g[Picked(t)] + Total(g, t \ {Picked(t)})
    BY <1>2, <2>1, TotalStep
  <2> QED BY <1>2, <2>1, <2>2
<1> HIDE DEF Sets
<1>3. s \in Sets
  BY <1>1, <1>2, SubsetInduction
<1> QED BY <1>3 DEF Sets

(* Any element may be added last. *)
LEMMA TotalRemove ==
  ASSUME NEW f, NEW s, IsFiniteSet(s), \A x \in s : f[x] \in Int, NEW y \in s
  PROVE  Total(f, s) = f[y] + Total(f, s \ {y})
<1> DEFINE S == {n \in Nat : \A t \in SUBSET s : Cardinality(t) = n =>
                                \A x \in t : Total(f, t) = f[x] + Total(f, t \ {x})}
<1>0. \A t \in SUBSET s : IsFiniteSet(t) /\ Total(f, t) \in Int /\ Cardinality(t) \in Nat
  <2> SUFFICES ASSUME NEW t \in SUBSET s
               PROVE  IsFiniteSet(t) /\ Total(f, t) \in Int /\ Cardinality(t) \in Nat
    OBVIOUS
  <2>1. IsFiniteSet(t)
    BY FS_Subset
  <2> QED BY <2>1, TotalType, FS_CardinalityType
<1>1. 0 \in S
  <2> SUFFICES ASSUME NEW t \in SUBSET s, Cardinality(t) = 0 PROVE t = {}
    OBVIOUS
  <2> QED BY <1>0, SmallerSet
<1>2. ASSUME NEW n \in Nat, n \in S PROVE n + 1 \in S
  <2> SUFFICES ASSUME NEW t \in SUBSET s, Cardinality(t) = n + 1, NEW x \in t
               PROVE  Total(f, t) = f[x] + Total(f, t \ {x})
    OBVIOUS
  <2> DEFINE p == Picked(t)
             u == t \ {p}
             v == t \ {x}
  <2>1. p \in t /\ Cardinality(u) = n /\ Total(f, t) = f[p] + Total(f, u)
    BY <1>0, SmallerSet, TotalStep
  <2>2. CASE x = p
    BY <2>1, <2>2
  <2>3. CASE x # p
    <3>1. Cardinality(v) = n
      <4>1. Cardinality(v) = Cardinality(t) - 1
        BY <1>0, FS_RemoveElement
      <4> QED BY <4>1
    <3>2. Total(f, u) = f[x] + Total(f, u \ {x})
      BY <1>2, <2>1, <2>3
    <3>3. Total(f, v) = f[p] + Total(f, v \ {p})
      BY <1>2, <2>1, <2>3, <3>1
    <3>4. u \ {x} = v \ {p} /\ u \ {x} \in SUBSET s
      OBVIOUS
    <3>5. f[p] \in Int /\ f[x] \in Int /\ Total(f, u \ {x}) \in Int
      BY <1>0, <2>1, <3>4
    <3>6. Total(f, t) = f[p] + (f[x] + Total(f, u \ {x}))
      BY <2>1, <3>2
    <3>7. Total(f, v) = f[p] + Total(f, u \ {x})
      BY <3>3, <3>4
    <3> HIDE DEF p, u
    <3> QED BY <3>5, <3>6, <3>7
  <2> QED BY <2>2, <2>3
<1> HIDE DEF S
<1>3. Nat \subseteq S
  BY <1>1, <1>2, NumberInduction
<1>4. Cardinality(s) \in S
  BY <1>0, <1>3
<1> QED BY <1>4 DEF S

LEMMA TotalAdd ==
  ASSUME NEW f, NEW s, IsFiniteSet(s), NEW y, y \notin s, \A x \in s \cup {y} : f[x] \in Int
  PROVE  Total(f, s \cup {y}) = f[y] + Total(f, s)
<1>1. IsFiniteSet(s \cup {y}) /\ (s \cup {y}) \ {y} = s
  BY FS_AddElement
<1>2. Total(f, s \cup {y}) = f[y] + Total(f, (s \cup {y}) \ {y})
  BY <1>1, TotalRemove
<1> QED BY <1>1, <1>2

-----------------------------------------------------------------------------
(* The parallel accumulation. *)
LEMMA CoefType ==
  ASSUME NEW i \in Indices
  PROVE  Coefs[i].c \in Domain /\ Coefs[i].s \in 0 .. NVars - 1 /\ Coefs[i].coef \in Scalars
<1> DEFINE Record == [m : {0, 1}, c : Domain, s : 0 .. NVars - 1, coef : Scalars]
<1>1. Coefs \in Seq(Record)
  BY ProverAssumption
<1>2. Coefs[i] \in Record
  <2> HIDE DEF Record
  <2> QED BY <1>1 DEF Indices
<1> QED BY <1>2

LEMMA LengthType == Len(Coefs) \in Nat
  BY ProverAssumption

LEMMA LockType == ASSUME NEW i \in Indices PROVE LockOf(i) \in Locks
<1>1. Coefs[i].c \in Int /\ NLOCKS \in Nat \ {0}
  BY CoefType, ProverAssumption DEF Domain
<1> QED BY <1>1 DEF LockOf, Locks

LEMMA AuxType ==
  ASSUME NEW i \in Indices, wtns \in Witnesses PROVE Aux(i) \in Scalars
<1>1. wtns[Coefs[i].s] \in Scalars
  BY CoefType, ProverAssumption
<1> QED BY <1>1, CoefType, MontInScalars, ScalarInt DEF Aux, AuxOf

(* A thread between its read and its write is at a coefficient, in the    *)
(* phase of the accumulation, owns the lock of the coefficient's row, and *)
(* has read what the cell still holds.                                    *)
Holds(t) ==
  /\ phase = "coefs"
  /\ next[t] \in Indices
  /\ owner[LockOf(next[t])] = t
  /\ read[t] = ab[Column(next[t])][Coefs[next[t]].c]

Held == \A t \in Threads : read[t] # NoValue => Holds(t)

AccumulateInv == ProverTypeOK /\ Held

LEMMA AccumulateInit == ProverInit => AccumulateInv
<1> SUFFICES ASSUME ProverInit PROVE AccumulateInv
  OBVIOUS
<1>1. 0 \in Scalars
  BY ProverAssumption DEF Scalars
<1> QED BY <1>1, ProverAssumption DEF ProverInit, AccumulateInv, ProverTypeOK, Held

LEMMA TakeInv == ASSUME AccumulateInv, NEW t \in Threads, Take(t) PROVE AccumulateInv'
<1>1. next[t] \in Indices
  <2>1. next[t] \in Nat \ {0} /\ End[t] \in Nat /\ End[t] <= Len(Coefs) + 1 /\ next[t] < End[t]
    BY ProverAssumption DEF AccumulateInv, ProverTypeOK, Take
  <2> QED BY <2>1, LengthType DEF Indices
<1>2. /\ LockOf(next[t]) \in Locks /\ Column(next[t]) \in {0, 1} /\ Coefs[next[t]].c \in Domain
  BY <1>1, LockType, CoefType DEF Column
<1>3. ProverTypeOK'
  BY <1>2 DEF AccumulateInv, ProverTypeOK, Take
<1>4. ASSUME NEW u \in Threads, read'[u] # NoValue PROVE Holds(u)'
  <2>1. CASE u = t
    BY <2>1, <1>1, <1>2 DEF AccumulateInv, ProverTypeOK, Take, Holds, LockOf, Column
  <2>2. CASE u # t
    <3>1. read[u] # NoValue /\ Holds(u)
      BY <1>4, <2>2 DEF AccumulateInv, ProverTypeOK, Take, Held
    <3>2. LockOf(next[u]) # LockOf(next[t])
      BY <3>1, <2>2, ProverAssumption DEF Take, Holds
    <3> QED BY <3>1, <3>2, <2>2, <1>2 DEF AccumulateInv, ProverTypeOK, Take, Holds, LockOf, Column
  <2> QED BY <2>1, <2>2
<1> QED BY <1>3, <1>4 DEF AccumulateInv, Held

LEMMA StoreInv == ASSUME AccumulateInv, NEW t \in Threads, Store(t) PROVE AccumulateInv'
<1>1. Holds(t)
  BY DEF AccumulateInv, Held, Store
<1>2. /\ LockOf(next[t]) \in Locks /\ Column(next[t]) \in {0, 1} /\ Coefs[next[t]].c \in Domain
  BY <1>1, LockType, CoefType DEF Column, Holds
<1>3. (read[t] + Aux(next[t])) % Order \in Scalars
  <2>1. Aux(next[t]) \in Scalars
    BY <1>1, AuxType DEF AccumulateInv, ProverTypeOK, Holds
  <2>2. read[t] \in Int
    BY ProverAssumption DEF AccumulateInv, ProverTypeOK, NoValue, Scalars
  <2> QED BY <2>1, <2>2, ModInScalars DEF Scalars
<1>4. ProverTypeOK'
  <2>1. ab' \in [{0, 1} -> [Domain -> Scalars]]
    BY <1>2, <1>3 DEF AccumulateInv, ProverTypeOK, Store
  <2> QED BY <2>1, <1>2 DEF AccumulateInv, ProverTypeOK, Store
<1>5. ASSUME NEW u \in Threads, read'[u] # NoValue PROVE Holds(u)'
  <2>1. u # t /\ read[u] # NoValue /\ Holds(u)
    BY <1>5 DEF AccumulateInv, ProverTypeOK, Store, Held
  <2>2. LockOf(next[u]) # LockOf(next[t])
    BY <2>1, <1>1 DEF Holds
  <2>3. Coefs[next[u]].c # Coefs[next[t]].c
    BY <2>2 DEF LockOf
  <2>4. Column(next[u]) \in {0, 1} /\ Coefs[next[u]].c \in Domain
    BY <2>1, CoefType DEF Column, Holds
  <2>5. ab'[Column(next[u])][Coefs[next[u]].c] = ab[Column(next[u])][Coefs[next[u]].c]
    BY <2>3, <2>4, <1>2 DEF AccumulateInv, ProverTypeOK, Store
  <2>6. /\ next'[u] = next[u] /\ read'[u] = read[u] /\ phase' = phase
        /\ owner'[LockOf(next[u])] = owner[LockOf(next[u])]
    BY <2>1, <2>2, <1>2 DEF AccumulateInv, ProverTypeOK, Store
  <2> QED BY <2>1, <2>5, <2>6 DEF Holds, LockOf, Column
<1> QED BY <1>4, <1>5 DEF AccumulateInv, Held

LEMMA ZeroInv == AccumulateInv /\ Zero => AccumulateInv'
<1> SUFFICES ASSUME AccumulateInv, Zero PROVE AccumulateInv'
  OBVIOUS
<1>1. 0 \in Scalars
  BY ProverAssumption DEF Scalars
<1> QED BY <1>1 DEF AccumulateInv, ProverTypeOK, Zero, Held, Holds

LEMMA AccumulateNext == AccumulateInv /\ [ProverNext]_proverVars => AccumulateInv'
<1> SUFFICES ASSUME AccumulateInv, [ProverNext]_proverVars PROVE AccumulateInv'
  OBVIOUS
<1>1. CASE MultiExp
  BY <1>1 DEF AccumulateInv, ProverTypeOK, MultiExp, Held, Holds
<1>2. CASE Zero
  BY <1>2, ZeroInv
<1>3. CASE Quotient
  BY <1>3 DEF AccumulateInv, ProverTypeOK, Quotient, Joined, Held
<1>4. CASE Assemble
  BY <1>4 DEF AccumulateInv, ProverTypeOK, Assemble, Held, Holds
<1>5. ASSUME NEW t \in Threads, Take(t) PROVE AccumulateInv'
  BY <1>5, TakeInv
<1>6. ASSUME NEW t \in Threads, Store(t) PROVE AccumulateInv'
  BY <1>6, StoreInv
<1>7. CASE UNCHANGED proverVars
  BY <1>7 DEF AccumulateInv, ProverTypeOK, Held, Holds, LockOf, Column, proverVars
<1> QED BY <1>1, <1>2, <1>3, <1>4, <1>5, <1>6, <1>7 DEF ProverNext

(* A proof is one of ProverSpec and a verification: its prover is ProverSpec. *)
LEMMA PipelineProves == Spec => ProverSpec
<1>1. Init => ProverInit
  BY DEF Init
<1>2. [Next]_vars => [ProverNext]_proverVars
  BY DEF Next, Send, Verify, Exit, vars
<1> QED BY <1>1, <1>2, PTL DEF Spec, ProverSpec

(* The accumulation's variables keep their types (groth16.cpp:83-119). *)
THEOREM ProverTypes == Spec => []ProverTypeOK
<1>1. AccumulateInv => ProverTypeOK
  BY DEF AccumulateInv
<1> QED BY <1>1, AccumulateInit, AccumulateNext, PipelineProves, PTL DEF ProverSpec

(* No write of the accumulation overwrites another thread's               *)
(* (groth16.cpp:98-119): each adds to the value the cell has at the time. *)
THEOREM NothingLost == Spec => AddsProduct
<1> DEFINE Adds ==
      \A t \in Threads :
        next'[t] # next[t] =>
          LET m == Column(next[t])
              c == Coefs[next[t]].c
          IN  /\ ab'[m][c] = (ab[m][c] + Aux(next[t])) % Order
              /\ \A d \in {0, 1}, i \in Domain :
                   <<d, i>> # <<m, c>> => ab'[d][i] = ab[d][i]
<1>1. AccumulateInv /\ [ProverNext]_proverVars => [Adds]_proverVars
  <2> SUFFICES ASSUME AccumulateInv, ProverNext, NEW t \in Threads, next'[t] # next[t]
               PROVE  /\ ab'[Column(next[t])][Coefs[next[t]].c]
                           = (ab[Column(next[t])][Coefs[next[t]].c] + Aux(next[t])) % Order
                      /\ \A d \in {0, 1}, i \in Domain :
                           <<d, i>> # <<Column(next[t]), Coefs[next[t]].c>> => ab'[d][i] = ab[d][i]
    OBVIOUS
  <2>1. Store(t)
    BY DEF ProverNext, MultiExp, Zero, Quotient, Assemble, Take, Store, AccumulateInv, ProverTypeOK
  <2>2. Holds(t)
    BY <2>1 DEF AccumulateInv, Held, Store
  <2>3. Column(next[t]) \in {0, 1} /\ Coefs[next[t]].c \in Domain
    BY <2>2, CoefType DEF Column, Holds
  <2> QED BY <2>1, <2>2, <2>3 DEF AccumulateInv, ProverTypeOK, Store, Holds
<1> QED BY <1>1, AccumulateInit, AccumulateNext, PipelineProves, PTL DEF ProverSpec, AddsProduct

-----------------------------------------------------------------------------
(* The sums are complete.  Done are the coefficients that are in; a cell is *)
(* the sum over those of its matrix and row.                                *)
Products == [i \in Indices |-> Aux(i)]
Done == {i \in Indices : \E t \in Threads : Begin[t] <= i /\ i < next[t]}
Added(m, c) == Entries(m, c) \cap Done

InChunk(t) ==
  /\ Begin[t] <= next[t]
  /\ next[t] = Begin[t] \/ next[t] <= End[t]
  /\ read[t] # NoValue => next[t] < End[t]

SumsInv ==
  /\ AccumulateInv
  /\ \A t \in Threads : InChunk(t)
  /\ phase \in {"msm", "zero"} => next = Begin
  /\ phase \in {"coefs", "assemble", "proved"} =>
       \A m \in {0, 1}, c \in Domain : ab[m][c] = Total(Products, Added(m, c)) % Order
  /\ phase \in {"assemble", "proved"} => Done = Indices

LEMMA IndicesFinite == ASSUME NEW S \in SUBSET Indices PROVE IsFiniteSet(S)
<1>1. IsFiniteSet(Indices)
  BY LengthType, FS_Interval DEF Indices
<1> QED BY <1>1, FS_Subset

LEMMA NothingDone == next = Begin => Done = {}
<1> SUFFICES ASSUME next = Begin, NEW i \in Indices, NEW t \in Threads,
                    Begin[t] <= i, i < next[t]
             PROVE  FALSE
  BY DEF Done
<1>1. i \in Nat /\ Begin[t] \in Nat
  BY ProverAssumption, LengthType DEF Indices
<1> QED BY <1>1

LEMMA JoinedDone == ASSUME ProverTypeOK, Joined PROVE Done = Indices
<1> SUFFICES ASSUME NEW i \in Indices PROVE i \in Done
  BY DEF Done
<1>1. PICK t \in Threads : i \in Chunk(t)
  BY ChunksAssumption
<1>2. Begin[t] \in Nat /\ End[t] \in Nat /\ next[t] \in Nat /\ next[t] >= End[t]
  BY ProverAssumption DEF ProverTypeOK, Joined
<1>3. Begin[t] <= i /\ i < next[t]
  BY <1>1, <1>2 DEF Chunk
<1> QED BY <1>3 DEF Done

(* A write adds one coefficient that was not in. *)
LEMMA StoreDone ==
  ASSUME SumsInv, NEW t \in Threads, Store(t)
  PROVE  /\ next[t] \in Indices /\ next[t] \notin Done
         /\ Done' = Done \cup {next[t]}
<1>1. ProverTypeOK /\ Holds(t)
  BY DEF SumsInv, AccumulateInv, Held, Store
<1>2. next[t] \in Indices /\ \A u \in Threads : next[u] \in Nat /\ Begin[u] \in Nat /\ End[u] \in Nat
  BY <1>1, ProverAssumption DEF Holds, ProverTypeOK
<1>3. Begin[t] <= next[t] /\ next[t] < End[t]
  BY DEF SumsInv, InChunk, Store
<1>4. next[t] \in Chunk(t)
  BY <1>2, <1>3 DEF Chunk
<1>5. ASSUME NEW u \in Threads, Begin[u] <= next[t], next[t] < next[u] PROVE FALSE
  <2>1. u # t
    BY <1>2, <1>5
  <2>2. next[u] <= End[u]
    <3>1. next[u] = Begin[u] \/ next[u] <= End[u]
      BY DEF SumsInv, InChunk
    <3> QED BY <1>2, <1>5, <3>1
  <2>3. next[t] \in Chunk(u)
    BY <1>2, <1>5, <2>2 DEF Chunk
  <2> QED BY <1>4, <2>1, <2>3, ChunksAssumption
<1>6. next' = [next EXCEPT ![t] = next[t] + 1] /\ DOMAIN next = Threads
  BY <1>1 DEF Store, ProverTypeOK
<1>7. ASSUME NEW i \in Indices
      PROVE  (\E u \in Threads : Begin[u] <= i /\ i < next'[u])
               <=> i = next[t] \/ \E u \in Threads : Begin[u] <= i /\ i < next[u]
  <2>1. i \in Nat
    BY LengthType DEF Indices
  <2>2. next'[t] = next[t] + 1 /\ \A u \in Threads \ {t} : next'[u] = next[u]
    BY <1>6
  <2>3. i < next'[t] <=> i = next[t] \/ i < next[t]
    BY <1>2, <2>1, <2>2
  <2> QED BY <1>3, <2>2, <2>3
<1> QED BY <1>2, <1>5, <1>7 DEF Done

LEMMA ProductsType ==
  ASSUME wtns \in Witnesses, NEW i \in Indices
  PROVE  Products[i] = Aux(i) /\ Products[i] \in Int
BY AuxType, ScalarInt DEF Products

LEMMA SumsInit == ProverInit => SumsInv
<1> SUFFICES ASSUME ProverInit PROVE SumsInv
  OBVIOUS
<1>1. AccumulateInv
  BY AccumulateInit
<1>2. ASSUME NEW t \in Threads PROVE InChunk(t)
  <2>1. Begin[t] \in Nat
    BY ProverAssumption
  <2> QED BY <2>1 DEF ProverInit, InChunk
<1> QED BY <1>1, <1>2 DEF ProverInit, SumsInv

LEMMA StoreSums == ASSUME SumsInv, NEW t \in Threads, Store(t) PROVE SumsInv'
<1> DEFINE n == next[t]
           m == Column(n)
           c == Coefs[n].c
<1>1. AccumulateInv' /\ ProverTypeOK /\ Holds(t)
  BY StoreInv DEF SumsInv, AccumulateInv, Held, Store
<1>2. n \in Indices /\ n \notin Done /\ Done' = Done \cup {n}
  BY StoreDone
<1>3. /\ m \in {0, 1} /\ c \in Domain /\ phase = "coefs" /\ phase' = "coefs"
      /\ read[t] = ab[m][c] /\ wtns \in Witnesses /\ wtns' = wtns
  BY <1>1, <1>2, CoefType DEF Holds, Column, Store, ProverTypeOK
<1>4. Products' = Products
  BY <1>3 DEF Products, Aux
<1>5. \A u \in Threads : InChunk(u)'
  <2> SUFFICES ASSUME NEW u \in Threads PROVE InChunk(u)'
    OBVIOUS
  <2>1. InChunk(u) /\ InChunk(t)
    BY DEF SumsInv
  <2>2. CASE u = t
    <3>1. next'[t] = next[t] + 1 /\ read'[t] = NoValue
      BY <1>1 DEF Store, ProverTypeOK
    <3>2. next[t] \in Nat /\ Begin[t] \in Nat /\ End[t] \in Nat
      BY <1>1, ProverAssumption DEF ProverTypeOK
    <3> QED BY <2>1, <2>2, <3>1, <3>2 DEF InChunk, Store
  <2>3. CASE u # t
    <3>1. next'[u] = next[u] /\ read'[u] = read[u]
      BY <1>1, <2>3 DEF Store, ProverTypeOK
    <3> QED BY <2>1, <3>1 DEF InChunk
  <2> QED BY <2>2, <2>3
<1>6. ASSUME NEW d \in {0, 1}, NEW i \in Domain
      PROVE  ab'[d][i] = Total(Products, Added(d, i)') % Order
  <2>1. ab[d][i] = Total(Products, Added(d, i)) % Order
    BY <1>3 DEF SumsInv
  <2>2. CASE d = m /\ i = c
    <3>1. Added(d, i)' = Added(d, i) \cup {n} /\ n \notin Added(d, i)
      BY <1>2, <2>2 DEF Added, Entries, Column
    <3>2. IsFiniteSet(Added(d, i)) /\ Added(d, i) \cup {n} \in SUBSET Indices
      <4>1. Added(d, i) \in SUBSET Indices
        BY DEF Added, Done
      <4> QED BY <1>2, <4>1, IndicesFinite
    <3>3. \A x \in Added(d, i) \cup {n} : Products[x] \in Int
      BY <1>3, <3>2, ProductsType
    <3>4. Total(Products, Added(d, i) \cup {n}) = Products[n] + Total(Products, Added(d, i))
      BY <3>1, <3>2, <3>3, TotalAdd
    <3>5. PICK x \in Int : x = Total(Products, Added(d, i))
      BY <3>2, <3>3, TotalType
    <3>6. PICK y \in Int : y = Products[n] /\ y = Aux(n)
      BY <1>2, <1>3, ProductsType
    <3>7. ab'[d][i] = (read[t] + Aux(n)) % Order
      BY <1>1, <1>3, <2>2 DEF Store, ProverTypeOK
    <3>8. ab'[d][i] = ((x % Order) + y) % Order
      BY <1>3, <2>1, <2>2, <3>5, <3>6, <3>7
    <3>9. ((x % Order) + y) % Order = (x + y) % Order
      BY ModAdd
    <3>10. Total(Products, Added(d, i)') = x + y
      BY <3>1, <3>4, <3>5, <3>6
    <3> QED BY <3>8, <3>9, <3>10
  <2>3. CASE ~(d = m /\ i = c)
    <3>1. Added(d, i)' = Added(d, i)
      <4>1. n \notin Entries(d, i)
        BY <2>3 DEF Entries
      <4> QED BY <1>2, <4>1 DEF Added, Entries, Column
    <3>2. ab'[d][i] = ab[d][i]
      BY <1>1, <1>3, <2>3 DEF Store, ProverTypeOK
    <3> QED BY <2>1, <3>1, <3>2
  <2> QED BY <2>2, <2>3
<1>7. \A d \in {0, 1}, i \in Domain : (ab[d][i] = Total(Products, Added(d, i)) % Order)'
  BY <1>4, <1>6
<1> QED BY <1>1, <1>3, <1>5, <1>7 DEF SumsInv

LEMMA ZeroSums == ASSUME SumsInv, Zero PROVE SumsInv'
<1>1. AccumulateInv'
  BY ZeroInv DEF SumsInv
<1>2. Done = {}
  BY NothingDone DEF SumsInv, Zero
<1>3. Done' = {}
  BY <1>2 DEF Zero, Done
<1>4. ASSUME NEW m \in {0, 1}, NEW c \in Domain
      PROVE  ab'[m][c] = Total(Products, Added(m, c))' % Order
  <2>1. Added(m, c)' = {}
    BY <1>3 DEF Added
  <2>2. Total(Products, Added(m, c))' = 0
    BY <2>1, TotalNone
  <2>3. ab'[m][c] = 0 /\ 0 \in Scalars
    BY OrderType DEF Zero, Scalars
  <2> QED BY <2>2, <2>3, ModOfScalar
<1>5. \A t \in Threads : InChunk(t)'
  BY DEF SumsInv, InChunk, Zero
<1> QED BY <1>1, <1>4, <1>5 DEF SumsInv, Zero

(* A step that leaves the witness, the columns and the positions alone. *)
LEMMA SumsKept ==
  ASSUME SumsInv, AccumulateInv', UNCHANGED <<wtns, ab, next>>,
         \A t \in Threads : InChunk(t)',
         \/ phase' = phase
         \/ phase = "msm" /\ phase' = "zero"
         \/ phase = "coefs" /\ phase' = "assemble" /\ Done = Indices
         \/ phase = "assemble" /\ phase' = "proved"
  PROVE  SumsInv'
<1>1. Done' = Done /\ Products' = Products /\ \A m, c : Added(m, c)' = Added(m, c)
  BY DEF Done, Products, Aux, Added, Entries, Column
<1>2. \A m, c : (ab[m][c] = Total(Products, Added(m, c)) % Order)'
                  <=> ab[m][c] = Total(Products, Added(m, c)) % Order
  BY <1>1
<1> QED BY <1>1, <1>2 DEF SumsInv

LEMMA SumsNext == SumsInv /\ [ProverNext]_proverVars => SumsInv'
<1> SUFFICES ASSUME SumsInv, [ProverNext]_proverVars PROVE SumsInv'
  OBVIOUS
<1>1. AccumulateInv' /\ ProverTypeOK /\ ProverTypeOK'
  BY AccumulateNext DEF SumsInv, AccumulateInv
<1>2. CASE MultiExp
  BY <1>1, <1>2, SumsKept DEF SumsInv, InChunk, MultiExp
<1>3. CASE Zero
  BY <1>3, ZeroSums
<1>4. CASE Quotient
  BY <1>1, <1>4, SumsKept, JoinedDone DEF SumsInv, InChunk, Quotient
<1>5. CASE Assemble
  BY <1>1, <1>5, SumsKept DEF SumsInv, InChunk, Assemble
<1>6. ASSUME NEW t \in Threads, Take(t) PROVE SumsInv'
  <2>1. ASSUME NEW u \in Threads PROVE InChunk(u)'
    <3>1. CASE u = t
      BY <1>1, <1>6, <3>1 DEF SumsInv, InChunk, Take
    <3>2. CASE u # t
      BY <1>1, <1>6, <3>2 DEF SumsInv, InChunk, Take, ProverTypeOK
    <3> QED BY <3>1, <3>2
  <2> QED BY <1>1, <1>6, <2>1, SumsKept DEF Take
<1>7. ASSUME NEW t \in Threads, Store(t) PROVE SumsInv'
  BY <1>7, StoreSums
<1>8. CASE UNCHANGED proverVars
  BY <1>1, <1>8, SumsKept DEF SumsInv, InChunk, proverVars
<1> QED BY <1>2, <1>3, <1>4, <1>5, <1>6, <1>7, <1>8 DEF ProverNext

LEMMA SumsImply == SumsInv => SumsComplete
<1> SUFFICES ASSUME SumsInv, phase \in {"assemble", "proved"}, NEW m \in {0, 1}, NEW c \in Domain
             PROVE  ab[m][c] = SumFunction([i \in Entries(m, c) |-> Aux(i)]) % Order
  BY DEF SumsComplete, CellOf, Aux
<1>1. Added(m, c) = Entries(m, c) /\ Entries(m, c) \in SUBSET Indices
  BY DEF SumsInv, Added, Entries
<1> DEFINE f == [i \in Entries(m, c) |-> Aux(i)]
<1>2. SumFunction(f) = Total(f, Entries(m, c))
  BY TotalIs
<1>3. Total(f, Entries(m, c)) = Total(Products, Entries(m, c))
  BY <1>1, IndicesFinite, TotalEqual DEF Products
<1> QED BY <1>1, <1>2, <1>3 DEF SumsInv

(* The sums the transforms start from are complete (groth16.cpp:98-124),     *)
(* for every division into chunks and every order of the threads' steps.     *)
THEOREM SumsCorrect == Spec => []SumsComplete
BY SumsInit, SumsNext, SumsImply, PipelineProves, PTL DEF ProverSpec

-----------------------------------------------------------------------------
(* The numbers the prover computes with are scalars. *)
IsPowers(f, x, n) == f = [k \in 0 .. n |-> IF k = 0 THEN 1 ELSE (x * f[k - 1]) % Order]

LEMMA PowersExist == ASSUME NEW x, NEW n \in Nat PROVE \E f : IsPowers(f, x, n)
<1> DEFINE S == {k \in Nat : \E f : IsPowers(f, x, k)}
<1>1. 0 \in S
  <2>1. IsPowers([k \in 0 .. 0 |-> 1], x, 0)
    BY DEF IsPowers
  <2> QED BY <2>1
<1>2. ASSUME NEW k \in Nat, k \in S PROVE k + 1 \in S
  <2>1. PICK g : IsPowers(g, x, k)
    BY <1>2
  <2> DEFINE h == [i \in 0 .. k + 1 |-> IF i <= k THEN g[i] ELSE (x * g[k]) % Order]
  <2>2. ASSUME NEW i \in 0 .. k + 1
        PROVE  h[i] = IF i = 0 THEN 1 ELSE (x * h[i - 1]) % Order
    <3>1. CASE i = 0
      BY <2>1, <3>1 DEF IsPowers
    <3>2. CASE i # 0 /\ i <= k
      BY <2>1, <3>2 DEF IsPowers
    <3>3. CASE i = k + 1
      BY <3>3
    <3> QED BY <3>1, <3>2, <3>3
  <2>3. IsPowers(h, x, k + 1)
    BY <2>2 DEF IsPowers
  <2> QED BY <2>3
<1> HIDE DEF S
<1>3. n \in S
  BY <1>1, <1>2, NumberInduction
<1> QED BY <1>3 DEF S

LEMMA PowerType == ASSUME NEW x \in Int, NEW e \in Nat PROVE Power(x, e) \in Int
<1> DEFINE f == CHOOSE g : IsPowers(g, x, e)
           S == {k \in Nat : k <= e => f[k] \in Int}
<1>1. Power(x, e) = f[e]
  BY DEF Power, IsPowers
<1>2. IsPowers(f, x, e)
  BY PowersExist
<1> HIDE DEF f
<1>3. 0 \in S
  BY <1>2 DEF IsPowers
<1>4. ASSUME NEW k \in Nat, k \in S PROVE k + 1 \in S
  <2> SUFFICES ASSUME k + 1 <= e PROVE f[k + 1] \in Int
    OBVIOUS
  <2>1. f[k + 1] = (x * f[k]) % Order /\ f[k] \in Int
    BY <1>2, <1>4 DEF IsPowers
  <2>2. x * f[k] \in Int
    BY <2>1
  <2> QED BY <2>1, <2>2, ModInScalars, ScalarInt
<1> HIDE DEF S
<1>5. e \in S
  BY <1>3, <1>4, NumberInduction
<1> QED BY <1>1, <1>5 DEF S

LEMMA DomainFinite == IsFiniteSet(Domain)
  BY ProverAssumption, FS_Interval DEF Domain

LEMMA SumType ==
  ASSUME NEW f, IsFiniteSet(DOMAIN f), \A x \in DOMAIN f : f[x] \in Int
  PROVE  SumFunction(f) \in Int
BY TotalIs, TotalType

LEMMA MultiMulType ==
  ASSUME NEW S, IsFiniteSet(S), NEW points \in [S -> Int],
         NEW scalars, \A i \in S : scalars[i] \in Int
  PROVE  MultiMul(points, scalars) \in Scalars
<1> DEFINE f == [i \in DOMAIN points |-> points[i] * scalars[i]]
<1>1. SumFunction(f) \in Int
  <2>1. \A x \in DOMAIN f : f[x] \in Int
    OBVIOUS
  <2>2. IsFiniteSet(DOMAIN f)
    OBVIOUS
  <2> HIDE DEF f
  <2> QED BY <2>1, <2>2, SumType
<1> QED BY <1>1, ModInScalars DEF MultiMul

LEMMA RootTypes ==
  /\ Power(Root, 2) \in Int /\ ScalarInverse(Power(Root, 2)) \in Int
  /\ ScalarInverse(DomainSize) \in Int
  /\ \A i \in Domain : Power(Root, i) \in Int
<1>1. Root \in Int /\ \A i \in Domain : i \in Nat
  BY RootAssumption, ScalarInt, ProverAssumption DEF Domain
<1> QED BY <1>1, RootAssumption, InverseCorrect, ScalarInt, PowerType DEF Invertible

LEMMA TransformType ==
  ASSUME NEW v \in [Domain -> Int], NEW root \in Int, NEW factor \in Int
  PROVE  Transform(v, root, factor) \in [Domain -> Int]
<1> SUFFICES ASSUME NEW k \in Domain
             PROVE  (factor * SumFunction([j \in Domain |-> (v[j] * Power(root, j * k)) % Order])) % Order
                      \in Int
  BY DEF Transform
<1> DEFINE f == [j \in Domain |-> (v[j] * Power(root, j * k)) % Order]
<1>1. ASSUME NEW j \in Domain PROVE f[j] \in Int
  <2>1. j \in Nat /\ k \in Nat /\ j * k \in Nat
    BY ProverAssumption DEF Domain
  <2>2. v[j] * Power(root, j * k) \in Int
    BY <2>1, PowerType
  <2> QED BY <2>2, SameRemainder
<1>2. SumFunction(f) \in Int
  <2>1. DOMAIN f = Domain
    OBVIOUS
  <2> HIDE DEF f
  <2> QED BY <1>1, <2>1, DomainFinite, SumType
<1>3. factor * SumFunction(f) \in Int
  <2> HIDE DEF f
  <2> QED BY <1>2
<1> QED BY <1>3, SameRemainder

LEMMA ExtendedType == ASSUME NEW v \in [Domain -> Int] PROVE Extended(v) \in [Domain -> Int]
<1>1. Ifft(v) \in [Domain -> Int]
  BY RootTypes, TransformType DEF Ifft
<1>2. Shift(Ifft(v)) \in [Domain -> Int]
  <2> SUFFICES ASSUME NEW i \in Domain
               PROVE  Mont(Ifft(v)[i], ToMontgomery(Power(Root, i))) \in Int
    BY DEF Shift
  <2>1. Power(Root, i) * Radix \in Int
    BY RootTypes, RadixInverse
  <2> QED BY <1>1, <2>1, SameRemainder, MontInScalars, ScalarInt DEF ToMontgomery
<1> QED BY <1>2, RootTypes, TransformType DEF Extended, Fft

(* The points of the proof, and the sums they are made of. *)
ValuesOK ==
  /\ ProverTypeOK
  /\ pi \in [a : Int, b1 : Int, b : Int, c : Int] /\ pi.b1 = pi.b
  /\ proof \in [A : Scalars, B : Scalars, C : Scalars]

LEMMA PointsType ==
  ASSUME NEW w \in Witnesses
  PROVE  PointsOf(w) \in [a : Int, b1 : Int, b : Int, c : Int] /\ PointsOf(w).b1 = PointsOf(w).b
<1> DEFINE all == 0 .. NVars - 1
           rest == 0 .. NVars - NPublic - 2
           v == [i \in rest |-> w[NPublic + 1 + i]]
<1>1. IsFiniteSet(all) /\ IsFiniteSet(rest)
  <2>1. NVars - 1 \in Int /\ NVars - NPublic - 2 \in Int /\ 0 \in Int
    BY KeyAssumption
  <2> QED BY <2>1, FS_Interval
<1>2. \A i \in all : w[i] \in Int
  <2>1. w \in [all -> Scalars]
    BY ProverAssumption
  <2> HIDE DEF all
  <2> QED BY <2>1, ScalarInt
<1>3. \A i \in rest : v[i] \in Int
  BY <1>2, KeyAssumption
<1> HIDE DEF all, rest, v
<1>4. /\ MultiMul(Key.pointsA, w) \in Scalars /\ MultiMul(Key.pointsB1, w) \in Scalars
      /\ MultiMul(Key.pointsC, v) \in Scalars
  BY <1>1, <1>2, <1>3, KeyAssumption, MultiMulType DEF all, rest
<1>5. PointsOf(w) = [a |-> MultiMul(Key.pointsA, w), b1 |-> MultiMul(Key.pointsB1, w),
                     b |-> MultiMul(Key.pointsB1, w), c |-> MultiMul(Key.pointsC, v)]
  BY KeyAssumption DEF PointsOf, v, rest
<1> QED BY <1>4, <1>5, ScalarInt

LEMMA MultiExpValues == ASSUME ValuesOK, MultiExp PROVE ValuesOK'
<1>1. wtns \in Witnesses /\ ProverTypeOK'
  BY DEF ValuesOK, ProverTypeOK, MultiExp
<1> QED BY <1>1, PointsType DEF ValuesOK, MultiExp

LEMMA QuotientType ==
  ASSUME NEW a \in [Domain -> Scalars], NEW b \in [Domain -> Scalars]
  PROVE  QuotientOf(a, b) \in Int
<1> DEFINE c == [i \in Domain |-> Mont(a[i], b[i])]
           a1 == Extended(a)
           b1 == Extended(b)
           c1 == Extended(c)
           h == [i \in Domain |-> FromMontgomery((Mont(a1[i], b1[i]) - c1[i]) % Order)]
<1>1. a \in [Domain -> Int] /\ b \in [Domain -> Int]
  BY ScalarInt
<1>2. c \in [Domain -> Int]
  BY <1>1, MontInScalars, ScalarInt
<1> HIDE DEF c
<1>3. a1 \in [Domain -> Int] /\ b1 \in [Domain -> Int] /\ c1 \in [Domain -> Int]
  BY <1>1, <1>2, ExtendedType
<1> HIDE DEF a1, b1, c1
<1>4. ASSUME NEW i \in Domain PROVE h[i] \in Int
  <2>1. Mont(a1[i], b1[i]) - c1[i] \in Int
    BY <1>3, MontInScalars, ScalarInt
  <2>2. (Mont(a1[i], b1[i]) - c1[i]) % Order \in Int
    BY <2>1, SameRemainder
  <2> QED BY <2>2, MontInScalars, ScalarInt DEF FromMontgomery
<1>5. QuotientOf(a, b) = MultiMul(Key.pointsH, h)
  BY DEF QuotientOf, c, a1, b1, c1
<1> HIDE DEF h
<1> QED BY <1>4, <1>5, DomainFinite, KeyAssumption, MultiMulType, ScalarInt

LEMMA QuotientValues == ASSUME ValuesOK, Quotient PROVE ValuesOK'
<1>1. ab[0] \in [Domain -> Scalars] /\ ab[1] \in [Domain -> Scalars]
  BY DEF ValuesOK, ProverTypeOK
<1>2. PICK q \in Int : q = QuotientOf(ab[0], ab[1])
  BY <1>1, QuotientType
<1>3. (pi.c + q) % Order \in Int
  <2>1. pi.c + q \in Int
    BY DEF ValuesOK
  <2> QED BY <2>1, SameRemainder
<1>4. ProverTypeOK'
  BY DEF ValuesOK, ProverTypeOK, Quotient
<1> QED BY <1>2, <1>3, <1>4 DEF ValuesOK, Quotient

(* What the random numbers add to the two sides is the same. *)
LEMMA Unblinded ==
  ASSUME NEW a \in Int, NEW b \in Int, NEW c \in Int, NEW d \in Int, NEW x \in Int, NEW y \in Int
  PROVE  (a + d * x) * (b + d * y) - d * ((c + (a + d * x) * y + (b + d * y) * x) - d * (x * y))
           = a * b - d * c
<1> DEFINE e == d * x
           f == d * y
<1>1. e \in Int /\ f \in Int /\ e * y = f * x /\ d * (x * y) = e * y /\ d * ((b + f) * x) = (b + f) * e
      /\ d * ((a + e) * y) = (a + e) * f /\ d * (e * y) = e * f
  OBVIOUS
<1> QED BY <1>1

LEMMA BlindedSame ==
  ASSUME NEW a \in Int, NEW b \in Int, NEW c \in Int, NEW d \in Int, NEW x \in Int, NEW y \in Int,
         NEW A \in Int, NEW B \in Int, NEW C \in Int, NEW xy \in Int,
         Same(A, a + d * x), Same(B, b + d * y), Same(xy, x * y),
         Same(C, (c + A * y + B * x) - d * xy)
  PROVE  Same(A * B - d * C, a * b - d * c)
<1>1. PICK u \in Int : u = a + d * x
  OBVIOUS
<1>2. PICK v \in Int : v = b + d * y
  OBVIOUS
<1>3. Same(A, u) /\ Same(B, v)
  BY <1>1, <1>2
<1>4. Same(A * y, u * y) /\ Same(B * x, v * x) /\ Same(A * B, u * v)
  BY <1>3, SameTimes, SameProduct
<1>5. Same(d, d) /\ Same(c, c)
  BY DEF Same
<1>6. Same(d * xy, d * (x * y))
  BY <1>5, SameProduct
<1>7. Same(c + A * y, c + u * y)
  BY <1>4, <1>5, SameSum
<1>8. Same((c + A * y) + B * x, (c + u * y) + v * x)
  BY <1>4, <1>7, SameSum
<1>9. Same(((c + A * y) + B * x) - d * xy, ((c + u * y) + v * x) - d * (x * y))
  BY <1>6, <1>8, SameDifference
<1>10. PICK w \in Int : w = ((c + u * y) + v * x) - d * (x * y)
  OBVIOUS
<1>11. Same(C, w)
  BY <1>9, <1>10, SameTrans
<1>12. Same(d * C, d * w)
  BY <1>5, <1>11, SameProduct
<1>13. Same(A * B - d * C, u * v - d * w)
  BY <1>4, <1>12, SameDifference
<1>14. u * v - d * w = a * b - d * c
  BY <1>1, <1>2, <1>10, Unblinded
<1> QED BY <1>13, <1>14

LEMMA AssembleValues == ASSUME ValuesOK, Assemble PROVE ValuesOK' /\ BlindingCancels'
<1>1. PICK x \in Randoms : proof' = Blind(x[1], x[2], ToMontgomery(Mont(x[1], x[2])))
  BY DEF Assemble
<1>2. x[1] \in Int /\ x[2] \in Int
  BY KeyAssumption, ScalarInt
<1>3. PICK r1 \in Int, s1 \in Int : r1 = x[1] /\ s1 = x[2]
  BY <1>2
<1>4. PICK rs \in Int : rs = ToMontgomery(Mont(r1, s1)) /\ Same(rs, r1 * s1)
  <2>1. PICK m \in Int : m = r1 * s1
    OBVIOUS
  <2>2. ToMontgomery(Mont(r1, s1)) = m % Order
    BY <2>1, MontCorrect
  <2> QED BY <2>1, <2>2, SameRemainder
<1>5. PICK a \in Int, b \in Int, c \in Int, d \in Int :
        /\ a = pi.a + Key.alpha1 /\ b = pi.b + Key.beta2 /\ b = pi.b1 + Key.beta1
        /\ c = pi.c /\ d = Key.delta1 /\ d = Key.delta2
  <2>1. /\ pi.a + Key.alpha1 \in Int /\ pi.b + Key.beta2 \in Int /\ pi.c \in Int
        /\ pi.b + Key.beta2 = pi.b1 + Key.beta1
    BY KeyAssumption DEF ValuesOK
  <2>2. Key.delta1 \in Int /\ Key.delta2 = Key.delta1
    BY KeyAssumption
  <2> QED BY <2>1, <2>2
<1>6. PICK A1 \in Int : A1 = (a + d * r1) % Order /\ Same(A1, a + d * r1) /\ A1 \in Scalars
  BY SameRemainder, ModInScalars
<1>7. PICK B1 \in Int : B1 = (b + d * s1) % Order /\ Same(B1, b + d * s1) /\ B1 \in Scalars
  BY SameRemainder, ModInScalars
<1>8. PICK C1 \in Int : /\ C1 = ((c + A1 * s1 + B1 * r1) - d * rs) % Order
                       /\ Same(C1, (c + A1 * s1 + B1 * r1) - d * rs) /\ C1 \in Scalars
  <2>1. (c + A1 * s1 + B1 * r1) - d * rs \in Int
    OBVIOUS
  <2> QED BY <2>1, SameRemainder, ModInScalars
<1>9. proof' = [A |-> A1, B |-> B1, C |-> C1]
  <2>1. /\ A1 = (pi.a + Key.alpha1 + Key.delta1 * x[1]) % Order
        /\ B1 = (pi.b + Key.beta2 + Key.delta2 * x[2]) % Order
        /\ B1 = (pi.b1 + Key.beta1 + Key.delta1 * x[2]) % Order
    BY <1>3, <1>5, <1>6, <1>7
  <2>2. C1 = (pi.c + A1 * x[2] + B1 * x[1] - Key.delta1 * rs) % Order
    <3>1. PICK u \in Int, v \in Int, w \in Int : u = A1 * s1 /\ v = B1 * r1 /\ w = d * rs
      OBVIOUS
    <3>2. c + u + v - w = (c + u + v) - w
      OBVIOUS
    <3>3. C1 = (c + u + v - w) % Order
      BY <1>8, <3>1, <3>2
    <3> QED BY <1>3, <1>5, <3>1, <3>3
  <2>3. proof' = Blind(x[1], x[2], rs)
    BY <1>1, <1>3, <1>4
  <2> QED BY <2>1, <2>2, <2>3 DEF Blind
<1>10. Same(A1 * B1 - d * C1, a * b - d * c)
  BY <1>4, <1>6, <1>7, <1>8, BlindedSame
<1>11. pi' = pi /\ UNCHANGED <<wtns, ab, next, read, owner>> /\ phase' = "proved"
  BY DEF Assemble
<1>12. ValuesOK'
  BY <1>6, <1>7, <1>8, <1>9, <1>11 DEF ValuesOK, ProverTypeOK
<1>13. BlindingCancels'
  <2>1. /\ proof'.A * proof'.B - Key.delta1 * proof'.C = A1 * B1 - d * C1
        /\ (pi'.a + Key.alpha1) * (pi'.b + Key.beta2) - Key.delta1 * pi'.c = a * b - d * c
    BY <1>5, <1>9, <1>11
  <2> QED BY <1>10, <2>1 DEF BlindingCancels, Same
<1> QED BY <1>12, <1>13

BlindInv == AccumulateInv /\ ValuesOK /\ BlindingCancels

LEMMA BlindInit == ProverInit => BlindInv
<1> SUFFICES ASSUME ProverInit PROVE BlindInv
  OBVIOUS
<1>1. 0 \in Scalars
  BY OrderType DEF Scalars
<1> QED BY <1>1, AccumulateInit DEF ProverInit, BlindInv, AccumulateInv, ValuesOK, BlindingCancels

LEMMA BlindNext == BlindInv /\ [ProverNext]_proverVars => BlindInv'
<1> SUFFICES ASSUME BlindInv, [ProverNext]_proverVars PROVE BlindInv'
  OBVIOUS
<1>1. AccumulateInv' /\ ProverTypeOK' /\ ValuesOK
  BY AccumulateNext DEF BlindInv, AccumulateInv
<1>2. CASE MultiExp
  BY <1>1, <1>2, MultiExpValues DEF BlindInv, BlindingCancels, MultiExp
<1>3. CASE Zero
  BY <1>1, <1>3 DEF BlindInv, BlindingCancels, ValuesOK, Zero
<1>4. CASE Quotient
  BY <1>1, <1>4, QuotientValues DEF BlindInv, BlindingCancels, Quotient
<1>5. CASE Assemble
  BY <1>1, <1>5, AssembleValues DEF BlindInv
<1>6. ASSUME NEW t \in Threads, Take(t) \/ Store(t) PROVE BlindInv'
  BY <1>1, <1>6 DEF BlindInv, BlindingCancels, ValuesOK, Take, Store
<1>7. CASE UNCHANGED proverVars
  BY <1>1, <1>7 DEF BlindInv, BlindingCancels, ValuesOK, proverVars
<1> QED BY <1>2, <1>3, <1>4, <1>5, <1>6, <1>7 DEF ProverNext

(* The random numbers of a proof cancel in what the verifier compares        *)
(* (groth16.cpp:217-263), whatever they are and whatever the key and witness. *)
THEOREM BlindingCorrect == Spec => []BlindingCancels
<1>1. BlindInv => BlindingCancels
  BY DEF BlindInv
<1> QED BY <1>1, BlindInit, BlindNext, PipelineProves, PTL DEF ProverSpec

-----------------------------------------------------------------------------
(* The verdict.  The public signals, as the verifier gets them and adds them. *)
LEMMA InputsFinite ==
  ASSUME NEW x \in Inputs
  PROVE  /\ IsFiniteSet(DOMAIN x) /\ DOMAIN x = 1 .. Len(x) /\ Len(x) \in Nat
         /\ \A i \in DOMAIN x : x[i] \in Int
<1>1. x \in Seq(Nat)
  BY VerifierAssumption
<1>2. Len(x) \in Nat /\ DOMAIN x = 1 .. Len(x) /\ \A i \in DOMAIN x : x[i] \in Nat
  BY <1>1
<1> QED BY <1>2, FS_Interval

LEMMA VkXSame ==
  ASSUME NEW x \in Inputs, Len(x) + 1 = Len(VerificationKey.IC)
  PROVE  /\ PublicOf(x) \in Int /\ VkX(ParseInputs(x)) \in Scalars
         /\ Same(VkX(ParseInputs(x)), PublicOf(x))
<1> DEFINE IC == VerificationKey.IC
           y == ParseInputs(x)
           f == [i \in DOMAIN x |-> IC[i + 1] * x[i]]
           g == [i \in DOMAIN y |-> IC[i + 1] * FromMontgomery(y[i])]
<1>1. DOMAIN y = DOMAIN x
  BY DEF ParseInputs
<1>2. IC \in Seq(Int) /\ IC[1] \in Int
  BY VerifierAssumption
<1>3. ASSUME NEW i \in DOMAIN x
      PROVE  /\ f[i] \in Int /\ g[i] \in Int /\ Same(g[i], f[i])
  <2>1. x[i] \in Int /\ i + 1 \in 1 .. Len(IC)
    BY InputsFinite
  <2>2. PICK k \in Int : k = IC[i + 1]
    BY <1>2, <2>1
  <2>3. PICK m \in Int : m = x[i] % Order /\ Same(m, x[i])
    BY <2>1, SameRemainder
  <2>4. PICK n \in Int : n = m % Order /\ Same(n, m)
    BY SameRemainder
  <2>5. y[i] = ToMontgomery(m)
    BY <2>3 DEF ParseInputs
  <2>6. FromMontgomery(y[i]) = n
    BY <2>4, <2>5, FromToMontgomery
  <2>7. Same(n, x[i]) /\ Same(k, k)
    BY <2>3, <2>4, SameTrans DEF Same
  <2>8. Same(k * n, k * x[i])
    BY <2>1, <2>7, SameProduct
  <2>9. f[i] = k * x[i] /\ g[i] = k * n
    BY <1>1, <2>2, <2>6
  <2> QED BY <2>1, <2>8, <2>9
<1>4. DOMAIN f = DOMAIN x /\ DOMAIN g = DOMAIN x /\ IsFiniteSet(DOMAIN x)
  BY <1>1, InputsFinite
<1>5. PublicOf(x) = IC[1] + SumFunction(f) /\ VkX(y) = (IC[1] + SumFunction(g)) % Order
  BY DEF PublicOf, VkX
<1> HIDE DEF f, g, y
<1>6. SumFunction(f) = Total(f, DOMAIN x) /\ SumFunction(g) = Total(g, DOMAIN x)
  BY <1>4, TotalIs
<1>7. Total(f, DOMAIN x) \in Int /\ Total(g, DOMAIN x) \in Int
  BY <1>3, <1>4, TotalType
<1>8. Same(Total(g, DOMAIN x), Total(f, DOMAIN x))
  BY <1>3, <1>4, TotalSame
<1>9. Same(IC[1] + SumFunction(g), IC[1] + SumFunction(f)) /\ IC[1] + SumFunction(g) \in Int
  <2>1. PICK k \in Int, u \in Int, v \in Int :
          k = IC[1] /\ u = SumFunction(g) /\ v = SumFunction(f) /\ Same(u, v) /\ Same(k, k)
    BY <1>2, <1>6, <1>7, <1>8 DEF Same
  <2>2. Same(k + u, k + v) /\ k + u \in Int
    BY <2>1, SameSum
  <2> QED BY <2>1, <2>2
<1>10. VkX(y) \in Scalars /\ Same(VkX(y), IC[1] + SumFunction(g))
  BY <1>5, <1>9, ModInScalars, SameRemainder
<1> QED BY <1>2, <1>5, <1>6, <1>7, <1>9, <1>10, SameTrans DEF y

(* The product of the four pairings is one exactly when the equation holds. *)
Exponent(p) == SumFunction([i \in 1 .. 4 |-> Log1(p[i][1]) * Log2(p[i][2])])

LEMMA ExponentIs ==
  ASSUME NEW p, \A i \in 1 .. 4 : Log1(p[i][1]) * Log2(p[i][2]) \in Int
  PROVE  Exponent(p) = Log1(p[1][1]) * Log2(p[1][2]) + Log1(p[2][1]) * Log2(p[2][2]) + Log1(p[3][1]) * Log2(p[3][2]) + Log1(p[4][1]) * Log2(p[4][2])
<1> DEFINE f == [i \in 1 .. 4 |-> Log1(p[i][1]) * Log2(p[i][2])]
<1>1. Exponent(p) = Total(f, 1 .. 4)
  BY TotalIs DEF Exponent
<1>2. \A i \in 1 .. 4 : f[i] \in Int /\ f[i] = Log1(p[i][1]) * Log2(p[i][2])
  OBVIOUS
<1> HIDE DEF f
<1>3. ASSUME NEW s \in SUBSET (1 .. 4), IsFiniteSet(s), NEW i \in 1 .. 4, i \notin s
      PROVE  IsFiniteSet(s \cup {i}) /\ Total(f, s \cup {i}) = f[i] + Total(f, s)
  <2>1. \A x \in s \cup {i} : f[x] \in Int
    BY <1>2, <1>3
  <2> QED BY <1>3, <2>1, TotalAdd, FS_AddElement
<1>4. IsFiniteSet({1}) /\ Total(f, {1}) = f[1]
  <2>1. IsFiniteSet({}) /\ {} \cup {1} = {1} /\ Total(f, {}) = 0
    BY FS_EmptySet, TotalNone
  <2>2. {} \in SUBSET (1 .. 4) /\ 1 \in 1 .. 4 /\ 1 \notin {}
    OBVIOUS
  <2>3. Total(f, {} \cup {1}) = f[1] + Total(f, {}) /\ IsFiniteSet({} \cup {1})
    BY <1>3, <2>1, <2>2
  <2> QED BY <1>2, <2>1, <2>3
<1>5. IsFiniteSet({1, 2}) /\ Total(f, {1, 2}) = f[2] + f[1]
  <2>1. {1} \cup {2} = {1, 2}
    OBVIOUS
  <2>2. {1} \in SUBSET (1 .. 4) /\ 2 \in 1 .. 4 /\ 2 \notin {1}
    OBVIOUS
  <2>3. Total(f, {1} \cup {2}) = f[2] + Total(f, {1}) /\ IsFiniteSet({1} \cup {2})
    BY <1>3, <1>4, <2>2
  <2> QED BY <1>4, <2>1, <2>3
<1>6. IsFiniteSet({1, 2, 3}) /\ Total(f, {1, 2, 3}) = f[3] + (f[2] + f[1])
  <2>1. {1, 2} \cup {3} = {1, 2, 3}
    OBVIOUS
  <2>2. {1, 2} \in SUBSET (1 .. 4) /\ 3 \in 1 .. 4 /\ 3 \notin {1, 2}
    OBVIOUS
  <2>3. Total(f, {1, 2} \cup {3}) = f[3] + Total(f, {1, 2}) /\ IsFiniteSet({1, 2} \cup {3})
    BY <1>3, <1>5, <2>2
  <2> QED BY <1>5, <2>1, <2>3
<1>7. Total(f, 1 .. 4) = f[4] + (f[3] + (f[2] + f[1]))
  <2>1. {1, 2, 3} \cup {4} = 1 .. 4
    OBVIOUS
  <2>2. {1, 2, 3} \in SUBSET (1 .. 4) /\ 4 \in 1 .. 4 /\ 4 \notin {1, 2, 3}
    OBVIOUS
  <2>3. Total(f, {1, 2, 3} \cup {4}) = f[4] + Total(f, {1, 2, 3})
    BY <1>3, <1>6, <2>2
  <2> QED BY <1>6, <2>1, <2>3
<1> QED BY <1>1, <1>2, <1>7

LEMMA SameZero ==
  ASSUME NEW x \in Int, NEW y \in Int
  PROVE  (x - y) % Order = 0 <=> Same(x, y)
<1>0. Same(y, y) /\ 0 % Order = 0
  BY OrderType, ModOfScalar DEF Same, Scalars
<1>1. ASSUME Same(x, y) PROVE (x - y) % Order = 0
  <2>1. Same(x - y, y - y) /\ y - y = 0
    BY <1>0, <1>1, SameDifference
  <2> QED BY <1>0, <2>1 DEF Same
<1>2. ASSUME (x - y) % Order = 0 PROVE Same(x, y)
  <2>1. PICK z \in Int : z = x - y
    OBVIOUS
  <2>2. Same(z, 0)
    BY <1>0, <1>2, <2>1 DEF Same
  <2>3. Same(z + y, 0 + y)
    BY <2>2, SamePlus
  <2>4. z + y = x /\ 0 + y = y
    BY <2>1
  <2> QED BY <2>3, <2>4
<1> QED BY <1>1, <1>2

(* The terms with minus signs go to the other side. *)
MovedTo(ab1, a, b, v, g, c, d, w, na, nv, nc) ==
  (ab1 + na * b + nv * g + nc * d) % Order = 0 <=> Same(ab1, a * b + w * g + c * d)

LEMMA MovedOver ==
  ASSUME NEW ab1 \in Int, NEW a \in Int, NEW b \in Int, NEW v \in Int, NEW g \in Int,
         NEW c \in Int, NEW d \in Int, NEW w \in Int, Same(v, w),
         NEW na \in Int, Same(na, -a), NEW nv \in Int, Same(nv, -v), NEW nc \in Int, Same(nc, -c)
  PROVE  MovedTo(ab1, a, b, v, g, c, d, w, na, nv, nc)
<1>1. Same(-v, -w) /\ -a \in Int /\ -v \in Int /\ -w \in Int /\ -c \in Int
  BY SameNegative
<1>2. Same(nv, -w)
  BY <1>1, SameTrans
<1>3. Same(na * b, (-a) * b) /\ Same(nv * g, (-w) * g) /\ Same(nc * d, (-c) * d)
  BY <1>1, <1>2, SameTimes
<1>4. PICK x1 \in Int, y1 \in Int : x1 = na * b /\ y1 = (-a) * b /\ Same(x1, y1)
  BY <1>3
<1>5. PICK x2 \in Int, y2 \in Int : x2 = nv * g /\ y2 = (-w) * g /\ Same(x2, y2)
  BY <1>3
<1>6. PICK x3 \in Int, y3 \in Int : x3 = nc * d /\ y3 = (-c) * d /\ Same(x3, y3)
  BY <1>3
<1>7. Same(ab1, ab1)
  BY DEF Same
<1>8. Same(ab1 + x1, ab1 + y1)
  BY <1>4, <1>7, SameSum
<1>9. Same((ab1 + x1) + x2, (ab1 + y1) + y2)
  BY <1>5, <1>8, SameSum
<1>10. Same(((ab1 + x1) + x2) + x3, ((ab1 + y1) + y2) + y3)
  BY <1>6, <1>9, SameSum
<1>11. PICK R \in Int : R = a * b + w * g + c * d
  OBVIOUS
<1>12. ((ab1 + y1) + y2) + y3 = ab1 - R
  BY <1>4, <1>5, <1>6, <1>11
<1>13. (((ab1 + x1) + x2) + x3) % Order = 0 <=> Same(ab1, R)
  <2>1. PICK E \in Int : E = ((ab1 + x1) + x2) + x3 /\ Same(E, ab1 - R)
    BY <1>10, <1>12
  <2>2. E % Order = (ab1 - R) % Order
    BY <2>1 DEF Same
  <2>3. (ab1 - R) % Order = 0 <=> Same(ab1, R)
    BY SameZero
  <2> QED BY <2>1, <2>2, <2>3
<1>14. ((ab1 + x1) + x2) + x3 = ab1 + na * b + nv * g + nc * d
  BY <1>4, <1>5, <1>6
<1> QED BY <1>11, <1>13, <1>14 DEF MovedTo

(* The points of the groups and their logarithms. *)
LEMMA LogAffine ==
  ASSUME NEW k \in Int
  PROVE  /\ InGroup1(Affine1(k)) /\ Log1(Affine1(k)) = k % Order
         /\ InGroup2(Affine2(k)) /\ Log2(Affine2(k)) = k % Order
<1>1. k % Order \in Scalars
  BY ModInScalars
<1>2. \A i \in Scalars : Group1[i] = Group1[k % Order] => i = k % Order
  BY <1>1, CurveAssumption DEF IsInjective
<1>3. \A i \in Scalars : Group2[i] = Group2[k % Order] => i = k % Order
  BY <1>1, CurveAssumption DEF IsInjective
<1>4. InGroup1(Affine1(k)) /\ InGroup2(Affine2(k))
  BY <1>1 DEF InGroup1, InGroup2, Affine1, Affine2
<1>5. Log1(Affine1(k)) = k % Order
  BY <1>1, <1>2 DEF Log1, Affine1
<1>6. Log2(Affine2(k)) = k % Order
  BY <1>1, <1>3 DEF Log2, Affine2
<1> QED BY <1>4, <1>5, <1>6

LEMMA LogOfGroup ==
  /\ \A p : InGroup1(p) => Log1(p) \in Scalars /\ Affine1(Log1(p)) = p
  /\ \A q : InGroup2(q) => Log2(q) \in Scalars /\ Affine2(Log2(q)) = q
<1>1. ASSUME NEW p, InGroup1(p) PROVE Log1(p) \in Scalars /\ Group1[Log1(p)] = p
  BY <1>1 DEF InGroup1, Log1
<1>2. ASSUME NEW q, InGroup2(q) PROVE Log2(q) \in Scalars /\ Group2[Log2(q)] = q
  BY <1>2 DEF InGroup2, Log2
<1> QED BY <1>1, <1>2, ModOfScalar DEF Affine1, Affine2

LEMMA LogNegated ==
  ASSUME NEW p, InGroup1(p)
  PROVE  InGroup1(Negated(p)) /\ Log1(Negated(p)) = (-Log1(p)) % Order
<1>1. PICK k \in Scalars : k = Log1(p) /\ Affine1(k) = p
  BY LogOfGroup
<1>2. Negated(p) = Affine1(-k) /\ -k \in Int
  BY <1>1, CurveAssumption, ScalarInt
<1> QED BY <1>1, <1>2, LogAffine

LEMMA LogOfZero == Log1(<<0, 0>>) = 0 /\ Log2(<<Zero2, Zero2>>) = 0
<1>1. 0 \in Scalars /\ 0 % Order = 0 /\ 0 \in Int
  BY OrderType, ModOfScalar DEF Scalars
<1>2. Affine1(0) = <<0, 0>> /\ Affine2(0) = <<Zero2, Zero2>>
  BY <1>1 DEF Affine1, Affine2, Group1, Group2
<1> QED BY <1>1, <1>2, LogAffine

(* The document whose points are in the groups, and the equation for it. *)
Pointed(d) == InGroup1(FromJson(d).A) /\ InGroup2(FromJson(d).B) /\ InGroup1(FromJson(d).C)
Satisfies(d, x) ==
  Equation(Log1(FromJson(d).A), Log2(FromJson(d).B), x, Log1(FromJson(d).C))

LEMMA PairsLength == ASSUME NEW p, NEW x PROVE Len(Pairs(p, x)) = 4
BY DEF Pairs

LEMMA PairsLogs ==
  ASSUME NEW d, Pointed(d), NEW x \in Inputs, Len(x) + 1 = Len(VerificationKey.IC),
         NEW p, p = Pairs(FromJson(d), ParseInputs(x)), NEW v \in Int, v = VkX(ParseInputs(x))
  PROVE  /\ \A i \in 1 .. 4 : InGroup1(p[i][1]) /\ InGroup2(p[i][2])
         /\ Log1(p[1][1]) = Log1(FromJson(d).A) /\ Log2(p[1][2]) = Log2(FromJson(d).B)
         /\ Log1(p[2][1]) = (-VerificationKey.alpha) % Order /\ Log2(p[2][2]) = VerificationKey.beta
         /\ Log1(p[3][1]) = (-v) % Order /\ Log2(p[3][2]) = VerificationKey.gamma
         /\ Log1(p[4][1]) = (-Log1(FromJson(d).C)) % Order /\ Log2(p[4][2]) = VerificationKey.delta
<1>1. PICK a \in Scalars, b \in Scalars, g \in Scalars, e \in Scalars :
        /\ a = VerificationKey.alpha /\ b = VerificationKey.beta
        /\ g = VerificationKey.gamma /\ e = VerificationKey.delta
  BY VerifierAssumption
<1>2. -a \in Int /\ -v \in Int /\ b \in Int /\ g \in Int /\ e \in Int
  BY ScalarInt
<1>3. /\ InGroup1(Affine1(-a)) /\ Log1(Affine1(-a)) = (-a) % Order
      /\ InGroup1(Affine1(-v)) /\ Log1(Affine1(-v)) = (-v) % Order
      /\ InGroup2(Affine2(b)) /\ Log2(Affine2(b)) = b
      /\ InGroup2(Affine2(g)) /\ Log2(Affine2(g)) = g
      /\ InGroup2(Affine2(e)) /\ Log2(Affine2(e)) = e
  BY <1>2, LogAffine, ModOfScalar
<1>4. PICK A1, B1, C1, N1 :
        /\ A1 = FromJson(d).A /\ B1 = FromJson(d).B /\ C1 = FromJson(d).C /\ N1 = Negated(C1)
        /\ InGroup1(A1) /\ InGroup2(B1) /\ InGroup1(N1) /\ Log1(N1) = (-Log1(C1)) % Order
  BY LogNegated DEF Pointed
<1>5. p = << <<A1, B1>>, <<Affine1(-a), Affine2(b)>>, <<Affine1(-v), Affine2(g)>>,
             <<N1, Affine2(e)>> >>
  BY <1>1, <1>4 DEF Pairs
<1>6. \A i \in 1 .. 4 : i = 1 \/ i = 2 \/ i = 3 \/ i = 4
  OBVIOUS
<1> HIDE DEF Pointed
<1> QED BY <1>1, <1>3, <1>4, <1>5, <1>6

LEMMA PairsType ==
  ASSUME NEW d, Pointed(d), NEW x \in Inputs, Len(x) + 1 = Len(VerificationKey.IC),
         NEW p, p = Pairs(FromJson(d), ParseInputs(x))
  PROVE  \A i \in 1 .. 4 :
           /\ InGroup1(p[i][1]) /\ InGroup2(p[i][2])
           /\ Log1(p[i][1]) \in Nat /\ Log2(p[i][2]) \in Nat
           /\ Log1(p[i][1]) * Log2(p[i][2]) \in Nat
<1>1. PICK v \in Int : v = VkX(ParseInputs(x))
  BY VkXSame, ScalarInt
<1> SUFFICES ASSUME NEW i \in 1 .. 4
             PROVE  /\ InGroup1(p[i][1]) /\ InGroup2(p[i][2])
                    /\ Log1(p[i][1]) \in Nat /\ Log2(p[i][2]) \in Nat
                    /\ Log1(p[i][1]) * Log2(p[i][2]) \in Nat
  OBVIOUS
<1>2. InGroup1(p[i][1]) /\ InGroup2(p[i][2])
  BY <1>1, PairsLogs
<1>3. PICK y \in Nat, z \in Nat : y = Log1(p[i][1]) /\ z = Log2(p[i][2])
  BY <1>2, LogOfGroup, ScalarInt
<1> QED BY <1>2, <1>3

LEMMA PairsEquation ==
  ASSUME NEW d, Pointed(d), NEW x \in Inputs, Len(x) + 1 = Len(VerificationKey.IC),
         NEW p, p = Pairs(FromJson(d), ParseInputs(x))
  PROVE  /\ Exponent(p) \in Nat
         /\ Exponent(p) % Order = 0 <=> Satisfies(d, x)
<1>1. PICK v \in Int : v = VkX(ParseInputs(x)) /\ Same(v, PublicOf(x))
  BY VkXSame, ScalarInt
<1>2. PICK w \in Int : w = PublicOf(x)
  BY VkXSame
<1>3. PICK A1 \in Nat, B1 \in Nat, C1 \in Nat :
        A1 = Log1(FromJson(d).A) /\ B1 = Log2(FromJson(d).B) /\ C1 = Log1(FromJson(d).C)
  BY LogOfGroup, ScalarInt DEF Pointed
<1>4. PICK a \in Int, b \in Nat, g \in Nat, e \in Nat :
        /\ a = VerificationKey.alpha /\ b = VerificationKey.beta
        /\ g = VerificationKey.gamma /\ e = VerificationKey.delta
  BY VerifierAssumption, ScalarInt
<1>5. -a \in Int /\ -v \in Int /\ -C1 \in Int
  OBVIOUS
<1>6. PICK na \in Nat : na = (-a) % Order /\ Same(na, -a)
  BY <1>5, SameRemainder, ModInScalars, ScalarInt
<1>7. PICK nv \in Nat : nv = (-v) % Order /\ Same(nv, -v)
  BY <1>5, SameRemainder, ModInScalars, ScalarInt
<1>8. PICK nc \in Nat : nc = (-C1) % Order /\ Same(nc, -C1)
  BY <1>5, SameRemainder, ModInScalars, ScalarInt
<1>9. PICK k \in Nat : k = A1 * B1
  OBVIOUS
<1>10. na * b \in Nat /\ nv * g \in Nat /\ nc * e \in Nat
  OBVIOUS
<1>11. Exponent(p) = k + na * b + nv * g + nc * e
  <2>1. /\ Log1(p[1][1]) = A1 /\ Log2(p[1][2]) = B1
        /\ Log1(p[2][1]) = na /\ Log2(p[2][2]) = b
        /\ Log1(p[3][1]) = nv /\ Log2(p[3][2]) = g
        /\ Log1(p[4][1]) = nc /\ Log2(p[4][2]) = e
    <3>1. /\ Log1(p[1][1]) = Log1(FromJson(d).A) /\ Log2(p[1][2]) = Log2(FromJson(d).B)
          /\ Log1(p[2][1]) = (-VerificationKey.alpha) % Order /\ Log2(p[2][2]) = VerificationKey.beta
          /\ Log1(p[3][1]) = (-v) % Order /\ Log2(p[3][2]) = VerificationKey.gamma
          /\ Log1(p[4][1]) = (-Log1(FromJson(d).C)) % Order /\ Log2(p[4][2]) = VerificationKey.delta
      BY <1>1, PairsLogs, Zenon
    <3> QED BY <1>3, <1>4, <1>6, <1>7, <1>8, <3>1
  <2>2. /\ Log1(p[1][1]) * Log2(p[1][2]) = k /\ Log1(p[2][1]) * Log2(p[2][2]) = na * b
        /\ Log1(p[3][1]) * Log2(p[3][2]) = nv * g /\ Log1(p[4][1]) * Log2(p[4][2]) = nc * e
    BY <1>9, <2>1
  <2>3. \A i \in 1 .. 4 : Log1(p[i][1]) * Log2(p[i][2]) \in Int
    <3>1. \A i \in 1 .. 4 : Log1(p[i][1]) * Log2(p[i][2]) \in Nat
      BY PairsType, Zenon
    <3> QED BY <3>1
  <2> QED BY <2>2, <2>3, ExponentIs
<1>12. (k + na * b + nv * g + nc * e) % Order = 0 <=> Same(k, a * b + w * g + C1 * e)
  <2>1. Same(v, w)
    BY <1>1, <1>2
  <2>2. /\ k \in Int /\ b \in Int /\ g \in Int /\ e \in Int /\ C1 \in Int
        /\ na \in Int /\ nv \in Int /\ nc \in Int
    OBVIOUS
  <2>3. Same(na, -a) /\ Same(nv, -v) /\ Same(nc, -C1)
    BY <1>6, <1>7, <1>8
  <2>4. MovedTo(k, a, b, v, g, C1, e, w, na, nv, nc)
    BY <2>1, <2>2, <2>3, MovedOver
  <2> QED BY <2>4 DEF MovedTo
<1>13. Satisfies(d, x) <=> Same(k, a * b + w * g + C1 * e)
  BY <1>2, <1>3, <1>4, <1>9 DEF Satisfies, Equation, Constant, Same
<1>14. Exponent(p) \in Nat
  <2>1. PICK l \in Nat, m \in Nat, n \in Nat : l = na * b /\ m = nv * g /\ n = nc * e
    BY <1>10
  <2>2. Exponent(p) = k + l + m + n
    BY <1>11, <2>1
  <2> QED BY <2>2
<1> QED BY <1>11, <1>12, <1>13, <1>14

(* The verifier is called once, works on the pairs of that call, and its code *)
(* and the exit are about the document and the inputs of the call.            *)
Refused(d, x, k) == ProofRefused(d) \/ InputsRefused(x) \/ ~k
Working == at \in {"pair", "double", "add"}

VerdictInv ==
  /\ at = "waiting" \/ at = "returned" \/ Working
  /\ at = "waiting" => status = NoStatus /\ pair = 1
  /\ at # "waiting" => document # NoDocument /\ given \in Inputs
  /\ Working => /\ ~Refused(document, given, keyRead) /\ status = NoStatus
                /\ pairs = Pairs(FromJson(document), ParseInputs(given))
                /\ pair \in 1 .. 5 /\ (at # "pair" => pair <= 4)
  /\ at = "returned" =>
       /\ code = VALID => ~Refused(document, given, keyRead)
       /\ ~Refused(document, given, keyRead) /\ Pointed(document) =>
            (code = VALID <=> Satisfies(document, given))
  /\ status # NoStatus => at = "returned" /\ (status = EXIT_SUCCESS <=> code = VALID)

(* The pairing of the generators is a power of an element whose order is    *)
(* that of the groups, and the final exponentiation keeps one.              *)
GeneratedHasOrder == \A e \in Nat : GeneratedTo(e) = One12 <=> e % Order = 0
GeneratedPowers ==
  \A d, e \in Nat : Mul12[GeneratedTo(d), GeneratedTo(e)] = GeneratedTo(d + e)
GeneratedOK == GeneratedHasOrder /\ GeneratedPowers /\ FinalExponentiation[One12] = One12

LEMMA VerdictInit == Init => VerdictInv
<1> SUFFICES ASSUME Init PROVE VerdictInv
  OBVIOUS
<1>1. at = "waiting" /\ pair = 1 /\ status = NoStatus
  BY Zenon DEF Init, VerifierInit
<1> QED BY <1>1 DEF VerdictInv, NoStatus, Working

LEMMA VerifyVerdict == ASSUME VerdictInv, Verify PROVE VerdictInv'
<1>1. PICK strings \in Inputs, readable \in BOOLEAN :
        /\ at = "waiting" /\ given' = strings /\ keyRead' = readable
        /\ IF Refused(document, strings, readable)
           THEN at' = "returned" /\ code' = ERROR
           ELSE at' = "pair" /\ pairs' = Pairs(FromJson(document), ParseInputs(strings))
        /\ pair' = pair
  BY DEF Verify, Call, Refused
<1>2. document # NoDocument /\ document' = document /\ status' = status
  BY DEF Verify
<1>3. CASE Refused(document, strings, readable)
  BY <1>1, <1>2, <1>3 DEF VerdictInv, Working, ERROR, VALID
<1>4. CASE ~Refused(document, strings, readable)
  BY <1>1, <1>2, <1>4 DEF VerdictInv, Working
<1> QED BY <1>3, <1>4

LEMMA FinishVerdict ==
  ASSUME VerdictInv, PairingExact, GeneratedHasOrder, Finish, UNCHANGED <<proverVars, document, status>>
  PROVE  VerdictInv'
<1>1. /\ at = "pair" /\ Working /\ at' = "returned" /\ given' = given /\ keyRead' = keyRead
      /\ document' = document /\ status' = status /\ given \in Inputs
      /\ ~Refused(document, given, keyRead)
      /\ code' = IF FinalExponentiation[acc] = One12 THEN VALID ELSE INVALID
  BY DEF Finish, VerdictInv, Working
<1>2. Len(given) + 1 = Len(VerificationKey.IC)
  BY <1>1 DEF Refused, InputsRefused
<1>3. pair = 5
  <2>1. Len(pairs) = 4
    BY <1>1, PairsLength DEF VerdictInv
  <2> QED BY <1>1, <2>1 DEF VerdictInv, Finish
<1>4. ASSUME Pointed(document) PROVE code' = VALID <=> Satisfies(document, given)
  <2>1. Exponent(pairs) \in Nat /\ (Exponent(pairs) % Order = 0 <=> Satisfies(document, given))
    BY <1>1, <1>2, <1>4, PairsEquation DEF VerdictInv
  <2>2. FinalExponentiation[acc] = GeneratedTo(Exponent(pairs))
    <3>1. 1 .. pair - 1 = 1 .. 4 /\ InGroups
      BY <1>3, <1>4 DEF InGroups, Received, Pointed
    <3> QED BY <1>1, <3>1 DEF PairingExact, Exponent
  <2> QED BY <1>1, <2>1, <2>2 DEF GeneratedHasOrder, VALID, INVALID
<1> QED BY <1>1, <1>4 DEF VerdictInv, Working

(* Inside pairingCheck only the place changes. *)
LEMMA WorkVerdict ==
  ASSUME VerdictInv, UNCHANGED <<document, status>>,
         Skip \/ Enter \/ DoubleStep \/ AddStep \/ AddFrobenius \/ AddFrobenius2 \/ Accumulate
  PROVE  VerdictInv'
<1>1. Working => Len(pairs) = 4
  BY PairsLength DEF VerdictInv
<1>2. /\ Working /\ Working' /\ UNCHANGED <<pairs, given, keyRead, code>>
  BY DEF Working, Skip, Enter, DoubleStep, AddStep, AddFrobenius, AddFrobenius2, Accumulate, NextDigit
<1>3. pair' \in 1 .. 5 /\ (at' # "pair" => pair' <= 4)
  <2>1. pair \in 1 .. 5 /\ (at # "pair" => pair <= 4) /\ Len(pairs) = 4
    BY <1>1, <1>2 DEF VerdictInv
  <2>2. CASE Skip \/ Enter
    BY <2>1, <2>2 DEF Skip, Enter
  <2>3. CASE DoubleStep \/ AddStep \/ AddFrobenius \/ AddFrobenius2
    BY <2>1, <2>3 DEF DoubleStep, AddStep, AddFrobenius, AddFrobenius2
  <2>4. CASE Accumulate
    <3>1. at = "add" /\ pair' = pair + 1 /\ at' = "pair"
      BY <2>4, Zenon DEF Accumulate
    <3> QED BY <2>1, <3>1
  <2> QED BY <2>2, <2>3, <2>4
<1> QED BY <1>2, <1>3 DEF VerdictInv, Working

LEMMA VerdictNext ==
  ASSUME GeneratedHasOrder
  PROVE  VerdictInv /\ PairingExact /\ [Next]_vars => VerdictInv'
<1> SUFFICES ASSUME VerdictInv, PairingExact, [Next]_vars PROVE VerdictInv'
  OBVIOUS
<1>1. CASE ProverNext /\ UNCHANGED <<verifierVars, document, status>>
  BY <1>1 DEF VerdictInv, verifierVars, Working
<1>2. CASE Send
  <2>1. at = "waiting" /\ UNCHANGED <<verifierVars, status>>
    BY <1>2 DEF Send, VerdictInv
  <2> QED BY <2>1 DEF VerdictInv, verifierVars, Working
<1>3. CASE Verify
  BY <1>3, VerifyVerdict
<1>4. CASE Exit
  BY <1>4 DEF Exit, VerdictInv, verifierVars, Working, EXIT_SUCCESS, EXIT_FAILURE, NoStatus
<1>5. CASE VerifierSteps /\ UNCHANGED <<proverVars, document, status>>
  BY <1>5, WorkVerdict, FinishVerdict DEF VerifierSteps
<1>6. CASE UNCHANGED vars
  BY <1>6 DEF vars, VerdictInv, verifierVars, Working
<1> QED BY <1>1, <1>2, <1>3, <1>4, <1>5, <1>6 DEF Next

-----------------------------------------------------------------------------
(* What pairingCheck accumulates.                                             *)
Summed(p, n) == SumFunction([i \in 1 .. n - 1 |-> Log1(p[i][1]) * Log2(p[i][2])])

LEMMA SummedNone == ASSUME NEW p PROVE Summed(p, 1) = 0
<1>1. 1 .. 1 - 1 = {}
  OBVIOUS
<1> DEFINE f == [i \in 1 .. 1 - 1 |-> Log1(p[i][1]) * Log2(p[i][2])]
<1>2. SumFunction(f) = Total(f, {})
  BY <1>1, TotalIs
<1> HIDE DEF f
<1> QED BY <1>2, TotalNone DEF Summed, f

LEMMA SummedAdds ==
  ASSUME NEW p, \A i \in 1 .. 4 : Log1(p[i][1]) * Log2(p[i][2]) \in Nat, NEW n \in 1 .. 4
  PROVE  Summed(p, n + 1) = Log1(p[n][1]) * Log2(p[n][2]) + Summed(p, n)
<1> DEFINE f == [i \in 1 .. n - 1 |-> Log1(p[i][1]) * Log2(p[i][2])]
           g == [i \in 1 .. n |-> Log1(p[i][1]) * Log2(p[i][2])]
<1>1. Summed(p, n) = Total(f, 1 .. n - 1)
  BY TotalIs DEF Summed
<1>2. Summed(p, n + 1) = Total(g, 1 .. n)
  <2>1. (n + 1) - 1 = n
    OBVIOUS
  <2> QED BY <2>1, TotalIs DEF Summed
<1>3. /\ \A i \in 1 .. n - 1 : f[i] = g[i]
      /\ \A i \in (1 .. n - 1) \cup {n} : g[i] \in Int
      /\ g[n] = Log1(p[n][1]) * Log2(p[n][2])
  OBVIOUS
<1> HIDE DEF f, g
<1>4. IsFiniteSet(1 .. n - 1) /\ n \notin 1 .. n - 1 /\ (1 .. n - 1) \cup {n} = 1 .. n
  <2>1. n - 1 \in Int /\ 1 \in Int
    OBVIOUS
  <2>2. IsFiniteSet(1 .. n - 1)
    BY <2>1, FS_Interval
  <2>3. n \notin 1 .. n - 1 /\ (1 .. n - 1) \cup {n} = 1 .. n
    OBVIOUS
  <2> QED BY <2>2, <2>3
<1>5. Total(f, 1 .. n - 1) = Total(g, 1 .. n - 1)
  <2>1. PICK s : s = 1 .. n - 1
    OBVIOUS
  <2>2. IsFiniteSet(s) /\ \A i \in s : f[i] = g[i]
    BY <1>3, <1>4, <2>1, Zenon
  <2>3. Total(f, s) = Total(g, s)
    BY <2>2, TotalEqual, Zenon
  <2> QED BY <2>1, <2>3, Zenon
<1>6. Total(g, 1 .. n) = g[n] + Total(g, 1 .. n - 1)
  <2>1. Total(g, (1 .. n - 1) \cup {n}) = g[n] + Total(g, 1 .. n - 1)
    BY <1>3, <1>4, TotalAdd
  <2> QED BY <1>4, <2>1
<1> QED BY <1>1, <1>2, <1>3, <1>5, <1>6

LEMMA SummedNext ==
  ASSUME NEW p, \A i \in 1 .. 4 : Log1(p[i][1]) * Log2(p[i][2]) \in Nat, NEW n \in 1 .. 4
  PROVE  Summed(p, n) \in Nat /\ Summed(p, n + 1) = Summed(p, n) + Log1(p[n][1]) * Log2(p[n][2])
<1>1. Summed(p, 1) \in Nat
  BY SummedNone
<1>2. ASSUME NEW m \in 1 .. 4, Summed(p, m) \in Nat PROVE Summed(p, m + 1) \in Nat
  <2>1. PICK y \in Nat, z \in Nat : y = Log1(p[m][1]) * Log2(p[m][2]) /\ z = Summed(p, m)
    BY <1>2
  <2>2. Summed(p, m + 1) = y + z
    BY <2>1, SummedAdds
  <2> QED BY <2>2
<1>3. Summed(p, 2) \in Nat
  BY <1>1, <1>2, 1 \in 1 .. 4, 1 + 1 = 2
<1>4. Summed(p, 3) \in Nat
  BY <1>2, <1>3, 2 \in 1 .. 4, 2 + 1 = 3
<1>5. Summed(p, 4) \in Nat
  BY <1>2, <1>4, 3 \in 1 .. 4, 3 + 1 = 4
<1>6. Summed(p, n) \in Nat
  <2>1. n = 1 \/ n = 2 \/ n = 3 \/ n = 4
    OBVIOUS
  <2> QED BY <1>1, <1>3, <1>4, <1>5, <2>1
<1>7. PICK y \in Nat, z \in Nat : y = Log1(p[n][1]) * Log2(p[n][2]) /\ z = Summed(p, n)
  BY <1>6
<1>8. Summed(p, n + 1) = y + z
  BY <1>7, SummedAdds
<1> QED BY <1>7, <1>8

AccInv ==
  /\ at = "waiting" => acc = One12
  /\ Working /\ Pointed(document) => FinalExponentiation[acc] = GeneratedTo(Summed(pairs, pair))

LEMMA AccImplies == AccInv => PairingExact
BY DEF AccInv, PairingExact, Working, Summed, InGroups, Received, Pointed

LEMMA AccInit == Init => AccInv
<1> SUFFICES ASSUME Init PROVE AccInv
  OBVIOUS
<1>1. at = "waiting" /\ acc = One12
  BY Zenon DEF Init, VerifierInit
<1> QED BY <1>1 DEF AccInv, Working

LEMMA VerifyAcc == ASSUME VerdictInv, AccInv, GeneratedOK, Verify PROVE AccInv'
<1>1. /\ at = "waiting" /\ at' \in {"returned", "pair"} /\ pair' = 1 /\ acc' = One12
  BY DEF Verify, Call, VerdictInv, AccInv
<1>2. Summed(pairs', 1) = 0
  BY SummedNone
<1>3. GeneratedTo(0) = One12
  BY OrderType, ModOfScalar DEF GeneratedOK, GeneratedHasOrder, Scalars
<1>4. FinalExponentiation[acc'] = GeneratedTo(Summed(pairs', pair'))
  BY <1>1, <1>2, <1>3 DEF GeneratedOK
<1> QED BY <1>1, <1>4 DEF AccInv

LEMMA PairsOK ==
  ASSUME VerdictInv, Working
  PROVE  /\ Len(pairs) = 4 /\ pair \in 1 .. 5 /\ (at # "pair" => pair <= 4)
         /\ Pointed(document) =>
              \A i \in 1 .. 4 :
                /\ InGroup1(pairs[i][1]) /\ InGroup2(pairs[i][2])
                /\ Log1(pairs[i][1]) \in Nat /\ Log2(pairs[i][2]) \in Nat
                /\ Log1(pairs[i][1]) * Log2(pairs[i][2]) \in Nat
<1>1. /\ given \in Inputs /\ ~InputsRefused(given)
      /\ pairs = Pairs(FromJson(document), ParseInputs(given))
      /\ pair \in 1 .. 5 /\ (at # "pair" => pair <= 4)
  BY Zenon DEF VerdictInv, Refused, Working
<1>2. Len(given) + 1 = Len(VerificationKey.IC)
  BY <1>1 DEF InputsRefused
<1> QED BY <1>1, <1>2, PairsType, PairsLength

LEMMA SkipAcc ==
  ASSUME VerdictInv, AccInv, Skip, UNCHANGED document PROVE AccInv'
<1>1. /\ at = "pair" /\ Working /\ at' = at /\ acc' = acc /\ pairs' = pairs /\ pair' = pair + 1
      /\ pair <= Len(pairs) /\ HasZero
  BY DEF Skip, Working
<1> SUFFICES ASSUME Pointed(document)
             PROVE  FinalExponentiation[acc] = GeneratedTo(Summed(pairs, pair + 1))
  BY <1>1 DEF AccInv
<1>2. /\ pair \in 1 .. 4
      /\ \A i \in 1 .. 4 :
           /\ Log1(pairs[i][1]) \in Nat /\ Log2(pairs[i][2]) \in Nat
           /\ Log1(pairs[i][1]) * Log2(pairs[i][2]) \in Nat
  <2>1. Len(pairs) = 4 /\ pair \in 1 .. 5
    BY <1>1, PairsOK
  <2>2. pair \in 1 .. 4
    BY <1>1, <2>1
  <2>3. \A i \in 1 .. 4 :
          /\ Log1(pairs[i][1]) \in Nat /\ Log2(pairs[i][2]) \in Nat
          /\ Log1(pairs[i][1]) * Log2(pairs[i][2]) \in Nat
    BY <1>1, PairsOK
  <2> QED BY <2>2, <2>3
<1>3. Log1(pairs[pair][1]) * Log2(pairs[pair][2]) = 0
  <2>1. PICK y \in Nat, z \in Nat : y = Log1(pairs[pair][1]) /\ z = Log2(pairs[pair][2])
    BY <1>2
  <2>2. y = 0 \/ z = 0
    BY <1>1, <2>1, LogOfZero DEF HasZero, P, Q
  <2>3. y * z = 0
    BY <2>2
  <2> QED BY <2>1, <2>3
<1>4. Summed(pairs, pair + 1) = Summed(pairs, pair)
  BY <1>2, <1>3, SummedNext
<1> QED BY <1>1, <1>4 DEF AccInv

LEMMA AccumulateAcc ==
  ASSUME VerdictInv, AccInv, MillerExact, GeneratedOK, Accumulate, UNCHANGED document
  PROVE  AccInv'
<1>1. /\ at = "add" /\ Working /\ at' = "pair" /\ pairs' = pairs /\ pair' = pair + 1
      /\ digit = -2 /\ acc' = Mul12[acc, ret]
  BY Zenon DEF Accumulate, Working
<1> SUFFICES ASSUME Pointed(document)
             PROVE  FinalExponentiation[acc'] = GeneratedTo(Summed(pairs', pair'))
  BY <1>1 DEF AccInv
<1>2. /\ pair \in 1 .. 4 /\ InGroup1(P) /\ InGroup2(Q)
      /\ \A i \in 1 .. 4 : Log1(pairs[i][1]) * Log2(pairs[i][2]) \in Nat
  <2>1. pair \in 1 .. 5 /\ pair <= 4
    BY <1>1, PairsOK
  <2>2. pair \in 1 .. 4
    BY <2>1
  <2>3. \A i \in 1 .. 4 : /\ InGroup1(pairs[i][1]) /\ InGroup2(pairs[i][2])
                          /\ Log1(pairs[i][1]) * Log2(pairs[i][2]) \in Nat
    BY <1>1, PairsOK
  <2> QED BY <2>2, <2>3 DEF P, Q
<1>3. PICK d \in Nat, e \in Nat :
        /\ d = Summed(pairs, pair) /\ e = Log1(P) * Log2(Q)
        /\ Summed(pairs, pair + 1) = d + e
  BY <1>2, SummedNext DEF P, Q
<1>4. FinalExponentiation[acc] = GeneratedTo(d) /\ FinalExponentiation[ret] = GeneratedTo(e)
  <2>1. FinalExponentiation[acc] = GeneratedTo(d)
    BY <1>1, <1>3, Zenon DEF AccInv
  <2>2. FinalExponentiation[ret] = GeneratedTo(e)
    BY <1>1, <1>2, <1>3, Zenon DEF MillerExact
  <2> QED BY <2>1, <2>2
<1>5. FinalExponentiation[Mul12[acc, ret]] = Mul12[FinalExponentiation[acc], FinalExponentiation[ret]]
  BY <1>1, Zenon DEF MillerExact
<1>6. Mul12[GeneratedTo(d), GeneratedTo(e)] = GeneratedTo(d + e)
  BY Zenon DEF GeneratedOK, GeneratedPowers
<1>7. FinalExponentiation[acc'] = GeneratedTo(d + e)
  BY <1>1, <1>4, <1>5, <1>6, Zenon
<1>8. d + e = Summed(pairs', pair')
  BY <1>1, <1>3, Zenon
<1> QED BY <1>7, <1>8, Zenon

LEMMA AccNext ==
  ASSUME GeneratedOK
  PROVE  VerdictInv /\ AccInv /\ MillerExact /\ [Next]_vars => AccInv'
<1> SUFFICES ASSUME VerdictInv, AccInv, MillerExact, [Next]_vars PROVE AccInv'
  OBVIOUS
<1>1. CASE UNCHANGED <<verifierVars, document>>
  BY <1>1 DEF AccInv, Working, verifierVars
<1>2. CASE Send
  <2>1. at = "waiting" /\ UNCHANGED verifierVars
    BY <1>2 DEF Send, VerdictInv
  <2> QED BY <2>1 DEF AccInv, Working, verifierVars
<1>3. CASE Verify
  BY <1>3, VerifyAcc
<1>4. CASE VerifierSteps /\ UNCHANGED document
  <2>1. CASE Skip
    BY <1>4, <2>1, SkipAcc
  <2>2. CASE Accumulate
    BY <1>4, <2>2, AccumulateAcc
  <2>3. CASE Finish
    <3>1. at' = "returned"
      BY <2>3 DEF Finish
    <3> QED BY <3>1 DEF AccInv, Working
  <2>4. CASE Enter \/ DoubleStep \/ AddStep \/ AddFrobenius \/ AddFrobenius2
    <3>1. Working /\ at' # "waiting" /\ UNCHANGED <<pairs, pair, acc, document>>
      BY <1>4, <2>4 DEF Working, Enter, DoubleStep, AddStep, AddFrobenius, AddFrobenius2, NextDigit
    <3> QED BY <3>1 DEF AccInv
  <2> QED BY <1>4, <2>1, <2>2, <2>3, <2>4 DEF VerifierSteps
<1> QED BY <1>1, <1>2, <1>3, <1>4, Zenon DEF Next, Exit, vars, verifierVars

(* What pairingCheck accumulates is exact (groth16.cpp:733-751), the pairs   *)
(* it leaves out included, for every document whose points are in the        *)
(* groups, given that what miller returns for a pair of such points is.      *)
THEOREM PairingCorrect ==
  ASSUME GeneratedOK
  PROVE  Spec /\ []MillerExact => []PairingExact
<1>1. VerdictInv /\ PairingExact /\ [Next]_vars => VerdictInv'
  BY VerdictNext DEF GeneratedOK
<1>2. VerdictInv /\ AccInv /\ MillerExact /\ [Next]_vars => AccInv'
  BY AccNext
<1> QED BY <1>1, <1>2, VerdictInit, AccInit, AccImplies, PTL DEF Spec

(* Only what can be read and has a point for every input is accepted, and    *)
(* the exit status for a document whose points are in the groups is the      *)
(* truth of the equation of Groth16 for their logarithms over plain numbers  *)
(* (verifier.cpp:93-135, groth16.cpp:375-425, 733-751), whoever made it and  *)
(* whatever the inputs, given what miller returns for points of the groups.  *)
(* No document is assumed to have its points there: nothing checks it        *)
(* (groth16.cpp:313-337).                                                    *)
THEOREM EquationCorrect ==
  ASSUME GeneratedOK
  PROVE  Spec /\ []MillerExact => []EquationChecked
<1>1. VerdictInv => EquationChecked
  BY DEF VerdictInv, EquationChecked, Refused, ProofRefused, InputsRefused, Satisfies, Pointed,
         InGroups, Received, ReceivedSatisfies
<1>2. VerdictInv /\ PairingExact /\ [Next]_vars => VerdictInv'
  BY VerdictNext DEF GeneratedOK
<1>3. Spec /\ []MillerExact => []PairingExact
  BY PairingCorrect
<1> QED BY <1>1, <1>2, <1>3, VerdictInit, PTL DEF Spec

-----------------------------------------------------------------------------
(* From the witness to the verdict.  What a proof comes to before it is      *)
(* blinded is a function of the witness, and a document arrives only when    *)
(* the proof is finished.                                                    *)
PiInv ==
  /\ phase \in {"msm", "zero", "coefs", "assemble", "proved"}
  /\ phase \in {"zero", "coefs"} => pi = PointsOf(wtns)
  /\ phase \in {"assemble", "proved"} => pi = ExpectedPi(wtns)

SentInv == document # NoDocument => phase = "proved"

DecisionInv == PiInv /\ SentInv

LEMMA DecisionInit == Init => DecisionInv
<1> SUFFICES ASSUME Init PROVE DecisionInv
  OBVIOUS
<1>1. phase = "msm" /\ document = NoDocument
  BY Zenon DEF Init, ProverInit
<1> QED BY <1>1 DEF DecisionInv, PiInv, SentInv

LEMMA QuotientPi == ASSUME SumsInv, ValuesOK, PiInv, Quotient PROVE pi' = ExpectedPi(wtns)
<1> DEFINE rows == [m \in {0, 1} |-> [c \in Domain |-> CellOf(wtns, m, c)]]
<1>1. SumsComplete'
  <2>1. SumsInv'
    BY SumsNext DEF ProverNext
  <2>2. SumsInv' => SumsComplete'
    BY SumsImply, PTL
  <2> QED BY <2>1, <2>2
<1>2. /\ ab' = ab /\ wtns' = wtns /\ phase' = "assemble" /\ pi = PointsOf(wtns)
      /\ pi' = [pi EXCEPT !.c = (@ + QuotientOf(ab[0], ab[1])) % Order]
  BY DEF Quotient, PiInv
<1>3. \A m \in {0, 1}, c \in Domain : ab[m][c] = CellOf(wtns, m, c)
  BY <1>1, <1>2 DEF SumsComplete, CellOf, AuxOf
<1>4. ab = rows
  <2>1. ab \in [{0, 1} -> [Domain -> Scalars]]
    BY DEF ValuesOK, ProverTypeOK
  <2>2. \A m \in {0, 1} : ab[m] = [c \in Domain |-> CellOf(wtns, m, c)]
    BY <1>3, <2>1
  <2> QED BY <2>1, <2>2
<1> QED BY <1>2, <1>4 DEF ExpectedPi

LEMMA DecisionNext == DecisionInv /\ SumsInv /\ ValuesOK /\ [Next]_vars => DecisionInv'
<1> SUFFICES ASSUME DecisionInv, SumsInv, ValuesOK, [Next]_vars PROVE DecisionInv'
  OBVIOUS
<1>1. CASE ProverNext /\ UNCHANGED <<verifierVars, document, status>>
  <2>1. CASE MultiExp
    BY <1>1, <2>1 DEF DecisionInv, PiInv, SentInv, MultiExp
  <2>2. CASE Zero
    BY <1>1, <2>2 DEF DecisionInv, PiInv, SentInv, Zero
  <2>3. CASE Quotient
    <3>1. pi' = ExpectedPi(wtns)
      BY <2>3, QuotientPi DEF DecisionInv
    <3> QED BY <1>1, <2>3, <3>1 DEF DecisionInv, PiInv, SentInv, Quotient
  <2>4. CASE Assemble
    <3>1. phase = "assemble" /\ phase' = "proved" /\ pi' = pi /\ wtns' = wtns
      BY <2>4 DEF Assemble
    <3> QED BY <1>1, <3>1 DEF DecisionInv, PiInv, SentInv
  <2>5. ASSUME NEW t \in Threads, Take(t) \/ Store(t) PROVE DecisionInv'
    <3>1. UNCHANGED <<phase, wtns, pi, proof>>
      BY <2>5 DEF Take, Store
    <3> QED BY <1>1, <3>1 DEF DecisionInv, PiInv, SentInv
  <2> QED BY <1>1, <2>1, <2>2, <2>3, <2>4, <2>5 DEF ProverNext
<1>2. CASE Send
  <2>1. phase = "proved" /\ UNCHANGED <<phase, wtns, pi>>
    BY <1>2, Zenon DEF Send, proverVars
  <2> QED BY <2>1 DEF DecisionInv, PiInv, SentInv
<1>3. CASE Verify \/ Exit \/ (VerifierSteps /\ UNCHANGED <<proverVars, document, status>>)
  <2>1. UNCHANGED <<proverVars, document>>
    BY <1>3, Zenon DEF Verify, Exit
  <2> QED BY <2>1 DEF DecisionInv, PiInv, SentInv, proverVars
<1>4. CASE UNCHANGED vars
  BY <1>4 DEF vars, proverVars, DecisionInv, PiInv, SentInv
<1> QED BY <1>1, <1>2, <1>3, <1>4 DEF Next

(* The equation says what the document compares equal to the constant side.  *)
LEMMA EquationCompared ==
  ASSUME NEW a \in Int, NEW b \in Int, NEW c \in Int, NEW x, Constant(x) \in Int
  PROVE  Equation(a, b, x, c) <=> Compared(a, b, c) = Constant(x) % Order
<1>1. PICK k \in Int, d \in Int, f \in Int :
        k = Constant(x) /\ d = VerificationKey.delta /\ f = c * d /\ f = d * c
  BY VerifierAssumption, ScalarInt
<1>2. PICK e \in Int : e = a * b
  OBVIOUS
<1>3. Equation(a, b, x, c) <=> Same(e, k + f)
  BY <1>1, <1>2 DEF Equation, Same
<1>4. Same(f, f)
  BY DEF Same
<1>5. ASSUME Same(e, k + f) PROVE Same(e - f, k)
  <2>1. Same(e - f, (k + f) - f) /\ (k + f) - f = k
    BY <1>4, <1>5, SameDifference
  <2> QED BY <2>1
<1>6. ASSUME Same(e - f, k) PROVE Same(e, k + f)
  <2>1. PICK g \in Int : g = e - f /\ Same(g, k)
    BY <1>6
  <2>2. Same(g + f, k + f)
    BY <2>1, SamePlus, Zenon
  <2>3. g + f = e
    BY <2>1
  <2> QED BY <2>2, <2>3
<1>7. Compared(a, b, c) = Constant(x) % Order <=> Same(e - f, k)
  BY <1>1, <1>2 DEF Compared, Same
<1> QED BY <1>3, <1>5, <1>6, <1>7

LEMMA ConstantInt ==
  ASSUME NEW x \in Inputs, Len(x) + 1 = Len(VerificationKey.IC) PROVE Constant(x) \in Int
<1>1. PICK p \in Int, a \in Int, b \in Int, g \in Int :
        /\ p = PublicOf(x) /\ a = VerificationKey.alpha /\ b = VerificationKey.beta
        /\ g = VerificationKey.gamma
  BY VkXSame, VerifierAssumption, ScalarInt
<1> QED BY <1>1 DEF Constant

LEMMA Decided ==
  ASSUME KeyDecides, NPublic # 0, DecisionInv, VerdictInv, ValuesOK, BlindingCancels,
         EquationChecked
  PROVE  ProofVerifies
<1> SUFFICES ASSUME status # NoStatus, document.protocol = "groth16", keyRead, InGroups
             PROVE  /\ Equivalent => (status = EXIT_SUCCESS <=> Honest)
                    /\ Honest => (status = EXIT_SUCCESS <=> Equivalent)
  BY DEF ProofVerifies
<1>1. document # NoDocument /\ given \in Inputs
  BY DEF VerdictInv
<1>2. /\ phase = "proved" /\ pi = ExpectedPi(wtns) /\ wtns \in Witnesses
  BY <1>1 DEF DecisionInv, PiInv, SentInv, ValuesOK, ProverTypeOK
<1>3. Len(given) + 1 = Len(VerificationKey.IC) <=> Len(given) = NPublic
  BY <1>1, InputsFinite, ExportAssumption, KeyAssumption
<1>4. Len(given) = NPublic => given # << >>
  OBVIOUS
<1>5. status = EXIT_SUCCESS <=> Len(given) = NPublic /\ ReceivedSatisfies(given)
  BY <1>3, <1>4 DEF EquationChecked
<1>6. ASSUME Len(given) = NPublic
      PROVE  /\ ReceivedSatisfies(given) <=>
                   Compared(Log1(Received.A), Log2(Received.B), Log1(Received.C))
                     = Constant(given) % Order
             /\ Compared(proof.A, proof.B, proof.C) = Constant(given) % Order
                  <=> wtns \in Satisfying /\ PublicSignals(given, wtns)
  <2>1. Constant(given) \in Int
    BY <1>1, <1>3, <1>6, ConstantInt
  <2>2. PICK a \in Int, b \in Int, c \in Int :
          a = Log1(Received.A) /\ b = Log2(Received.B) /\ c = Log1(Received.C)
    BY LogOfGroup, ScalarInt DEF InGroups
  <2>3. Compared(proof.A, proof.B, proof.C) = Plain(ExpectedPi(wtns)) % Order
    BY <1>2, ExportAssumption DEF BlindingCancels, Compared, Plain
  <2>4. Plain(ExpectedPi(wtns)) % Order = Constant(given) % Order
          <=> wtns \in Satisfying /\ PublicSignals(given, wtns)
    BY <1>1, <1>2, <1>6 DEF KeyDecides
  <2> QED BY <2>1, <2>2, <2>3, <2>4, EquationCompared DEF ReceivedSatisfies
<1> QED BY <1>5, <1>6 DEF Equivalent, Honest

LEMMA ProverInvariants == Spec => [](SumsInv /\ ValuesOK /\ BlindingCancels)
<1>1. BlindInv => ValuesOK /\ BlindingCancels
  BY DEF BlindInv
<1> QED BY <1>1, BlindInit, BlindNext, SumsInit, SumsNext, PipelineProves, PTL DEF ProverSpec

(* Of every document whose points are in the groups, whoever made it: if it  *)
(* is equivalent to the proof made, the command exits with success exactly   *)
(* when the witness satisfies the circuit and the public signals are those   *)
(* of the witness; if they are, exactly when it is equivalent                *)
(* (groth16.cpp:49-264, 375-425, 733-751, verifier.cpp:93-135).  Given what  *)
(* miller returns and a key that decides its circuit on the sums of a        *)
(* witness, the threads, the forms of numbers, the random numbers and the    *)
(* two keys change nothing.  A circuit without public signals is left out:   *)
(* its proofs are always refused.                                            *)
THEOREM VerificationCorrect ==
  ASSUME GeneratedOK, KeyDecides, NPublic # 0
  PROVE  Spec /\ []MillerExact => []ProofVerifies
<1>1. DecisionInv /\ VerdictInv /\ ValuesOK /\ BlindingCancels /\ EquationChecked => ProofVerifies
  BY Decided
<1>2. VerdictInv /\ PairingExact /\ [Next]_vars => VerdictInv'
  BY VerdictNext DEF GeneratedOK
<1>3. Spec /\ []MillerExact => []EquationChecked
  BY EquationCorrect
<1>4. Spec /\ []MillerExact => []PairingExact
  BY PairingCorrect
<1> QED BY <1>1, <1>2, <1>3, <1>4, VerdictInit, DecisionInit, DecisionNext, ProverInvariants, PTL DEF Spec
=============================================================================
