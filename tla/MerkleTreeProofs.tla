-------------------------- MODULE MerkleTreeProofs --------------------------
(***************************************************************************)
(* The incremental tree is the tree of its leaves, for every set of        *)
(* leaves, every depth and any number of fallback hashes of either kind.   *)
(***************************************************************************)
EXTENDS MerkleTree, FiniteSetTheorems, WellFoundedInduction, TLAPS

(* Induction over a set of numbers.                                        *)
LEMMA Least ==
  ASSUME NEW S \in SUBSET Nat, S # {}
  PROVE  \E m \in S : \A k \in S : m <= k
<1>1. PICK m \in S : \A k \in S : <<k, m>> \notin OpToRel(<, Nat)
  BY NatLessThanWellFounded, WFMin, Zenon
<1>2. \A k \in S : ~(k < m)
  BY <1>1, Zenon DEF OpToRel
<1> QED BY <1>2

LEMMA SetInduction ==
  ASSUME NEW S, 0 \in S, \A n \in Nat : n \in S => n + 1 \in S
  PROVE  Nat \subseteq S
<1> SUFFICES ASSUME Nat \ S # {} PROVE FALSE
  OBVIOUS
<1>1. PICK m \in Nat \ S : \A k \in Nat \ S : m <= k
  BY Least
<1>2. m # 0 /\ m - 1 \in Nat /\ m - 1 \in S
  BY <1>1
<1> QED BY <1>1, <1>2

-----------------------------------------------------------------------------
(* Powers of two, as the numbers of subsets.                               *)
LEMMA Subsets ==
  ASSUME NEW n \in Nat
  PROVE  /\ IsFiniteSet(SUBSET (1 .. n))
         /\ Cardinality(SUBSET (1 .. n)) = 2 ^ n
         /\ 2 ^ n \in Nat
<1>1. IsFiniteSet(1 .. n) /\ Cardinality(1 .. n) = n
  BY FS_Interval
<1>2. IsFiniteSet(SUBSET (1 .. n)) /\ Cardinality(SUBSET (1 .. n)) = 2 ^ n
  BY <1>1, FS_SUBSET
<1> QED BY <1>2, FS_CardinalityType

LEMMA Power ==
  ASSUME NEW n \in Nat
  PROVE  /\ 2 ^ 0 = 1
         /\ 2 ^ n \in Nat /\ 2 ^ n > 0
         /\ 2 ^ (n + 1) = 2 * 2 ^ n
<1> DEFINE A == SUBSET (1 .. n)
           B == {t \cup {n + 1} : t \in A}
<1>1. SUBSET (1 .. n + 1) = A \cup B
  <2>1. ASSUME NEW t \in SUBSET (1 .. n + 1) PROVE t \in A \cup B
    <3>1. CASE n + 1 \in t
      <4>1. t \ {n + 1} \in A /\ t = (t \ {n + 1}) \cup {n + 1}
        BY <3>1
      <4> QED BY <4>1
    <3>2. CASE n + 1 \notin t
      BY <3>2
    <3> QED BY <3>1, <3>2
  <2>2. ASSUME NEW t \in A PROVE t \in SUBSET (1 .. n + 1) /\ t \cup {n + 1} \in SUBSET (1 .. n + 1)
    OBVIOUS
  <2>3. A \subseteq SUBSET (1 .. n + 1)
    BY ONLY <2>2 DEF A
  <2>4. ASSUME NEW u \in B PROVE u \in SUBSET (1 .. n + 1)
    <3>1. PICK t \in A : u = t \cup {n + 1}
      OBVIOUS
    <3> QED BY <2>2, <3>1
  <2> HIDE DEF A, B
  <2> QED BY <2>1, <2>3, <2>4
<1>2. A \cap B = {}
  OBVIOUS
<1>3. ExistsBijection(A, B)
  <2> DEFINE f == [t \in A |-> t \cup {n + 1}]
  <2>1. f \in [A -> B]
    OBVIOUS
  <2>2. ASSUME NEW t \in A, NEW u \in A, f[t] = f[u] PROVE t = u
    BY <2>2
  <2>3. \A b \in B : \E t \in A : f[t] = b
    OBVIOUS
  <2> HIDE DEF f
  <2>4. f \in Bijection(A, B)
    BY <2>1, <2>2, <2>3 DEF Bijection, Injection, Surjection, IsInjective
  <2> QED BY <2>4 DEF ExistsBijection
<1>4. IsFiniteSet(A) /\ Cardinality(A) = 2 ^ n /\ 2 ^ n \in Nat
  BY Subsets
<1>5. Cardinality(SUBSET (1 .. n + 1)) = 2 ^ (n + 1)
  BY Subsets, n + 1 \in Nat
<1>6. 2 ^ (n + 1) = 2 * 2 ^ n
  <2> HIDE DEF A, B
  <2>1. IsFiniteSet(B) /\ Cardinality(B) = 2 ^ n
    BY <1>3, <1>4, FS_Bijection
  <2>2. Cardinality(A \cup B) = 2 ^ n + 2 ^ n - Cardinality(A \cap B)
    BY <1>4, <2>1, FS_Union
  <2>3. Cardinality(A \cap B) = 0
    BY <1>2, FS_EmptySet
  <2> QED BY <1>1, <1>4, <1>5, <2>2, <2>3
<1>7. 2 ^ n > 0
  <2>1. {} \in A
    OBVIOUS
  <2> HIDE DEF A
  <2>2. Cardinality(A) # 0
    BY <1>4, <2>1, FS_EmptySet
  <2> QED BY <1>4, <2>2
<1> QED BY <1>4, <1>6, <1>7

-----------------------------------------------------------------------------
(* The nodes on the way from a slot to the root.                           *)
LEMMA NodeSplit ==
  ASSUME NEW i \in Nat, NEW l \in Nat
  PROVE  /\ Node(i, l) \in Nat /\ Node(i, l + 1) \in Nat
         /\ PathBit(i, l) \in {0, 1}
         /\ Node(i, l) = 2 * Node(i, l + 1) + PathBit(i, l)
         /\ Node(i, l) * 2 ^ l <= i /\ i < (Node(i, l) + 1) * 2 ^ l
<1>1. PICK p \in Nat : p = 2 ^ l /\ p > 0 /\ 2 ^ (l + 1) = 2 * p
  BY Power
<1>2. i \div p \in Nat /\ (i \div p) * p <= i /\ i < (i \div p) * p + p
  BY <1>1
<1>3. i \div (2 * p) = (i \div p) \div 2
  BY <1>1
<1>4. \A q \in Nat : q \div 2 \in Nat /\ q % 2 \in {0, 1} /\ q = 2 * (q \div 2) + (q % 2)
  OBVIOUS
<1>5. \A q \in Nat : (q + 1) * p = q * p + p
  BY <1>1
<1> QED BY <1>1, <1>2, <1>3, <1>4, <1>5 DEF Node, PathBit

LEMMA NodeUnique ==
  ASSUME NEW i \in Nat, NEW l \in Nat, NEW q \in Nat, q * 2 ^ l <= i, i < (q + 1) * 2 ^ l
  PROVE  q = Node(i, l)
<1>1. PICK p \in Nat : p = 2 ^ l /\ p > 0
  BY Power
<1>2. q * p <= i /\ i < q * p + p
  BY <1>1
<1> QED BY <1>1, <1>2 DEF Node

(* The next slot is under the same node or under the next one.             *)
LEMMA NodeNext ==
  ASSUME NEW i \in Nat, NEW l \in Nat
  PROVE  Node(i + 1, l) \in {Node(i, l), Node(i, l) + 1}
<1>1. PICK p \in Nat : p = 2 ^ l /\ p > 0
  BY Power
<1>2. PICK q \in Nat : q = Node(i, l) /\ q * p <= i /\ i < q * p + p
  <2>1. Node(i, l) \in Nat /\ Node(i, l) * p <= i /\ i < (Node(i, l) + 1) * p
    BY <1>1, NodeSplit
  <2>2. (Node(i, l) + 1) * p = Node(i, l) * p + p
    BY <1>1, <2>1
  <2> QED BY <2>1, <2>2
<1>3. CASE i + 1 < q * p + p
  <2>1. q * 2 ^ l <= i + 1 /\ i + 1 < (q + 1) * 2 ^ l
    BY <1>1, <1>2, <1>3
  <2> QED BY <1>2, <2>1, NodeUnique, i + 1 \in Nat
<1>4. CASE i + 1 = q * p + p
  <2>1. (q + 1) * 2 ^ l <= i + 1 /\ i + 1 < ((q + 1) + 1) * 2 ^ l
    BY <1>1, <1>2, <1>4
  <2> QED BY <1>2, <2>1, NodeUnique, i + 1 \in Nat, q + 1 \in Nat
<1> QED BY <1>2, <1>3, <1>4

LEMMA NodeBound ==
  ASSUME NEW i \in Nat, i < 2 ^ Depth, NEW l \in 0 .. Depth
  PROVE  Node(i, l) \in 0 .. 2 ^ (Depth - l) - 1
<1> DEFINE S == {m \in Nat : m <= Depth => Node(i, m) \in 0 .. 2 ^ (Depth - m) - 1}
<1> USE ConstantsAssumption
<1>1. 0 \in S
  <2>1. i \div 1 = i
    OBVIOUS
  <2> QED BY <2>1, Power DEF Node
<1>2. ASSUME NEW m \in Nat, m \in S PROVE m + 1 \in S
  <2> SUFFICES ASSUME m + 1 <= Depth PROVE Node(i, m + 1) \in 0 .. 2 ^ (Depth - (m + 1)) - 1
    OBVIOUS
  <2>1. Node(i, m) \in 0 .. 2 ^ (Depth - m) - 1
    BY <1>2
  <2>2. PICK k \in Nat : k = Depth - (m + 1) /\ k + 1 = Depth - m
    OBVIOUS
  <2>3. 2 ^ k \in Nat /\ 2 ^ (k + 1) = 2 * 2 ^ k
    BY Power
  <2>4. /\ Node(i, m) \in Nat /\ Node(i, m + 1) \in Nat /\ PathBit(i, m) \in {0, 1}
        /\ Node(i, m) = 2 * Node(i, m + 1) + PathBit(i, m)
    BY NodeSplit
  <2> QED BY <2>1, <2>2, <2>3, <2>4
<1> HIDE DEF S
<1>3. l \in S
  BY <1>1, <1>2, SetInduction
<1> QED BY <1>3 DEF S

LEMMA NodeTop ==
  ASSUME NEW i \in Nat, i < 2 ^ Depth
  PROVE  Node(i, Depth) = 0
<1>1. Depth \in 0 .. Depth /\ Depth - Depth = 0 /\ 2 ^ 0 = 1
  BY Power, ConstantsAssumption
<1>2. Node(i, Depth) \in 0 .. 2 ^ (Depth - Depth) - 1
  BY <1>1, NodeBound
<1>3. 2 ^ (Depth - Depth) = 1
  BY <1>1
<1> QED BY <1>2, <1>3

LEMMA NodeBelow ==
  ASSUME NEW i \in Nat, NEW l \in Nat
  PROVE  Node(i, l) <= i
<1>1. PICK p \in Nat : p = 2 ^ l /\ p > 0
  BY Power
<1>2. PICK q \in Nat : q = Node(i, l) /\ q * p <= i
  <2>1. Node(i, l) \in Nat /\ Node(i, l) * p <= i
    BY <1>1, NodeSplit
  <2> QED BY <2>1
<1>3. q <= q * p
  BY <1>1
<1> QED BY <1>1, <1>2, <1>3

-----------------------------------------------------------------------------
(* The recursive functions of the module are defined at every level: each  *)
(* is built a level at a time.                                             *)
Slots(s) == [i \in 0 .. 2 ^ Depth - 1 |-> IF i < Len(s) THEN s[i + 1] ELSE Zero]
Parents(s, odd, level, below) ==
  [i \in 0 .. 2 ^ (Depth - level) - 1 |->
     IF i * 2 ^ level >= Len(s) THEN Zero
     ELSE HashPair(below[2 * i], below[2 * i + 1], odd[<<level, i>>])]

LEMMA LayersDef ==
  ASSUME NEW s, NEW odd
  PROVE  /\ Layers(s, odd)[0] = Slots(s)
         /\ \A l \in 0 .. Depth - 1 :
              Layers(s, odd)[l + 1] = Parents(s, odd, l + 1, Layers(s, odd)[l])
<1> DEFINE Is(g, m) == g = [l \in 0 .. m |->
                          IF l = 0 THEN Slots(s) ELSE Parents(s, odd, l, g[l - 1])]
           S == {m \in Nat : \E g : Is(g, m)}
<1>1. 0 \in S
  <2>1. Is([l \in 0 .. 0 |-> Slots(s)], 0)
    OBVIOUS
  <2> QED BY <2>1
<1>2. ASSUME NEW m \in Nat, m \in S PROVE m + 1 \in S
  <2>1. PICK g : Is(g, m)
    BY <1>2
  <2> DEFINE h == [l \in 0 .. m + 1 |->
                     IF l <= m THEN g[l] ELSE Parents(s, odd, m + 1, g[m])]
  <2>2. \A l \in 0 .. m + 1 :
          h[l] = IF l = 0 THEN Slots(s) ELSE Parents(s, odd, l, h[l - 1])
    <3> TAKE l \in 0 .. m + 1
    <3> HIDE DEF S
    <3>1. CASE l <= m
      BY <2>1, <3>1
    <3>2. CASE l = m + 1
      BY <3>2
    <3> QED BY <3>1, <3>2
  <2>3. Is(h, m + 1)
    BY <2>2
  <2> HIDE DEF h, Is
  <2> QED BY <2>3
<1> HIDE DEF S
<1>3. Depth \in S
  BY <1>1, <1>2, SetInduction, ConstantsAssumption
<1>4. Is(Layers(s, odd), Depth)
  <2>1. PICK g : Is(g, Depth)
    BY <1>3 DEF S
  <2>2. Layers(s, odd) = CHOOSE f : Is(f, Depth)
    BY DEF Layers, Slots, Parents
  <2> QED BY <2>1, <2>2
<1> QED BY <1>4, ConstantsAssumption

LEMMA ClimbDef ==
  ASSUME NEW x, NEW hows
  PROVE  /\ Climb(x, hows)[0] = x
         /\ \A l \in 0 .. Depth - 1 :
              Climb(x, hows)[l + 1] = Combine(l, Climb(x, hows)[l], hows[l + 1])
<1> DEFINE Is(g, m) == g = [l \in 0 .. m |->
                          IF l = 0 THEN x ELSE Combine(l - 1, g[l - 1], hows[l])]
           S == {m \in Nat : \E g : Is(g, m)}
<1>1. 0 \in S
  <2>1. Is([l \in 0 .. 0 |-> x], 0)
    OBVIOUS
  <2> QED BY <2>1
<1>2. ASSUME NEW m \in Nat, m \in S PROVE m + 1 \in S
  <2>1. PICK g : Is(g, m)
    BY <1>2
  <2> DEFINE h == [l \in 0 .. m + 1 |->
                     IF l <= m THEN g[l] ELSE Combine(m, g[m], hows[m + 1])]
  <2>2. \A l \in 0 .. m + 1 :
          h[l] = IF l = 0 THEN x ELSE Combine(l - 1, h[l - 1], hows[l])
    <3> TAKE l \in 0 .. m + 1
    <3> HIDE DEF S
    <3>1. CASE l <= m
      BY <2>1, <3>1
    <3>2. CASE l = m + 1
      BY <3>2
    <3> QED BY <3>1, <3>2
  <2>3. Is(h, m + 1)
    BY <2>2
  <2> HIDE DEF h, Is
  <2> QED BY <2>3
<1> HIDE DEF S
<1>3. Depth \in S
  BY <1>1, <1>2, SetInduction, ConstantsAssumption
<1>4. Is(Climb(x, hows), Depth)
  <2>1. PICK g : Is(g, Depth)
    BY <1>3 DEF S
  <2>2. Climb(x, hows) = CHOOSE f : Is(f, Depth)
    BY DEF Climb
  <2> QED BY <2>1, <2>2
<1> QED BY <1>4, ConstantsAssumption

LEMMA ClimbStep ==
  ASSUME NEW x, NEW hows, NEW l \in 0 .. Depth - 1
  PROVE  Climb(x, hows)[l + 1] = Combine(l, Climb(x, hows)[l], hows[l + 1])
BY ClimbDef

(* The values a verifier climbs through.                                   *)
IsUp(g, x, index, siblings, m) ==
  g = [l \in 0 .. m |->
         IF l = 0 THEN x
         ELSE IF PathBit(index, l - 1) = 1 THEN PoseidonPair(siblings[l], g[l - 1])
              ELSE PoseidonPair(g[l - 1], siblings[l])]

LEMMA OpenedDef ==
  ASSUME NEW x, NEW index, NEW siblings
  PROVE  \E g : IsUp(g, x, index, siblings, Depth) /\ Opened(x, index, siblings) = g[Depth]
<1> DEFINE Is(g, m) == IsUp(g, x, index, siblings, m)
           Pair(l, v) == IF PathBit(index, l - 1) = 1 THEN PoseidonPair(siblings[l], v)
                         ELSE PoseidonPair(v, siblings[l])
           S == {m \in Nat : \E g : Is(g, m)}
<1>1. 0 \in S
  <2>1. Is([l \in 0 .. 0 |-> x], 0)
    BY DEF IsUp
  <2> QED BY <2>1
<1>2. ASSUME NEW m \in Nat, m \in S PROVE m + 1 \in S
  <2>1. PICK g : Is(g, m)
    BY <1>2
  <2> DEFINE h == [l \in 0 .. m + 1 |-> IF l <= m THEN g[l] ELSE Pair(m + 1, g[m])]
  <2>2. g = [l \in 0 .. m |-> IF l = 0 THEN x ELSE Pair(l, g[l - 1])]
    BY <2>1 DEF IsUp
  <2>3. \A l \in 0 .. m + 1 : h[l] = IF l = 0 THEN x ELSE Pair(l, h[l - 1])
    <3> TAKE l \in 0 .. m + 1
    <3> HIDE DEF S, Is, Pair
    <3>1. CASE l <= m
      BY <2>2, <3>1
    <3>2. CASE l = m + 1
      BY <3>2
    <3> QED BY <3>1, <3>2
  <2>4. Is(h, m + 1)
    BY <2>3 DEF IsUp
  <2> HIDE DEF h, Is
  <2> QED BY <2>4
<1> HIDE DEF S
<1>3. Depth \in S
  BY <1>1, <1>2, SetInduction, ConstantsAssumption
<1>4. PICK g : Is(g, Depth)
  BY <1>3 DEF S
<1>5. Opened(x, index, siblings) = (CHOOSE f : Is(f, Depth))[Depth]
  BY DEF Opened, IsUp
<1> HIDE DEF Is
<1>6. Is(CHOOSE f : Is(f, Depth), Depth)
  BY <1>4
<1> QED BY <1>5, <1>6 DEF Is

(* The values met on the way down to a slot.                               *)
Side(hash, bit) == IF bit = 1 THEN hash.right ELSE hash.left
IsDown(g, hash, level, index, m) ==
  g = [k \in 0 .. m |->
         IF k = 0 THEN hash ELSE Side(g[k - 1], PathBit(index, level - k))]

LEMMA BelowDef ==
  ASSUME NEW hash, NEW level \in Nat, NEW index
  PROVE  \E g : IsDown(g, hash, level, index, level) /\ Below(hash, level, index) = g[level]
<1> DEFINE Is(g, m) == IsDown(g, hash, level, index, m)
           S == {m \in Nat : \E g : Is(g, m)}
<1>1. 0 \in S
  <2>1. Is([k \in 0 .. 0 |-> hash], 0)
    BY DEF IsDown
  <2> QED BY <2>1
<1>2. ASSUME NEW m \in Nat, m \in S PROVE m + 1 \in S
  <2>1. PICK g : Is(g, m)
    BY <1>2
  <2> DEFINE h == [k \in 0 .. m + 1 |->
                     IF k <= m THEN g[k] ELSE Side(g[m], PathBit(index, level - (m + 1)))]
  <2>2. g = [k \in 0 .. m |-> IF k = 0 THEN hash ELSE Side(g[k - 1], PathBit(index, level - k))]
    BY <2>1 DEF IsDown
  <2>3. \A k \in 0 .. m + 1 :
          h[k] = IF k = 0 THEN hash ELSE Side(h[k - 1], PathBit(index, level - k))
    <3> TAKE k \in 0 .. m + 1
    <3> HIDE DEF S, Is
    <3>1. CASE k <= m
      BY <2>2, <3>1
    <3>2. CASE k = m + 1
      BY <3>2
    <3> QED BY <3>1, <3>2
  <2>4. Is(h, m + 1)
    BY <2>3 DEF IsDown
  <2> HIDE DEF h, Is
  <2> QED BY <2>4
<1> HIDE DEF S
<1>3. level \in S
  BY <1>1, <1>2, SetInduction
<1>4. PICK g : Is(g, level)
  BY <1>3 DEF S
<1>5. Below(hash, level, index) = (CHOOSE f : Is(f, level))[level]
  BY DEF Below, IsDown, Side
<1> HIDE DEF Is
<1>6. Is(CHOOSE f : Is(f, level), level)
  BY <1>4
<1> QED BY <1>5, <1>6 DEF Is

(* One level down is the side the path bit says.                           *)
LEMMA BelowStep ==
  ASSUME NEW hash, NEW level \in Nat, NEW index
  PROVE  /\ Below(hash, 0, index) = hash
         /\ Below(hash, level + 1, index) =
              Below(Side(hash, PathBit(index, level)), level, index)
<1> DEFINE side == Side(hash, PathBit(index, level))
<1>1. Below(hash, 0, index) = hash
  <2>1. PICK g : IsDown(g, hash, 0, index, 0) /\ Below(hash, 0, index) = g[0]
    BY BelowDef
  <2> QED BY <2>1 DEF IsDown
<1>2. PICK f : IsDown(f, hash, level + 1, index, level + 1)
               /\ Below(hash, level + 1, index) = f[level + 1]
  BY BelowDef, level + 1 \in Nat
<1>3. PICK g : IsDown(g, side, level, index, level) /\ Below(side, level, index) = g[level]
  BY BelowDef
<1> DEFINE S == {k \in Nat : k <= level => f[k + 1] = g[k]}
<1>4. 0 \in S
  <2>1. f[0] = hash /\ f[1] = Side(f[0], PathBit(index, (level + 1) - 1)) /\ g[0] = side
    BY <1>2, <1>3 DEF IsDown
  <2>2. (level + 1) - 1 = level
    OBVIOUS
  <2> QED BY <2>1, <2>2
<1>5. ASSUME NEW k \in Nat, k \in S PROVE k + 1 \in S
  <2> SUFFICES ASSUME k + 1 <= level PROVE f[(k + 1) + 1] = g[k + 1]
    OBVIOUS
  <2>1. f[k + 1] = g[k]
    BY <1>5
  <2>2. /\ f[k + 2] = Side(f[k + 1], PathBit(index, (level + 1) - (k + 2)))
        /\ g[k + 1] = Side(g[k], PathBit(index, level - (k + 1)))
    <3> HIDE DEF side
    <3> QED BY <1>2, <1>3 DEF IsDown
  <2>3. (level + 1) - (k + 2) = level - (k + 1) /\ (k + 1) + 1 = k + 2
    OBVIOUS
  <2> QED BY <2>1, <2>2, <2>3
<1> HIDE DEF S
<1>6. level \in S
  BY <1>4, <1>5, SetInduction
<1> QED BY <1>1, <1>2, <1>3, <1>6 DEF S

-----------------------------------------------------------------------------
(* The tree, node by node.                                                 *)
LEMMA LayersLeaf ==
  ASSUME NEW s, NEW odd, NEW i \in 0 .. 2 ^ Depth - 1
  PROVE  Layers(s, odd)[0][i] = IF i < Len(s) THEN s[i + 1] ELSE Zero
<1>1. Layers(s, odd)[0] = Slots(s)
  BY LayersDef
<1> QED BY <1>1, Zenon DEF Slots

LEMMA LayersNode ==
  ASSUME NEW s, NEW odd, NEW l \in 0 .. Depth - 1,
         NEW i \in 0 .. 2 ^ (Depth - (l + 1)) - 1
  PROVE  LET below == Layers(s, odd)[l] IN
         Layers(s, odd)[l + 1][i] =
           IF i * 2 ^ (l + 1) >= Len(s) THEN Zero
           ELSE HashPair(below[2 * i], below[2 * i + 1], odd[<<l + 1, i>>])
<1>1. Layers(s, odd)[l + 1] = Parents(s, odd, l + 1, Layers(s, odd)[l])
  BY LayersDef
<1> QED BY <1>1, Zenon DEF Parents

(* The children of a node are nodes of the level below.                    *)
LEMMA Children ==
  ASSUME NEW l \in 0 .. Depth - 1, NEW i \in 0 .. 2 ^ (Depth - (l + 1)) - 1
  PROVE  2 * i \in 0 .. 2 ^ (Depth - l) - 1 /\ 2 * i + 1 \in 0 .. 2 ^ (Depth - l) - 1
<1>1. PICK k \in Nat : k = Depth - (l + 1) /\ k + 1 = Depth - l
  BY ConstantsAssumption
<1>2. 2 ^ k \in Nat /\ 2 ^ (k + 1) = 2 * 2 ^ k
  BY Power
<1> QED BY <1>1, <1>2

LEMMA LayersEmpty ==
  ASSUME NEW s \in Seq(Leaf), NEW odd, NEW l \in 0 .. Depth,
         NEW i \in 0 .. 2 ^ (Depth - l) - 1, i * 2 ^ l >= Len(s)
  PROVE  Layers(s, odd)[l][i] = Zero
<1>1. CASE l = 0
  <2>1. 2 ^ 0 = 1 /\ i \in Nat /\ Len(s) \in Nat /\ Depth - 0 = Depth
    BY Power, <1>1, ConstantsAssumption
  <2>2. ~(i < Len(s)) /\ i \in 0 .. 2 ^ Depth - 1
    BY <1>1, <2>1
  <2> QED BY <1>1, <2>2, LayersLeaf
<1>2. CASE l # 0
  <2>1. PICK k \in 0 .. Depth - 1 : l = k + 1
    BY <1>2, ConstantsAssumption
  <2> QED BY <2>1, LayersNode
<1> QED BY <1>1, <1>2

(* A leaf more, and the way an insertion hashes, leave the nodes alone     *)
(* that are not on the way from the leaf to the root.                      *)
LEMMA LayersKept ==
  ASSUME NEW s \in Seq(Leaf), NEW x, NEW odd, NEW even, Len(s) < 2 ^ Depth,
         \A l \in 1 .. Depth : \A i \in 0 .. 2 ^ (Depth - l) - 1 :
           i # Node(Len(s), l) => (odd[<<l, i>>] = even[<<l, i>>]),
         NEW level \in 0 .. Depth, NEW j \in 0 .. 2 ^ (Depth - level) - 1,
         j # Node(Len(s), level)
  PROVE  Layers(Append(s, x), even)[level][j] = Layers(s, odd)[level][j]
<1> DEFINE n == Len(s)
           t == Append(s, x)
           Same(l) == \A i \in 0 .. 2 ^ (Depth - l) - 1 :
                        i # Node(n, l) => Layers(t, even)[l][i] = Layers(s, odd)[l][i]
           S == {l \in Nat : l <= Depth => Same(l)}
<1>1. n \in Nat /\ Len(t) = n + 1 /\ \A k \in 1 .. n : t[k] = s[k]
  OBVIOUS
<1> HIDE DEF n, t
<1>2. 0 \in S
  <2>1. Node(n, 0) = n /\ Depth - 0 = Depth
    BY <1>1, Power, ConstantsAssumption DEF Node
  <2>2. ASSUME NEW i \in 0 .. 2 ^ Depth - 1, i # n
        PROVE  Layers(t, even)[0][i] = Layers(s, odd)[0][i]
    <3>1. /\ Layers(t, even)[0][i] = IF i < Len(t) THEN t[i + 1] ELSE Zero
          /\ Layers(s, odd)[0][i] = IF i < Len(s) THEN s[i + 1] ELSE Zero
      BY LayersLeaf
    <3>2. i < Len(t) <=> i < n
      BY <1>1, <2>2
    <3>3. i < n => t[i + 1] = s[i + 1]
      BY <1>1
    <3> QED BY <3>1, <3>2, <3>3 DEF n
  <2> QED BY <2>1, <2>2
<1>3. ASSUME NEW l \in Nat, l \in S PROVE l + 1 \in S
  <2> SUFFICES ASSUME l + 1 <= Depth, NEW i \in 0 .. 2 ^ (Depth - (l + 1)) - 1,
                      i # Node(n, l + 1)
               PROVE  Layers(t, even)[l + 1][i] = Layers(s, odd)[l + 1][i]
    OBVIOUS
  <2>1. l \in 0 .. Depth - 1 /\ i \in Nat
    BY ConstantsAssumption
  <2>2. /\ Node(n, l) \in Nat /\ Node(n, l + 1) \in Nat /\ PathBit(n, l) \in {0, 1}
        /\ Node(n, l) = 2 * Node(n, l + 1) + PathBit(n, l)
    BY <1>1, NodeSplit
  <2>3. 2 * i # Node(n, l) /\ 2 * i + 1 # Node(n, l)
    BY <2>1, <2>2
  <2>4. /\ Layers(t, even)[l][2 * i] = Layers(s, odd)[l][2 * i]
        /\ Layers(t, even)[l][2 * i + 1] = Layers(s, odd)[l][2 * i + 1]
    <3>1. /\ 2 * i \in 0 .. 2 ^ (Depth - l) - 1
          /\ 2 * i + 1 \in 0 .. 2 ^ (Depth - l) - 1
      BY <2>1, Children
    <3>2. l <= Depth
      BY <2>1, ConstantsAssumption
    <3>3. Same(l)
      BY <1>3, <3>2
    <3> QED BY <2>3, <3>1, <3>3
  <2>5. i * 2 ^ (l + 1) >= Len(t) <=> i * 2 ^ (l + 1) >= n
    <3>1. PICK p \in Nat : p = 2 ^ (l + 1) /\ p > 0
      BY Power, l + 1 \in Nat
    <3>2. i * p # n
      <4> SUFFICES ASSUME i * p = n PROVE FALSE
        OBVIOUS
      <4>1. i * p <= n /\ n < (i + 1) * p
        BY <1>1, <2>1, <3>1
      <4> QED BY <1>1, <2>1, <3>1, <4>1, NodeUnique, l + 1 \in Nat
    <3> QED BY <1>1, <2>1, <3>1, <3>2
  <2>6. odd[<<l + 1, i>>] = even[<<l + 1, i>>]
    BY <2>1 DEF n
  <2>7. Layers(t, even)[l + 1][i] =
          IF i * 2 ^ (l + 1) >= Len(t) THEN Zero
          ELSE HashPair(Layers(t, even)[l][2 * i], Layers(t, even)[l][2 * i + 1],
                        even[<<l + 1, i>>])
    BY <2>1, LayersNode
  <2>8. Layers(s, odd)[l + 1][i] =
          IF i * 2 ^ (l + 1) >= Len(s) THEN Zero
          ELSE HashPair(Layers(s, odd)[l][2 * i], Layers(s, odd)[l][2 * i + 1],
                        odd[<<l + 1, i>>])
    BY <2>1, LayersNode
  <2> QED BY <2>4, <2>5, <2>6, <2>7, <2>8 DEF n, HashPair
<1> HIDE DEF S
<1>4. level \in S
  BY <1>2, <1>3, SetInduction
<1> QED BY <1>4 DEF S, n, t

-----------------------------------------------------------------------------
(* The stored hashes and the root are those of the tree whose nodes are    *)
(* hashed as they were made: a level whose bit is set in the number of leaves     *)
(* holds the complete subtree left of the next leaf's way to the root.     *)
Exact ==
  LET tree == Layers(leaves, made)
      n == Len(leaves)
  IN /\ root = tree[Depth][0]
     /\ \A level \in Levels :
          PathBit(n, level) = 1 => state[level] = tree[level][Node(n, level) - 1]

Inv == TypeOK /\ Exact

LEMMA InitInv == Init => Inv
<1> SUFFICES ASSUME Init PROVE Inv
  OBVIOUS
<1>1. leaves = <<>> /\ Len(leaves) = 0 /\ leaves \in Seq(Leaf)
  BY DEF Init
<1>2. TypeOK
  BY <1>1, Power, ConstantsAssumption DEF Init, TypeOK, AllHashed, Outcomes
<1>3. Layers(leaves, made)[Depth][0] = Zero
  <2>1. Depth \in 0 .. Depth /\ Depth - Depth = 0 /\ 2 ^ 0 = 1 /\ 2 ^ Depth \in Nat
    BY Power, ConstantsAssumption
  <2>2. 0 \in 0 .. 2 ^ (Depth - Depth) - 1 /\ 0 * 2 ^ Depth >= Len(leaves)
    <3>1. 0 * 2 ^ Depth = 0
      BY <2>1
    <3>2. 2 ^ (Depth - Depth) = 1
      BY <2>1
    <3> QED BY <1>1, <3>1, <3>2
  <2> QED BY <1>1, <2>1, <2>2, LayersEmpty
<1>4. ASSUME NEW level \in Levels PROVE PathBit(Len(leaves), level) = 0
  <2>1. PICK p \in Nat : p = 2 ^ level /\ p > 0
    BY Power DEF Levels
  <2>2. 0 \div p = 0 /\ 0 % 2 = 0
    BY <2>1
  <2> QED BY <1>1, <2>1, <2>2 DEF PathBit, Node
<1>5. root = Zero
  BY DEF Init
<1>6. Exact
  BY <1>3, <1>4, <1>5 DEF Exact
<1> QED BY <1>2, <1>6 DEF Inv

(* An insertion records how the hashes on its way were made, and no others. *)
LEMMA InsertMade ==
  ASSUME TypeOK, NEW x \in Leaf, NEW hows \in [1 .. Depth -> Outcomes], Insert(x, hows),
         NEW l \in 1 .. Depth
  PROVE  /\ made'[<<l, Node(Len(leaves), l)>>] = hows[l]
         /\ \A i \in 0 .. 2 ^ (Depth - l) - 1 : i # Node(Len(leaves), l) =>
              made[<<l, i>>] = made'[<<l, i>>]
<1>1. made' = [node \in Nodes |->
                 IF node \in PathNodes(Len(leaves)) THEN hows[node[1]] ELSE made[node]]
  BY DEF Insert
<1>2. <<l, Node(Len(leaves), l)>> \in PathNodes(Len(leaves))
  BY DEF PathNodes
<1>3. <<l, Node(Len(leaves), l)>> \in Nodes
  <2>1. Len(leaves) \in Nat /\ Len(leaves) < 2 ^ Depth /\ l \in 0 .. Depth
    BY DEF TypeOK, Insert, Room
  <2>2. Node(Len(leaves), l) \in 0 .. 2 ^ (Depth - l) - 1
    BY <2>1, NodeBound
  <2> QED BY <2>2 DEF Nodes
<1>4. ASSUME NEW i \in 0 .. 2 ^ (Depth - l) - 1, i # Node(Len(leaves), l)
      PROVE  <<l, i>> \notin PathNodes(Len(leaves)) /\ <<l, i>> \in Nodes
  BY <1>4 DEF PathNodes, Nodes
<1> QED BY <1>1, <1>2, <1>3, <1>4

LEMMA InsertKeeps ==
  ASSUME TypeOK, NEW x \in Leaf, NEW hows \in [1 .. Depth -> Outcomes], Insert(x, hows),
         NEW l \in 0 .. Depth, NEW i \in 0 .. 2 ^ (Depth - l) - 1, i # Node(Len(leaves), l)
  PROVE  Layers(leaves', made')[l][i] = Layers(leaves, made)[l][i]
<1>1. leaves \in Seq(Leaf) /\ Len(leaves) < 2 ^ Depth /\ leaves' = Append(leaves, x)
  BY DEF TypeOK, Insert, Room
<1>2. \A k \in 1 .. Depth : \A m \in 0 .. 2 ^ (Depth - k) - 1 :
        m # Node(Len(leaves), k) => made[<<k, m>>] = made'[<<k, m>>]
  BY InsertMade
<1> QED BY <1>1, <1>2, LayersKept

(* The way up from a new leaf meets the hashes of its nodes.               *)
LEMMA ClimbIsPath ==
  ASSUME Inv, NEW x \in Leaf, NEW hows \in [1 .. Depth -> Outcomes], Insert(x, hows),
         NEW level \in 0 .. Depth
  PROVE  Climb(x, hows)[level] = Layers(leaves', made')[level][Node(Len(leaves), level)]
<1> DEFINE n == Len(leaves)
           climb == Climb(x, hows)
           tree == Layers(leaves, made)
           grown == Layers(leaves', made')
           S == {l \in Nat : l <= Depth => climb[l] = grown[l][Node(n, l)]}
<1> USE DEF Inv
<1>1. /\ leaves \in Seq(Leaf) /\ n \in Nat /\ n < 2 ^ Depth
      /\ leaves' = Append(leaves, x) /\ leaves' \in Seq(Leaf)
      /\ Len(leaves') = n + 1 /\ leaves'[n + 1] = x
  BY DEF TypeOK, Insert, Room
<1>2. \A l \in 0 .. Depth : Node(n, l) \in 0 .. 2 ^ (Depth - l) - 1
  BY <1>1, NodeBound
<1>3. 0 \in S
  <2>1. climb[0] = x
    BY ClimbDef
  <2>2. Node(n, 0) = n /\ n \in 0 .. 2 ^ Depth - 1
    BY <1>1, Power, ConstantsAssumption DEF Node
  <2>3. grown[0][n] = IF n < Len(leaves') THEN leaves'[n + 1] ELSE Zero
    BY <2>2, LayersLeaf
  <2> QED BY <1>1, <2>1, <2>2, <2>3
<1>4. ASSUME NEW l \in Nat, l \in S PROVE l + 1 \in S
  <2> SUFFICES ASSUME l + 1 <= Depth PROVE climb[l + 1] = grown[l + 1][Node(n, l + 1)]
    OBVIOUS
  <2>1. l \in 0 .. Depth - 1 /\ l \in Levels /\ l \in 0 .. Depth /\ l + 1 \in 1 .. Depth
        /\ l + 1 \in 0 .. Depth
    BY ConstantsAssumption DEF Levels
  <2>2. PICK m \in Nat : m = Node(n, l + 1)
    BY <1>1, NodeSplit
  <2>3. m \in 0 .. 2 ^ (Depth - (l + 1)) - 1
    BY <1>2, <2>1, <2>2
  <2>4. /\ PathBit(n, l) \in {0, 1} /\ Node(n, l) = 2 * m + PathBit(n, l)
        /\ n < (Node(n, l) + 1) * 2 ^ l
    BY <1>1, <2>2, NodeSplit
  <2>5. climb[l] = grown[l][Node(n, l)]
    BY <1>4, <2>1
  <2>6. 2 * m \in 0 .. 2 ^ (Depth - l) - 1 /\ 2 * m + 1 \in 0 .. 2 ^ (Depth - l) - 1
    BY <2>1, <2>3, Children
  <2>7. grown[l + 1][m] = HashPair(grown[l][2 * m], grown[l][2 * m + 1], hows[l + 1])
    <3>1. grown[l + 1][m] =
            IF m * 2 ^ (l + 1) >= Len(leaves') THEN Zero
            ELSE HashPair(grown[l][2 * m], grown[l][2 * m + 1], made'[<<l + 1, m>>])
      BY <2>1, <2>3, LayersNode
    <3>2. PICK k \in Nat : k = m * 2 ^ (l + 1) /\ k <= n
      <4>1. Node(n, l + 1) * 2 ^ (l + 1) <= n
        BY <1>1, NodeSplit, l + 1 \in Nat
      <4>2. 2 ^ (l + 1) \in Nat
        BY Power, l + 1 \in Nat
      <4> QED BY <2>2, <4>1, <4>2
    <3>3. ~(m * 2 ^ (l + 1) >= Len(leaves'))
      BY <1>1, <3>2
    <3>4. made'[<<l + 1, m>>] = hows[l + 1]
      BY <2>1, <2>2, InsertMade
    <3> QED BY <3>1, <3>3, <3>4 DEF HashPair
  <2>8. climb[l + 1] = Combine(l, climb[l], hows[l + 1])
    <3>1. l \in 0 .. Depth - 1
      BY <2>1
    <3> QED BY <3>1, ClimbStep, Zenon
  <2>9. CASE PathBit(n, l) = 1
    <3>1. 2 * m # Node(n, l) /\ Node(n, l) - 1 = 2 * m
      BY <2>4, <2>9
    <3>2. state[l] = tree[l][2 * m]
      BY <2>1, <2>9, <3>1 DEF Exact
    <3>3. grown[l][2 * m] = tree[l][2 * m]
      BY <2>1, <2>6, <3>1, InsertKeeps
    <3>4. grown[l][2 * m + 1] = climb[l]
      BY <2>4, <2>5, <2>9
    <3> QED BY <2>2, <2>7, <2>8, <2>9, <3>2, <3>3, <3>4 DEF Combine, Sibling, HashPair
  <2>10. CASE PathBit(n, l) = 0
    <3>1. Node(n, l) = 2 * m /\ 2 * m + 1 = Node(n, l) + 1
      BY <2>4, <2>10
    <3>2. (2 * m + 1) * 2 ^ l >= Len(leaves')
      <4>1. PICK p \in Nat : p = 2 ^ l
        BY Power
      <4>2. PICK k \in Nat : k = (2 * m + 1) * p
        BY <2>2, <4>1
      <4> QED BY <1>1, <2>4, <3>1, <4>1, <4>2
    <3>3. grown[l][2 * m + 1] = Zero
      BY <1>1, <2>1, <2>6, <3>2, LayersEmpty
    <3> QED BY <2>2, <2>5, <2>7, <2>8, <2>10, <3>1, <3>3 DEF Combine, Sibling, HashPair
  <2> QED BY <2>4, <2>9, <2>10
<1> HIDE DEF S
<1>5. level \in S
  BY <1>3, <1>4, SetInduction
<1> QED BY <1>5 DEF S

LEMMA InsertInv ==
  ASSUME Inv, NEW x \in Leaf, NEW hows \in [1 .. Depth -> Outcomes], Insert(x, hows),
         fallbacks' \in Nat
  PROVE  Inv'
<1> DEFINE n == Len(leaves)
           climb == Climb(x, hows)
           grown == Layers(leaves', made')
<1> USE DEF Inv
<1>1. /\ leaves \in Seq(Leaf) /\ n \in Nat /\ n < 2 ^ Depth
      /\ leaves' = Append(leaves, x) /\ leaves' \in Seq(Leaf) /\ Len(leaves') = n + 1
      /\ DOMAIN state = Levels /\ state' = Stored(climb) /\ root' = climb[Depth]
      /\ Len(witness') = Depth
  BY ConstantsAssumption DEF TypeOK, Insert, Room
<1>2. \A l \in 0 .. Depth : Node(n, l) \in Nat /\ Node(n, l) \in 0 .. 2 ^ (Depth - l) - 1
  BY <1>1, NodeBound
<1>3. \A l \in 0 .. Depth : climb[l] = grown[l][Node(n, l)]
  BY ClimbIsPath
<1>4. TypeOK'
  <2>1. DOMAIN state' = Levels
    BY <1>1 DEF Stored
  <2>2. Len(leaves') <= 2 ^ Depth
    BY <1>1, Power, ConstantsAssumption
  <2>3. made' \in [Nodes -> Outcomes]
    <3>1. \A node \in Nodes : node[1] \in 1 .. Depth
      BY DEF Nodes
    <3> QED BY <3>1 DEF Insert, TypeOK
  <2> QED BY <1>1, <2>1, <2>2, <2>3 DEF TypeOK
<1>5. root' = grown[Depth][0]
  <2>1. Depth \in 0 .. Depth
    BY ConstantsAssumption
  <2>2. Node(n, Depth) = 0
    BY <1>1, NodeTop
  <2> QED BY <1>1, <1>3, <2>1, <2>2
<1>6. ASSUME NEW l \in Levels, PathBit(n + 1, l) = 1
      PROVE  state'[l] = grown[l][Node(n + 1, l) - 1]
  <2>1. l \in Nat /\ l \in 0 .. Depth
    BY ConstantsAssumption DEF Levels
  <2>2. state'[l] = IF PathBit(n, l) = 0 THEN climb[l] ELSE state[l]
    BY <1>1 DEF Stored
  <2>3. Node(n + 1, l) \in {Node(n, l), Node(n, l) + 1} /\ Node(n, l) \in Nat
    BY <1>1, <1>2, <2>1, NodeNext
  <2>4. /\ PathBit(n, l) = Node(n, l) % 2 /\ PathBit(n + 1, l) = Node(n + 1, l) % 2
        /\ PathBit(n, l) \in {0, 1}
    BY <1>1, <2>1, NodeSplit DEF PathBit
  <2>5. CASE PathBit(n, l) = 0
    <3>1. Node(n + 1, l) - 1 = Node(n, l)
      BY <1>6, <2>3, <2>4, <2>5
    <3> QED BY <1>3, <2>1, <2>2, <2>5, <3>1
  <2>6. CASE PathBit(n, l) = 1
    <3>1. \A k \in Nat : k % 2 = 1 => (k + 1) % 2 = 0 /\ k # 0
      OBVIOUS
    <3>2. Node(n + 1, l) = Node(n, l) /\ Node(n, l) # 0
      <4>1. (Node(n, l) + 1) % 2 = 0 /\ Node(n, l) # 0
        BY <2>3, <2>4, <2>6, <3>1
      <4> QED BY <1>6, <2>3, <2>4, <4>1
    <3>3. state[l] = Layers(leaves, made)[l][Node(n, l) - 1]
      BY <2>6 DEF Exact
    <3>4. Node(n, l) - 1 \in 0 .. 2 ^ (Depth - l) - 1 /\ Node(n, l) - 1 # Node(n, l)
      <4>1. Node(n, l) \in 0 .. 2 ^ (Depth - l) - 1 /\ 2 ^ (Depth - l) \in Nat
        <5>1. Depth - l \in Nat
          BY <2>1, ConstantsAssumption
        <5> QED BY <1>2, <2>1, <5>1, Power
      <4> QED BY <2>3, <3>2, <4>1
    <3>5. grown[l][Node(n, l) - 1] = Layers(leaves, made)[l][Node(n, l) - 1]
      BY <2>1, <3>4, InsertKeeps
    <3> QED BY <2>2, <2>6, <3>2, <3>3, <3>5
  <2> QED BY <2>4, <2>5, <2>6
<1>7. Exact'
  <2>1. \A l \in Levels : PathBit(Len(leaves'), l) = 1 =>
          state'[l] = grown[l][Node(Len(leaves'), l) - 1]
    BY <1>1, <1>6
  <2> QED BY <1>5, <2>1 DEF Exact, Levels
<1> QED BY <1>4, <1>7

(* Every step is an insertion.                                             *)
LEMMA NextIsInsert ==
  ASSUME TypeOK, Next
  PROVE  /\ fallbacks' \in Nat
         /\ \E x \in Leaf, hows \in [1 .. Depth -> Outcomes] : Insert(x, hows)
<1>1. \A how \in Outcomes : Always(how) \in [1 .. Depth -> Outcomes]
  BY DEF Always
<1>2. "hashed" \in Outcomes /\ "missing" \in Outcomes /\ "failed" \in Outcomes
  BY DEF Outcomes
<1>3. CASE InsertAllHashed
  BY <1>1, <1>2, <1>3 DEF InsertAllHashed, TypeOK
<1>4. CASE InsertWithFallback
  <2>1. PICK x \in Leaf, level \in 1 .. Depth :
          fallbacks' = fallbacks + 1 /\ Insert(x, [Always("hashed") EXCEPT ![level] = "failed"])
    BY <1>4 DEF InsertWithFallback
  <2>2. [Always("hashed") EXCEPT ![level] = "failed"] \in [1 .. Depth -> Outcomes]
    BY <1>1, <1>2
  <2>3. fallbacks' \in Nat
    BY <2>1 DEF TypeOK
  <2> QED BY <2>1, <2>2, <2>3, Zenon
<1>5. CASE InsertWithoutProgram
  BY <1>1, <1>2, <1>5 DEF InsertWithoutProgram, TypeOK
<1> QED BY <1>3, <1>4, <1>5 DEF Next

LEMMA NextInv == Inv /\ [Next]_vars => Inv'
<1> SUFFICES ASSUME Inv, [Next]_vars PROVE Inv'
  OBVIOUS
<1>1. CASE Next
  BY <1>1, NextIsInsert, InsertInv DEF Inv
<1>2. CASE UNCHANGED vars
  BY <1>2 DEF vars, Inv, TypeOK, Exact
<1> QED BY <1>1, <1>2

(* The root is that of the whole tree of the leaves unless a node of it was *)
(* last hashed by a fallback (enroll.py:391-425, 334-337).               *)
THEOREM RootCorrect == Spec => []RootIsReference
<1>1. Inv => RootIsReference
  BY DEF Inv, Exact, RootIsReference, ReferenceRoot
<1> QED BY <1>1, InitInv, NextInv, PTL DEF Spec

-----------------------------------------------------------------------------
(* The witness follows the climb of the last insertion, sibling by         *)
(* sibling.                                                                *)
LEMMA InsertOpens ==
  ASSUME Inv, NEW x \in Leaf, NEW hows \in [1 .. Depth -> Outcomes], Insert(x, hows)
  PROVE  WitnessOpens'
<1> DEFINE n == Len(leaves)
           climb == Climb(x, hows)
<1>1. /\ n \in Nat /\ Len(leaves') = n + 1 /\ leaves'[n + 1] = x /\ (n + 1) - 1 = n
      /\ root' = climb[Depth] /\ witness' = [k \in 1 .. Depth |-> Sibling(k - 1)]
  BY DEF Inv, TypeOK, Insert
<1> SUFFICES ASSUME \A node \in PathNodes(n) : made'[node] = "hashed"
             PROVE  climb[Depth] = Opened(x, n, witness')
  BY <1>1 DEF WitnessOpens
<1>2. \A l \in 1 .. Depth : hows[l] = "hashed"
  <2> SUFFICES ASSUME NEW l \in 1 .. Depth PROVE hows[l] = "hashed"
    OBVIOUS
  <2>1. made'[<<l, Node(n, l)>>] = hows[l] /\ <<l, Node(n, l)>> \in PathNodes(n)
    BY InsertMade DEF PathNodes, Inv
  <2> QED BY <2>1
<1>3. PICK g : IsUp(g, x, n, witness', Depth) /\ Opened(x, n, witness') = g[Depth]
  BY OpenedDef
<1> DEFINE S == {l \in Nat : l <= Depth => climb[l] = g[l]}
<1>4. 0 \in S
  BY <1>3, ClimbDef, ConstantsAssumption DEF IsUp
<1>5. ASSUME NEW l \in Nat, l \in S PROVE l + 1 \in S
  <2> SUFFICES ASSUME l + 1 <= Depth PROVE climb[l + 1] = g[l + 1]
    OBVIOUS
  <2>1. /\ l \in 0 .. Depth - 1 /\ l + 1 \in 1 .. Depth /\ l + 1 \in 0 .. Depth
        /\ (l + 1) - 1 = l /\ l + 1 # 0
    BY ConstantsAssumption
  <2>2. climb[l] = g[l]
    <3> HIDE DEF climb
    <3>1. l <= Depth
      BY <2>1, ConstantsAssumption
    <3> QED BY <1>5, <3>1
  <2>3. climb[l + 1] = Combine(l, climb[l], hows[l + 1])
    <3>1. l \in 0 .. Depth - 1
      BY <2>1
    <3> QED BY <3>1, ClimbStep, Zenon
  <2>4. climb[l + 1] = IF PathBit(n, l) = 1 THEN PoseidonPair(Sibling(l), climb[l])
                       ELSE PoseidonPair(climb[l], Sibling(l))
    BY <1>2, <2>1, <2>3 DEF Combine, HashPair
  <2>5. witness'[l + 1] = Sibling(l)
    BY <1>1, <2>1
  <2>6. g[l + 1] = IF PathBit(n, l) = 1 THEN PoseidonPair(witness'[l + 1], g[l])
                   ELSE PoseidonPair(g[l], witness'[l + 1])
    BY <1>3, <2>1, Zenon DEF IsUp
  <2> QED BY <2>2, <2>4, <2>5, <2>6
<1> HIDE DEF S
<1>6. Depth \in S
  BY <1>4, <1>5, SetInduction, ConstantsAssumption
<1> QED BY <1>3, <1>6, ConstantsAssumption DEF S

(* Index, siblings and root of an answer open each other, unless a node on *)
(* the way of this very insertion was hashed by a fallback               *)
(* (enroll.py:391-425).                                                    *)
THEOREM WitnessCorrect == Spec => []WitnessOpens
<1>1. Init => WitnessOpens
  BY DEF Init, WitnessOpens
<1>2. Inv /\ WitnessOpens /\ [Next]_vars => WitnessOpens'
  <2> SUFFICES ASSUME Inv, WitnessOpens, [Next]_vars PROVE WitnessOpens'
    OBVIOUS
  <2>1. CASE Next
    BY <2>1, NextIsInsert, InsertOpens DEF Inv
  <2>2. CASE UNCHANGED vars
    BY <2>2 DEF vars, WitnessOpens
  <2> QED BY <2>1, <2>2
<1> QED BY <1>1, <1>2, InitInv, NextInv, PTL DEF Spec

-----------------------------------------------------------------------------
(* What the model's data grant: a hash is not taken for a leaf.            *)
HashesAreNoLeaves ==
  \A left, right :
    PoseidonPair(left, right) \notin Leaf /\ MissingPair(left, right) \notin Leaf
    /\ ShaPair(left, right) \notin Leaf

LEMMA SlotHolds ==
  ASSUME HashesAreNoLeaves, NEW s \in Seq(Leaf), Len(s) <= 2 ^ Depth, NEW odd,
         NEW i \in 0 .. Len(s) - 1
  PROVE  Digits8(Below(Layers(s, odd)[Depth][0], Depth, i)) = Short[s[i + 1]]
<1> DEFINE tree == Layers(s, odd)
           leaf == s[i + 1]
           Holds(l, v) == Digits8(Below(v, l, i)) = Short[leaf]
           S == {l \in Nat : l <= Depth =>
                   Holds(l, tree[l][Node(i, l)]) /\ Holds(l, Digits8(tree[l][Node(i, l)]))}
<1>1. i \in Nat /\ i < Len(s) /\ i < 2 ^ Depth /\ leaf \in Leaf /\ 2 ^ Depth \in Nat
  BY Power, ConstantsAssumption
<1>2. Short[leaf] \notin Leaf
  BY <1>1, ConstantsAssumption
<1>3. \A l \in 0 .. Depth : Node(i, l) \in Nat /\ Node(i, l) \in 0 .. 2 ^ (Depth - l) - 1
  BY <1>1, NodeBound
<1>4. 0 \in S
  <2>1. Node(i, 0) = i /\ i \in 0 .. 2 ^ Depth - 1
    BY <1>1, Power DEF Node
  <2>2. tree[0][i] = leaf
    BY <1>1, <2>1, LayersLeaf
  <2>3. Below(leaf, 0, i) = leaf /\ Below(Digits8(leaf), 0, i) = Digits8(leaf)
    BY BelowStep, 0 \in Nat
  <2>4. Digits8(leaf) = Short[leaf] /\ Digits8(Digits8(leaf)) = Short[leaf]
    BY <1>1, <1>2 DEF Digits8
  <2> HIDE DEF leaf, tree
  <2> QED BY <2>1, <2>2, <2>3, <2>4
<1>5. ASSUME NEW l \in Nat, l \in S PROVE l + 1 \in S
  <2> DEFINE h == tree[l + 1][Node(i, l + 1)]
             below == tree[l][Node(i, l)]
  <2> SUFFICES ASSUME l + 1 <= Depth PROVE Holds(l + 1, h) /\ Holds(l + 1, Digits8(h))
    OBVIOUS
  <2>1. l \in 0 .. Depth - 1 /\ l + 1 \in 0 .. Depth
    BY ConstantsAssumption
  <2>2. PICK m \in Nat : m = Node(i, l + 1) /\ m \in 0 .. 2 ^ (Depth - (l + 1)) - 1
    BY <1>3, <2>1
  <2>3. /\ PathBit(i, l) \in {0, 1} /\ Node(i, l) = 2 * m + PathBit(i, l)
        /\ m * 2 ^ (l + 1) <= i
    BY <1>1, <2>2, NodeSplit, l + 1 \in Nat
  <2>4. ~(m * 2 ^ (l + 1) >= Len(s))
    <3>1. PICK p \in Nat : p = 2 ^ (l + 1)
      BY Power, l + 1 \in Nat
    <3>2. PICK k \in Nat : k = m * p
      BY <2>2, <3>1
    <3> QED BY <1>1, <2>3, <3>1, <3>2
  <2>5. h = HashPair(tree[l][2 * m], tree[l][2 * m + 1], odd[<<l + 1, m>>])
    BY <2>1, <2>2, <2>4, LayersNode
  <2>6. \/ h = PoseidonPair(tree[l][2 * m], tree[l][2 * m + 1])
        \/ h = MissingPair(tree[l][2 * m], tree[l][2 * m + 1])
        \/ h = ShaPair(tree[l][2 * m], tree[l][2 * m + 1])
    BY <2>5 DEF HashPair
  <2>7. h \notin Leaf /\ Digits8(h) = h
    <3> HIDE DEF h
    <3> QED BY <2>6 DEF HashesAreNoLeaves, Digits8
  <2>8. Side(h, PathBit(i, l)) \in {below, Digits8(below)}
    <3>1. CASE PathBit(i, l) = 1
      <4>1. Node(i, l) = 2 * m + 1
        BY <2>3, <3>1
      <4>2. h.right \in {tree[l][2 * m + 1], Digits8(tree[l][2 * m + 1])}
        <5> HIDE DEF h
        <5>1. PICK u, v : u = tree[l][2 * m] /\ v = tree[l][2 * m + 1]
          OBVIOUS
        <5>2. h = PoseidonPair(u, v) \/ h = MissingPair(u, v) \/ h = ShaPair(u, v)
          BY <2>6, <5>1
        <5>3. h.right = v \/ h.right = Digits8(v)
          <6>1. CASE h = PoseidonPair(u, v)
            BY <6>1 DEF PoseidonPair
          <6>2. CASE h = MissingPair(u, v)
            BY <6>2 DEF MissingPair
          <6>3. CASE h = ShaPair(u, v)
            BY <6>3 DEF ShaPair
          <6> QED BY <5>2, <6>1, <6>2, <6>3
        <5> QED BY <5>1, <5>3
      <4> QED BY <3>1, <4>1, <4>2 DEF Side
    <3>2. CASE PathBit(i, l) = 0
      <4>1. Node(i, l) = 2 * m
        BY <2>3, <3>2
      <4>2. h.left \in {tree[l][2 * m], Digits8(tree[l][2 * m])}
        <5> HIDE DEF h
        <5>1. PICK u, v : u = tree[l][2 * m] /\ v = tree[l][2 * m + 1]
          OBVIOUS
        <5>2. h = PoseidonPair(u, v) \/ h = MissingPair(u, v) \/ h = ShaPair(u, v)
          BY <2>6, <5>1
        <5>3. h.left = u \/ h.left = Digits8(u)
          <6>1. CASE h = PoseidonPair(u, v)
            BY <6>1 DEF PoseidonPair
          <6>2. CASE h = MissingPair(u, v)
            BY <6>2 DEF MissingPair
          <6>3. CASE h = ShaPair(u, v)
            BY <6>3 DEF ShaPair
          <6> QED BY <5>2, <6>1, <6>2, <6>3
        <5> QED BY <5>1, <5>3
      <4> QED BY <3>2, <4>1, <4>2 DEF Side
    <3> QED BY <2>3, <3>1, <3>2
  <2>9. Below(h, l + 1, i) = Below(Side(h, PathBit(i, l)), l, i)
    BY BelowStep
  <2>10. Holds(l, below) /\ Holds(l, Digits8(below))
    <3>1. l <= Depth
      BY <2>1, ConstantsAssumption
    <3> HIDE DEF Holds
    <3> QED BY <1>5, <3>1
  <2> HIDE DEF h, below
  <2> QED BY <2>7, <2>8, <2>9, <2>10
<1> HIDE DEF S
<1>6. Depth \in S
  BY <1>4, <1>5, SetInduction, ConstantsAssumption
<1>7. Node(i, Depth) = 0
  BY <1>1, NodeTop
<1> QED BY <1>6, <1>7, ConstantsAssumption DEF S

(* Every leaf inserted so far stands at its index under every root, even   *)
(* under one made with a fallback: as far as the first eight digits go,  *)
(* a root binds its leaves (enroll.py:332, 391-425).                       *)
THEOREM BindsCorrect ==
  ASSUME HashesAreNoLeaves
  PROVE  Spec => []RootBindsLeaves
<1>1. Inv => RootBindsLeaves
  <2> SUFFICES ASSUME Inv, NEW i \in DOMAIN leaves
               PROVE  Digits8(Below(root, Depth, i - 1)) = Short[leaves[i]]
    BY DEF RootBindsLeaves
  <2>1. /\ leaves \in Seq(Leaf) /\ Len(leaves) <= 2 ^ Depth
        /\ i - 1 \in 0 .. Len(leaves) - 1 /\ (i - 1) + 1 = i
    BY DEF Inv, TypeOK
  <2>2. root = Layers(leaves, made)[Depth][0]
    BY DEF Inv, Exact
  <2>3. Digits8(Below(root, Depth, i - 1)) = Short[leaves[(i - 1) + 1]]
    BY <2>1, <2>2, SlotHolds
  <2> QED BY <2>1, <2>3
<1> QED BY <1>1, InitInv, NextInv, PTL DEF Spec
=============================================================================
