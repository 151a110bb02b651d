----------------------------- MODULE MerkleTree -----------------------------
(***************************************************************************)
(* The incremental Merkle tree of one client and purpose: insert_leaf of   *)
(* app/routes/enroll.py, whose result EnrollCommit stands for by the list  *)
(* of leaves.  The tree is known by next_leaf_index and one hash per level *)
(* (state_json); an insertion climbs once from the new leaf to the root.   *)
(*                                                                         *)
(* hash_pair asks the poseidon_hash program for the hash of the first      *)
(* eight digits of both sides. When there is no such program it gets a     *)
(* SHA-256 of those digits instead, and when the program fails or is too   *)
(* slow it takes a SHA-256 of all digits: nothing is raised and nothing    *)
(* tells the three apart later.                                            *)
(*                                                                         *)
(* A hash is the pair it was made of, and its first eight digits stand for *)
(* it: hashes do not collide here, as the code relies on, although a       *)
(* Poseidon hash is 31 bits padded with zeros. A leaf has more digits, and *)
(* only the first eight reach the root.                                    *)
(***************************************************************************)
EXTENDS Naturals, Sequences

CONSTANTS
  Leaf,         \* 64-digit leaf commitments
  Short,        \* Short[x]: the first eight digits of leaf x
  Zero,         \* "0" * 64
  Depth,        \* depth of the tree, 20
  MaxFallbacks  \* bound of the model: insertions poseidon_hash fails at

ASSUME ConstantsAssumption ==
  /\ Zero \notin Leaf
  /\ DOMAIN Short = Leaf
  /\ \A x \in Leaf : Short[x] \notin Leaf
  /\ Depth \in Nat \ {0}
  /\ MaxFallbacks \in Nat

VARIABLES
  leaves,     \* leaves inserted so far, by index
  state,      \* state[level]: the hash stored for that level
  root,       \* the root published last
  witness,    \* the siblings returned last
  made,       \* of each tree node <<level, i>>: how its hash was made last
  fallbacks   \* insertions poseidon_hash failed at so far

vars == <<leaves, state, root, witness, made, fallbacks>>

Levels == 0 .. Depth - 1
Nodes == UNION {{level} \X (0 .. 2 ^ (Depth - level) - 1) : level \in 1 .. Depth}
Outcomes == {"hashed", "missing", "failed"}
AllHashed == [node \in Nodes |-> "hashed"]

TypeOK ==
  /\ leaves \in Seq(Leaf)
  /\ Len(leaves) <= 2 ^ Depth
  /\ DOMAIN state = Levels
  /\ witness = <<>> \/ Len(witness) = Depth
  /\ made \in [Nodes -> Outcomes]
  /\ fallbacks \in Nat

(* A new tree: create_merkle_tree stores a zero for every level.           *)
Init ==
  /\ leaves = <<>>
  /\ state = [level \in Levels |-> Zero]
  /\ root = Zero
  /\ witness = <<>>
  /\ made = AllHashed
  /\ fallbacks = 0

-----------------------------------------------------------------------------
Digits8(x) == IF x \in Leaf THEN Short[x] ELSE x
PoseidonPair(left, right) ==
  [kind |-> "poseidon", left |-> Digits8(left), right |-> Digits8(right)]
MissingPair(left, right) ==
  [kind |-> "sha256 of pair", left |-> Digits8(left), right |-> Digits8(right)]
ShaPair(left, right) == [kind |-> "sha256", left |-> left, right |-> right]
HashPair(left, right, how) ==
  CASE how = "hashed" -> PoseidonPair(left, right)
    [] how = "missing" -> MissingPair(left, right)
    [] OTHER -> ShaPair(left, right)

(* idx >> level and its lowest bit.                                        *)
Node(index, level) == index \div 2 ^ level
PathBit(index, level) == Node(index, level) % 2

Room(s) == Len(s) < 2 ^ Depth

(* A mutant: the sibling of a right child is the zero hash too. *)
SiblingZero(level) == Zero
(* get_zero_hash for a left child, the stored hash for a right one.        *)
Sibling(level) == IF PathBit(Len(leaves), level) = 1 THEN state[level] ELSE Zero

(* A mutant: the sides are always the same. *)
CombineLeft(level, current, how) == HashPair(current, Sibling(level), how)
Combine(level, current, how) ==
  IF PathBit(Len(leaves), level) = 1
  THEN HashPair(Sibling(level), current, how)
  ELSE HashPair(current, Sibling(level), how)

(* current_hash before each level; hows[level] is how the hash of the       *)
(* parent at that level is made.                                           *)
Climb(x, hows) ==
  LET hash[level \in 0 .. Depth] ==
        IF level = 0 THEN x
        ELSE Combine(level - 1, hash[level - 1], hows[level])
  IN hash

(* A mutant: a left child is kept only while its level is empty. *)
StoredOnce(climb) ==
  [level \in Levels |->
     IF PathBit(Len(leaves), level) = 0 /\ state[level] = Zero
     THEN climb[level] ELSE state[level]]
(* new_state: a left child is kept for the sibling to come.                *)
Stored(climb) ==
  [level \in Levels |->
     IF PathBit(Len(leaves), level) = 0 THEN climb[level] ELSE state[level]]

PathNodes(index) == {<<level, Node(index, level)>> : level \in 1 .. Depth}

Insert(x, hows) ==
  LET climb == Climb(x, hows) IN
  /\ Room(leaves)
  /\ state' = Stored(climb)
  /\ root' = climb[Depth]
  /\ witness' = [k \in 1 .. Depth |-> Sibling(k - 1)]
  /\ leaves' = Append(leaves, x)
  /\ made' = [node \in Nodes |->
                IF node \in PathNodes(Len(leaves)) THEN hows[node[1]] ELSE made[node]]

Always(how) == [level \in 1 .. Depth |-> how]

InsertAllHashed == \E x \in Leaf : Insert(x, Always("hashed")) /\ UNCHANGED fallbacks

(* The program fails, or is too slow, for one of the hashes; or it is not *)
(* there at all.                                                          *)
InsertWithFallback ==
  \E x \in Leaf, level \in 1 .. Depth :
    /\ fallbacks < MaxFallbacks
    /\ fallbacks' = fallbacks + 1
    /\ Insert(x, [Always("hashed") EXCEPT ![level] = "failed"])

InsertWithoutProgram ==
  \E x \in Leaf :
    /\ fallbacks < MaxFallbacks
    /\ fallbacks' = fallbacks + 1
    /\ Insert(x, Always("missing"))

Next == InsertAllHashed \/ InsertWithFallback \/ InsertWithoutProgram

Spec == Init /\ [][Next]_vars

-----------------------------------------------------------------------------
(* The tree of the leaves s: a node without leaves under it is zero at     *)
(* every level, a leaf is itself and any other node hashes its children,   *)
(* in the way `odd' has for it.                                            *)
Layers(s, odd) ==
  LET layer[level \in 0 .. Depth] ==
        IF level = 0
        THEN [i \in 0 .. 2 ^ Depth - 1 |-> IF i < Len(s) THEN s[i + 1] ELSE Zero]
        ELSE [i \in 0 .. 2 ^ (Depth - level) - 1 |->
                IF i * 2 ^ level >= Len(s) THEN Zero
                ELSE HashPair(layer[level - 1][2 * i], layer[level - 1][2 * i + 1],
                              odd[<<level, i>>])]
  IN layer

ReferenceRoot == Layers(leaves, AllHashed)[Depth][0]

(* The root is that of the whole tree, unless a node still in the tree was *)
(* last hashed by a fallback: inserting below such a node heals it, and  *)
(* once its subtree is complete nothing does.                              *)
RootIsReference == made = AllHashed => root = ReferenceRoot

(* What a verifier does with a leaf, its siblings and path bits.           *)
Opened(x, index, siblings) ==
  LET up[level \in 0 .. Depth] ==
        IF level = 0 THEN x
        ELSE IF PathBit(index, level - 1) = 1
             THEN PoseidonPair(siblings[level], up[level - 1])
             ELSE PoseidonPair(up[level - 1], siblings[level])
  IN up[Depth]

(* The witness handed out with an index opens the root handed out with it, *)
(* even when other subtrees were hashed by a fallback.                     *)
WitnessOpens ==
  LET n == Len(leaves) IN
  n > 0 /\ (\A node \in PathNodes(n - 1) : made[node] = "hashed") =>
    root = Opened(leaves[n], n - 1, witness)

(* The value at a slot under the hash of a node at `level', following the  *)
(* path bits down.                                                         *)
Below(hash, level, index) ==
  LET down[k \in 0 .. level] ==
        IF k = 0 THEN hash
        ELSE IF PathBit(index, level - k) = 1 THEN down[k - 1].right
             ELSE down[k - 1].left
  IN down[level]

(* A published root holds every leaf inserted so far at its index: as far  *)
(* as the first eight digits go, two lists of leaves have two roots.       *)
RootBindsLeaves ==
  \A i \in DOMAIN leaves : Digits8(Below(root, Depth, i - 1)) = Short[leaves[i]]
=============================================================================
