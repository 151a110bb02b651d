------------------------- MODULE EnrollCommitProofs -------------------------
(***************************************************************************)
(* What holds of EnrollCommit for every number of threads, events, trees,  *)
(* requests and crashes.                                                   *)
(***************************************************************************)
EXTENDS EnrollCommit, FiniteSetTheorems, TLAPS

(* What an authorization spells is the identifier of some tree.            *)
LEMMA TreeOfType ==
  ASSUME NEW e \in Event
  PROVE  TreeOf(e) \in Tree
BY ConstantsAssumption DEF TreeOf, Tree

(* A thread inside the handler serves a request, whose tree and leaf are   *)
(* what the constants say.                                                 *)
LEMMA RequestTypes ==
  ASSUME TypeOK, NEW t \in Thread, pc[t] # "idle"
  PROVE  /\ req[t] \in Request
         /\ MyTree(t) \in Tree
         /\ MyLeaf(t) \in Leaf
         /\ MyRoot(t) \in Seq(Leaf)
         /\ MyIndex(t) \in Nat
         /\ MyRow(t) \in LeafRow
         /\ MyWitness(t) \in WitnessRow
<1>1. req[t] \in Request /\ seen[t] \in Seq(Leaf)
  BY DEF TypeOK
<1>2. req[t].event \in Event /\ req[t].commitment \in Commitment
  BY <1>1 DEF Request
<1>3. MyTree(t) \in Tree /\ MyLeaf(t) \in Leaf
  BY <1>2, ConstantsAssumption, TreeOfType DEF MyTree, MyLeaf
<1>4. MyRoot(t) \in Seq(Leaf) /\ MyIndex(t) \in Nat
  BY <1>1, <1>3 DEF MyRoot, MyIndex
<1>5. MyRow(t) \in LeafRow
  BY <1>2, <1>3, <1>4 DEF MyRow, LeafRow
<1>6. QED
  BY <1>1, <1>3, <1>4, <1>5 DEF MyWitness, WitnessRow

(* The part of the type invariant that is about the threads.               *)
ThreadTypes ==
  /\ pc \in [Thread -> Call]
  /\ req \in [Thread -> Request \cup {NoRequest}]
  /\ \A t \in Thread : pc[t] # "idle" => req[t] \in Request
  /\ seen \in [Thread -> Seq(Leaf)]

(* What a thread does: its request arrives, its next call, or a failure.   *)
Act(t) == Submit(t) \/ Step(t) \/ WriteFails(t)

(* A thread that returns from the handler keeps the types.                 *)
LEMMA FinishTypes ==
  ASSUME TypeOK, NEW t \in Thread, Finish(t)
  PROVE  ThreadTypes'
<1>1. "idle" \in Call /\ <<>> \in Seq(Leaf)
  BY DEF Call
<1>2. /\ pc' \in [Thread -> Call]
      /\ req' \in [Thread -> Request \cup {NoRequest}]
      /\ seen' \in [Thread -> Seq(Leaf)]
  BY <1>1 DEF TypeOK, Finish
<1>3. \A u \in Thread : pc'[u] # "idle" => req'[u] \in Request
  BY DEF TypeOK, Finish
<1>4. QED
  BY <1>2, <1>3 DEF ThreadTypes

(* So does one that goes to its next call.                                 *)
LEMMA GotoTypes ==
  ASSUME TypeOK, NEW t \in Thread, NEW call \in Call, pc[t] # "idle",
         Goto(t, call), UNCHANGED <<req, seen>>
  PROVE  ThreadTypes'
<1>1. pc' \in [Thread -> Call]
  BY DEF TypeOK, Goto
<1>2. \A u \in Thread : pc'[u] # "idle" => req'[u] \in Request
  BY DEF TypeOK, Goto
<1>3. QED
  BY <1>1, <1>2 DEF ThreadTypes, TypeOK

(* The database and the threads keep their types.                          *)
THEOREM TypeCorrect == Spec => []TypeOK
<1>1. Init => TypeOK
  BY ConstantsAssumption DEF Init, TypeOK, Call
<1>2. TypeOK /\ [Next]_vars => TypeOK'
  <2> SUFFICES ASSUME TypeOK, [Next]_vars
               PROVE  TypeOK'
    OBVIOUS
  <2> USE DEF ThreadTypes
  <2>1. CASE Crash
    BY <2>1 DEF Crash, TypeOK, Call, db
  <2>2. ASSUME NEW t \in Thread, Submit(t)
        PROVE  TypeOK'
    BY <2>2 DEF Submit, TypeOK, Call, Request, Goto, db
  <2>3. ASSUME NEW t \in Thread, CheckDuplicate(t)
        PROVE  TypeOK'
    <3>1. ThreadTypes'
      <4>1. CASE Goto(t, "lookup") /\ UNCHANGED <<req, seen>>
        BY <2>3, <4>1, GotoTypes DEF CheckDuplicate, Call
      <4>2. CASE Finish(t)
        BY <4>2, FinishTypes
      <4>3. QED
        BY <2>3, <4>1, <4>2 DEF CheckDuplicate
    <3>2. QED
      BY <2>3, <3>1 DEF CheckDuplicate, TypeOK, db
  <2>4. ASSUME NEW t \in Thread, LookupTree(t)
        PROVE  TypeOK'
    <3>1. ThreadTypes'
      BY <2>4, GotoTypes DEF LookupTree, Call
    <3>2. QED
      BY <2>4, <3>1 DEF LookupTree, TypeOK, db
  <2>5. ASSUME NEW t \in Thread, CreateTree(t)
        PROVE  TypeOK'
    <3>1. ThreadTypes'
      BY <2>5, GotoTypes DEF CreateTree, Call
    <3>2. req[t] \in Request
      BY <2>5, RequestTypes DEF CreateTree
    <3>3. ClientOf[req[t].event] \in Client
      BY <3>2, ConstantsAssumption DEF Request
    <3>4. owner' \in [Tree -> Client \cup {NoClient}] /\ tree' \in [Tree -> Seq(Leaf)]
      <4>1. CASE owner[MyTree(t)] = NoClient
        <5>1. /\ owner' = [owner EXCEPT ![MyTree(t)] = ClientOf[req[t].event]]
              /\ tree' = [tree EXCEPT ![MyTree(t)] = <<>>]
          BY <2>5, <4>1 DEF CreateTree, CreateOrIgnore
        <5>2. <<>> \in Seq(Leaf)
          OBVIOUS
        <5>3. QED
          BY <5>1, <5>2, <3>3 DEF TypeOK
      <4>2. CASE owner[MyTree(t)] # NoClient
        BY <2>5, <4>2 DEF CreateTree, CreateOrIgnore, TypeOK
      <4>3. QED
        BY <4>1, <4>2
    <3>5. QED
      BY <2>5, <3>1, <3>4 DEF CreateTree, TypeOK
  <2>6. ASSUME NEW t \in Thread, PublishEmptyRoot(t)
        PROVE  TypeOK'
    <3>1. ThreadTypes'
      BY <2>6, GotoTypes DEF PublishEmptyRoot, Call
    <3>2. <<>> \in Seq(Leaf) /\ MyTree(t) \in Tree
      BY <2>6, RequestTypes DEF PublishEmptyRoot
    <3>3. Append(history[MyTree(t)], <<>>) \in Seq(Seq(Leaf))
      BY <3>2 DEF TypeOK
    <3>4. history' \in [Tree -> Seq(Seq(Leaf))]
      BY <2>6, <3>2, <3>3 DEF PublishEmptyRoot, TypeOK
    <3>5. QED
      BY <2>6, <3>1, <3>4 DEF PublishEmptyRoot, TypeOK
  <2>7. ASSUME NEW t \in Thread, ReadTree(t)
        PROVE  TypeOK'
    <3>1. pc[t] # "idle" /\ "update" \in Call
      BY <2>7 DEF ReadTree, Call
    <3>2. tree[MyTree(t)] \in Seq(Leaf)
      BY <3>1, RequestTypes DEF TypeOK
    <3>3. ThreadTypes'
      <4>1. CASE /\ seen' = [seen EXCEPT ![t] = tree[MyTree(t)]]
                 /\ Goto(t, "update")
                 /\ UNCHANGED req
        <5>1. seen' \in [Thread -> Seq(Leaf)]
          BY <3>2, <4>1 DEF TypeOK
        <5>2. pc' \in [Thread -> Call]
          BY <3>1, <4>1 DEF TypeOK, Goto
        <5>3. \A u \in Thread : pc'[u] # "idle" => req'[u] \in Request
          BY <3>1, <4>1 DEF TypeOK, Goto
        <5>4. QED
          BY <4>1, <5>1, <5>2, <5>3 DEF TypeOK
      <4>2. CASE Finish(t)
        BY <4>2, FinishTypes
      <4>3. QED
        BY <2>7, <4>1, <4>2 DEF ReadTree
    <3>4. QED
      BY <2>7, <3>3 DEF ReadTree, TypeOK, db
  <2>8. ASSUME NEW t \in Thread, UpdateTree(t)
        PROVE  TypeOK'
    <3>1. ThreadTypes'
      BY <2>8, GotoTypes DEF UpdateTree, Call
    <3>2. MyRoot(t) \in Seq(Leaf)
      BY <2>8, RequestTypes DEF UpdateTree
    <3>3. QED
      BY <2>8, <3>1, <3>2 DEF UpdateTree, TypeOK
  <2>9. ASSUME NEW t \in Thread, PublishRoot(t)
        PROVE  TypeOK'
    <3>1. ThreadTypes'
      BY <2>9, GotoTypes DEF PublishRoot, Call
    <3>2. PublishedRoot(t) \in Seq(Leaf) /\ MyTree(t) \in Tree
      BY <2>9, RequestTypes DEF PublishRoot, PublishedRoot
    <3>3. Append(history[MyTree(t)], PublishedRoot(t)) \in Seq(Seq(Leaf))
      BY <3>2 DEF TypeOK
    <3>4. history' \in [Tree -> Seq(Seq(Leaf))]
      BY <2>9, <3>2, <3>3 DEF PublishRoot, TypeOK
    <3>5. QED
      BY <2>9, <3>1, <3>4 DEF PublishRoot, TypeOK
  <2>10. ASSUME NEW t \in Thread, RecordLeaf(t)
         PROVE  TypeOK'
    <3>1. MyRow(t) \in LeafRow
      BY <2>10, RequestTypes DEF RecordLeaf
    <3>2. ThreadTypes'
      <4>1. CASE Goto(t, "save") /\ UNCHANGED <<req, seen>>
        BY <2>10, <4>1, GotoTypes DEF RecordLeaf, Call
      <4>2. CASE Finish(t)
        BY <4>2, FinishTypes
      <4>3. QED
        BY <2>10, <4>1, <4>2 DEF RecordLeaf
    <3>3. leaves' \subseteq LeafRow
      BY <2>10, <3>1 DEF RecordLeaf, TypeOK
    <3>4. QED
      BY <2>10, <3>2, <3>3 DEF RecordLeaf, TypeOK
  <2>11. ASSUME NEW t \in Thread, SaveWitness(t)
         PROVE  TypeOK'
    <3>1. ThreadTypes'
      BY <2>11, GotoTypes DEF SaveWitness, Call
    <3>2. MyWitness(t) \in WitnessRow
      BY <2>11, RequestTypes DEF SaveWitness
    <3>3. QED
      BY <2>11, <3>1, <3>2 DEF SaveWitness, Saved, TypeOK
  <2>12. ASSUME NEW t \in Thread, Respond(t)
         PROVE  TypeOK'
    <3>1. ThreadTypes'
      BY <2>12, FinishTypes DEF Respond
    <3>2. MyWitness(t) \in WitnessRow
      BY <2>12, RequestTypes DEF Respond
    <3>3. QED
      BY <2>12, <3>1, <3>2 DEF Respond, TypeOK, db
  <2>13. ASSUME NEW t \in Thread, WriteFails(t)
         PROVE  TypeOK'
    <3>1. ThreadTypes'
      BY <2>13, FinishTypes DEF WriteFails
    <3>2. QED
      BY <2>13, <3>1 DEF WriteFails, TypeOK, db
  <2>14. CASE UNCHANGED vars
    BY <2>14 DEF vars, TypeOK
  <2>15. QED
    BY <2>1, <2>2, <2>3, <2>4, <2>5, <2>6, <2>7, <2>8, <2>9, <2>10, <2>11,
       <2>12, <2>13, <2>14 DEF Next, Step
<1>3. QED
  BY <1>1, <1>2, PTL DEF Spec

-----------------------------------------------------------------------------
(* Nothing that was stored or answered is taken back, and a thread's step  *)
(* leaves the other threads alone.  The list of leaves of a tree is not    *)
(* among what only grows: two threads lose each other's insertions.        *)

AppendOnly ==
  /\ leaves \subseteq leaves'
  /\ witnesses \subseteq witnesses'
  /\ \A tr \in Tree : IsPrefixOf(history[tr], history'[tr])

Local(t) ==
  \A u \in Thread \ {t} :
    pc'[u] = pc[u] /\ req'[u] = req[u] /\ seen'[u] = seen[u]

(* A stored sequence of roots that got one more still starts with the old. *)
LEMMA AppendKeepsPrefix ==
  ASSUME NEW S, NEW h \in Seq(S), NEW r \in S
  PROVE  IsPrefixOf(h, h) /\ IsPrefixOf(h, Append(h, r))
BY DEF IsPrefixOf

LEMMA StepAppends ==
  ASSUME TypeOK, NEW t \in Thread, Act(t)
  PROVE  AppendOnly /\ Local(t)
<1>1. \A tr \in Tree : history[tr] \in Seq(Seq(Leaf)) /\ IsPrefixOf(history[tr], history[tr])
  BY AppendKeepsPrefix DEF TypeOK, IsPrefixOf
<1>2. CASE Submit(t)
  BY <1>1, <1>2 DEF Submit, AppendOnly, Local, Goto, TypeOK, db
<1>3. CASE CheckDuplicate(t)
  BY <1>1, <1>3 DEF CheckDuplicate, AppendOnly, Local, Goto, Finish, TypeOK, db
<1>4. CASE LookupTree(t)
  BY <1>1, <1>4 DEF LookupTree, AppendOnly, Local, Goto, TypeOK, db
<1>5. CASE CreateTree(t)
  BY <1>1, <1>5 DEF CreateTree, AppendOnly, Local, Goto, TypeOK
<1>6. CASE PublishEmptyRoot(t)
  <2>1. MyTree(t) \in Tree /\ <<>> \in Seq(Leaf)
    BY <1>6, RequestTypes DEF PublishEmptyRoot
  <2>2. IsPrefixOf(history[MyTree(t)], Append(history[MyTree(t)], <<>>))
    BY <1>1, <2>1, AppendKeepsPrefix
  <2>3. \A tr \in Tree : IsPrefixOf(history[tr], history'[tr])
    BY <1>1, <1>6, <2>1, <2>2 DEF PublishEmptyRoot, TypeOK
  <2>4. QED
    BY <1>6, <2>3 DEF PublishEmptyRoot, AppendOnly, Local, Goto, TypeOK
<1>7. CASE ReadTree(t)
  BY <1>1, <1>7 DEF ReadTree, AppendOnly, Local, Goto, Finish, TypeOK, db
<1>8. CASE UpdateTree(t)
  BY <1>1, <1>8 DEF UpdateTree, AppendOnly, Local, Goto, TypeOK
<1>9. CASE PublishRoot(t)
  <2>1. MyTree(t) \in Tree /\ PublishedRoot(t) \in Seq(Leaf)
    BY <1>9, RequestTypes DEF PublishRoot, PublishedRoot
  <2>2. IsPrefixOf(history[MyTree(t)], Append(history[MyTree(t)], PublishedRoot(t)))
    BY <1>1, <2>1, AppendKeepsPrefix
  <2>3. \A tr \in Tree : IsPrefixOf(history[tr], history'[tr])
    BY <1>1, <1>9, <2>1, <2>2 DEF PublishRoot, TypeOK
  <2>4. QED
    BY <1>9, <2>3 DEF PublishRoot, AppendOnly, Local, Goto, TypeOK
<1>10. CASE RecordLeaf(t)
  BY <1>1, <1>10 DEF RecordLeaf, AppendOnly, Local, Goto, Finish, TypeOK
<1>11. CASE SaveWitness(t)
  BY <1>1, <1>11 DEF SaveWitness, Saved, AppendOnly, Local, Goto, TypeOK
<1>12. CASE Respond(t)
  BY <1>1, <1>12 DEF Respond, AppendOnly, Local, Finish, TypeOK, db
<1>13. CASE WriteFails(t)
  BY <1>1, <1>13 DEF WriteFails, AppendOnly, Local, Finish, TypeOK, db
<1>14. QED
  BY <1>2, <1>3, <1>4, <1>5, <1>6, <1>7, <1>8, <1>9, <1>10, <1>11, <1>12, <1>13
  DEF Act, Step

(* What was published stays published.                                     *)
LEMMA PublishedStays ==
  ASSUME TypeOK, TypeOK', AppendOnly, NEW tr \in Tree, NEW r, Published(tr, r)
  PROVE  \E i \in DOMAIN history'[tr] : history'[tr][i] = r
<1>1. PICK i \in DOMAIN history[tr] : history[tr][i] = r
  BY DEF Published
<1>2. history[tr] \in Seq(Seq(Leaf)) /\ history'[tr] \in Seq(Seq(Leaf))
  BY DEF TypeOK
<1>3. i \in 1 .. Len(history[tr]) /\ IsPrefixOf(history[tr], history'[tr])
  BY <1>1, <1>2 DEF AppendOnly
<1>4. i \in DOMAIN history'[tr] /\ history'[tr][i] = r
  BY <1>1, <1>2, <1>3 DEF IsPrefixOf
<1>5. QED
  BY <1>4

-----------------------------------------------------------------------------
(* The invariant: what a thread knows by the call it is at.  It is what    *)
(* the safety invariants lack to be inductive: the root and the row a      *)
(* thread carries were published and stored by its own earlier calls, and  *)
(* the tree it read had room.                                              *)

ThreadInv(t) ==
  /\ pc[t] \in {"update", "publish", "record", "save", "respond"} =>
       Len(seen[t]) < Capacity
  /\ pc[t] \in {"record", "save", "respond"} => Published(MyTree(t), MyRoot(t))
  /\ pc[t] \in {"save", "respond"} => MyRow(t) \in leaves
  /\ pc[t] = "respond" => MyWitness(t) \in witnesses

Inv ==
  /\ \A t \in Thread : ThreadInv(t)
  /\ WitnessOpensRoot
  /\ AckDurable
  /\ CapacityRespected

LeafOpened(l) == \E r \in {history[l.tree][i] : i \in DOMAIN history[l.tree]} : Opens(r, l)
WitnessOpened(w) ==
  w.leaf \in leaves /\ Published(w.leaf.tree, w.root) /\ Opens(w.root, w.leaf)

(* The root a thread computes opens the row it will store.                 *)
LEMMA MyRootOpensMyRow ==
  ASSUME TypeOK, NEW t \in Thread, pc[t] # "idle"
  PROVE  Opens(MyRoot(t), MyRow(t))
<1>1. seen[t] \in Seq(Leaf) /\ MyLeaf(t) \in Leaf
  BY RequestTypes DEF TypeOK
<1>2. /\ Len(MyRoot(t)) = Len(seen[t]) + 1
      /\ MyRoot(t)[Len(seen[t]) + 1] = MyLeaf(t)
  BY <1>1 DEF MyRoot
<1>3. MyRow(t).index = Len(seen[t]) /\ MyRow(t).commitment = req[t].commitment
  BY DEF MyRow, MyIndex
<1>4. QED
  BY <1>2, <1>3 DEF Opens, MyLeaf

(* The other threads' steps keep what a thread knows.                      *)
LEMMA OthersKeepThreadInv ==
  ASSUME TypeOK, TypeOK', AppendOnly, NEW u \in Thread, ThreadInv(u),
         pc'[u] = pc[u], req'[u] = req[u], seen'[u] = seen[u]
  PROVE  ThreadInv(u)'
<1>1. /\ MyTree(u)' = MyTree(u) /\ MyRoot(u)' = MyRoot(u)
      /\ MyRow(u)' = MyRow(u) /\ MyWitness(u)' = MyWitness(u)
  BY DEF MyTree, MyRoot, MyRow, MyWitness, MyLeaf, MyIndex
<1>2. ASSUME pc[u] \in {"record", "save", "respond"}
      PROVE  Published(MyTree(u), MyRoot(u))'
  <2>1. MyTree(u) \in Tree /\ Published(MyTree(u), MyRoot(u))
    BY <1>2, RequestTypes DEF ThreadInv
  <2>2. \E i \in DOMAIN history'[MyTree(u)] : history'[MyTree(u)][i] = MyRoot(u)
    BY <2>1, PublishedStays
  <2>3. QED
    BY <1>1, <2>2 DEF Published
<1>3. QED
  BY <1>1, <1>2 DEF ThreadInv, AppendOnly

(* A thread's own step brings it to what it knows at its next call.        *)
LEMMA OwnStepThreadInv ==
  ASSUME TypeOK, TypeOK', NEW t \in Thread, Act(t), AppendOnly,
         ThreadInv(t)
  PROVE  ThreadInv(t)'
<1>1. ASSUME req'[t] = req[t], seen'[t] = seen[t]
      PROVE  /\ MyTree(t)' = MyTree(t) /\ MyRoot(t)' = MyRoot(t)
             /\ MyRow(t)' = MyRow(t) /\ MyWitness(t)' = MyWitness(t)
  BY <1>1 DEF MyTree, MyRoot, MyRow, MyWitness, MyLeaf, MyIndex
<1>2. ASSUME pc'[t] \in {"idle", "duplicate", "lookup", "create", "empty_root", "read"}
      PROVE  ThreadInv(t)'
  BY <1>2 DEF ThreadInv
<1>3. CASE Submit(t)
  BY <1>2, <1>3 DEF Submit, Goto, TypeOK
<1>4. CASE CheckDuplicate(t)
  BY <1>2, <1>4 DEF CheckDuplicate, Goto, Finish, TypeOK
<1>5. CASE LookupTree(t) \/ CreateTree(t) \/ PublishEmptyRoot(t)
  BY <1>2, <1>5 DEF LookupTree, CreateTree, PublishEmptyRoot, Goto, TypeOK
<1>6. CASE ReadTree(t)
  <2>1. CASE Finish(t)
    BY <1>2, <2>1 DEF Finish, TypeOK
  <2>2. CASE ~ Finish(t)
    <3>1. /\ ~ Full(tree[MyTree(t)])
          /\ seen' = [seen EXCEPT ![t] = tree[MyTree(t)]]
          /\ Goto(t, "update")
      BY <1>6, <2>2 DEF ReadTree
    <3>2. tree[MyTree(t)] \in Seq(Leaf)
      BY <1>6, RequestTypes DEF ReadTree, TypeOK
    <3>3. pc'[t] = "update" /\ seen'[t] = tree[MyTree(t)]
      BY <3>1 DEF Goto, TypeOK
    <3>4. Len(seen'[t]) < Capacity
      BY <3>1, <3>2, <3>3, ConstantsAssumption DEF Full
    <3>5. QED
      BY <3>3, <3>4 DEF ThreadInv
  <2>3. QED
    BY <2>1, <2>2
<1>7. CASE UpdateTree(t)
  BY <1>7 DEF UpdateTree, Goto, ThreadInv, TypeOK
<1>8. CASE PublishRoot(t)
  <2>1. pc'[t] = "record" /\ req'[t] = req[t] /\ seen'[t] = seen[t]
    BY <1>8 DEF PublishRoot, Goto, TypeOK
  <2>2. MyTree(t) \in Tree /\ MyRoot(t) \in Seq(Leaf)
    BY <1>8, RequestTypes DEF PublishRoot
  <2>3. history[MyTree(t)] \in Seq(Seq(Leaf))
    BY <2>2 DEF TypeOK
  <2>4. history'[MyTree(t)] = Append(history[MyTree(t)], MyRoot(t))
    BY <1>8, <2>2 DEF PublishRoot, PublishedRoot, TypeOK
  <2>5. \E i \in DOMAIN history'[MyTree(t)] : history'[MyTree(t)][i] = MyRoot(t)
    <3>1. /\ Len(history[MyTree(t)]) + 1 \in DOMAIN Append(history[MyTree(t)], MyRoot(t))
          /\ Append(history[MyTree(t)], MyRoot(t))[Len(history[MyTree(t)]) + 1] = MyRoot(t)
      BY <2>2, <2>3
    <3>2. QED
      BY <2>4, <3>1
  <2>6. Len(seen'[t]) < Capacity
    BY <1>8, <2>1 DEF PublishRoot, ThreadInv
  <2>7. QED
    BY <1>1, <2>1, <2>5, <2>6 DEF ThreadInv, Published
<1>9. CASE RecordLeaf(t)
  <2>1. CASE Finish(t)
    BY <1>2, <2>1 DEF Finish, TypeOK
  <2>2. CASE ~ Finish(t)
    <3>1. /\ leaves' = leaves \cup {MyRow(t)} /\ history' = history
          /\ pc'[t] = "save" /\ req'[t] = req[t] /\ seen'[t] = seen[t]
      BY <1>9, <2>2 DEF RecordLeaf, Goto, TypeOK
    <3>2. Published(MyTree(t), MyRoot(t)) /\ Len(seen[t]) < Capacity
      BY <1>9 DEF RecordLeaf, ThreadInv
    <3>3. QED
      BY <1>1, <3>1, <3>2 DEF ThreadInv, Published
  <2>3. QED
    BY <2>1, <2>2
<1>10. CASE SaveWitness(t)
  <2>1. /\ witnesses' = witnesses \cup {MyWitness(t)}
        /\ leaves' = leaves /\ history' = history
        /\ pc'[t] = "respond" /\ req'[t] = req[t] /\ seen'[t] = seen[t]
    BY <1>10 DEF SaveWitness, Saved, Goto, TypeOK
  <2>2. /\ Published(MyTree(t), MyRoot(t)) /\ Len(seen[t]) < Capacity
        /\ MyRow(t) \in leaves
    BY <1>10 DEF SaveWitness, ThreadInv
  <2>3. QED
    BY <1>1, <2>1, <2>2 DEF ThreadInv, Published
<1>11. CASE Respond(t)
  BY <1>2, <1>11 DEF Respond, Finish, TypeOK
<1>12. CASE WriteFails(t)
  BY <1>2, <1>12 DEF WriteFails, Finish, TypeOK
<1>13. QED
  BY <1>3, <1>4, <1>5, <1>6, <1>7, <1>8, <1>9, <1>10, <1>11, <1>12 DEF Act, Step

(* A recorded leaf and a stored witness keep the root that opens them.     *)
LEMMA OpenedStays ==
  ASSUME TypeOK, TypeOK', AppendOnly, WitnessOpensRoot
  PROVE  /\ \A l \in leaves : LeafOpened(l)'
         /\ \A w \in witnesses : WitnessOpened(w)'
<1>1. ASSUME NEW l \in leaves
      PROVE  LeafOpened(l)'
  <2>1. l.tree \in Tree
    BY DEF TypeOK, LeafRow
  <2>2. PICK i \in DOMAIN history[l.tree] : Opens(history[l.tree][i], l)
    BY DEF WitnessOpensRoot
  <2>3. Published(l.tree, history[l.tree][i])
    BY <2>2 DEF Published
  <2>4. \E j \in DOMAIN history'[l.tree] : history'[l.tree][j] = history[l.tree][i]
    BY <2>1, <2>3, PublishedStays
  <2>5. QED
    BY <2>2, <2>4 DEF LeafOpened
<1>2. ASSUME NEW w \in witnesses
      PROVE  WitnessOpened(w)'
  <2>1. w.leaf \in leaves /\ Published(w.leaf.tree, w.root) /\ Opens(w.root, w.leaf)
    BY DEF WitnessOpensRoot
  <2>2. w.leaf.tree \in Tree
    BY <2>1 DEF TypeOK, LeafRow
  <2>3. \E i \in DOMAIN history'[w.leaf.tree] : history'[w.leaf.tree][i] = w.root
    BY <2>1, <2>2, PublishedStays
  <2>4. QED
    BY <2>1, <2>3 DEF WitnessOpened, Published, AppendOnly
<1>3. QED
  BY <1>1, <1>2

LEMMA StepWitness ==
  ASSUME TypeOK, TypeOK', NEW t \in Thread, Act(t), AppendOnly,
         ThreadInv(t), WitnessOpensRoot
  PROVE  WitnessOpensRoot'
<1>1. ASSUME NEW l \in leaves'
      PROVE  LeafOpened(l)'
  <2>1. CASE l \in leaves
    BY <2>1, OpenedStays
  <2>2. CASE l \notin leaves
    <3>1. RecordLeaf(t) /\ l = MyRow(t)
      BY <2>2 DEF Act, Step, Submit, WriteFails, CheckDuplicate, LookupTree, CreateTree,
        PublishEmptyRoot, ReadTree, UpdateTree, PublishRoot, RecordLeaf,
        SaveWitness, Respond, db
    <3>2. Published(MyTree(t), MyRoot(t)) /\ Opens(MyRoot(t), MyRow(t))
      BY <3>1, MyRootOpensMyRow DEF RecordLeaf, ThreadInv
    <3>3. history' = history /\ l.tree = MyTree(t)
      BY <3>1 DEF RecordLeaf, MyRow
    <3>4. QED
      BY <3>1, <3>2, <3>3 DEF LeafOpened, Published
  <2>3. QED
    BY <2>1, <2>2
<1>2. ASSUME NEW w \in witnesses'
      PROVE  WitnessOpened(w)'
  <2>1. CASE w \in witnesses
    BY <2>1, OpenedStays
  <2>2. CASE w \notin witnesses
    <3>1. SaveWitness(t) /\ w = MyWitness(t)
      BY <2>2 DEF Act, Step, Submit, WriteFails, CheckDuplicate, LookupTree, CreateTree,
        PublishEmptyRoot, ReadTree, UpdateTree, PublishRoot, RecordLeaf,
        SaveWitness, Saved, Respond, db
    <3>2. /\ Published(MyTree(t), MyRoot(t)) /\ Opens(MyRoot(t), MyRow(t))
          /\ MyRow(t) \in leaves
      BY <3>1, MyRootOpensMyRow DEF SaveWitness, ThreadInv
    <3>3. /\ history' = history /\ leaves' = leaves
          /\ w.leaf = MyRow(t) /\ w.root = MyRoot(t) /\ w.leaf.tree = MyTree(t)
      BY <3>1 DEF SaveWitness, MyWitness, MyRow
    <3>4. QED
      BY <3>2, <3>3 DEF WitnessOpened, Published
  <2>3. QED
    BY <2>1, <2>2
<1>3. QED
  BY <1>1, <1>2 DEF WitnessOpensRoot, LeafOpened, WitnessOpened

LEMMA StepAck ==
  ASSUME TypeOK, NEW t \in Thread, Act(t), AppendOnly,
         ThreadInv(t), AckDurable
  PROVE  AckDurable'
<1>1. ASSUME NEW a \in acks'
      PROVE  a \in witnesses' /\ a.leaf \in leaves'
  <2>1. CASE a \in acks
    BY <2>1 DEF AckDurable, AppendOnly
  <2>2. CASE a \notin acks
    <3>1. Respond(t) /\ a = MyWitness(t)
      BY <2>2 DEF Act, Step, Submit, WriteFails, CheckDuplicate, LookupTree, CreateTree,
        PublishEmptyRoot, ReadTree, UpdateTree, PublishRoot, RecordLeaf,
        SaveWitness, Respond, db
    <3>2. MyWitness(t) \in witnesses /\ MyRow(t) \in leaves
      BY <3>1 DEF Respond, ThreadInv
    <3>3. a.leaf = MyRow(t)
      BY <3>1 DEF MyWitness
    <3>4. QED
      BY <3>1, <3>2, <3>3 DEF AppendOnly
  <2>3. QED
    BY <2>1, <2>2
<1>2. QED
  BY <1>1 DEF AckDurable

(* The bound of a tree survives the gap between the check and the write:   *)
(* what a thread writes is one leaf longer than what it read with room.    *)
LEMMA StepCapacity ==
  ASSUME TypeOK, TypeOK', NEW t \in Thread, Act(t), ThreadInv(t),
         CapacityRespected
  PROVE  CapacityRespected'
<1>1. ASSUME pc[t] \in {"update", "publish", "record", "save", "respond"}
      PROVE  MyRoot(t) \in Seq(Leaf) /\ Len(MyRoot(t)) <= Capacity
  <2>1. seen[t] \in Seq(Leaf) /\ MyLeaf(t) \in Leaf /\ Len(seen[t]) < Capacity
    BY <1>1, RequestTypes DEF TypeOK, ThreadInv
  <2>2. QED
    BY <2>1, ConstantsAssumption DEF MyRoot
<1>2. ASSUME NEW tr \in Tree
      PROVE  Len(tree'[tr]) <= Capacity
  <2>1. CASE tree'[tr] = tree[tr]
    BY <2>1 DEF CapacityRespected
  <2>2. CASE CreateTree(t) /\ tree'[tr] # tree[tr]
    <3>1. tree'[tr] = <<>>
      BY <2>2 DEF CreateTree, CreateOrIgnore, TypeOK
    <3>2. QED
      BY <3>1, ConstantsAssumption
  <2>3. CASE UpdateTree(t) /\ tree'[tr] # tree[tr]
    <3>1. tree'[tr] = MyRoot(t)
      BY <2>3 DEF UpdateTree, TypeOK
    <3>2. QED
      BY <1>1, <2>3, <3>1 DEF UpdateTree
  <2>4. QED
    BY <2>1, <2>2, <2>3 DEF Act, Step, Submit, WriteFails, CheckDuplicate, LookupTree,
      PublishEmptyRoot, ReadTree, PublishRoot, RecordLeaf, SaveWitness, Respond, db
<1>3. ASSUME NEW tr \in Tree, NEW i \in DOMAIN history'[tr]
      PROVE  Len(history'[tr][i]) <= Capacity
  <2>1. CASE history'[tr] = history[tr]
    BY <1>3, <2>1 DEF CapacityRespected
  <2>2. ASSUME NEW r \in Seq(Leaf), Len(r) <= Capacity,
               history'[tr] = Append(history[tr], r)
        PROVE  Len(history'[tr][i]) <= Capacity
    <3>1. history[tr] \in Seq(Seq(Leaf))
      BY DEF TypeOK
    <3>2. i \in DOMAIN history[tr] \/ i = Len(history[tr]) + 1
      BY <2>2, <3>1
    <3>3. \A j \in DOMAIN history[tr] : Len(history[tr][j]) <= Capacity
      BY DEF CapacityRespected
    <3>4. QED
      BY <2>2, <3>1, <3>2, <3>3
  <2>3. CASE PublishEmptyRoot(t) /\ history'[tr] # history[tr]
    <3>1. history'[tr] = Append(history[tr], <<>>)
      BY <2>3 DEF PublishEmptyRoot, TypeOK
    <3>2. <<>> \in Seq(Leaf) /\ Len(<<>>) <= Capacity
      BY ConstantsAssumption
    <3>3. QED
      BY <2>2, <3>1, <3>2
  <2>4. CASE PublishRoot(t) /\ history'[tr] # history[tr]
    <3>1. history'[tr] = Append(history[tr], MyRoot(t))
      BY <2>4 DEF PublishRoot, PublishedRoot, TypeOK
    <3>2. QED
      BY <1>1, <2>2, <2>4, <3>1 DEF PublishRoot
  <2>5. QED
    BY <2>1, <2>3, <2>4 DEF Act, Step, Submit, WriteFails, CheckDuplicate, LookupTree,
      CreateTree, ReadTree, UpdateTree, RecordLeaf, SaveWitness, Respond, db
<1>4. QED
  BY <1>2, <1>3 DEF CapacityRespected

LEMMA InvStep == TypeOK /\ TypeOK' /\ Inv /\ [Next]_vars => Inv'
<1> SUFFICES ASSUME TypeOK, TypeOK', Inv, [Next]_vars
             PROVE  Inv'
  OBVIOUS
<1>1. CASE Crash
  <2>1. \A u \in Thread : pc'[u] = "idle"
    BY <1>1 DEF Crash
  <2>2. \A u \in Thread : ThreadInv(u)'
    BY <2>1 DEF ThreadInv
  <2>3. UNCHANGED <<tree, history, leaves, witnesses, acks>>
    BY <1>1 DEF Crash, db
  <2>4. WitnessOpensRoot' /\ AckDurable' /\ CapacityRespected'
    BY <2>3 DEF Inv, WitnessOpensRoot, AckDurable, CapacityRespected, Published
  <2>5. QED
    BY <2>2, <2>4 DEF Inv
<1>2. ASSUME NEW t \in Thread, Act(t)
      PROVE  Inv'
  <2>1. AppendOnly /\ Local(t)
    BY <1>2, StepAppends
  <2>2. ASSUME NEW u \in Thread
        PROVE  ThreadInv(u)'
    <3>1. CASE u = t
      BY <1>2, <2>1, <3>1, OwnStepThreadInv DEF Inv
    <3>2. CASE u # t
      BY <2>1, <3>2, OthersKeepThreadInv DEF Inv, Local
    <3>3. QED
      BY <3>1, <3>2
  <2>3. WitnessOpensRoot'
    BY <1>2, <2>1, StepWitness DEF Inv
  <2>4. AckDurable'
    BY <1>2, <2>1, StepAck DEF Inv
  <2>5. CapacityRespected'
    BY <1>2, StepCapacity DEF Inv
  <2>6. QED
    BY <2>2, <2>3, <2>4, <2>5 DEF Inv
<1>3. CASE UNCHANGED vars
  <2>1. \A u \in Thread : ThreadInv(u)'
    BY <1>3 DEF Inv, ThreadInv, vars, Published, MyTree, MyRoot, MyRow,
      MyWitness, MyLeaf, MyIndex
  <2>2. WitnessOpensRoot' /\ AckDurable' /\ CapacityRespected'
    BY <1>3 DEF Inv, vars, WitnessOpensRoot, AckDurable, CapacityRespected, Published
  <2>3. QED
    BY <2>1, <2>2 DEF Inv
<1>4. QED
  BY <1>1, <1>2, <1>3 DEF Next, Act

LEMMA Invariance == Spec => []Inv
<1>1. Init => Inv
  BY ConstantsAssumption DEF Init, Inv, ThreadInv, WitnessOpensRoot, AckDurable,
    CapacityRespected
<1>2. QED
  BY <1>1, InvStep, TypeCorrect, PTL DEF Spec

(* Whatever the threads and the crashes do, every recorded leaf and every  *)
(* stored witness is opened by a root in the history of its tree.          *)
THEOREM WitnessCorrect == Spec => []WitnessOpensRoot
BY Invariance, PTL DEF Inv

(* Whatever a response told an agent is in the database, through crashes.  *)
THEOREM AckCorrect == Spec => []AckDurable
BY Invariance, PTL DEF Inv

(* No interleaving fills a tree over its capacity.                         *)
THEOREM CapacityCorrect == Spec => []CapacityRespected
BY Invariance, PTL DEF Inv

-----------------------------------------------------------------------------
(* What only one thread at a time gives.                                   *)

(* From CHECK 5 to CHECK 6 the authorization a thread serves has no leaf.  *)
BeforeRecord == {"duplicate", "lookup", "create", "empty_root", "read", "update",
                 "publish", "record"}
ServedUnused(t) == pc[t] \in BeforeRecord => Unused(req[t].event)
ReplayInv == OneLeafPerAuthorization /\ \A t \in Thread : ServedUnused(t)

LEMMA ReplayStep ==
  ASSUME \A t, u \in Thread : t = u,
         TypeOK, ReplayInv, [Next]_vars
  PROVE  ReplayInv'
<1>1. CASE Crash
  BY <1>1 DEF Crash, ReplayInv, OneLeafPerAuthorization, ServedUnused, BeforeRecord, db
<1>2. CASE UNCHANGED vars
  BY <1>2 DEF vars, ReplayInv, OneLeafPerAuthorization, ServedUnused, Unused
<1>3. ASSUME NEW t \in Thread, Submit(t)
      PROVE  ReplayInv'
  <2>1. PICK e \in Event, c \in Commitment :
          Unused(e) /\ req' = [req EXCEPT ![t] = [event |-> e, commitment |-> c]]
    BY <1>3 DEF Submit
  <2>2. req'[t].event = e /\ leaves' = leaves
    BY <1>3, <2>1 DEF Submit, TypeOK, db
  <2>3. ServedUnused(t)'
    BY <2>1, <2>2 DEF ServedUnused, Unused
  <2>4. \A u \in Thread : ServedUnused(u)'
    BY <2>3
  <2>5. QED
    BY <2>2, <2>4 DEF ReplayInv, OneLeafPerAuthorization
<1>4. ASSUME NEW t \in Thread, RecordLeaf(t)
      PROVE  ReplayInv'
  <2>1. pc'[t] \in {"save", "idle"}
    BY <1>4 DEF RecordLeaf, Goto, Finish, TypeOK
  <2>2. \A u \in Thread : ServedUnused(u)'
    BY <2>1 DEF ServedUnused, BeforeRecord
  <2>3. Unused(req[t].event)
    BY <1>4 DEF RecordLeaf, ReplayInv, ServedUnused, BeforeRecord
  <2>4. \A l \in leaves' : l \in leaves \/ (l = MyRow(t) /\ l.event = req[t].event)
    BY <1>4 DEF RecordLeaf, MyRow
  <2>5. OneLeafPerAuthorization'
    BY <2>3, <2>4 DEF ReplayInv, OneLeafPerAuthorization, Unused
  <2>6. QED
    BY <2>2, <2>5 DEF ReplayInv
<1>5. ASSUME NEW t \in Thread, Step(t), ~ RecordLeaf(t)
      PROVE  ReplayInv'
  <2>1. leaves' = leaves
    BY <1>5 DEF Step, CheckDuplicate, LookupTree, CreateTree, PublishEmptyRoot,
      ReadTree, UpdateTree, PublishRoot, SaveWitness, Respond, db
  <2>2. pc'[t] \in BeforeRecord => pc[t] \in BeforeRecord /\ req'[t] = req[t]
    BY <1>5 DEF Step, CheckDuplicate, LookupTree, CreateTree, PublishEmptyRoot,
      ReadTree, UpdateTree, PublishRoot, SaveWitness, Respond, Goto, Finish,
      TypeOK, BeforeRecord
  <2>3. \A u \in Thread : ServedUnused(u)'
    BY <2>1, <2>2 DEF ReplayInv, ServedUnused, Unused
  <2>4. QED
    BY <2>1, <2>3 DEF ReplayInv, OneLeafPerAuthorization
<1>6. ASSUME NEW t \in Thread, WriteFails(t)
      PROVE  ReplayInv'
  <2>1. leaves' = leaves /\ pc'[t] = "idle"
    BY <1>6 DEF WriteFails, Finish, TypeOK, db
  <2>2. \A u \in Thread : ServedUnused(u)'
    BY <2>1 DEF ServedUnused, BeforeRecord
  <2>3. QED
    BY <2>1, <2>2 DEF ReplayInv, OneLeafPerAuthorization
<1>7. QED
  BY <1>1, <1>2, <1>3, <1>4, <1>5, <1>6 DEF Next

(* If the server ran one request at a time, an authorization would admit   *)
(* one leaf, whatever crashes: the check (enroll.py, CHECK 5) and the      *)
(* record (CHECK 6) would need no UNIQUE constraint on the event.          *)
THEOREM SerialReplayCorrect ==
  ASSUME \A t, u \in Thread : t = u
  PROVE  Spec => []OneLeafPerAuthorization
<1>1. Init => ReplayInv
  BY DEF Init, ReplayInv, OneLeafPerAuthorization, ServedUnused, BeforeRecord
<1>2. TypeOK /\ ReplayInv /\ [Next]_vars => ReplayInv'
  BY ReplayStep
<1>3. ReplayInv => OneLeafPerAuthorization
  BY DEF ReplayInv
<1>4. QED
  BY <1>1, <1>2, <1>3, TypeCorrect, PTL DEF Spec

-----------------------------------------------------------------------------
(* Trees of clients. *)

(* The client in a tree's row is that of an authorization that spells the   *)
(* tree, and no thread passes get_or_create_tree before there is a row.    *)
Spelled(tr) == \E e \in Event : TreeOf(e) = tr /\ ClientOf[e] = owner[tr]

ScopeInv ==
  /\ \A tr \in Tree : owner[tr] # NoClient => Spelled(tr)
  /\ \A l \in leaves : l.tree = TreeOf(l.event) /\ owner[l.tree] # NoClient
  /\ \A t \in Thread :
       pc[t] \in {"empty_root", "read", "update", "publish", "record", "save", "respond"}
         => owner[MyTree(t)] # NoClient

LEMMA ScopeStep ==
  ASSUME TypeOK, TypeOK', ScopeInv, [Next]_vars
  PROVE  ScopeInv'
<1>1. CASE Crash
  BY <1>1 DEF Crash, ScopeInv, Spelled, db
<1>2. CASE UNCHANGED vars
  BY <1>2 DEF vars, ScopeInv, Spelled, MyTree
<1>3. ASSUME NEW t \in Thread, CreateTree(t)
      PROVE  ScopeInv'
  <2>1. req[t].event \in Event /\ MyTree(t) = TreeOf(req[t].event) /\ MyTree(t) \in Tree
    BY <1>3, RequestTypes DEF CreateTree, Request, MyTree
  <2>2. \A tr \in Tree : owner'[tr] = owner[tr]
          \/ (tr = MyTree(t) /\ owner'[tr] = ClientOf[req[t].event])
    BY <1>3, <2>1 DEF CreateTree, CreateOrIgnore, TypeOK
  <2>3. owner'[MyTree(t)] # NoClient
    <3>1. ClientOf[req[t].event] # NoClient
      BY <2>1, ConstantsAssumption
    <3>2. QED
      BY <1>3, <2>1, <3>1 DEF CreateTree, CreateOrIgnore, TypeOK
  <2>4. \A tr \in Tree : owner[tr] # NoClient => owner'[tr] # NoClient
    BY <2>2, <2>3
  <2>5. ASSUME NEW tr \in Tree, owner'[tr] # NoClient
        PROVE  Spelled(tr)'
    <3>1. CASE owner'[tr] = owner[tr]
      <4>1. Spelled(tr)
        BY <2>5, <3>1 DEF ScopeInv
      <4>2. QED
        BY <3>1, <4>1 DEF Spelled
    <3>2. CASE tr = MyTree(t) /\ owner'[tr] = ClientOf[req[t].event]
      BY <2>1, <3>2 DEF Spelled
    <3>3. QED
      BY <2>2, <3>1, <3>2
  <2>6. \A l \in leaves' : l.tree = TreeOf(l.event) /\ owner'[l.tree] # NoClient
    BY <1>3, <2>4 DEF CreateTree, ScopeInv, TypeOK, LeafRow
  <2>7. ASSUME NEW u \in Thread,
               pc'[u] \in {"empty_root", "read", "update", "publish", "record", "save", "respond"}
        PROVE  owner'[MyTree(u)'] # NoClient
    <3>1. MyTree(u)' = MyTree(u)
      BY <1>3 DEF CreateTree, MyTree
    <3>2. CASE u = t
      BY <2>3, <3>1, <3>2
    <3>3. CASE u # t
      <4>1. pc[u] = pc'[u]
        BY <1>3, <3>3 DEF CreateTree, Goto, TypeOK
      <4>2. owner[MyTree(u)] # NoClient /\ MyTree(u) \in Tree
        BY <2>7, <4>1, RequestTypes DEF ScopeInv
      <4>3. QED
        BY <2>4, <3>1, <4>2
    <3>4. QED
      BY <3>2, <3>3
  <2>8. QED
    BY <2>5, <2>6, <2>7 DEF ScopeInv
<1>4. ASSUME NEW t \in Thread, Act(t), ~ CreateTree(t)
      PROVE  ScopeInv'
  <2>1. owner' = owner
    BY <1>4 DEF Act, Step, Submit, WriteFails, CheckDuplicate, LookupTree, PublishEmptyRoot,
      ReadTree, UpdateTree, PublishRoot, RecordLeaf, SaveWitness, Respond, db
  <2>2. \A l \in leaves' : l \in leaves \/ (l = MyRow(t) /\ RecordLeaf(t))
    BY <1>4 DEF Act, Step, Submit, WriteFails, CheckDuplicate, LookupTree, PublishEmptyRoot,
      ReadTree, UpdateTree, PublishRoot, RecordLeaf, SaveWitness, Respond, db
  <2>3. RecordLeaf(t) => /\ MyRow(t).tree = TreeOf(MyRow(t).event)
                         /\ owner[MyRow(t).tree] # NoClient
    BY DEF RecordLeaf, MyRow, MyTree, ScopeInv
  <2>4. \A l \in leaves' : l.tree = TreeOf(l.event) /\ owner'[l.tree] # NoClient
    BY <2>1, <2>2, <2>3 DEF ScopeInv
  <2>5. ASSUME NEW u \in Thread,
               pc'[u] \in {"empty_root", "read", "update", "publish", "record", "save", "respond"}
        PROVE  owner'[MyTree(u)'] # NoClient
    <3>1. CASE u # t
      <4>1. pc'[u] = pc[u] /\ req'[u] = req[u]
        BY <1>4, <3>1, StepAppends DEF Local
      <4>2. QED
        BY <2>1, <2>5, <4>1 DEF ScopeInv, MyTree
    <3>2. CASE u = t
      <4>1. /\ req'[t] = req[t]
            /\ \/ pc[t] \in {"empty_root", "read", "update", "publish", "record", "save"}
               \/ owner[MyTree(t)] # NoClient
        BY <1>4, <2>5, <3>2 DEF Act, Step, Submit, WriteFails, CheckDuplicate, LookupTree, PublishEmptyRoot,
          ReadTree, UpdateTree, PublishRoot, RecordLeaf, SaveWitness, Respond,
          Goto, Finish, TypeOK
      <4>2. QED
        BY <2>1, <3>2, <4>1 DEF ScopeInv, MyTree
    <3>3. QED
      BY <3>1, <3>2
  <2>6. QED
    BY <2>1, <2>4, <2>5 DEF ScopeInv, Spelled
<1>5. QED
  BY <1>1, <1>2, <1>3, <1>4 DEF Next, Step, Act

(* Under every interleaving, crash and refused write a leaf is in the tree  *)
(* that its authorization's client_id and purpose spell together, and the  *)
(* client in that tree's row is one that some authorization spells it for: *)
(* nothing but a namesake brings two clients into one tree. Of the         *)
(* client_ids and purposes themselves nothing is assumed.                  *)
THEOREM ScopeCorrect == Spec => []NamesakesOnly
<1>1. Init => ScopeInv
  BY ConstantsAssumption DEF Init, ScopeInv
<1>2. TypeOK /\ TypeOK' /\ ScopeInv /\ [Next]_vars => ScopeInv'
  BY ScopeStep
<1>3. TypeOK /\ ScopeInv => NamesakesOnly
  BY DEF TypeOK, ScopeInv, Spelled, NamesakesOnly, LeafRow
<1>4. QED
  BY <1>1, <1>2, <1>3, TypeCorrect, PTL DEF Spec

-----------------------------------------------------------------------------
(* What several threads can make of one authorization. *)

Admitted(e) == {l \in leaves : l.event = e}

BoundInv == ReplayBounded /\ \A e \in Event : IsFiniteSet(Admitted(e))

LEMMA RacingFinite ==
  ASSUME NEW e \in Event
  PROVE  /\ IsFiniteSet(Racing(e)) /\ Cardinality(Racing(e)) \in Nat
         /\ Cardinality(Racing(e)) <= Cardinality(Thread) /\ Cardinality(Thread) \in Nat
<1>1. Racing(e) \in SUBSET Thread /\ IsFiniteSet(Thread)
  BY ConstantsAssumption DEF Racing
<1> QED BY <1>1, FS_Subset, FS_CardinalityType

(* No step but RecordLeaf admits anything, and none but Submit, which wants *)
(* the authorization unused, lets another request race.                     *)
LEMMA BoundKept ==
  ASSUME BoundInv, NEW e \in Event, Admitted(e)' = Admitted(e),
         Admitted(e) = {} \/ Racing(e)' \subseteq Racing(e)
  PROVE  /\ Admitted(e)' # {} =>
              Cardinality(Admitted(e)') + Cardinality(Racing(e)') <= Cardinality(Thread)
         /\ IsFiniteSet(Admitted(e)')
<1>1. IsFiniteSet(Admitted(e)) /\ Cardinality(Admitted(e)) \in Nat
  BY FS_CardinalityType DEF BoundInv
<1>2. ASSUME Admitted(e) # {}
      PROVE  Cardinality(Admitted(e)') + Cardinality(Racing(e)') <= Cardinality(Thread)
  <2>1. Cardinality(Admitted(e)) + Cardinality(Racing(e)) <= Cardinality(Thread)
    BY <1>2 DEF BoundInv, ReplayBounded, Admitted
  <2>2. Cardinality(Racing(e)') <= Cardinality(Racing(e)) /\ Cardinality(Racing(e)') \in Nat
    BY <1>2, RacingFinite, FS_Subset, FS_CardinalityType
  <2> QED BY <1>1, <2>1, <2>2, RacingFinite
<1> QED BY <1>1, <1>2

LEMMA BoundStep == TypeOK /\ BoundInv /\ [Next]_vars => BoundInv'
<1> SUFFICES ASSUME TypeOK, BoundInv, [Next]_vars, NEW e \in Event
             PROVE  /\ Admitted(e)' # {} =>
                         Cardinality(Admitted(e)') + Cardinality(Racing(e)') <= Cardinality(Thread)
                    /\ IsFiniteSet(Admitted(e)')
  BY DEF BoundInv, ReplayBounded, Admitted
<1>1. CASE Crash
  <2>1. Admitted(e)' = Admitted(e) /\ Racing(e)' \subseteq Racing(e)
    BY <1>1 DEF Crash, Admitted, Racing, db
  <2> QED BY <2>1, BoundKept
<1>2. CASE UNCHANGED vars
  <2>1. Admitted(e)' = Admitted(e) /\ Racing(e)' \subseteq Racing(e)
    BY <1>2 DEF vars, Admitted, Racing
  <2> QED BY <2>1, BoundKept
<1>3. ASSUME NEW t \in Thread, Submit(t)
      PROVE  /\ Admitted(e)' = Admitted(e)
             /\ Admitted(e) = {} \/ Racing(e)' \subseteq Racing(e)
  <2>1. PICK f \in Event, c \in Commitment :
          Unused(f) /\ req' = [req EXCEPT ![t] = [event |-> f, commitment |-> c]]
    BY <1>3 DEF Submit
  <2>2. req'[t].event = f /\ leaves' = leaves /\ Local(t)
    BY <1>3, <2>1, StepAppends DEF Submit, TypeOK, db, Act
  <2>3. CASE f = e
    BY <2>1, <2>2, <2>3 DEF Unused, Admitted
  <2>4. CASE f # e
    BY <2>2, <2>4 DEF Racing, Admitted, Local
  <2> QED BY <2>3, <2>4
<1>4. ASSUME NEW t \in Thread, Step(t) \/ WriteFails(t), ~ RecordLeaf(t)
      PROVE  Admitted(e)' = Admitted(e) /\ Racing(e)' \subseteq Racing(e)
  <2>1. leaves' = leaves
    BY <1>4 DEF Step, WriteFails, CheckDuplicate, LookupTree, CreateTree, PublishEmptyRoot,
      ReadTree, UpdateTree, PublishRoot, SaveWitness, Respond, db
  <2>2. pc'[t] \in {"idle", "save", "respond"} \/
          (pc[t] \notin {"idle", "save", "respond"} /\ req'[t] = req[t])
    BY <1>4 DEF Step, WriteFails, CheckDuplicate, LookupTree, CreateTree, PublishEmptyRoot,
      ReadTree, UpdateTree, PublishRoot, SaveWitness, Respond, Goto, Finish, TypeOK
  <2>3. Local(t)
    BY <1>4, StepAppends DEF Act
  <2> QED BY <2>1, <2>2, <2>3 DEF Racing, Admitted, Local
<1>5. ASSUME NEW t \in Thread, RecordLeaf(t)
      PROVE  /\ Admitted(e)' # {} =>
                  Cardinality(Admitted(e)') + Cardinality(Racing(e)') <= Cardinality(Thread)
             /\ IsFiniteSet(Admitted(e)')
  <2>1. Local(t) /\ pc[t] = "record" /\ pc'[t] \in {"save", "idle"}
    BY <1>5, StepAppends DEF Act, Step, RecordLeaf, Goto, Finish, TypeOK
  <2>2. Racing(e)' = Racing(e) \ {t}
    BY <2>1 DEF Racing, Local
  <2>3. CASE Admitted(e)' = Admitted(e)
    BY <2>2, <2>3, BoundKept
  <2>4. CASE Admitted(e)' # Admitted(e)
    <3>1. leaves' = leaves \cup {MyRow(t)} /\ req[t].event = MyRow(t).event
      BY <1>5, <2>4 DEF RecordLeaf, Admitted, MyRow
    <3>2. Admitted(e)' = Admitted(e) \cup {MyRow(t)} /\ req[t].event = e
      BY <2>4, <3>1 DEF Admitted
    <3>3. t \in Racing(e)
      BY <2>1, <3>2 DEF Racing
    <3>4. IsFiniteSet(Admitted(e)) /\ Cardinality(Admitted(e)) \in Nat
      BY FS_CardinalityType DEF BoundInv
    <3>5. /\ IsFiniteSet(Admitted(e)') /\ Cardinality(Admitted(e)') \in Nat
          /\ Cardinality(Admitted(e)') <= Cardinality(Admitted(e)) + 1
      <4>1. /\ IsFiniteSet(Admitted(e) \cup {MyRow(t)})
            /\ Cardinality(Admitted(e) \cup {MyRow(t)}) \in {Cardinality(Admitted(e)), Cardinality(Admitted(e)) + 1}
        BY <3>4, FS_AddElement, Zenon
      <4> QED BY <3>2, <3>4, <4>1
    <3>6. Cardinality(Racing(e)') = Cardinality(Racing(e)) - 1
      BY <2>2, <3>3, RacingFinite, FS_RemoveElement
    <3>7. Cardinality(Admitted(e)) + Cardinality(Racing(e)) <= Cardinality(Thread)
      <4>1. CASE Admitted(e) = {}
        BY <4>1, RacingFinite, FS_EmptySet
      <4>2. CASE Admitted(e) # {}
        BY <4>2 DEF BoundInv, ReplayBounded, Admitted
      <4> QED BY <4>1, <4>2
    <3> QED BY <3>4, <3>5, <3>6, <3>7, RacingFinite
  <2> QED BY <2>3, <2>4
<1> QED BY <1>1, <1>2, <1>3, <1>4, <1>5, BoundKept DEF Next

(* However many threads race on one authorization, it never admits more   *)
(* leaves than there are threads: once it has one, no new request with it *)
(* gets past CHECK 5 (enroll.py:559).                                     *)
THEOREM ReplayBoundCorrect == Spec => []ReplayBounded
<1>1. Init => BoundInv
  BY FS_EmptySet DEF Init, BoundInv, ReplayBounded, Admitted
<1>2. BoundInv => ReplayBounded
  BY DEF BoundInv
<1> QED BY <1>1, <1>2, BoundStep, TypeCorrect, PTL DEF Spec

-----------------------------------------------------------------------------
(* One thread at a time: between its read and its record a thread finds    *)
(* the tree as it left it.                                                 *)

SerialInv ==
  /\ RootsArePrefixes
  /\ \A tr \in Tree : owner[tr] = NoClient => tree[tr] = <<>>
  /\ \A t \in Thread :
       /\ pc[t] \in {"empty_root", "read", "update", "publish", "record"}
            => owner[MyTree(t)] # NoClient
       /\ pc[t] = "update" => tree[MyTree(t)] = seen[t]
       /\ pc[t] \in {"publish", "record"} => tree[MyTree(t)] = MyRoot(t)

LEMMA PrefixGrows ==
  ASSUME NEW S, NEW r \in Seq(S), NEW s \in Seq(S), IsPrefixOf(r, s), NEW x \in S
  PROVE  IsPrefixOf(r, Append(s, x))
BY DEF IsPrefixOf

LEMMA SerialStep ==
  ASSUME \A t, u \in Thread : t = u,
         TypeOK, TypeOK', SerialInv, [Next]_vars
  PROVE  SerialInv'
<1>1. CASE Crash
  BY <1>1 DEF Crash, SerialInv, RootsArePrefixes, db
<1>2. CASE UNCHANGED vars
  BY <1>2 DEF vars, SerialInv, RootsArePrefixes, MyTree, MyRoot, MyLeaf
<1>3. ASSUME NEW t \in Thread, Act(t)
      PROVE  SerialInv'
  <2>0. \A u \in Thread : u = t
    OBVIOUS
  <2> SUFFICES /\ RootsArePrefixes'
               /\ \A tr \in Tree : owner'[tr] = NoClient => tree'[tr] = <<>>
               /\ pc'[t] \in {"empty_root", "read", "update", "publish", "record"}
                    => owner'[MyTree(t)'] # NoClient
               /\ pc'[t] = "update" => tree'[MyTree(t)'] = seen'[t]
               /\ pc'[t] \in {"publish", "record"} => tree'[MyTree(t)'] = MyRoot(t)'
    BY <2>0 DEF SerialInv
  <2>1. ASSUME req' = req, seen' = seen
        PROVE  MyTree(t)' = MyTree(t) /\ MyRoot(t)' = MyRoot(t)
    BY <2>1 DEF MyTree, MyRoot, MyLeaf
  <2>2. CASE Submit(t)
    BY <2>2 DEF Submit, Goto, db, TypeOK, SerialInv, RootsArePrefixes
  <2>3. CASE CheckDuplicate(t)
    BY <2>3 DEF CheckDuplicate, Goto, Finish, db, TypeOK, SerialInv, RootsArePrefixes
  <2>4. CASE LookupTree(t)
    BY <2>1, <2>4 DEF LookupTree, Goto, db, TypeOK, SerialInv, RootsArePrefixes
  <2>5. CASE CreateTree(t)
    <3>1. MyTree(t) \in Tree /\ req[t].event \in Event
      BY <2>5, RequestTypes DEF CreateTree, Request
    <3>2. ClientOf[req[t].event] # NoClient
      BY <3>1, ConstantsAssumption
    <3>3. tree' = tree
      BY <2>5 DEF CreateTree, CreateOrIgnore, SerialInv, TypeOK
    <3>4. /\ owner'[MyTree(t)] # NoClient
          /\ \A tr \in Tree : owner'[tr] = NoClient => owner[tr] = NoClient
      BY <2>5, <3>1, <3>2 DEF CreateTree, CreateOrIgnore, TypeOK
    <3> QED BY <2>1, <2>5, <3>3, <3>4 DEF CreateTree, Goto, TypeOK, SerialInv, RootsArePrefixes
  <2>6. CASE PublishEmptyRoot(t)
    <3>1. MyTree(t) \in Tree
      BY <2>6, RequestTypes DEF PublishEmptyRoot
    <3>2. RootsArePrefixes'
      <4> SUFFICES ASSUME NEW tr \in Tree, NEW i \in DOMAIN history'[tr]
                   PROVE  IsPrefixOf(history'[tr][i], tree[tr])
        BY <2>6 DEF PublishEmptyRoot, RootsArePrefixes
      <4>1. history[tr] \in Seq(Seq(Leaf)) /\ tree[tr] \in Seq(Leaf)
        BY DEF TypeOK
      <4>2. history'[tr][i] = <<>> \/ (i \in DOMAIN history[tr] /\ history'[tr][i] = history[tr][i])
        BY <2>6, <3>1, <4>1 DEF PublishEmptyRoot, TypeOK
      <4>3. IsPrefixOf(<<>>, tree[tr])
        BY <4>1 DEF IsPrefixOf
      <4> QED BY <4>2, <4>3 DEF SerialInv, RootsArePrefixes
    <3> QED BY <2>1, <2>6, <3>2 DEF PublishEmptyRoot, Goto, TypeOK, SerialInv
  <2>7. CASE ReadTree(t)
    BY <2>7 DEF ReadTree, Goto, Finish, db, TypeOK, SerialInv, RootsArePrefixes, MyTree
  <2>8. CASE UpdateTree(t)
    <3>1. MyTree(t) \in Tree /\ MyLeaf(t) \in Leaf /\ seen[t] \in Seq(Leaf)
      BY <2>8, RequestTypes DEF UpdateTree, TypeOK
    <3>2. /\ tree'[MyTree(t)] = Append(tree[MyTree(t)], MyLeaf(t))
          /\ \A tr \in Tree \ {MyTree(t)} : tree'[tr] = tree[tr]
          /\ owner[MyTree(t)] # NoClient
      BY <2>8, <3>1 DEF UpdateTree, SerialInv, MyRoot, TypeOK
    <3>3. RootsArePrefixes'
      <4> SUFFICES ASSUME NEW tr \in Tree, NEW i \in DOMAIN history[tr]
                   PROVE  IsPrefixOf(history[tr][i], tree'[tr])
        BY <2>8 DEF UpdateTree, RootsArePrefixes
      <4>1. history[tr] \in Seq(Seq(Leaf)) /\ tree[tr] \in Seq(Leaf)
        BY DEF TypeOK
      <4>2. history[tr][i] \in Seq(Leaf) /\ IsPrefixOf(history[tr][i], tree[tr])
        BY <4>1 DEF SerialInv, RootsArePrefixes
      <4> QED BY <3>1, <3>2, <4>1, <4>2, PrefixGrows
    <3>4. \A tr \in Tree : owner'[tr] = NoClient => tree'[tr] = <<>>
      BY <2>8, <3>2 DEF UpdateTree, SerialInv
    <3> QED BY <2>1, <2>8, <3>1, <3>2, <3>3, <3>4 DEF UpdateTree, Goto, TypeOK, SerialInv, MyRoot
  <2>9. CASE PublishRoot(t)
    <3>1. MyTree(t) \in Tree /\ MyRoot(t) \in Seq(Leaf)
      BY <2>9, RequestTypes DEF PublishRoot
    <3>2. tree[MyTree(t)] = MyRoot(t)
      BY <2>9 DEF PublishRoot, SerialInv
    <3>3. RootsArePrefixes'
      <4> SUFFICES ASSUME NEW tr \in Tree, NEW i \in DOMAIN history'[tr]
                   PROVE  IsPrefixOf(history'[tr][i], tree[tr])
        BY <2>9 DEF PublishRoot, RootsArePrefixes
      <4>1. history[tr] \in Seq(Seq(Leaf)) /\ tree[tr] \in Seq(Leaf)
        BY DEF TypeOK
      <4>2. \/ tr = MyTree(t) /\ history'[tr][i] = tree[tr]
            \/ i \in DOMAIN history[tr] /\ history'[tr][i] = history[tr][i]
        BY <2>9, <3>1, <3>2, <4>1 DEF PublishRoot, PublishedRoot, TypeOK
      <4>3. IsPrefixOf(tree[tr], tree[tr])
        BY <4>1 DEF IsPrefixOf
      <4> QED BY <4>2, <4>3 DEF SerialInv, RootsArePrefixes
    <3> QED BY <2>1, <2>9, <3>3 DEF PublishRoot, Goto, TypeOK, SerialInv
  <2>10. CASE RecordLeaf(t)
    BY <2>10 DEF RecordLeaf, Goto, Finish, TypeOK, SerialInv, RootsArePrefixes
  <2>11. CASE SaveWitness(t)
    BY <2>11 DEF SaveWitness, Goto, TypeOK, SerialInv, RootsArePrefixes
  <2>12. CASE Respond(t)
    BY <2>12 DEF Respond, Finish, db, TypeOK, SerialInv, RootsArePrefixes
  <2>13. CASE WriteFails(t)
    BY <2>13 DEF WriteFails, Finish, db, TypeOK, SerialInv, RootsArePrefixes
  <2> QED BY <1>3, <2>2, <2>3, <2>4, <2>5, <2>6, <2>7, <2>8, <2>9, <2>10, <2>11, <2>12, <2>13
          DEF Act, Step
<1> QED BY <1>1, <1>2, <1>3 DEF Next, Act

LEMMA SerialInvariance ==
  ASSUME \A t, u \in Thread : t = u
  PROVE  Spec => [](TypeOK /\ Inv /\ ReplayInv /\ SerialInv)
<1>1. Init => ReplayInv /\ SerialInv
  BY DEF Init, ReplayInv, OneLeafPerAuthorization, ServedUnused, BeforeRecord, SerialInv,
    RootsArePrefixes
<1>2. TypeOK /\ TypeOK' /\ ReplayInv /\ SerialInv /\ [Next]_vars => ReplayInv' /\ SerialInv'
  BY ReplayStep, SerialStep
<1> QED BY <1>1, <1>2, TypeCorrect, Invariance, PTL DEF Spec

(* If the server ran one request at a time, every root ever published     *)
(* would commit to a prefix of what the tree holds, through crashes.      *)
THEOREM SerialRootsCorrect ==
  ASSUME \A t, u \in Thread : t = u
  PROVE  Spec => []RootsArePrefixes
<1>1. SerialInv => RootsArePrefixes
  BY DEF SerialInv
<1> QED BY <1>1, SerialInvariance, PTL

-----------------------------------------------------------------------------
(* The registry, which one thread at a time implements. *)

AdmissionOf(l) ==
  [event |-> l.event, tree |-> l.tree, index |-> l.index, leaf |-> Strip[l.commitment]]
Admissions == {AdmissionOf(l) : l \in leaves}

LEMMA AdmitIsNext ==
  ASSUME NEW e \in Event, NEW tr \in Tree, NEW index \in 0 .. Capacity,
         index + 1 \in DOMAIN tree[tr],
         \A a \in Admissions : a.event # e /\ ~ (a.tree = tr /\ a.index = index),
         Admissions' = Admissions \cup
           {[event |-> e, tree |-> tr, index |-> index, leaf |-> tree[tr][index + 1]]},
         tree' = tree
  PROVE  Registry!Next
<1>1. Registry!Admit(e, tr, index)
  BY DEF Registry!Admit, Admissions, AdmissionOf
<1> QED BY <1>1 DEF Registry!Next

LEMMA RegistryStep ==
  ASSUME \A t, u \in Thread : t = u,
         TypeOK, TypeOK', Inv, ReplayInv, SerialInv, [Next]_vars
  PROVE  [Registry!Next]_(Registry!vars)
<1> DEFINE same == tree' = tree /\ leaves' = leaves
<1>1. ASSUME same PROVE UNCHANGED Registry!vars
  BY <1>1 DEF Registry!vars
<1>2. ASSUME NEW t \in Thread, UpdateTree(t) PROVE Registry!Next
  <2>1. MyTree(t) \in Tree /\ MyLeaf(t) \in Leaf
    BY <1>2, RequestTypes DEF UpdateTree
  <2>2. tree[MyTree(t)] = seen[t] /\ Len(seen[t]) < Capacity /\ leaves' = leaves
    BY <1>2 DEF UpdateTree, SerialInv, Inv, ThreadInv
  <2>3. tree' = [tree EXCEPT ![MyTree(t)] = Append(@, MyLeaf(t))]
    BY <1>2, <2>1, <2>2 DEF UpdateTree, MyRoot, TypeOK
  <2>4. Registry!AppendSlot(MyTree(t), MyLeaf(t))
    BY <2>2, <2>3 DEF Registry!AppendSlot
  <2> QED BY <2>1, <2>4 DEF Registry!Next
<1>3. ASSUME NEW t \in Thread, RecordLeaf(t), Unique(MyRow(t)), leaves' = leaves \cup {MyRow(t)}
      PROVE  Registry!Next
  <2> DEFINE e == req[t].event
             tr == MyTree(t)
             index == Len(seen[t])
  <2>1. /\ e \in Event /\ tr \in Tree /\ seen[t] \in Seq(Leaf) /\ MyLeaf(t) \in Leaf
        /\ tree' = tree /\ tree[tr] = MyRoot(t) /\ index < Capacity
    BY <1>3, RequestTypes DEF RecordLeaf, Request, TypeOK, SerialInv, Inv, ThreadInv
  <2>2. index \in 0 .. Capacity
    BY <2>1, ConstantsAssumption
  <2>3. index + 1 \in DOMAIN tree[tr] /\ tree[tr][index + 1] = MyLeaf(t)
    BY <2>1 DEF MyRoot
  <2>4. Unused(e)
    BY <1>3 DEF RecordLeaf, ReplayInv, ServedUnused, BeforeRecord
  <2>5. \A a \in Admissions : a.event # e /\ ~ (a.tree = tr /\ a.index = index)
    <3>1. ASSUME NEW l \in leaves PROVE l.event # e /\ ~ (l.tree = tr /\ l.index = index)
      BY <1>3, <2>4 DEF Unused, Unique, MyRow, MyIndex
    <3> QED BY <3>1 DEF Admissions, AdmissionOf
  <2>6. AdmissionOf(MyRow(t)) = [event |-> e, tree |-> tr, index |-> index, leaf |-> tree[tr][index + 1]]
    BY <2>3 DEF AdmissionOf, MyRow, MyIndex, MyLeaf
  <2>7. Admissions' = Admissions \cup {AdmissionOf(MyRow(t))}
    BY <1>3 DEF Admissions, AdmissionOf
  <2> HIDE DEF e, tr, index
  <2> QED BY <2>1, <2>2, <2>3, <2>5, <2>6, <2>7, AdmitIsNext
<1>4. ASSUME NEW t \in Thread, CreateTree(t) PROVE same
  BY <1>4 DEF CreateTree, CreateOrIgnore, SerialInv, TypeOK
<1>5. CASE Crash \/ UNCHANGED vars
  BY <1>1, <1>5 DEF Crash, vars, db
<1>6. ASSUME NEW t \in Thread, Act(t) PROVE [Registry!Next]_(Registry!vars)
  <2>1. \/ same
        \/ UpdateTree(t)
        \/ RecordLeaf(t) /\ Unique(MyRow(t)) /\ leaves' = leaves \cup {MyRow(t)}
    BY <1>4, <1>6 DEF Act, Step, Submit, WriteFails, CheckDuplicate, LookupTree,
      PublishEmptyRoot, ReadTree, PublishRoot, RecordLeaf, SaveWitness, Respond, db
  <2> HIDE DEF same
  <2> QED BY <1>1, <1>2, <1>3, <2>1
<1> QED BY <1>5, <1>6 DEF Next, Act

(* If the server ran one request at a time, enrollment would be the       *)
(* abstract registry: every tree an append-only list of bounded length,   *)
(* an authorization in one slot at most, and one that holds its leaf.     *)
THEOREM SerialIsRegistry ==
  ASSUME \A t, u \in Thread : t = u
  PROVE  Spec => RegistrySpec
<1>1. Init => Registry!Init
  BY DEF Init, Registry!Init
<1>2. TypeOK /\ TypeOK' /\ Inv /\ ReplayInv /\ SerialInv /\ [Next]_vars
        => [Registry!Next]_(Registry!vars)
  BY RegistryStep
<1> QED BY <1>1, <1>2, SerialInvariance, PTL DEF Spec, RegistrySpec, Registry!Spec
=============================================================================
