---------------------------- MODULE EnrollCommit ----------------------------
(***************************************************************************)
(* POST /v1/membership/enroll/commit of the API server, as it runs: the    *)
(* handler enroll_commit (app/routes/enroll.py) is a synchronous function, *)
(* so the server calls it from a pool of threads, and every function of    *)
(* app/db/__init__.py it calls is one committed SQLite statement.  One     *)
(* action is one such call; between two of them other threads run and the  *)
(* process may stop.  Nothing encloses the calls in a transaction.         *)
(*                                                                         *)
(* A Merkle root is represented by the sequence of leaves it commits to.   *)
(* The row of merkle_trees (next_leaf_index, state_json) is that sequence: *)
(* both columns are functions of it and one statement writes them.  Module *)
(* MerkleTree is about the computation this stands for.                    *)
(***************************************************************************)
EXTENDS Naturals, Sequences, FiniteSets

CONSTANTS
  Thread,       \* worker threads of the server
  Event,        \* kind 38200 authorization events with a valid signature
  Delegation,   \* kind 38250 delegation events with a valid signature
  Commitment,   \* leaf_commitment strings a request can carry
  Leaf,         \* 32-byte values those strings spell
  Client,       \* client_id values, each as the words between its hyphens
  Purpose,      \* purposes a tag can name, written in the same way
  AuthAgent,    \* AuthAgent[e]: agent_npub of authorization e
  DelegAgent,   \* DelegAgent[d]: agent_npub of delegation d
  ClientOf,     \* ClientOf[e]: client_id in the tag "c" of e
  PurposeOf,    \* PurposeOf[e]: what the tag "purpose" of e says, or allowlist
  Strip,        \* Strip[c]: the commitment string c without its "0x"
  Capacity,     \* 1 << depth
  MaxRequests,  \* bound of the model: requests ever submitted
  MaxFailures,  \* bound of the model: calls that raise
  MaxCrashes,   \* bound of the model: crashes of the process
  NoClient,     \* no row in merkle_trees
  NoRequest     \* the thread serves no request

ASSUME ConstantsAssumption ==
  /\ IsFiniteSet(Thread)
  /\ ClientOf \in [Event -> Client]
  /\ PurposeOf \in [Event -> Purpose]
  /\ Client \subseteq Seq(STRING) /\ Purpose \subseteq Seq(STRING)
  /\ Strip \in [Commitment -> Leaf]
  /\ NoClient \notin Client
  /\ Capacity \in Nat
  /\ MaxRequests \in Nat
  /\ MaxFailures \in Nat
  /\ MaxCrashes \in Nat

(* f"{client_id}-{purpose}": a string is the list of its words between      *)
(* hyphens, so joining two with a hyphen appends the lists.                 *)
TreeId(client, purpose) == client \o purpose
Tree == {TreeId(c, p) : c \in Client, p \in Purpose}
TreeOf(e) == TreeId(ClientOf[e], PurposeOf[e])

VARIABLES
  \* the database
  owner,        \* owner[tr]: client_id of the row of merkle_trees, if any
  tree,         \* tree[tr]: next_leaf_index and state_json, as the leaves
  history,      \* history[tr]: rows of merkle_roots of tr, by id
  leaves,       \* rows of merkle_leaves
  witnesses,    \* rows of merkle_witnesses
  \* the worker threads
  pc,           \* the call each thread makes next
  req,          \* the request each thread serves
  seen,         \* the tree row insert_leaf read
  \* what the world has seen
  acks,         \* responses sent with status "committed"
  requests,     \* requests submitted so far
  failures,     \* calls that raised so far
  crashes       \* crashes so far

db == <<owner, tree, history, leaves, witnesses>>
vars == <<owner, tree, history, leaves, witnesses, pc, req, seen, acks,
          requests, failures, crashes>>

Call == {"idle", "duplicate", "lookup", "create", "empty_root", "read",
         "update", "publish", "record", "save", "respond"}
Request == [event : Event, commitment : Commitment]
LeafRow == [tree : Tree, index : Nat, commitment : Commitment, event : Event]
WitnessRow == [leaf : LeafRow, root : Seq(Leaf)]

TypeOK ==
  /\ owner \in [Tree -> Client \cup {NoClient}]
  /\ tree \in [Tree -> Seq(Leaf)]
  /\ history \in [Tree -> Seq(Seq(Leaf))]
  /\ leaves \subseteq LeafRow
  /\ witnesses \subseteq WitnessRow
  /\ pc \in [Thread -> Call]
  /\ req \in [Thread -> Request \cup {NoRequest}]
  /\ \A t \in Thread : pc[t] # "idle" => req[t] \in Request
  /\ seen \in [Thread -> Seq(Leaf)]
  /\ acks \subseteq WitnessRow
  /\ requests \in Nat
  /\ failures \in Nat
  /\ crashes \in Nat

Init ==
  /\ owner = [tr \in Tree |-> NoClient]
  /\ tree = [tr \in Tree |-> <<>>]
  /\ history = [tr \in Tree |-> <<>>]
  /\ leaves = {}
  /\ witnesses = {}
  /\ pc = [t \in Thread |-> "idle"]
  /\ req = [t \in Thread |-> NoRequest]
  /\ seen = [t \in Thread |-> <<>>]
  /\ acks = {}
  /\ requests = 0
  /\ failures = 0
  /\ crashes = 0

-----------------------------------------------------------------------------
(* The request a thread serves and what insert_leaf makes of it. *)

(* A mutant: one tree for every client and purpose. *)
MyTreeShared(t) == CHOOSE tr \in Tree : TRUE
MyTree(t) == TreeOf(req[t].event)
MyLeaf(t) == Strip[req[t].commitment]

(* A mutant: the stored state of the tree is not used. *)
MyRootFromEmpty(t) == <<MyLeaf(t)>>
(* insert_leaf: the new root commits to the leaves that were read and the  *)
(* new one, which goes to the slot next_leaf_index that was read.          *)
MyRoot(t) == Append(seen[t], MyLeaf(t))
MyIndex(t) == Len(seen[t])

MyRow(t) ==
  [tree |-> MyTree(t), index |-> MyIndex(t),
   commitment |-> req[t].commitment, event |-> req[t].event]

(* The witness insert_leaf returns opens the new root at the new slot. *)
MyWitness(t) == [leaf |-> MyRow(t), root |-> MyRoot(t)]

(* A mutant: CHECK 5 forgotten. *)
UnusedAlways(e) == TRUE
(* CHECK 5: authorization_event_id not already in merkle_leaves. *)
Unused(e) == \A l \in leaves : l.event # e

(* CHECK 4: the two events name the same agent. *)
AgentsMatch(e, d) == AuthAgent[e] = DelegAgent[d]

(* A mutant: off by one at the last slot. *)
FullOffByOne(s) == Len(s) > Capacity
Full(s) == Len(s) >= Capacity

(* The UNIQUE constraints of merkle_leaves. *)
Unique(row) ==
  \A l \in leaves : l.tree = row.tree =>
    /\ l.index # row.index
    /\ l.commitment # row.commitment

Goto(t, call) == pc' = [pc EXCEPT ![t] = call]

(* The handler returns or raises: the thread serves no request. *)
Finish(t) ==
  /\ pc' = [pc EXCEPT ![t] = "idle"]
  /\ req' = [req EXCEPT ![t] = NoRequest]
  /\ seen' = [seen EXCEPT ![t] = <<>>]

-----------------------------------------------------------------------------
(* A request arrives with an authorization, a delegation and a commitment  *)
(* that pass the checks on kinds, signatures and expiry.  Its checks up to *)
(* CHECK 5 read the database once.  A request refused here leaves no       *)
(* trace, so only those that go on are actions.                            *)
Submit(t) ==
  /\ pc[t] = "idle"
  /\ requests < MaxRequests
  /\ \E e \in Event, d \in Delegation, c \in Commitment :
       /\ AgentsMatch(e, d)
       /\ Unused(e)
       /\ req' = [req EXCEPT ![t] = [event |-> e, commitment |-> c]]
  /\ requests' = requests + 1
  /\ Goto(t, "duplicate")
  /\ UNCHANGED <<db, seen, acks, failures, crashes>>

(* leaf_commitment_exists(tree_id, body.leaf_commitment): the string as it *)
(* was sent is compared, so two spellings of one leaf differ.              *)
CheckDuplicate(t) ==
  /\ pc[t] = "duplicate"
  /\ UNCHANGED <<db, acks, requests, failures, crashes>>
  /\ \/ /\ \A l \in leaves :
             ~ (l.tree = MyTree(t) /\ l.commitment = req[t].commitment)
        /\ Goto(t, "lookup")
        /\ UNCHANGED <<req, seen>>
     \/ /\ \E l \in leaves :
             l.tree = MyTree(t) /\ l.commitment = req[t].commitment
        /\ Finish(t)

(* get_or_create_tree: is there a row? *)
LookupTree(t) ==
  /\ pc[t] = "lookup"
  /\ \/ owner[MyTree(t)] # NoClient /\ Goto(t, "read")
     \/ owner[MyTree(t)] = NoClient /\ Goto(t, "create")
  /\ UNCHANGED <<db, req, seen, acks, requests, failures, crashes>>

(* INSERT OR IGNORE keeps the row another thread created meanwhile. *)
CreateOrIgnore(t) ==
  IF owner[MyTree(t)] = NoClient
  THEN /\ owner' = [owner EXCEPT ![MyTree(t)] = ClientOf[req[t].event]]
       /\ tree' = [tree EXCEPT ![MyTree(t)] = <<>>]
  ELSE UNCHANGED <<owner, tree>>

CreateTree(t) ==
  /\ pc[t] = "create"
  /\ CreateOrIgnore(t)
  /\ Goto(t, "empty_root")
  /\ UNCHANGED <<history, leaves, witnesses, req, seen, acks, requests, failures, crashes>>

(* The root of the empty tree, stored after every CreateTree. *)
PublishEmptyRoot(t) ==
  /\ pc[t] = "empty_root"
  /\ history' = [history EXCEPT ![MyTree(t)] = Append(@, <<>>)]
  /\ Goto(t, "read")
  /\ UNCHANGED <<owner, tree, leaves, witnesses, req, seen, acks, requests,
                 failures, crashes>>

(* insert_leaf reads the row of the tree; a full tree is an error. *)
ReadTree(t) ==
  /\ pc[t] = "read"
  /\ UNCHANGED <<db, acks, requests, failures, crashes>>
  /\ \/ /\ ~ Full(tree[MyTree(t)])
        /\ seen' = [seen EXCEPT ![t] = tree[MyTree(t)]]
        /\ Goto(t, "update")
        /\ UNCHANGED req
     \/ /\ Full(tree[MyTree(t)])
        /\ Finish(t)

(* update_merkle_tree writes what was computed from the row that was read. *)
UpdateTree(t) ==
  /\ pc[t] = "update"
  /\ tree' = [tree EXCEPT ![MyTree(t)] = MyRoot(t)]
  /\ Goto(t, "publish")
  /\ UNCHANGED <<owner, history, leaves, witnesses, req, seen, acks, requests,
                 failures, crashes>>

(* A mutant: the root the tree had before the insertion is published. *)
PublishedOldRoot(t) == seen[t]
PublishedRoot(t) == MyRoot(t)

PublishRoot(t) ==
  /\ pc[t] = "publish"
  /\ history' = [history EXCEPT ![MyTree(t)] = Append(@, PublishedRoot(t))]
  /\ Goto(t, "record")
  /\ UNCHANGED <<owner, tree, leaves, witnesses, req, seen, acks, requests,
                 failures, crashes>>

(* add_merkle_leaf (CHECK 6): the row is stored, or a UNIQUE constraint    *)
(* fails and the request ends in an error with the tree and the root       *)
(* history already advanced.                                               *)
RecordLeaf(t) ==
  /\ pc[t] = "record"
  /\ UNCHANGED <<owner, tree, history, witnesses, acks, requests, failures, crashes>>
  /\ \/ /\ Unique(MyRow(t))
        /\ leaves' = leaves \cup {MyRow(t)}
        /\ Goto(t, "save")
        /\ UNCHANGED <<req, seen>>
     \/ /\ ~ Unique(MyRow(t))
        /\ Finish(t)
        /\ UNCHANGED leaves

(* A mutant: the witness is saved after the response, if at all. *)
SaveNothing(t) == witnesses
Saved(t) == witnesses \cup {MyWitness(t)}

SaveWitness(t) ==
  /\ pc[t] = "save"
  /\ witnesses' = Saved(t)
  /\ Goto(t, "respond")
  /\ UNCHANGED <<owner, tree, history, leaves, req, seen, acks, requests,
                 failures, crashes>>

(* audit_log and the response, which carries the root, the index and the   *)
(* witness.                                                                *)
Respond(t) ==
  /\ pc[t] = "respond"
  /\ acks' = acks \cup {MyWitness(t)}
  /\ Finish(t)
  /\ UNCHANGED <<db, requests, failures, crashes>>

(* A call that writes raises: SQLite refuses the write, because another    *)
(* process holds the lock or the disk is full.  No handler catches it: the *)
(* response is an error, and what was written stays.                       *)
WriteFails(t) ==
  /\ pc[t] \in {"create", "empty_root", "update", "publish", "record", "save", "respond"}
  /\ failures < MaxFailures
  /\ failures' = failures + 1
  /\ Finish(t)
  /\ UNCHANGED <<db, acks, requests, crashes>>

(* The process stops and starts again: the database stays, the threads and *)
(* what they held are gone.                                                *)
Crash ==
  /\ crashes < MaxCrashes
  /\ \E t \in Thread : pc[t] # "idle"
  /\ crashes' = crashes + 1
  /\ pc' = [t \in Thread |-> "idle"]
  /\ req' = [t \in Thread |-> NoRequest]
  /\ seen' = [t \in Thread |-> <<>>]
  /\ UNCHANGED <<db, acks, requests, failures>>

(* The call a thread is at: every call of the handler but its arrival, and *)
(* not the failures, which nothing makes happen.                           *)
Step(t) ==
  \/ CheckDuplicate(t) \/ LookupTree(t) \/ CreateTree(t)
  \/ PublishEmptyRoot(t) \/ ReadTree(t) \/ UpdateTree(t) \/ PublishRoot(t)
  \/ RecordLeaf(t) \/ SaveWitness(t) \/ Respond(t)

Next == Crash \/ \E t \in Thread : Submit(t) \/ Step(t) \/ WriteFails(t)

Spec == Init /\ [][Next]_vars

(* The operating system runs every thread that has a call to make. *)
FairSpec == Spec /\ \A t \in Thread : WF_vars(Step(t))

-----------------------------------------------------------------------------
(* Properties that hold whatever the threads, the requests and the crashes *)
(* are.                                                                    *)

IsPrefixOf(r, s) == Len(r) <= Len(s) /\ \A i \in 1 .. Len(r) : r[i] = s[i]

(* The root r, which commits to its leaves in order, has leaf l at its     *)
(* slot.                                                                   *)
Opens(r, l) == Len(r) = l.index + 1 /\ r[l.index + 1] = Strip[l.commitment]

Published(tr, r) == \E i \in DOMAIN history[tr] : history[tr][i] = r

(* Every recorded leaf is at its slot in a root that was published for its *)
(* tree, and its stored witness is for such a root: what an agent proves   *)
(* with is in the history of roots, whoever else enrolled meanwhile.       *)
WitnessOpensRoot ==
  /\ \A l \in leaves : \E r \in {history[l.tree][i] : i \in DOMAIN history[l.tree]} :
       Opens(r, l)
  /\ \A w \in witnesses :
       w.leaf \in leaves /\ Published(w.leaf.tree, w.root) /\ Opens(w.root, w.leaf)

(* What a response with status "committed" told an agent is in the         *)
(* database and stays there through crashes: the leaf and the witness.     *)
AckDurable == acks \subseteq witnesses /\ \A a \in acks : a.leaf \in leaves

(* A tree never holds more leaves than its depth has room for, although    *)
(* the check and the write are two calls.                                  *)
CapacityRespected ==
  \A tr \in Tree : Len(tree[tr]) <= Capacity /\
    \A i \in DOMAIN history[tr] : Len(history[tr][i]) <= Capacity

(* Requests with authorization e that are past CHECK 5 and have no row yet. *)
Racing(e) ==
  {t \in Thread : pc[t] \notin {"idle", "save", "respond"} /\ req[t].event = e}

(* Once an authorization has a leaf no new request with it gets past       *)
(* CHECK 5, so the leaves it can still get are those of requests already   *)
(* running then: all in all no more than there are threads.                *)
ReplayBounded ==
  \A e \in Event :
    LET admitted == {l \in leaves : l.event = e} IN
    admitted # {} =>
      Cardinality(admitted) + Cardinality(Racing(e)) <= Cardinality(Thread)

(* Clients can meet in one tree, because a client_id with a hyphen and a    *)
(* purpose with one can spell the same identifier (enroll.py:430, 579), but *)
(* only so: a leaf is in the tree its own authorization spells, and the     *)
(* client in that tree's row is one that some authorization spells it for.  *)
NamesakesOnly ==
  \A l \in leaves :
    /\ l.tree = TreeOf(l.event)
    /\ \E e \in Event : TreeOf(e) = l.tree /\ ClientOf[e] = owner[l.tree]

-----------------------------------------------------------------------------
(* Properties of one thread at a time. *)

(* An authorization event admits one leaf (enroll.py, CHECK 5 and CHECK 6: *)
(* "replay prevention").                                                   *)
OneLeafPerAuthorization ==
  \A l1, l2 \in leaves : l1.event = l2.event => l1 = l2

(* Every root ever published commits to a prefix of what the tree holds.   *)
RootsArePrefixes ==
  \A tr \in Tree : \A i \in DOMAIN history[tr] : IsPrefixOf(history[tr][i], tree[tr])

(* A recorded leaf gets its witness unless the process stops or a write    *)
(* fails.                                                                  *)
WitnessFollows ==
  \A e \in Event :
    (\E l \in leaves : l.event = e)
      ~> (crashes + failures > 0 \/ \E w \in witnesses : w.leaf.event = e)

(* One thread at a time, enrollment is the abstract registry: the row of   *)
(* merkle_trees is its list of slots, and a row of merkle_leaves is an     *)
(* admission.                                                              *)
Registry == INSTANCE EnrollRegistry WITH
  slots <- tree,
  admitted <- {[event |-> l.event, tree |-> l.tree, index |-> l.index,
                leaf |-> Strip[l.commitment]] : l \in leaves}
RegistrySpec == Registry!Spec

=============================================================================
