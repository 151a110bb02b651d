---------------------------- MODULE LoginVerify ----------------------------
(***************************************************************************)
(* POST /v1/login/verify of the API server.  The handler verify_login      *)
(* (app/routes/login.py) is synchronous and runs in the pool of threads    *)
(* while enrollments append to merkle_roots.  It makes three calls to the  *)
(* database, each of its own: the trees of the client, the window of roots *)
(* and the log of the login.  Then it reads the signing keys.              *)
(*                                                                         *)
(* A root is an opaque value.  Two trees may publish the same one: the     *)
(* root of the empty tree is the first root of every tree.                 *)
(***************************************************************************)
EXTENDS Naturals, Sequences, FiniteSets

CONSTANTS
  Thread,         \* worker threads of the server
  Agent,          \* npubs
  Client,         \* client_id values
  Tree,           \* rows merkle_trees can have
  OwnerOf,        \* OwnerOf[tr]: client_id of that row
  Root,           \* root hashes
  Window,         \* ROOT_VALIDITY_WINDOW
  MaxRows,        \* bound of the model: rows of merkle_roots
  MaxLogins,      \* bound of the model: login requests
  MaxKeyChanges,  \* bound of the model: times the key files come or go
  MaxCrashes,     \* bound of the model: crashes of the process
  NoLogin         \* the thread serves no request

ASSUME ConstantsAssumption ==
  /\ OwnerOf \in [Tree -> Client]
  /\ Window \in Nat \ {0}
  /\ MaxRows \in Nat /\ MaxLogins \in Nat
  /\ MaxKeyChanges \in Nat /\ MaxCrashes \in Nat

VARIABLES
  created,    \* trees with a row in merkle_trees
  rows,       \* merkle_roots of all trees; the id of a row is its position
  log,        \* rows of login_verifications
  keys,       \* are keys/jwks.json and keys/oidc_rs256.pem usable?
  pc,         \* the call each thread makes next
  login,      \* the request each thread serves
  mine,       \* the trees of the client as the thread found them
  tokens,     \* logins answered with an id_token
  logins,     \* requests so far
  keyChanges, \* changes of `keys' so far
  crashes     \* crashes so far

vars == <<created, rows, log, keys, pc, login, mine, tokens, logins, keyChanges,
          crashes>>

RootRow == [tree : Tree, root : Root]
Login == [id : Nat, agent : Agent, client : Client, root : Root]

TypeOK ==
  /\ created \subseteq Tree
  /\ rows \in Seq(RootRow)
  /\ log \subseteq Login
  /\ keys \in BOOLEAN
  /\ pc \in [Thread -> {"idle", "trees", "roots", "log", "sign"}]
  /\ login \in [Thread -> Login \cup {NoLogin}]
  /\ \A t \in Thread : pc[t] # "idle" => login[t] \in Login
  /\ mine \in [Thread -> SUBSET Tree]
  /\ tokens \subseteq Login
  /\ logins \in Nat
  /\ keyChanges \in Nat
  /\ crashes \in Nat

Init ==
  /\ created = {}
  /\ rows = <<>>
  /\ log = {}
  /\ keys = TRUE
  /\ pc = [t \in Thread |-> "idle"]
  /\ login = [t \in Thread |-> NoLogin]
  /\ mine = [t \in Thread |-> {}]
  /\ tokens = {}
  /\ logins = 0
  /\ keyChanges = 0
  /\ crashes = 0

-----------------------------------------------------------------------------
(* Windows over merkle_roots.  Newest(S, n) is "ORDER BY id DESC LIMIT n"  *)
(* of the rows with an id in S.                                            *)

Newest(S, n) == {i \in S : Cardinality({j \in S : j > i}) < n}

IdsOf(trees) == {i \in DOMAIN rows : rows[i].tree \in trees}

(* get_valid_roots(tree_id, limit) and is_root_valid, which the endpoints  *)
(* .../roots and .../validate-root use.                                    *)
TreeWindow(tr) == {rows[i].root : i \in Newest(IdsOf({tr}), Window)}

(* A mutant: the roots do not age. *)
RecentForever(trees) == IdsOf(trees)
(* is_root_valid_for_client: the rows of these trees that are not older    *)
(* than the oldest of the last `limit' rows of these trees together.       *)
Recent(trees) ==
  {i \in IdsOf(trees) : \E c \in Newest(IdsOf(trees), Window) : i >= c}

(* A mutant: the trees of every client are searched. *)
TreesOfAny(c) == created
TreesOf(c) == {tr \in created : OwnerOf[tr] = c}

Goto(t, call) == pc' = [pc EXCEPT ![t] = call]

Finish(t) ==
  /\ Goto(t, "idle")
  /\ login' = [login EXCEPT ![t] = NoLogin]
  /\ mine' = [mine EXCEPT ![t] = {}]

-----------------------------------------------------------------------------
(* What enrollment does to the tables: see EnrollCommit. *)

CreateTree(tr) ==
  /\ tr \notin created
  /\ created' = created \cup {tr}
  /\ UNCHANGED <<rows, log, keys, pc, login, mine, tokens, logins, keyChanges,
                 crashes>>

PublishRoot(tr, r) ==
  /\ tr \in created
  /\ Len(rows) < MaxRows
  /\ rows' = Append(rows, [tree |-> tr, root |-> r])
  /\ UNCHANGED <<created, log, keys, pc, login, mine, tokens, logins, keyChanges,
                 crashes>>

(* The operator installs, removes or empties the key files. *)
ChangeKeys ==
  /\ keyChanges < MaxKeyChanges
  /\ keys' = ~ keys
  /\ keyChanges' = keyChanges + 1
  /\ UNCHANGED <<created, rows, log, pc, login, mine, tokens, logins, crashes>>

(* A request with a well-formed root and npub arrives. *)
Arrive(t) ==
  /\ pc[t] = "idle"
  /\ logins < MaxLogins
  /\ \E a \in Agent, c \in Client, r \in Root :
       login' = [login EXCEPT ![t] =
                   [id |-> logins, agent |-> a, client |-> c, root |-> r]]
  /\ logins' = logins + 1
  /\ Goto(t, "trees")
  /\ UNCHANGED <<created, rows, log, keys, mine, tokens, keyChanges, crashes>>

(* The first query: the trees of the client.  None is a refusal. *)
FindTrees(t) ==
  /\ pc[t] = "trees"
  /\ UNCHANGED <<created, rows, log, keys, tokens, logins, keyChanges, crashes>>
  /\ \/ /\ TreesOf(login[t].client) # {}
        /\ mine' = [mine EXCEPT ![t] = TreesOf(login[t].client)]
        /\ Goto(t, "roots")
        /\ UNCHANGED login
     \/ /\ TreesOf(login[t].client) = {}
        /\ Finish(t)

(* The second query: the one check of a login. *)
CheckRoot(t) ==
  /\ pc[t] = "roots"
  /\ UNCHANGED <<created, rows, log, keys, tokens, logins, keyChanges, crashes>>
  /\ \/ /\ \E i \in Recent(mine[t]) : rows[i].root = login[t].root
        /\ Goto(t, "log")
        /\ UNCHANGED <<login, mine>>
     \/ /\ \A i \in Recent(mine[t]) : rows[i].root # login[t].root
        /\ Finish(t)

(* A mutant: the login is logged after the token is signed, if at all. *)
LogNothing(t) == log
Logged(t) == log \cup {login[t]}

(* log_verification, before the keys are looked at.  The write may be      *)
(* refused by SQLite: the request ends in an error.                        *)
LogLogin(t) ==
  /\ pc[t] = "log"
  /\ UNCHANGED <<created, rows, keys, tokens, logins, keyChanges, crashes>>
  /\ \/ /\ log' = Logged(t)
        /\ Goto(t, "sign")
        /\ UNCHANGED <<login, mine>>
     \/ /\ Finish(t)
        /\ UNCHANGED log

Signed(t) == IF keys THEN tokens \cup {login[t]} ELSE tokens

(* The keys are read and the token signed, or the request ends in an error *)
(* with its row in the log.                                                *)
Sign(t) ==
  /\ pc[t] = "sign"
  /\ tokens' = Signed(t)
  /\ Finish(t)
  /\ UNCHANGED <<created, rows, log, keys, logins, keyChanges, crashes>>

Crash ==
  /\ crashes < MaxCrashes
  /\ \E t \in Thread : pc[t] # "idle"
  /\ crashes' = crashes + 1
  /\ pc' = [t \in Thread |-> "idle"]
  /\ login' = [t \in Thread |-> NoLogin]
  /\ mine' = [t \in Thread |-> {}]
  /\ UNCHANGED <<created, rows, log, keys, tokens, logins, keyChanges>>

Step(t) == FindTrees(t) \/ CheckRoot(t) \/ LogLogin(t) \/ Sign(t)

Next ==
  \/ \E tr \in Tree : CreateTree(tr) \/ \E r \in Root : PublishRoot(tr, r)
  \/ ChangeKeys
  \/ Crash
  \/ \E t \in Thread : Arrive(t) \/ Step(t)

Spec == Init /\ [][Next]_vars

-----------------------------------------------------------------------------
(* A token is issued for a root that enrollment published for a tree of    *)
(* the client the token is for: "Acme roots NEVER satisfy BetaCorp         *)
(* sessions" (app/routes/roots.py), as far as the hashes differ.           *)
TokenScoped ==
  \A k \in tokens : \E i \in DOMAIN rows :
    OwnerOf[rows[i].tree] = k.client /\ rows[i].root = k.root

(* The payout of a month is computed from login_verifications: a token     *)
(* that was issued is in it, with its own row.                             *)
TokenLogged == tokens \subseteq log

(* A root that passes the check is at that moment one of the last `Window' *)
(* of a tree of the client, although trees and roots are two queries and   *)
(* trees and roots may have come in between.                               *)
PassedRootIsValid ==
  [][\A t \in Thread : pc[t] = "roots" /\ pc'[t] = "log" =>
       \E tr \in TreesOf(login[t].client) : login[t].root \in TreeWindow(tr)]_vars

=============================================================================
