----------------------------- MODULE OidcCodes -----------------------------
(***************************************************************************)
(* The OAuth 2.0 code flow of the API server (app/oidc_endpoints.py):      *)
(* /oidc/authorize stores a code, /oidc/token exchanges it for an id_token *)
(* when the redirect, the client and the PKCE verifier fit.                *)
(*                                                                         *)
(* The handler of /oidc/token is asynchronous and never awaits, so it runs *)
(* on the event loop as one step of the server.                            *)
(*                                                                         *)
(* The server has one SQLite connection (app/db/__init__.py) to a file in  *)
(* WAL mode that other processes write too, and never rolls back.  A write *)
(* that meets another writer's lock is refused, and the transaction the    *)
(* driver opened for it stays open; the next SELECT then pins it to a      *)
(* snapshot, and once the other writer commits the snapshot is stale and   *)
(* every later write of the connection is refused.                         *)
(***************************************************************************)
EXTENDS Naturals, FiniteSets

CONSTANTS
  Code,          \* values secrets.token_urlsafe(32) returns, never one twice
  ClientId,      \* client_id values
  Redirect,      \* redirect_uri values
  Allowed,       \* <<client, redirect>> pairs of clients.json
  Verifier,      \* code_verifier values
  Challenge,     \* code_challenge values
  S256,          \* S256[v]: base64url(sha256(v))
  None,          \* a parameter that is absent
  Lifetime,      \* seconds a code is valid, 300
  MaxTime,       \* bound of the model: the clock
  MaxExchanges,  \* bound of the model: exchanges that reach use_oidc_code
  MaxLocks       \* bound of the model: transactions of other processes

ASSUME OidcAssumption ==
  /\ Allowed \subseteq ClientId \X Redirect
  /\ S256 \in [Verifier -> Challenge]
  /\ None \notin ClientId /\ None \notin Redirect /\ None \notin Verifier
  /\ None \notin Challenge
  /\ Lifetime \in Nat \ {0}
  /\ MaxTime \in Nat /\ MaxExchanges \in Nat /\ MaxLocks \in Nat

VARIABLES
  lock,        \* the write lock: free or held by another process
  conn,        \* the transaction of the server's connection
  locks,       \* transactions of other processes so far
  now,         \* the clock
  issued,      \* issued[c]: the row of oidc_codes, or None
  used,        \* codes whose row has used = 1
  idTokens,    \* id_tokens sent; `at' is when get_oidc_code looked the code up
  exchanges,   \* exchanges so far
  refused      \* refused[c]: writes of used = 1 that SQLite refused

sqlite == <<lock, conn, locks>>
oidcVars == <<lock, conn, locks, now, issued, used, idTokens, exchanges, refused>>

(* No transaction; one without a snapshot; one whose snapshot is the last  *)
(* commit; one whose snapshot is older.                                    *)
Transaction == {"none", "open", "fresh", "stale"}

Row == [client : ClientId, redirect : Redirect, challenge : Challenge \cup {None}, exp : Nat]
Token == [id : Nat, code : Code, aud : ClientId, verifier : Verifier \cup {None}, at : Nat]

OidcTypeOK ==
  /\ lock \in {"free", "held"}
  /\ conn \in Transaction
  /\ locks \in Nat
  /\ now \in Nat
  /\ issued \in [Code -> Row \cup {None}]
  /\ used \subseteq Code
  /\ idTokens \subseteq Token
  /\ exchanges \in Nat
  /\ refused \in [Code -> Nat]

OidcInit ==
  /\ lock = "free"
  /\ conn = "none"
  /\ locks = 0
  /\ now = 0
  /\ issued = [c \in Code |-> None]
  /\ used = {}
  /\ idTokens = {}
  /\ exchanges = 0
  /\ refused = [c \in Code |-> 0]

-----------------------------------------------------------------------------
(* The connection.  A SELECT takes a snapshot if a transaction is open.    *)
AfterRead == IF conn = "open" THEN "fresh" ELSE conn

(* An INSERT or UPDATE and its commit go through. *)
Writable(tx) == lock = "free" /\ tx # "stale"
(* A refused one leaves the transaction the driver began for it.           *)
AfterRefusal(tx) == IF tx = "none" THEN "open" ELSE tx

(* Another process (the payout script, another server) writes and holds    *)
(* the lock for longer than the server waits.                              *)
Lock ==
  /\ lock = "free"
  /\ locks < MaxLocks
  /\ lock' = "held"
  /\ locks' = locks + 1
  /\ UNCHANGED <<conn, now, issued, used, idTokens, exchanges, refused>>

Unlock ==
  /\ lock = "held"
  /\ lock' = "free"
  /\ conn' \in {conn, IF conn = "fresh" THEN "stale" ELSE conn}
  /\ UNCHANGED <<locks, now, issued, used, idTokens, exchanges, refused>>

(* Any other endpoint reads, or writes something else. *)
OtherRead ==
  /\ conn' = AfterRead
  /\ UNCHANGED <<lock, locks, now, issued, used, idTokens, exchanges, refused>>

OtherWrite ==
  /\ conn' = IF Writable(conn) THEN "none" ELSE AfterRefusal(conn)
  /\ UNCHANGED <<lock, locks, now, issued, used, idTokens, exchanges, refused>>

Tick ==
  /\ now < MaxTime
  /\ now' = now + 1
  /\ UNCHANGED <<sqlite, issued, used, idTokens, exchanges, refused>>

-----------------------------------------------------------------------------
(* GET /oidc/authorize: a fresh code for a redirect the client registered. *)
(* (A refused write is an error response, and an OtherWrite here.)         *)
Authorize(c, client, redirect, challenge) ==
  /\ issued[c] = None
  /\ <<client, redirect>> \in Allowed
  /\ Writable(conn)
  /\ conn' = "none"
  /\ issued' = [issued EXCEPT ![c] =
       [client |-> client, redirect |-> redirect, challenge |-> challenge,
        exp |-> now + Lifetime]]
  /\ UNCHANGED <<lock, locks, now, used, idTokens, exchanges, refused>>

(* get_oidc_code: "WHERE code = ? AND used = 0 AND exp > ?" *)
Valid(c) == issued[c] # None /\ c \notin used /\ issued[c].exp > now

(* A mutant: a missing verifier skips PKCE. *)
PkceIfSent(c, verifier) ==
  verifier # None /\ issued[c].challenge # None => S256[verifier] = issued[c].challenge
(* PKCE: a code with a challenge needs a verifier that hashes to it. *)
PkcePasses(c, verifier) ==
  issued[c].challenge # None =>
    verifier # None /\ S256[verifier] = issued[c].challenge

(* The form's redirect_uri and client_id are compared when they are sent. *)
FormMatches(c, redirect, client) ==
  redirect \in {None, issued[c].redirect} /\ client \in {None, issued[c].client}

(* A mutant: the code stays valid. *)
UseNothing(c) == UNCHANGED <<used, refused>> /\ conn' = AfterRead
(* use_oidc_code, after the SELECT: the row is marked, or the write is     *)
(* refused and the OperationalError is swallowed.                          *)
UseCode(c) ==
  \/ /\ Writable(AfterRead)
     /\ used' = used \cup {c}
     /\ conn' = "none"
     /\ UNCHANGED refused
  \/ /\ ~ Writable(AfterRead)
     /\ conn' = AfterRefusal(AfterRead)
     /\ refused' = [refused EXCEPT ![c] = @ + 1]
     /\ UNCHANGED used

Audience(c) == issued[c].client

(* POST /oidc/token.  What fails before use_oidc_code has only read (it is *)
(* an OtherRead); what fails after it (no signing keys, or the server      *)
(* stops) leaves the code used and no token.                               *)
Exchange(c, redirect, client, verifier) ==
  /\ exchanges < MaxExchanges
  /\ Valid(c)
  /\ FormMatches(c, redirect, client)
  /\ PkcePasses(c, verifier)
  /\ UseCode(c)
  /\ exchanges' = exchanges + 1
  /\ \/ idTokens' = idTokens \cup
          {[id |-> exchanges, code |-> c, aud |-> Audience(c),
            verifier |-> verifier, at |-> now]}
     \/ UNCHANGED idTokens
  /\ UNCHANGED <<lock, locks, now, issued>>

OidcNext ==
  \/ Lock \/ Unlock \/ OtherRead \/ OtherWrite
  \/ Tick
  \/ \E c \in Code, client \in ClientId, redirect \in Redirect, ch \in Challenge \cup {None} :
       Authorize(c, client, redirect, ch)
  \/ \E c \in Code, redirect \in Redirect \cup {None}, client \in ClientId \cup {None},
        v \in Verifier \cup {None} :
       Exchange(c, redirect, client, v)

OidcSpec == OidcInit /\ [][OidcNext]_oidcVars

-----------------------------------------------------------------------------
TokensOf(c) == {k \in idTokens : k.code = c}

(* A code gives one token, and one more for every write of used = 1 that   *)
(* SQLite refused, which nobody is told of.                                *)
ReuseNeedsRefusal == \A c \in Code : Cardinality(TokensOf(c)) <= 1 + refused[c]

(* A token for a code that was asked for with a challenge went to who has  *)
(* the verifier, is for the client that asked, and came from a code that   *)
(* had not expired when it was looked up, whatever the form left out.      *)
TokenBound ==
  \A k \in idTokens :
    /\ issued[k.code] # None
    /\ k.aud = issued[k.code].client
    /\ k.at < issued[k.code].exp
    /\ issued[k.code].challenge # None =>
         k.verifier # None /\ S256[k.verifier] = issued[k.code].challenge

(* "Mark code as used (one-time use)" (app/oidc_endpoints.py): at least    *)
(* while no other process is writing, a code that gave a token is used up. *)
OneTimeUse ==
  [][\A k \in idTokens' \ idTokens : lock = "free" => k.code \in used']_oidcVars
=============================================================================
