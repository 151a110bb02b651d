----------------------------- MODULE TokenProofs ----------------------------
(***************************************************************************)
(* The two ways to an id_token: a login with a proof of membership         *)
(* (app/routes/login.py), for every number of threads, trees, clients and  *)
(* roots and every length of the window, and the code flow                 *)
(* (app/oidc_endpoints.py), for every set of codes, clients, redirects and *)
(* verifiers, every lifetime and every other writer.  They are systems of  *)
(* their own and share no variable.                                        *)
(***************************************************************************)
EXTENDS LoginVerify, OidcCodes, FiniteSetTheorems, TLAPS

-----------------------------------------------------------------------------
(* Logins.                                                                 *)

(* A published root that the client of login l may prove membership in.    *)
HasRoot(l) ==
  \E i \in DOMAIN rows : OwnerOf[rows[i].tree] = l.client /\ rows[i].root = l.root

(* What the thread holds at each call.                                     *)
ThreadInv(t) ==
  /\ pc[t] = "roots" => mine[t] \subseteq TreesOf(login[t].client)
  /\ pc[t] \in {"log", "sign"} => HasRoot(login[t])
  /\ pc[t] = "sign" => login[t] \in log

Inv ==
  /\ TypeOK
  /\ \A t \in Thread : ThreadInv(t)
  /\ TokenScoped
  /\ TokenLogged

-----------------------------------------------------------------------------
(* Windows.  A row the client's window accepts is among the last Window    *)
(* rows of its own tree: it has at most as many younger rows there.        *)
LEMMA IdsFinite ==
  ASSUME TypeOK, NEW S
  PROVE  IsFiniteSet(IdsOf(S)) /\ IdsOf(S) \subseteq Nat
<1>1. DOMAIN rows = 1 .. Len(rows) /\ Len(rows) \in Nat
  BY DEF TypeOK
<1>2. IsFiniteSet(1 .. Len(rows))
  BY <1>1, FS_Interval
<1>3. IdsOf(S) \subseteq 1 .. Len(rows)
  BY <1>1 DEF IdsOf
<1>4. QED
  BY <1>2, <1>3, FS_Subset

LEMMA RecentInTreeWindow ==
  ASSUME TypeOK, NEW S, NEW i \in Recent(S)
  PROVE  rows[i].tree \in S /\ rows[i].root \in TreeWindow(rows[i].tree)
<1>1. i \in IdsOf(S) /\ i \in DOMAIN rows /\ rows[i].tree \in S
  BY DEF Recent, IdsOf
<1>2. PICK c \in Newest(IdsOf(S), Window) : i >= c
  BY DEF Recent
<1> DEFINE younger == {j \in IdsOf({rows[i].tree}) : j > i}
           all == {j \in IdsOf(S) : j > c}
<1>3. c \in Nat /\ i \in Nat /\ Cardinality(all) < Window
  BY <1>1, <1>2, IdsFinite DEF Newest
<1>4. younger \subseteq all
  <2> SUFFICES ASSUME NEW j \in younger PROVE j \in all
    OBVIOUS
  <2>1. j \in IdsOf(S)
    BY <1>1 DEF IdsOf
  <2>2. j \in Nat /\ j > i
    BY <2>1, IdsFinite
  <2>3. QED
    BY <1>2, <1>3, <2>1, <2>2
<1>5. IsFiniteSet(all)
  BY IdsFinite, FS_Subset
<1>6. /\ Cardinality(younger) <= Cardinality(all)
      /\ Cardinality(younger) \in Nat /\ Cardinality(all) \in Nat
  BY <1>4, <1>5, FS_Subset, FS_CardinalityType
<1>7. Cardinality(younger) < Window
  BY <1>3, <1>6, ConstantsAssumption
<1>8. i \in Newest(IdsOf({rows[i].tree}), Window)
  BY <1>1, <1>7 DEF Newest, IdsOf
<1>9. QED
  BY <1>1, <1>8 DEF TreeWindow

-----------------------------------------------------------------------------
LEMMA InitInv == Init => Inv
BY DEF Init, Inv, TypeOK, ThreadInv, TokenScoped, TokenLogged

(* Rows and trees only come, so roots stay published.                      *)
LEMMA RootsStay ==
  ASSUME TypeOK, NEW tr \in Tree, NEW r \in Root, PublishRoot(tr, r)
  PROVE  /\ rows' \in Seq(RootRow)
         /\ \A l : HasRoot(l) => HasRoot(l)'
<1>1. [tree |-> tr, root |-> r] \in RootRow
  BY DEF RootRow
<1>2. /\ rows' \in Seq(RootRow) /\ Len(rows') = Len(rows) + 1
      /\ \A i \in 1 .. Len(rows) : rows'[i] = rows[i]
  BY <1>1 DEF PublishRoot, TypeOK
<1>3. DOMAIN rows = 1 .. Len(rows) /\ DOMAIN rows' = 1 .. Len(rows') /\ Len(rows) \in Nat
  BY <1>2 DEF TypeOK
<1>4. DOMAIN rows \subseteq DOMAIN rows'
  BY <1>2, <1>3
<1>5. QED
  BY <1>2, <1>3, <1>4 DEF HasRoot

(* The steps of a thread.                                                  *)
LEMMA ThreadStep ==
  ASSUME Inv, NEW t \in Thread, Arrive(t) \/ Step(t)
  PROVE  Inv'
<1> USE DEF Inv
<1>1. CASE Arrive(t)
  <2>1. PICK a \in Agent, c \in Client, r \in Root :
          login' = [login EXCEPT ![t] =
                      [id |-> logins, agent |-> a, client |-> c, root |-> r]]
    BY <1>1 DEF Arrive
  <2>2. [id |-> logins, agent |-> a, client |-> c, root |-> r] \in Login
    BY DEF Login, TypeOK
  <2>3. /\ pc' = [pc EXCEPT ![t] = "trees"] /\ logins' = logins + 1
        /\ UNCHANGED <<created, rows, log, keys, mine, tokens, keyChanges, crashes>>
    BY <1>1 DEF Arrive, Goto
  <2>4. TypeOK'
    BY <2>1, <2>2, <2>3 DEF TypeOK
  <2>5. \A u \in Thread : ThreadInv(u)'
    BY <2>1, <2>3 DEF ThreadInv, TreesOf, HasRoot, TypeOK
  <2>6. QED
    BY <2>3, <2>4, <2>5 DEF TokenScoped, TokenLogged
<1>2. CASE FindTrees(t)
  <2>1. UNCHANGED <<created, rows, log, keys, tokens, logins, keyChanges, crashes>>
    BY <1>2 DEF FindTrees
  <2>2. \/ /\ mine' = [mine EXCEPT ![t] = TreesOf(login[t].client)]
           /\ pc' = [pc EXCEPT ![t] = "roots"] /\ login' = login /\ pc[t] # "idle"
        \/ /\ pc' = [pc EXCEPT ![t] = "idle"] /\ login' = [login EXCEPT ![t] = NoLogin]
           /\ mine' = [mine EXCEPT ![t] = {}]
    BY <1>2 DEF FindTrees, Finish, Goto
  <2>3. \A c : TreesOf(c) \subseteq Tree
    BY DEF TreesOf, TypeOK
  <2>4. TypeOK'
    BY <2>1, <2>2, <2>3 DEF TypeOK
  <2>5. \A u \in Thread : ThreadInv(u)'
    BY <2>1, <2>2 DEF ThreadInv, TreesOf, HasRoot, TypeOK
  <2>6. QED
    BY <2>1, <2>4, <2>5 DEF TokenScoped, TokenLogged
<1>3. CASE CheckRoot(t)
  <2>1. UNCHANGED <<created, rows, log, keys, tokens, logins, keyChanges, crashes>>
    BY <1>3 DEF CheckRoot
  <2>2. \/ /\ pc' = [pc EXCEPT ![t] = "log"] /\ UNCHANGED <<login, mine>>
           /\ \E i \in Recent(mine[t]) : rows[i].root = login[t].root
        \/ /\ pc' = [pc EXCEPT ![t] = "idle"] /\ login' = [login EXCEPT ![t] = NoLogin]
           /\ mine' = [mine EXCEPT ![t] = {}]
    BY <1>3 DEF CheckRoot, Finish, Goto
  <2>3. TypeOK'
    BY <1>3, <2>1, <2>2 DEF TypeOK, CheckRoot
  <2>4. ASSUME NEW i \in Recent(mine[t]), rows[i].root = login[t].root
        PROVE  HasRoot(login[t])
    <3>1. mine[t] \subseteq TreesOf(login[t].client)
      BY <1>3 DEF CheckRoot, ThreadInv
    <3>2. i \in DOMAIN rows /\ rows[i].tree \in mine[t]
      BY DEF Recent, IdsOf
    <3>3. QED
      BY <2>4, <3>1, <3>2 DEF HasRoot, TreesOf
  <2>5. \A u \in Thread : ThreadInv(u)'
    BY <2>1, <2>2, <2>4 DEF ThreadInv, TreesOf, HasRoot, TypeOK
  <2>6. QED
    BY <2>1, <2>3, <2>5 DEF TokenScoped, TokenLogged
<1>4. CASE LogLogin(t)
  <2>1. /\ UNCHANGED <<created, rows, keys, tokens, logins, keyChanges, crashes>>
        /\ pc[t] = "log" /\ login[t] \in Login
    BY <1>4 DEF LogLogin, TypeOK
  <2>2. \/ /\ log' = log \cup {login[t]} /\ pc' = [pc EXCEPT ![t] = "sign"]
           /\ UNCHANGED <<login, mine>>
        \/ /\ pc' = [pc EXCEPT ![t] = "idle"] /\ login' = [login EXCEPT ![t] = NoLogin]
           /\ mine' = [mine EXCEPT ![t] = {}] /\ log' = log
    BY <1>4 DEF LogLogin, Finish, Goto, Logged
  <2>3. TypeOK'
    BY <2>1, <2>2 DEF TypeOK
  <2>4. \A u \in Thread : ThreadInv(u)'
    BY <2>1, <2>2 DEF ThreadInv, TreesOf, HasRoot, TypeOK
  <2>5. QED
    BY <2>1, <2>2, <2>3, <2>4 DEF TokenScoped, TokenLogged
<1>5. CASE Sign(t)
  <2>1. /\ UNCHANGED <<created, rows, log, keys, logins, keyChanges, crashes>>
        /\ pc[t] = "sign" /\ login[t] \in Login /\ HasRoot(login[t]) /\ login[t] \in log
        /\ pc' = [pc EXCEPT ![t] = "idle"] /\ login' = [login EXCEPT ![t] = NoLogin]
        /\ mine' = [mine EXCEPT ![t] = {}]
        /\ tokens' \subseteq tokens \cup {login[t]}
    BY <1>5 DEF Sign, Finish, Goto, Signed, ThreadInv, TypeOK
  <2>2. TypeOK'
    BY <2>1 DEF TypeOK
  <2>3. \A u \in Thread : ThreadInv(u)'
    BY <2>1 DEF ThreadInv, TreesOf, HasRoot, TypeOK
  <2>4. TokenScoped'
    BY <2>1 DEF TokenScoped, HasRoot
  <2>5. QED
    BY <2>1, <2>2, <2>3, <2>4 DEF TokenLogged
<1>6. QED
  BY <1>1, <1>2, <1>3, <1>4, <1>5 DEF Step

LEMMA InvStep == Inv /\ [Next]_vars => Inv'
<1> SUFFICES ASSUME Inv, [Next]_vars PROVE Inv'
  OBVIOUS
<1> USE DEF Inv
<1>1. ASSUME NEW tr \in Tree, CreateTree(tr)
      PROVE  Inv'
  BY <1>1 DEF CreateTree, TypeOK, ThreadInv, TreesOf, HasRoot, TokenScoped, TokenLogged
<1>2. ASSUME NEW tr \in Tree, NEW r \in Root, PublishRoot(tr, r)
      PROVE  Inv'
  <2>1. UNCHANGED <<created, log, keys, pc, login, mine, tokens, logins, keyChanges, crashes>>
    BY <1>2 DEF PublishRoot
  <2>2. rows' \in Seq(RootRow) /\ \A l : HasRoot(l) => HasRoot(l)'
    BY <1>2, RootsStay
  <2>3. TypeOK'
    BY <2>1, <2>2 DEF TypeOK
  <2>4. ASSUME NEW u \in Thread
        PROVE  ThreadInv(u)'
    <3>1. HasRoot(login[u]) => HasRoot(login[u])'
      <4>1. PICK l : l = login[u]
        OBVIOUS
      <4>2. HasRoot(l) => HasRoot(l)'
        BY <2>2
      <4>3. QED
        BY <2>1, <4>1, <4>2 DEF HasRoot
    <3>2. ThreadInv(u)
      OBVIOUS
    <3>3. QED
      BY <2>1, <3>1, <3>2 DEF ThreadInv, TreesOf, HasRoot
  <2>5. TokenScoped'
    <3> SUFFICES ASSUME NEW k \in tokens PROVE HasRoot(k)'
      BY <2>1 DEF TokenScoped, HasRoot
    <3>1. HasRoot(k)
      BY DEF TokenScoped, HasRoot
    <3>2. QED
      BY <2>2, <3>1
  <2>6. QED
    BY <2>1, <2>3, <2>4, <2>5 DEF TokenLogged
<1>3. CASE ChangeKeys
  BY <1>3 DEF ChangeKeys, TypeOK, ThreadInv, TreesOf, HasRoot, TokenScoped, TokenLogged
<1>4. CASE Crash
  BY <1>4 DEF Crash, TypeOK, ThreadInv, TokenScoped, TokenLogged
<1>5. ASSUME NEW t \in Thread, Arrive(t) \/ Step(t)
      PROVE  Inv'
  BY <1>5, ThreadStep
<1>6. CASE UNCHANGED vars
  BY <1>6 DEF vars, TypeOK, ThreadInv, TreesOf, HasRoot, TokenScoped, TokenLogged
<1>7. QED
  BY <1>1, <1>2, <1>3, <1>4, <1>5, <1>6 DEF Next

LEMMA Invariance == Spec => []Inv
BY InitInv, InvStep, PTL DEF Spec

-----------------------------------------------------------------------------
(* The tables and the threads keep their types.                            *)
THEOREM TypeCorrect == Spec => []TypeOK
<1>1. Inv => TypeOK
  BY DEF Inv
<1>2. QED
  BY <1>1, Invariance, PTL

(* A token is for a root published for a tree of its client.               *)
THEOREM ScopeCorrect == Spec => []TokenScoped
<1>1. Inv => TokenScoped
  BY DEF Inv
<1>2. QED
  BY <1>1, Invariance, PTL

(* A token has its row in the log the payouts are computed from.           *)
THEOREM LogCorrect == Spec => []TokenLogged
<1>1. Inv => TokenLogged
  BY DEF Inv
<1>2. QED
  BY <1>1, Invariance, PTL

(* A root that passes the check is one of the last Window of a tree of the *)
(* client, although the trees were looked up before: trees never go.       *)
THEOREM PassedCorrect == Spec => PassedRootIsValid
<1>1. ASSUME Inv, NEW t \in Thread, Next, pc[t] = "roots", pc'[t] = "log"
      PROVE  \E tr \in TreesOf(login[t].client) : login[t].root \in TreeWindow(tr)
  <2>1. CheckRoot(t)
    <3>1. PICK u \in Thread : Arrive(u) \/ Step(u)
      BY <1>1 DEF Next, CreateTree, PublishRoot, ChangeKeys, Crash
    <3>2. pc \in [Thread -> {"idle", "trees", "roots", "log", "sign"}]
      BY <1>1 DEF Inv, TypeOK
    <3>3. u = t
      BY <1>1, <3>1, <3>2 DEF Arrive, Step, FindTrees, CheckRoot, LogLogin, Sign, Finish, Goto
    <3>4. QED
      BY <1>1, <3>1, <3>2, <3>3 DEF Arrive, Step, FindTrees, CheckRoot, LogLogin, Sign
  <2>2. PICK i \in Recent(mine[t]) : rows[i].root = login[t].root
    BY <1>1, <2>1 DEF CheckRoot, Finish, Goto, Inv, TypeOK
  <2>3. rows[i].tree \in mine[t] /\ rows[i].root \in TreeWindow(rows[i].tree)
    BY <1>1, RecentInTreeWindow DEF Inv
  <2>4. mine[t] \subseteq TreesOf(login[t].client)
    BY <1>1 DEF Inv, ThreadInv
  <2>5. QED
    BY <2>2, <2>3, <2>4
<1>2. Inv /\ [Next]_vars =>
        [\A t \in Thread : pc[t] = "roots" /\ pc'[t] = "log" =>
           \E tr \in TreesOf(login[t].client) : login[t].root \in TreeWindow(tr)]_vars
  BY <1>1 DEF vars
<1>3. QED
  BY <1>2, Invariance, PTL DEF Spec, PassedRootIsValid

-----------------------------------------------------------------------------
(* The code flow.                                                          *)

LEMMA TransactionTypes ==
  ASSUME OidcTypeOK
  PROVE  /\ AfterRead \in Transaction
         /\ AfterRefusal(conn) \in Transaction
         /\ AfterRefusal(AfterRead) \in Transaction
BY DEF OidcTypeOK, Transaction, AfterRead, AfterRefusal

(* An exchange marks its code or has its write refused, and adds at most   *)
(* one token, for a valid code whose challenge the verifier answers.       *)
NewToken(c, verifier) ==
  [id |-> exchanges, code |-> c, aud |-> Audience(c),
   verifier |-> verifier, at |-> now]

LEMMA ExchangeEffect ==
  ASSUME OidcTypeOK, NEW c \in Code, NEW redirect \in Redirect \cup {None},
         NEW client \in ClientId \cup {None}, NEW v \in Verifier \cup {None},
         Exchange(c, redirect, client, v)
  PROVE  /\ \/ used' = used \cup {c} /\ refused' = refused
            \/ used' = used /\ refused' = [refused EXCEPT ![c] = @ + 1]
         /\ idTokens' = idTokens \/ idTokens' = idTokens \cup {NewToken(c, v)}
         /\ NewToken(c, v) \in Token
         /\ conn' \in Transaction
         /\ issued[c] \in Row
<1>1. issued[c] \in Row
  BY DEF Exchange, Valid, OidcTypeOK
<1>2. NewToken(c, v) \in Token
  BY <1>1 DEF NewToken, Token, Audience, Row, OidcTypeOK
<1>3. conn' \in Transaction
  BY TransactionTypes DEF Exchange, UseCode, Transaction
<1>4. QED
  BY <1>1, <1>2, <1>3 DEF Exchange, UseCode, NewToken

(* The rows, the tokens and the connection keep their types.               *)
THEOREM OidcTypeCorrect == OidcSpec => []OidcTypeOK
<1>1. OidcInit => OidcTypeOK
  BY DEF OidcInit, OidcTypeOK, Transaction
<1>2. OidcTypeOK /\ [OidcNext]_oidcVars => OidcTypeOK'
  <2> SUFFICES ASSUME OidcTypeOK, [OidcNext]_oidcVars
               PROVE  OidcTypeOK'
    OBVIOUS
  <2>1. CASE Lock \/ Unlock \/ OtherRead \/ OtherWrite
    BY <2>1, TransactionTypes
    DEF OidcTypeOK, Transaction, Lock, Unlock, OtherRead, OtherWrite
  <2>2. CASE Tick
    BY <2>2 DEF Tick, OidcTypeOK, sqlite
  <2>3. ASSUME NEW c \in Code, NEW client \in ClientId, NEW redirect \in Redirect,
               NEW ch \in Challenge \cup {None}, Authorize(c, client, redirect, ch)
        PROVE  OidcTypeOK'
    <3>1. [client |-> client, redirect |-> redirect, challenge |-> ch,
           exp |-> now + Lifetime] \in Row
      BY OidcAssumption DEF Row, OidcTypeOK
    <3>2. QED
      BY <2>3, <3>1 DEF Authorize, OidcTypeOK, Transaction
  <2>4. ASSUME NEW c \in Code, NEW redirect \in Redirect \cup {None},
               NEW client \in ClientId \cup {None}, NEW v \in Verifier \cup {None},
               Exchange(c, redirect, client, v)
        PROVE  OidcTypeOK'
    <3>1. /\ \/ used' = used \cup {c} /\ refused' = refused
             \/ used' = used /\ refused' = [refused EXCEPT ![c] = @ + 1]
          /\ idTokens' = idTokens \/ idTokens' = idTokens \cup {NewToken(c, v)}
          /\ NewToken(c, v) \in Token
          /\ conn' \in Transaction
      BY <2>4, ExchangeEffect
    <3>2. used' \subseteq Code /\ refused' \in [Code -> Nat]
      BY <3>1 DEF OidcTypeOK
    <3>3. idTokens' \subseteq Token
      BY <3>1 DEF OidcTypeOK
    <3>4. QED
      BY <2>4, <3>1, <3>2, <3>3 DEF Exchange, OidcTypeOK
  <2>5. CASE UNCHANGED oidcVars
    BY <2>5 DEF oidcVars, OidcTypeOK
  <2>6. QED
    BY <2>1, <2>2, <2>3, <2>4, <2>5 DEF OidcNext
<1>3. QED
  BY <1>1, <1>2, PTL DEF OidcSpec

(* Every token went to who asked for its code, with the verifier, for the  *)
(* client that asked, in time.                                             *)
THEOREM BoundCorrect == OidcSpec => []TokenBound
<1>1. OidcInit => TokenBound
  BY DEF OidcInit, TokenBound
<1>2. OidcTypeOK /\ TokenBound /\ [OidcNext]_oidcVars => TokenBound'
  <2> SUFFICES ASSUME OidcTypeOK, TokenBound, [OidcNext]_oidcVars
               PROVE  TokenBound'
    OBVIOUS
  <2>1. CASE Lock \/ Unlock \/ OtherRead \/ OtherWrite \/ Tick \/ UNCHANGED oidcVars
    BY <2>1 DEF Lock, Unlock, OtherRead, OtherWrite, Tick, oidcVars, TokenBound
  <2>2. ASSUME NEW c \in Code, NEW client \in ClientId, NEW redirect \in Redirect,
               NEW ch \in Challenge \cup {None}, Authorize(c, client, redirect, ch)
        PROVE  TokenBound'
    <3>1. \A d \in Code : issued[d] # None => issued'[d] = issued[d]
      BY <2>2 DEF Authorize, OidcTypeOK
    <3>2. \A k \in idTokens : k.code \in Code
      BY DEF OidcTypeOK, Token
    <3>3. QED
      BY <2>2, <3>1, <3>2 DEF Authorize, TokenBound
  <2>3. ASSUME NEW c \in Code, NEW redirect \in Redirect \cup {None},
               NEW client \in ClientId \cup {None}, NEW v \in Verifier \cup {None},
               Exchange(c, redirect, client, v)
        PROVE  TokenBound'
    <3>1. issued' = issued
      BY <2>3 DEF Exchange
    <3>2. ASSUME NEW k \in idTokens', k \notin idTokens
          PROVE  /\ issued[k.code] # None
                 /\ k.aud = issued[k.code].client
                 /\ k.at < issued[k.code].exp
                 /\ issued[k.code].challenge # None =>
                      k.verifier # None /\ S256[k.verifier] = issued[k.code].challenge
      <4>1. k = NewToken(c, v)
        BY <2>3, <3>2, ExchangeEffect
      <4>2. /\ k.code = c /\ k.aud = issued[c].client /\ k.at = now
            /\ k.verifier = v
        BY <4>1 DEF NewToken, Audience
      <4>3. issued[c] \in Row
        BY <2>3, ExchangeEffect
      <4>4. issued[c] # None /\ now < issued[c].exp /\ PkcePasses(c, v)
        BY <2>3, <4>3 DEF Exchange, Valid, Row, OidcTypeOK
      <4>5. QED
        BY <4>2, <4>4 DEF PkcePasses
    <3>3. QED
      BY <3>1, <3>2 DEF TokenBound
  <2>4. QED
    BY <2>1, <2>2, <2>3 DEF OidcNext
<1>3. QED
  BY <1>1, <1>2, OidcTypeCorrect, PTL DEF OidcSpec

-----------------------------------------------------------------------------
(* Counting the tokens of a code: one if the row is marked, and one for    *)
(* every refused write.                                                    *)
Budget(c) == (IF c \in used THEN 1 ELSE 0) + refused[c]
CountInv ==
  \A c \in Code : IsFiniteSet(TokensOf(c)) /\ Cardinality(TokensOf(c)) <= Budget(c)

LEMMA CountStep ==
  ASSUME OidcTypeOK, CountInv,
         NEW c \in Code, NEW redirect \in Redirect \cup {None},
         NEW client \in ClientId \cup {None}, NEW v \in Verifier \cup {None},
         Exchange(c, redirect, client, v)
  PROVE  CountInv'
<1> DEFINE new == NewToken(c, v)
<1>0. /\ \/ used' = used \cup {c} /\ refused' = refused
         \/ used' = used /\ refused' = [refused EXCEPT ![c] = @ + 1]
      /\ idTokens' = idTokens \/ idTokens' = idTokens \cup {new}
      /\ new.code = c
  <2>1. new.code = c
    BY DEF NewToken
  <2>2. QED
    BY <2>1, ExchangeEffect
<1> HIDE DEF new
<1>1. \A d \in Code : /\ refused[d] \in Nat /\ IsFiniteSet(TokensOf(d))
                      /\ Cardinality(TokensOf(d)) \in Nat
                      /\ Cardinality(TokensOf(d)) <= Budget(d)
  BY FS_CardinalityType DEF CountInv, OidcTypeOK
<1>2. \A d \in Code \ {c} : TokensOf(d)' = TokensOf(d) /\ Budget(d)' = Budget(d)
  <2>1. \A d \in Code \ {c} : TokensOf(d)' = TokensOf(d)
    BY <1>0 DEF TokensOf
  <2>2. \A d \in Code \ {c} : Budget(d)' = Budget(d)
    BY <1>0 DEF Budget, OidcTypeOK
  <2>3. QED
    BY <2>1, <2>2
<1>3. c \notin used
  BY DEF Exchange, Valid
<1>4. Budget(c)' = Budget(c) + 1
  BY <1>0, <1>1, <1>3 DEF Budget, OidcTypeOK
<1>5. TokensOf(c)' = TokensOf(c) \/ TokensOf(c)' = TokensOf(c) \cup {new}
  BY <1>0 DEF TokensOf
<1>6. /\ IsFiniteSet(TokensOf(c) \cup {new})
      /\ Cardinality(TokensOf(c) \cup {new}) <= Cardinality(TokensOf(c)) + 1
  <2>1. IsFiniteSet(TokensOf(c)) /\ Cardinality(TokensOf(c)) \in Nat
    BY <1>1
  <2>2. /\ IsFiniteSet(TokensOf(c) \cup {new})
        /\ Cardinality(TokensOf(c) \cup {new}) =
             IF new \in TokensOf(c) THEN Cardinality(TokensOf(c))
             ELSE Cardinality(TokensOf(c)) + 1
    BY <2>1, FS_AddElement
  <2>3. QED
    BY <2>1, <2>2
<1>7. Budget(c) \in Nat
  BY <1>1 DEF Budget
<1>8. IsFiniteSet(TokensOf(c)') /\ Cardinality(TokensOf(c)') <= Budget(c)'
  <2>1. CASE TokensOf(c)' = TokensOf(c)
    BY <1>1, <1>4, <1>7, <2>1
  <2>2. CASE TokensOf(c)' = TokensOf(c) \cup {new}
    <3>1. Cardinality(TokensOf(c) \cup {new}) \in Nat
      BY <1>6, FS_CardinalityType
    <3>2. QED
      BY <1>1, <1>4, <1>6, <1>7, <2>2, <3>1
  <2>3. QED
    BY <1>5, <2>1, <2>2
<1>9. QED
  BY <1>1, <1>2, <1>8 DEF CountInv

(* A code never gives more tokens than one and the refused writes of its   *)
(* mark: without a refused write it is good for one.                       *)
THEOREM ReuseCorrect == OidcSpec => []ReuseNeedsRefusal
<1>1. OidcInit => CountInv
  <2> SUFFICES ASSUME OidcInit, NEW c \in Code
               PROVE  IsFiniteSet(TokensOf(c)) /\ Cardinality(TokensOf(c)) <= Budget(c)
    BY DEF CountInv
  <2>1. TokensOf(c) = {}
    BY DEF OidcInit, TokensOf
  <2>2. Budget(c) = 0
    BY DEF OidcInit, Budget
  <2>3. QED
    BY <2>1, <2>2, FS_EmptySet
<1>2. OidcTypeOK /\ CountInv /\ [OidcNext]_oidcVars => CountInv'
  <2> SUFFICES ASSUME OidcTypeOK, CountInv, [OidcNext]_oidcVars
               PROVE  CountInv'
    OBVIOUS
  <2>1. CASE UNCHANGED <<idTokens, used, refused>>
    BY <2>1 DEF CountInv, TokensOf, Budget
  <2>2. CASE \E c \in Code, redirect \in Redirect \cup {None}, client \in ClientId \cup {None},
                v \in Verifier \cup {None} : Exchange(c, redirect, client, v)
    BY <2>2, CountStep
  <2>3. QED
    BY <2>1, <2>2
    DEF OidcNext, Lock, Unlock, OtherRead, OtherWrite, Tick, Authorize, oidcVars
<1>3. OidcTypeOK /\ CountInv => ReuseNeedsRefusal
  <2> SUFFICES ASSUME OidcTypeOK, CountInv, NEW c \in Code
               PROVE  Cardinality(TokensOf(c)) <= 1 + refused[c]
    BY DEF ReuseNeedsRefusal
  <2>1. refused[c] \in Nat /\ Cardinality(TokensOf(c)) \in Nat
    BY FS_CardinalityType DEF OidcTypeOK, CountInv
  <2>2. QED
    BY <2>1 DEF CountInv, Budget
<1>4. QED
  BY <1>1, <1>2, <1>3, OidcTypeCorrect, PTL DEF OidcSpec

-----------------------------------------------------------------------------
(* If no other process ever writes the file, the comment "one-time use" is *)
(* right: the connection is never left in a transaction.                   *)
THEOREM OneTimeAlone ==
  ASSUME MaxLocks = 0
  PROVE  OidcSpec => OneTimeUse
<1> DEFINE Alone == locks = 0 /\ lock = "free" /\ conn = "none"
<1>1. OidcInit => Alone
  BY DEF OidcInit
<1>2. Alone /\ [OidcNext]_oidcVars => Alone'
  <2> SUFFICES ASSUME Alone, [OidcNext]_oidcVars
               PROVE  Alone'
    OBVIOUS
  <2>1. CASE Lock \/ Unlock
    BY <2>1, OidcAssumption DEF Lock, Unlock
  <2>2. CASE OtherRead \/ OtherWrite \/ Tick \/ UNCHANGED oidcVars
    BY <2>2 DEF OtherRead, OtherWrite, Tick, AfterRead, Writable, oidcVars, sqlite
  <2>3. ASSUME NEW c \in Code, NEW client \in ClientId, NEW redirect \in Redirect,
               NEW ch \in Challenge \cup {None}, Authorize(c, client, redirect, ch)
        PROVE  Alone'
    BY <2>3 DEF Authorize
  <2>4. ASSUME NEW c \in Code, NEW redirect \in Redirect \cup {None},
               NEW client \in ClientId \cup {None}, NEW v \in Verifier \cup {None},
               Exchange(c, redirect, client, v)
        PROVE  Alone'
    BY <2>4 DEF Exchange, UseCode, AfterRead, Writable
  <2>5. QED
    BY <2>1, <2>2, <2>3, <2>4 DEF OidcNext
<1>3. OidcTypeOK /\ Alone /\ [OidcNext]_oidcVars =>
        [\A k \in idTokens' \ idTokens : lock = "free" => k.code \in used']_oidcVars
  <2> SUFFICES ASSUME OidcTypeOK, Alone, [OidcNext]_oidcVars, NEW k \in idTokens', k \notin idTokens
               PROVE  k.code \in used'
    OBVIOUS
  <2>1. PICK c \in Code, redirect \in Redirect \cup {None}, client \in ClientId \cup {None},
             v \in Verifier \cup {None} : Exchange(c, redirect, client, v)
    BY DEF OidcNext, Lock, Unlock, OtherRead, OtherWrite, Tick, Authorize, oidcVars
  <2>2. k.code = c
    <3>1. k = NewToken(c, v)
      BY <2>1, ExchangeEffect
    <3>2. QED
      BY <3>1 DEF NewToken
  <2>3. c \in used'
    BY <2>1 DEF Exchange, UseCode, Writable, AfterRead
  <2>4. QED
    BY <2>2, <2>3
<1>4. QED
  BY <1>1, <1>2, <1>3, OidcTypeCorrect, PTL DEF OidcSpec, OneTimeUse
=============================================================================
