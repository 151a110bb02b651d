---------------------------- MODULE AgentWatcher ----------------------------
(***************************************************************************)
(* Enrollment seen from the agent.  One watcher                            *)
(* (start_enrollment_watcher of native/signedby_core/src/sdk/enrollment.rs)*)
(* listens to the relays for authorizations (kind 38200) and delegations   *)
(* (kind 38250), and once it holds one of each asks the server to commit   *)
(* the enrollment.  Its callbacks cross the C interface (ffi.rs) to the    *)
(* TypeScript SDK, where startEnrollmentWatcher (agent.ts) turns them into *)
(* one promise.                                                            *)
(*                                                                         *)
(* The process of the agent may stop and start again; a call it made goes  *)
(* on at the server.  The agent derives its leaf from its secret, so every *)
(* call it ever makes carries the same commitment.  Of the server only     *)
(* what this agent's calls meet is here; EnrollCommit has it all.          *)
(***************************************************************************)
EXTENDS Naturals, Sequences, FiniteSets

CONSTANTS
  Client,     \* client_id values; the tree of an agent at one is client-allowlist
  Mapped,     \* clients the email mapping has
  Auth,       \* authorizations with a "p" tag
  ClientOf,   \* ClientOf[a]: the client of authorization a
  Agent,      \* agents authorizations are for
  AgentOf,    \* AgentOf[a]: the agent in the "p" tag of a
  Me,         \* this agent
  QueueCap,   \* room in the channel to the watcher, 32
  MaxRuns,    \* bound of the model: watchers started
  MaxDelivered, \* bound of the model: events delivered
  None        \* no event

ASSUME ConstantsAssumption ==
  /\ Mapped \subseteq Client
  /\ ClientOf \in [Auth -> Client]
  /\ AgentOf \in [Auth -> Agent]
  /\ Me \in Agent
  /\ None \notin Auth
  /\ QueueCap \in Nat \ {0}
  /\ MaxRuns \in Nat /\ MaxDelivered \in Nat

VARIABLES
  relay,      \* events on the relays
  task,       \* the watcher: "off", "connecting", "watching", "calling", "ended"
  queue,      \* events in the channel to the watcher
  auth,       \* st.authorization_event
  deleg,      \* is st.delegation_event set?
  toTs,       \* callbacks the TypeScript side has not read
  promise,    \* "none", "pending", "success" or "failure"
  prompted,   \* clients whose challenge the human was asked for
  runs,       \* watchers started so far; numbers their calls
  delivered,  \* events delivered so far
  calls,      \* calls at the server that are not answered
  answers,    \* answers the server gave: <<run, status>>
  leaves      \* rows of merkle_leaves of this agent's commitment

world == <<relay, prompted>>
agent == <<task, queue, auth, deleg, runs, delivered>>
server == <<calls, answers, leaves>>
vars == <<relay, task, queue, auth, deleg, toTs, promise, prompted, runs,
          delivered, calls, answers, leaves>>

Open(c) == [kind |-> "open", client |-> c]
Response(c) == [kind |-> "response", client |-> c]
Authorization(a) == [kind |-> "auth", auth |-> a]
Delegation == [kind |-> "delegation"]
Event ==
  {Open(c) : c \in Client} \cup {Response(c) : c \in Client}
    \cup {Authorization(a) : a \in Auth} \cup {Delegation}

(* What crosses the interface: the gate, and for gate 3 either the notice  *)
(* that the call is being made or the result of it.                        *)
Callback ==
  [gate : {1}, client : Client] \cup [gate : {2}]
    \cup [gate : {3}, data : {"notice", "success", "failure"}]

Call == [run : Nat, auth : Auth, stage : {"sent", "checked", "recorded"}]

TypeOK ==
  /\ relay \subseteq Event
  /\ task \in {"off", "connecting", "watching", "calling", "ended"}
  /\ queue \in Seq(Event) /\ Len(queue) <= QueueCap
  /\ auth \in Auth \cup {None}
  /\ deleg \in BOOLEAN
  /\ task = "calling" => auth # None /\ deleg
  /\ toTs \in Seq(Callback)
  /\ promise \in {"none", "pending", "success", "failure"}
  /\ prompted \subseteq Client
  /\ runs \in Nat
  /\ delivered \in Nat
  /\ calls \subseteq Call
  /\ answers \subseteq Nat \X {"committed", "refused"}
  /\ leaves \subseteq [run : Nat, auth : Auth]

Init ==
  /\ relay = {}
  /\ task = "off"
  /\ queue = <<>>
  /\ auth = None
  /\ deleg = FALSE
  /\ toTs = <<>>
  /\ promise = "none"
  /\ prompted = {}
  /\ runs = 0
  /\ delivered = 0
  /\ calls = {}
  /\ answers = {}
  /\ leaves = {}

-----------------------------------------------------------------------------
(* The relays, the enterprise and the human.  An enterprise authorizes     *)
(* this agent after its response to the challenge, others at any time.     *)

Publish(e) ==
  /\ relay' = relay \cup {e}
  /\ UNCHANGED <<agent, toTs, promise, prompted, server>>

OpenSession(c) == Publish(Open(c))
Authorize(a) ==
  /\ AgentOf[a] = Me => Response(ClientOf[a]) \in relay
  /\ Publish(Authorization(a))
Delegate == Publish(Delegation)

(* submit_challenge_code: the human enters the code for a client the agent *)
(* prompted for.                                                           *)
SubmitChallenge(c) ==
  /\ c \in prompted
  /\ Publish(Response(c))

-----------------------------------------------------------------------------
(* agent.ts, ffi.rs: the promise is made and the watcher spawned.          *)
Start ==
  /\ task = "off"
  /\ runs < MaxRuns
  /\ runs' = runs + 1
  /\ task' = "connecting"
  /\ promise' = "pending"
  /\ UNCHANGED <<world, queue, auth, deleg, toTs, delivered, server>>

(* Storage, relays or a subscription fail: the error is dropped.           *)
StartFails ==
  /\ task = "connecting"
  /\ task' = "ended"
  /\ UNCHANGED <<world, queue, auth, deleg, toTs, promise, runs, delivered, server>>

(* The subscriptions are made and the notification task listens.  Events   *)
(* that came before it listened are lost to it.                            *)
Listen ==
  /\ task = "connecting"
  /\ task' = "watching"
  /\ UNCHANGED <<world, queue, auth, deleg, toTs, promise, runs, delivered, server>>

(* A mutant: the channel takes one event too many. *)
RoomForOneMore == Len(queue) <= QueueCap
(* tx.send waits while the channel is full. *)
Room == Len(queue) < QueueCap

(* A relay delivers an event the subscriptions ask for: late, out of order *)
(* and, with three relays, more than once.                                 *)
Deliver(e) ==
  /\ e \in relay
  /\ e.kind # "response"
  /\ task \in {"watching", "calling"}
  /\ Room
  /\ delivered < MaxDelivered
  /\ delivered' = delivered + 1
  /\ queue' = Append(queue, e)
  /\ UNCHANGED <<world, task, auth, deleg, toTs, promise, runs, server>>

(* An open session: the human is told, if the client has an email.         *)
TakeOpen ==
  /\ task = "watching"
  /\ queue # <<>>
  /\ Head(queue).kind = "open"
  /\ queue' = Tail(queue)
  /\ toTs' = IF Head(queue).client \in Mapped
             THEN Append(toTs, [gate |-> 1, client |-> Head(queue).client])
             ELSE toTs
  /\ UNCHANGED <<world, task, auth, deleg, promise, runs, delivered, server>>

(* A mutant: the event that completes the pair must be the delegation. *)
CompleteOnDelegation(a, d) == Head(queue) = Delegation /\ a # None /\ d
(* maybe_events: both are stored. *)
Complete(a, d) == a # None /\ d

(* With both events, the notice of gate 3 and the call to the server.      *)
CheckEnrollment(a, d) ==
  LET gate2 == Append(toTs, [gate |-> 2]) IN
  IF Complete(a, d)
  THEN /\ task' = "calling"
       /\ toTs' = Append(gate2, [gate |-> 3, data |-> "notice"])
       /\ calls' = calls \cup {[run |-> runs, auth |-> a, stage |-> "sent"]}
  ELSE /\ toTs' = gate2
       /\ UNCHANGED <<task, calls>>

(* Any "p" tag makes an authorization count as addressed to this agent,    *)
(* and the last one to come is kept.                                       *)
TakeAuthorization ==
  /\ task = "watching"
  /\ queue # <<>>
  /\ Head(queue).kind = "auth"
  /\ queue' = Tail(queue)
  /\ auth' = Head(queue).auth
  /\ CheckEnrollment(auth', deleg)
  /\ UNCHANGED <<world, deleg, promise, runs, delivered, answers, leaves>>

TakeDelegation ==
  /\ task = "watching"
  /\ queue # <<>>
  /\ Head(queue).kind = "delegation"
  /\ queue' = Tail(queue)
  /\ deleg' = TRUE
  /\ CheckEnrollment(auth, TRUE)
  /\ UNCHANGED <<world, auth, promise, runs, delivered, answers, leaves>>

(* on_enrollment_complete and the end of the loop. *)
Report(result) ==
  /\ toTs' = Append(toTs, [gate |-> 3, data |-> result])
  /\ task' = "ended"
  /\ UNCHANGED <<world, queue, auth, deleg, promise, runs, delivered, server>>

(* Fields EnrollCommitResponse of enrollment.rs must find, and those the   *)
(* EnrollCommitResponse of enroll.py has.                                  *)
Required == {"success"}
Sent == {"enrollment_id", "status", "tree_id", "root", "leaf_index", "witness", "message"}
Result(status) ==
  IF status = "committed" /\ Required \subseteq Sent THEN "success" ELSE "failure"

ReadAnswer ==
  /\ task = "calling"
  /\ \E s \in {"committed", "refused"} :
       <<runs, s>> \in answers /\ Report(Result(s))

(* The call is given up after 30 seconds or never reached the server.      *)
CallFails ==
  /\ task = "calling"
  /\ Report("failure")

-----------------------------------------------------------------------------
(* native.ts and agent.ts: the callbacks in order.  Gate 3 settles the     *)
(* promise: with the result, or, when the data is not JSON, with success.  *)
Settled(data) == IF data = "notice" THEN "success" ELSE data

ReadCallback ==
  /\ promise = "pending"
  /\ toTs # <<>>
  /\ toTs' = Tail(toTs)
  /\ LET cb == Head(toTs) IN
     /\ promise' = IF cb.gate = 3 THEN Settled(cb.data) ELSE promise
     /\ prompted' = IF cb.gate = 1 THEN prompted \cup {cb.client} ELSE prompted
  /\ UNCHANGED <<relay, agent, server>>

(* The process of the agent stops. *)
Stop ==
  /\ task # "off"
  /\ task' = "off"
  /\ queue' = <<>>
  /\ auth' = None
  /\ deleg' = FALSE
  /\ toTs' = <<>>
  /\ promise' = "none"
  /\ UNCHANGED <<world, runs, delivered, server>>

-----------------------------------------------------------------------------
(* The server, one call of this agent in the steps other calls can come    *)
(* between: the checks, the row with its UNIQUE constraint, the rest.      *)

Answer(q, status) ==
  /\ calls' = calls \ {q}
  /\ answers' = answers \cup {<<q.run, status>>}

Advance(q, stage) ==
  /\ calls' = (calls \ {q}) \cup {[q EXCEPT !.stage = stage]}
  /\ UNCHANGED answers

(* A mutant: the two events need not be for one agent. *)
AgentsNeedNotMatch(a) == TRUE
(* CHECK 4: the authorization and the delegation are for one agent. *)
AgentsMatch(a) == AgentOf[a] = Me

(* A mutant: no UNIQUE(tree_id, leaf_commitment). *)
NotUnique(c) == TRUE
Unique(c) == \A l \in leaves : ClientOf[l.auth] # c

(* CHECK 4, CHECK 5 and the duplicate check, in one step here: that they   *)
(* pass does not say that they still would when the row is stored.         *)
ServerChecks(q) ==
  /\ q.stage = "sent"
  /\ \/ /\ AgentsMatch(q.auth)
        /\ \A l \in leaves : l.auth # q.auth
        /\ \A l \in leaves : ClientOf[l.auth] # ClientOf[q.auth]
        /\ Advance(q, "checked")
     \/ Answer(q, "refused")
  /\ UNCHANGED <<world, agent, toTs, promise, leaves>>

ServerRecords(q) ==
  /\ q.stage = "checked"
  /\ \/ /\ Unique(ClientOf[q.auth])
        /\ leaves' = leaves \cup {[run |-> q.run, auth |-> q.auth]}
        /\ Advance(q, "recorded")
     \/ /\ Answer(q, "refused")
        /\ UNCHANGED leaves
  /\ UNCHANGED <<world, agent, toTs, promise>>

(* The witness and the audit row, either of which may be refused. *)
ServerAnswers(q) ==
  /\ q.stage = "recorded"
  /\ \E s \in {"committed", "refused"} : Answer(q, s)
  /\ UNCHANGED <<world, agent, toTs, promise, leaves>>

-----------------------------------------------------------------------------
WatcherStep == TakeOpen \/ TakeAuthorization \/ TakeDelegation \/ ReadAnswer \/ CallFails

Next ==
  \/ \E c \in Client : OpenSession(c) \/ SubmitChallenge(c)
  \/ \E a \in Auth : Authorize(a)
  \/ Delegate
  \/ Start \/ StartFails \/ Listen \/ Stop
  \/ \E e \in Event : Deliver(e)
  \/ WatcherStep
  \/ ReadCallback
  \/ \E q \in calls : ServerChecks(q) \/ ServerRecords(q) \/ ServerAnswers(q)

Spec == Init /\ [][Next]_vars

(* The runtime polls the watcher's task, whose call ends with an answer or *)
(* a timeout, and the event loop of JavaScript calls the reader.           *)
FairSpec == Spec /\ WF_vars(WatcherStep) /\ WF_vars(ReadCallback)

-----------------------------------------------------------------------------
(* However often the agent tries again with one authorization or another,  *)
(* and although an earlier call may still be running at the server when    *)
(* the next one passes its checks, the agent has at most one leaf with a   *)
(* client: the UNIQUE constraint does what CHECK 5 cannot.                 *)
RetryIsSafe ==
  \A l1, l2 \in leaves : ClientOf[l1.auth] = ClientOf[l2.auth] => l1 = l2

(* The agent cannot tell whom an authorization is for, and the server      *)
(* does: a leaf is recorded for an authorization of this agent only, whose *)
(* enterprise saw a response to its challenge.                             *)
OnlyMyAuthorizations ==
  \A l \in leaves : AgentOf[l.auth] = Me /\ Response(ClientOf[l.auth]) \in relay

InQueue(kind) == \E i \in DOMAIN queue : queue[i].kind = kind
HasPair ==
  /\ auth # None \/ InQueue("auth")
  /\ deleg \/ InQueue("delegation")

(* A watcher that has received an authorization and a delegation, in       *)
(* whatever order and among whatever else, ends, and its promise settles,  *)
(* unless the process stops.                                               *)
Settles ==
  HasPair ~> (task = "off" \/ (task = "ended" /\ promise \in {"success", "failure"}))

=============================================================================
