---------------------------- MODULE WatcherProofs ----------------------------
(***************************************************************************)
(* What holds of an agent's enrollments for every number of runs, calls,   *)
(* authorizations and clients, and for every capacity of the channel.      *)
(***************************************************************************)
EXTENDS AgentWatcher, TLAPS

(* If a is an authorization of this agent, its challenge was answered.     *)
Answered(a) == AgentOf[a] = Me => Response(ClientOf[a]) \in relay

(* An enterprise authorizes after the response, and everything the watcher *)
(* and the server hold comes from the relays.                              *)
Authorized == \A a \in Auth : Authorization(a) \in relay => Answered(a)
Received == queue # <<>> => \A i \in 1 .. Len(queue) : queue[i] \in relay
Held == auth # None => Answered(auth)

(* A call past CHECK 4 is for this agent.                                  *)
Checked ==
  \A q \in calls : Answered(q.auth) /\ (q.stage # "sent" => AgentOf[q.auth] = Me)

Inv ==
  /\ TypeOK
  /\ Authorized /\ Received /\ Held /\ Checked
  /\ RetryIsSafe
  /\ OnlyMyAuthorizations

-----------------------------------------------------------------------------
(* Appending a callback to the callbacks.                                  *)
LEMMA Appended ==
  ASSUME NEW S, NEW s \in Seq(S), NEW e \in S
  PROVE  Append(s, e) \in Seq(S)
OBVIOUS

(* An empty channel is a channel.                                          *)
LEMMA NothingQueued ==
  /\ \A S : <<>> \in Seq(S)
  /\ Len(<<>>) <= QueueCap
BY ConstantsAssumption

LEMMA InitInv == Init => Inv
<1> SUFFICES ASSUME Init PROVE Inv
  OBVIOUS
<1>1. TypeOK
  BY NothingQueued DEF Init, TypeOK
<1>2. Authorized /\ Received /\ Held /\ Checked /\ RetryIsSafe /\ OnlyMyAuthorizations
  BY DEF Init, Authorized, Received, Held, Checked, RetryIsSafe, OnlyMyAuthorizations
<1>3. QED
  BY <1>1, <1>2 DEF Inv

(* More on the relays takes nothing away.                                  *)
LEMMA PublishKeeps ==
  ASSUME Inv, NEW e \in Event, Publish(e),
         \A a \in Auth : e = Authorization(a) => Answered(a)
  PROVE  Inv'
<1>1. /\ relay' = relay \cup {e}
      /\ UNCHANGED <<task, queue, auth, deleg, runs, delivered, toTs, promise, prompted>>
      /\ UNCHANGED <<calls, answers, leaves>>
  BY DEF Publish, agent, server
<1>2. TypeOK'
  BY <1>1 DEF Inv, TypeOK
<1>3. \A a : Answered(a) => Answered(a)'
  BY <1>1 DEF Answered
<1>4. Authorized'
  BY <1>1, <1>3 DEF Inv, Authorized
<1>5. Received' /\ Held' /\ Checked'
  BY <1>1, <1>3 DEF Inv, Received, Held, Checked
<1>6. RetryIsSafe' /\ OnlyMyAuthorizations'
  BY <1>1 DEF Inv, RetryIsSafe, OnlyMyAuthorizations
<1>7. QED
  BY <1>2, <1>4, <1>5, <1>6 DEF Inv

(* The event a watcher takes next was on the relays.                       *)
LEMMA HeadReceived ==
  ASSUME Inv, queue # <<>>
  PROVE  /\ Head(queue) \in relay /\ Head(queue) \in Event
         /\ Tail(queue) \in Seq(Event) /\ Len(Tail(queue)) <= QueueCap
         /\ \A i \in 1 .. Len(Tail(queue)) : Tail(queue)[i] \in relay
<1>1. queue \in Seq(Event) /\ Len(queue) <= QueueCap
  BY DEF Inv, TypeOK
<1>2. Len(queue) \in Nat /\ Len(queue) >= 1 /\ Head(queue) = queue[1]
  BY <1>1
<1>3. /\ Tail(queue) \in Seq(Event) /\ Len(Tail(queue)) = Len(queue) - 1
      /\ \A i \in 1 .. Len(Tail(queue)) : Tail(queue)[i] = queue[i + 1]
  BY <1>1, <1>2
<1>4. \A i \in 1 .. Len(queue) : queue[i] \in relay
  BY DEF Inv, Received
<1>5. Len(Tail(queue)) <= QueueCap
  BY <1>1, <1>2, <1>3, ConstantsAssumption
<1>6. QED
  BY <1>1, <1>2, <1>3, <1>4, <1>5

LEMMA DeliverKeeps ==
  ASSUME Inv, NEW e \in Event, Deliver(e)
  PROVE  Inv'
<1>1. /\ e \in relay /\ Len(queue) < QueueCap
      /\ queue' = Append(queue, e) /\ delivered' = delivered + 1
      /\ UNCHANGED <<relay, prompted, task, auth, deleg, toTs, promise, runs>>
      /\ UNCHANGED <<calls, answers, leaves>>
  BY DEF Deliver, Room, world, server
<1>2. queue \in Seq(Event)
  BY DEF Inv, TypeOK
<1>3. /\ queue' \in Seq(Event) /\ Len(queue') = Len(queue) + 1 /\ Len(queue) \in Nat
      /\ \A i \in 1 .. Len(queue) : queue'[i] = queue[i]
      /\ queue'[Len(queue) + 1] = e
  BY <1>1, <1>2
<1>4. TypeOK'
  BY <1>1, <1>3, ConstantsAssumption DEF Inv, TypeOK
<1>5. Received'
  <2> SUFFICES ASSUME NEW i \in 1 .. Len(queue') PROVE queue'[i] \in relay'
    BY DEF Received
  <2>1. CASE i = Len(queue) + 1
    BY <1>1, <1>3, <2>1
  <2>2. CASE i # Len(queue) + 1
    <3>1. i \in 1 .. Len(queue)
      BY <1>3, <2>2
    <3>2. queue # <<>>
      BY <3>1
    <3>3. QED
      BY <1>1, <1>3, <3>1, <3>2 DEF Inv, Received
  <2>3. QED
    BY <2>1, <2>2
<1>6. Authorized' /\ Held' /\ Checked' /\ RetryIsSafe' /\ OnlyMyAuthorizations'
  BY <1>1 DEF Inv, Authorized, Held, Checked, Answered, RetryIsSafe, OnlyMyAuthorizations
<1>7. QED
  BY <1>4, <1>5, <1>6 DEF Inv

(* Taking an event, with or without the call that completes the pair.      *)
LEMMA TakeKeeps ==
  ASSUME Inv, queue # <<>>, queue' = Tail(queue),
         auth' \in Auth \cup {None}, auth' # None => Answered(auth'),
         deleg' \in BOOLEAN, CheckEnrollment(auth', deleg'), task = "watching",
         UNCHANGED <<world, promise, runs, delivered, answers, leaves>>
  PROVE  Inv'
<1> DEFINE call == [run |-> runs, auth |-> auth', stage |-> "sent"]
<1>1. /\ task' \in {task, "calling"}
      /\ task' = "calling" => auth' # None /\ deleg'
      /\ calls' = calls \/ (auth' # None /\ calls' = calls \cup {call})
  BY DEF CheckEnrollment, Complete
<1>2. [gate |-> 2] \in Callback /\ [gate |-> 3, data |-> "notice"] \in Callback
  BY DEF Callback
<1>3. toTs' \in Seq(Callback)
  <2>1. toTs \in Seq(Callback)
    BY DEF Inv, TypeOK
  <2>2. Append(toTs, [gate |-> 2]) \in Seq(Callback)
    BY <1>2, <2>1, Appended
  <2>3. Append(Append(toTs, [gate |-> 2]), [gate |-> 3, data |-> "notice"]) \in Seq(Callback)
    BY <1>2, <2>2, Appended
  <2>4. QED
    BY <2>2, <2>3 DEF CheckEnrollment
<1>4. calls' \subseteq Call
  BY <1>1 DEF Inv, TypeOK, Call
<1>5. /\ UNCHANGED <<relay, prompted, promise, runs, delivered, answers, leaves>>
  BY DEF world
<1>6. TypeOK'
  BY <1>1, <1>3, <1>4, <1>5, HeadReceived DEF Inv, TypeOK
<1>7. Received'
  BY <1>5, HeadReceived DEF Received
<1>8. Authorized' /\ RetryIsSafe' /\ OnlyMyAuthorizations'
  BY <1>5 DEF Inv, Authorized, Answered, RetryIsSafe, OnlyMyAuthorizations
<1>9. Held'
  BY <1>5 DEF Held, Answered
<1>10. Checked'
  BY <1>1, <1>5 DEF Inv, Checked, Answered
<1>11. QED
  BY <1>6, <1>7, <1>8, <1>9, <1>10 DEF Inv

LEMMA WatcherKeeps ==
  ASSUME Inv, WatcherStep
  PROVE  Inv'
<1>1. CASE TakeOpen
  <2>1. /\ queue # <<>> /\ queue' = Tail(queue) /\ Head(queue).kind = "open"
        /\ UNCHANGED <<relay, prompted, task, auth, deleg, promise, runs, delivered>>
        /\ UNCHANGED <<calls, answers, leaves>>
        /\ toTs' = toTs \/ toTs' = Append(toTs, [gate |-> 1, client |-> Head(queue).client])
    BY <1>1 DEF TakeOpen, world, server
  <2>2. Head(queue) \in Event
    BY <2>1, HeadReceived
  <2>3. Head(queue).client \in Client
    BY <2>1, <2>2 DEF Event, Open, Response, Authorization, Delegation
  <2>4. [gate |-> 1, client |-> Head(queue).client] \in Callback
    BY <2>3 DEF Callback
  <2>5. toTs' \in Seq(Callback)
    <3>1. toTs \in Seq(Callback)
      BY DEF Inv, TypeOK
    <3>2. Append(toTs, [gate |-> 1, client |-> Head(queue).client]) \in Seq(Callback)
      BY <2>4, <3>1, Appended
    <3>3. QED
      BY <2>1, <3>1, <3>2
  <2>6. TypeOK'
    BY <2>1, <2>5, HeadReceived DEF Inv, TypeOK
  <2>7. Received'
    BY <2>1, HeadReceived DEF Received
  <2>8. Authorized' /\ Held' /\ Checked' /\ RetryIsSafe' /\ OnlyMyAuthorizations'
    BY <2>1 DEF Inv, Authorized, Held, Checked, Answered, RetryIsSafe, OnlyMyAuthorizations
  <2>9. QED
    BY <2>6, <2>7, <2>8 DEF Inv
<1>2. CASE TakeAuthorization
  <2>1. /\ queue # <<>> /\ Head(queue).kind = "auth" /\ auth' = Head(queue).auth
        /\ queue' = Tail(queue) /\ task = "watching" /\ deleg' = deleg
        /\ CheckEnrollment(auth', deleg)
        /\ UNCHANGED <<world, promise, runs, delivered, answers, leaves>>
    BY <1>2 DEF TakeAuthorization
  <2>2. Head(queue) \in Event /\ Head(queue) \in relay
    BY <2>1, HeadReceived
  <2>3. PICK a \in Auth : Head(queue) = Authorization(a)
    BY <2>1, <2>2 DEF Event, Open, Response, Authorization, Delegation
  <2>4. auth' = a
    BY <2>1, <2>3 DEF Authorization
  <2>5. Answered(a)
    BY <2>2, <2>3 DEF Inv, Authorized
  <2>6. deleg' \in BOOLEAN
    BY <2>1 DEF Inv, TypeOK
  <2>7. CheckEnrollment(auth', deleg')
    BY <2>1
  <2>8. QED
    BY <2>1, <2>4, <2>5, <2>6, <2>7, TakeKeeps
<1>3. CASE TakeDelegation
  <2>1. /\ queue # <<>> /\ deleg' = TRUE /\ auth' = auth
        /\ queue' = Tail(queue) /\ task = "watching"
        /\ CheckEnrollment(auth, TRUE)
        /\ UNCHANGED <<world, promise, runs, delivered, answers, leaves>>
    BY <1>3 DEF TakeDelegation
  <2>2. auth' \in Auth \cup {None} /\ (auth' # None => Answered(auth'))
    BY <2>1 DEF Inv, TypeOK, Held
  <2>3. CheckEnrollment(auth', deleg')
    BY <2>1
  <2>4. QED
    BY <2>1, <2>2, <2>3, TakeKeeps
<1>4. ASSUME NEW r \in {"success", "failure"}, Report(r)
      PROVE  Inv'
  <2>1. /\ toTs' = Append(toTs, [gate |-> 3, data |-> r]) /\ task' = "ended"
        /\ UNCHANGED <<relay, prompted, queue, auth, deleg, promise, runs, delivered>>
        /\ UNCHANGED <<calls, answers, leaves>>
    BY <1>4 DEF Report, world, server
  <2>2. [gate |-> 3, data |-> r] \in Callback
    BY DEF Callback
  <2>3. TypeOK'
    BY <2>1, <2>2 DEF Inv, TypeOK
  <2>4. /\ Authorized' /\ Received' /\ Held' /\ Checked'
        /\ RetryIsSafe' /\ OnlyMyAuthorizations'
    BY <2>1 DEF Inv, Authorized, Received, Held, Checked, Answered, RetryIsSafe,
                OnlyMyAuthorizations
  <2>5. QED
    BY <2>3, <2>4 DEF Inv
<1>5. CASE ReadAnswer
  <2>1. PICK s \in {"committed", "refused"} : Report(Result(s))
    BY <1>5 DEF ReadAnswer
  <2>2. Result(s) \in {"success", "failure"}
    BY DEF Result
  <2>3. QED
    BY <2>1, <2>2, <1>4
<1>6. CASE CallFails
  BY <1>4, <1>6 DEF CallFails
<1>7. QED
  BY <1>1, <1>2, <1>3, <1>5, <1>6 DEF WatcherStep

(* The server.  RetryIsSafe rests on the UNIQUE constraint alone: what the *)
(* checks found may no longer be so when the row is stored.                *)
LEMMA ServerKeeps ==
  ASSUME Inv, NEW q \in calls, ServerChecks(q) \/ ServerRecords(q) \/ ServerAnswers(q)
  PROVE  Inv'
<1>1. /\ UNCHANGED <<relay, prompted, task, queue, auth, deleg, runs, delivered>>
      /\ UNCHANGED <<toTs, promise>>
  BY DEF ServerChecks, ServerRecords, ServerAnswers, world, agent
<1>2. q \in Call /\ Answered(q.auth)
  BY DEF Inv, TypeOK, Checked
<1>3. Authorized' /\ Received' /\ Held'
  BY <1>1 DEF Inv, Authorized, Received, Held, Answered
<1>4. ASSUME NEW s \in {"committed", "refused"}, Answer(q, s), leaves' \subseteq [run : Nat, auth : Auth]
      PROVE  TypeOK' /\ Checked'
  <2>1. calls' \subseteq calls /\ answers' = answers \cup {<<q.run, s>>}
    BY <1>4 DEF Answer
  <2>2. <<q.run, s>> \in Nat \X {"committed", "refused"}
    BY <1>2 DEF Call
  <2>3. TypeOK'
    BY <1>1, <1>4, <2>1, <2>2 DEF Inv, TypeOK
  <2>4. Checked'
    BY <1>1, <2>1 DEF Inv, Checked, Answered
  <2>5. QED
    BY <2>3, <2>4
<1>5. ASSUME NEW st \in {"checked", "recorded"}, Advance(q, st), AgentOf[q.auth] = Me,
             leaves' \subseteq [run : Nat, auth : Auth]
      PROVE  TypeOK' /\ Checked'
  <2> DEFINE next == [q EXCEPT !.stage = st]
  <2>1. calls' = (calls \ {q}) \cup {next} /\ UNCHANGED answers
    BY <1>5 DEF Advance
  <2>2. next \in Call /\ next.auth = q.auth
    BY <1>2 DEF Call
  <2>3. TypeOK'
    BY <1>1, <1>5, <2>1, <2>2 DEF Inv, TypeOK
  <2>4. Checked'
    BY <1>1, <1>2, <1>5, <2>1, <2>2 DEF Inv, Checked, Answered
  <2>5. QED
    BY <2>3, <2>4
<1>6. leaves \subseteq [run : Nat, auth : Auth]
  BY DEF Inv, TypeOK
<1>7. leaves' = leaves => RetryIsSafe' /\ OnlyMyAuthorizations'
  BY <1>1 DEF Inv, RetryIsSafe, OnlyMyAuthorizations
<1>8. CASE ServerChecks(q)
  <2>1. leaves' = leaves
    BY <1>8 DEF ServerChecks
  <2>2. Answer(q, "refused") \/ (Advance(q, "checked") /\ AgentOf[q.auth] = Me)
    BY <1>8 DEF ServerChecks, AgentsMatch
  <2>3. TypeOK' /\ Checked'
    BY <1>4, <1>5, <1>6, <2>1, <2>2
  <2>4. QED
    BY <1>3, <1>7, <2>1, <2>3 DEF Inv
<1>9. CASE ServerRecords(q)
  <2>1. AgentOf[q.auth] = Me
    BY <1>9 DEF ServerRecords, Inv, Checked
  <2>2. CASE Answer(q, "refused") /\ UNCHANGED leaves
    BY <1>3, <1>4, <1>6, <1>7, <2>2 DEF Inv
  <2>3. CASE /\ Unique(ClientOf[q.auth])
             /\ leaves' = leaves \cup {[run |-> q.run, auth |-> q.auth]}
             /\ Advance(q, "recorded")
    <3> DEFINE row == [run |-> q.run, auth |-> q.auth]
    <3>1. row \in [run : Nat, auth : Auth] /\ row.auth = q.auth
      BY <1>2 DEF Call
    <3>2. TypeOK' /\ Checked'
      BY <1>5, <1>6, <2>1, <2>3, <3>1
    <3>3. \A l \in leaves : ClientOf[l.auth] # ClientOf[row.auth]
      BY <2>3, <3>1 DEF Unique
    <3>4. RetryIsSafe'
      BY <2>3, <3>3 DEF Inv, RetryIsSafe
    <3>5. Response(ClientOf[q.auth]) \in relay
      BY <1>2, <2>1 DEF Answered
    <3>6. OnlyMyAuthorizations'
      BY <1>1, <2>1, <2>3, <3>1, <3>5 DEF Inv, OnlyMyAuthorizations
    <3>7. QED
      BY <1>3, <3>2, <3>4, <3>6 DEF Inv
  <2>4. QED
    BY <1>9, <2>2, <2>3 DEF ServerRecords
<1>10. CASE ServerAnswers(q)
  <2>1. leaves' = leaves /\ (Answer(q, "committed") \/ Answer(q, "refused"))
    BY <1>10 DEF ServerAnswers
  <2>2. TypeOK' /\ Checked'
    BY <1>4, <1>6, <2>1
  <2>3. QED
    BY <1>3, <1>7, <2>1, <2>2 DEF Inv
<1>11. QED
  BY <1>8, <1>9, <1>10

-----------------------------------------------------------------------------
LEMMA InvStep == Inv /\ [Next]_vars => Inv'
<1> SUFFICES ASSUME Inv, [Next]_vars PROVE Inv'
  OBVIOUS
<1>1. ASSUME NEW c \in Client, OpenSession(c) \/ SubmitChallenge(c) PROVE Inv'
  <2>1. Open(c) \in Event /\ Response(c) \in Event
    BY DEF Event
  <2>2. \A a \in Auth : Open(c) # Authorization(a) /\ Response(c) # Authorization(a)
    BY DEF Open, Response, Authorization
  <2>3. QED
    BY <1>1, <2>1, <2>2, PublishKeeps DEF OpenSession, SubmitChallenge
<1>2. ASSUME NEW a \in Auth, Authorize(a) PROVE Inv'
  <2>1. Authorization(a) \in Event /\ Answered(a)
    BY <1>2 DEF Event, Authorize, Answered
  <2>2. \A b \in Auth : Authorization(a) = Authorization(b) => Answered(b)
    BY <2>1 DEF Authorization
  <2>3. QED
    BY <1>2, <2>1, <2>2, PublishKeeps DEF Authorize
<1>3. CASE Delegate
  <2>1. Delegation \in Event /\ \A a \in Auth : Delegation # Authorization(a)
    BY DEF Event, Delegation, Authorization
  <2>2. QED
    BY <1>3, <2>1, PublishKeeps DEF Delegate
<1>4. CASE Start \/ StartFails \/ Listen
  <2>1. /\ UNCHANGED <<relay, prompted, queue, auth, deleg, toTs, delivered>>
        /\ UNCHANGED <<calls, answers, leaves>>
        /\ task' \in {"connecting", "watching", "ended"}
        /\ promise' \in {promise, "pending"} /\ runs' \in {runs, runs + 1}
    BY <1>4 DEF Start, StartFails, Listen, world, server
  <2>2. TypeOK'
    BY <2>1 DEF Inv, TypeOK
  <2>3. /\ Authorized' /\ Received' /\ Held' /\ Checked'
        /\ RetryIsSafe' /\ OnlyMyAuthorizations'
    BY <2>1 DEF Inv, Authorized, Received, Held, Checked, Answered, RetryIsSafe,
                OnlyMyAuthorizations
  <2>4. QED
    BY <2>2, <2>3 DEF Inv
<1>5. CASE Stop
  <2>1. /\ task' = "off" /\ queue' = <<>> /\ auth' = None /\ deleg' = FALSE
        /\ toTs' = <<>> /\ promise' = "none"
        /\ UNCHANGED <<relay, prompted, runs, delivered, calls, answers, leaves>>
    BY <1>5 DEF Stop, world, server
  <2>2. TypeOK'
    BY <2>1, NothingQueued DEF Inv, TypeOK
  <2>3. /\ Authorized' /\ Received' /\ Held' /\ Checked'
        /\ RetryIsSafe' /\ OnlyMyAuthorizations'
    BY <2>1 DEF Inv, Authorized, Received, Held, Checked, Answered, RetryIsSafe,
                OnlyMyAuthorizations
  <2>4. QED
    BY <2>2, <2>3 DEF Inv
<1>6. CASE ReadCallback
  <2>1. /\ toTs # <<>> /\ toTs' = Tail(toTs)
        /\ UNCHANGED <<relay, task, queue, auth, deleg, runs, delivered>>
        /\ UNCHANGED <<calls, answers, leaves>>
    BY <1>6 DEF ReadCallback, agent, server
  <2>2. /\ promise' = IF Head(toTs).gate = 3 THEN Settled(Head(toTs).data) ELSE promise
        /\ prompted' = IF Head(toTs).gate = 1 THEN prompted \cup {Head(toTs).client}
                       ELSE prompted
    BY <1>6 DEF ReadCallback
  <2>3. toTs' \in Seq(Callback) /\ Head(toTs) \in Callback
    BY <2>1 DEF Inv, TypeOK
  <2>4. /\ Head(toTs).gate = 3 => Head(toTs).data \in {"notice", "success", "failure"}
        /\ Head(toTs).gate = 1 => Head(toTs).client \in Client
    BY <2>3 DEF Callback
  <2>5. /\ promise' \in {"none", "pending", "success", "failure"}
        /\ prompted' \subseteq Client
    BY <2>2, <2>4 DEF Settled, Inv, TypeOK
  <2>6. TypeOK'
    BY <2>1, <2>3, <2>5 DEF Inv, TypeOK
  <2>7. /\ Authorized' /\ Received' /\ Held' /\ Checked'
        /\ RetryIsSafe' /\ OnlyMyAuthorizations'
    BY <2>1 DEF Inv, Authorized, Received, Held, Checked, Answered, RetryIsSafe,
                OnlyMyAuthorizations
  <2>8. QED
    BY <2>6, <2>7 DEF Inv
<1>7. CASE UNCHANGED vars
  BY <1>7 DEF vars, Inv, TypeOK, Authorized, Received, Held, Checked, Answered,
              RetryIsSafe, OnlyMyAuthorizations, Unique
<1>8. QED
  BY <1>1, <1>2, <1>3, <1>4, <1>5, <1>6, <1>7, DeliverKeeps, WatcherKeeps, ServerKeeps
     DEF Next

LEMMA Invariance == Spec => []Inv
BY InitInv, InvStep, PTL DEF Spec

(* The watcher, its channel, the callbacks and the promise keep their      *)
(* types: the channel never holds more than its capacity (enrollment.rs,   *)
(* mpsc::channel(32)), and no call is made without both events.            *)
THEOREM TypeCorrect == Spec => []TypeOK
<1>1. Inv => TypeOK
  BY DEF Inv
<1>2. QED
  BY <1>1, Invariance, PTL

(* An agent that tries again, with calls of earlier runs still going on at *)
(* the server, has at most one leaf with each client (enroll.py and the    *)
(* UNIQUE constraint of merkle_leaves).                                    *)
THEOREM RetryCorrect == Spec => []RetryIsSafe
<1>1. Inv => RetryIsSafe
  BY DEF Inv
<1>2. QED
  BY <1>1, Invariance, PTL

(* Whatever authorizations the relays deliver, a leaf is recorded only for *)
(* one of this agent, after its challenge was answered (CHECK 4).          *)
THEOREM AuthorizationCorrect == Spec => []OnlyMyAuthorizations
<1>1. Inv => OnlyMyAuthorizations
  BY DEF Inv
<1>2. QED
  BY <1>1, Invariance, PTL
=============================================================================
