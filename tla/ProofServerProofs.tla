-------------------------- MODULE ProofServerProofs -------------------------
(***************************************************************************)
(* The proof server runs at most one job, implements ProofJobs and answers *)
(* a getStatus call with a state it was in, for every set of bodies,       *)
(* circuits and threads.                                                   *)
(***************************************************************************)
EXTENDS ProofServer, FiniteSetTheorems, TLAPS

Working(w) == worker[w] # "idle"

(* A job has exactly one thread; without a job every thread is idle; a     *)
(* cancellation belongs to a job; and nothing is pending that calcFinished *)
(* could start, but while the request thread hangs with mtx held.          *)
OneThread ==
  /\ status = "busy" => \E w \in Worker : Working(w) /\ \A u \in Worker : Working(u) => u = w
  /\ status # "busy" => \A w \in Worker : ~Working(w)
  /\ canceled => status = "busy"
  /\ mtxHeld \/ pending.input = Empty \/ pending.circuit = Empty

IInv == TypeOK /\ (alive => OneThread)

Files == [Circuit -> Input \cup {None, Truncated}]

LEMMA NoReplyType == NoPost \in Post /\ NoReply \in Answer
<1>1. NoPost \in Post
  BY DEF NoPost, Post
<1> QED BY <1>1 DEF NoReply, Answer

LEMMA InitIInv == Init => IInv
<1> SUFFICES ASSUME Init PROVE IInv
  OBVIOUS
<1>1. TypeOK
  <2>1. 0 \in 0 .. MaxPosts
    BY ConstantsAssumption
  <2>2. NoJob \in Job
    BY DEF NoJob, Job
  <2>3. /\ status \in Status /\ worker \in [Worker -> Statement]
        /\ inputs \in Files /\ wtns \in Files
    BY DEF Init, Booted, Files, Status, Statement
  <2>4. /\ alive \in BOOLEAN /\ mtxHeld \in BOOLEAN /\ canceled \in BOOLEAN /\ error \in BOOLEAN
        /\ pending \in Job /\ executing \in Job
    BY <2>2 DEF Init, Booted
  <2>5. /\ proof \in Solution \cup {None} /\ pubData \in Solution \cup {None}
        /\ witness \in Solution \cup {None}
    BY DEF Init, Booted
  <2>6. compare \in 0 .. 6 /\ reply \in Answer /\ posts \in 0 .. MaxPosts /\ last \in Post
    BY <2>1, NoReplyType DEF Init
  <2> QED BY <2>3, <2>4, <2>5, <2>6 DEF TypeOK, Files
<1>2. OneThread
  BY DEF Init, Booted, OneThread, Working, NoJob
<1> QED BY <1>1, <1>2 DEF IInv

(* The two ways through checkPending, when at most one thread works. *)
LEMMA StartJob ==
  ASSUME IInv, NEW p \in Job, NEW x, NEW c \in BOOLEAN, NEW st \in Status \ {"busy"},
         NEW ws \in [Worker -> Statement],
         \A w \in Worker : ws[w] = "idle", x \in Job, c => st = "busy",
         CheckPending(st, p, x, c, ws)
  PROVE  /\ status' \in Status /\ executing' \in Job /\ pending' \in Job
         /\ canceled' \in BOOLEAN /\ error' \in BOOLEAN
         /\ proof' \in Solution \cup {None}
         /\ worker' \in [Worker -> Statement]
         /\ OneThread'
<1>1. CASE p.input # Empty /\ p.circuit # Empty
  <2>1. PICK w \in Worker : worker' = [ws EXCEPT ![w] = "parse"]
    BY <1>1 DEF CheckPending
  <2>2. \A u \in Worker : worker'[u] # "idle" => u = w
    BY <2>1
  <2>3. worker'[w] = "parse"
    BY <2>1
  <2>4. /\ status' = "busy" /\ executing' = p /\ pending' = NoJob /\ error' = FALSE
        /\ canceled' = FALSE /\ proof' = None
    BY <1>1 DEF CheckPending
  <2>5. worker' \in [Worker -> Statement]
    BY <2>1 DEF Statement
  <2>6. NoJob \in Job
    BY DEF NoJob, Job
  <2>7. OneThread'
    BY <2>2, <2>3, <2>4 DEF OneThread, Working, NoJob
  <2> QED BY <2>4, <2>5, <2>6, <2>7 DEF Status
<1>2. CASE ~(p.input # Empty /\ p.circuit # Empty)
  <2>1. /\ status' = st /\ executing' = x /\ pending' = p /\ canceled' = c /\ worker' = ws
        /\ UNCHANGED <<error, proof>>
    BY <1>2 DEF CheckPending
  <2>2. OneThread'
    BY <2>1, <1>2 DEF OneThread, Working
  <2> QED BY <2>1, <2>2 DEF IInv, TypeOK
<1> QED BY <1>1, <1>2

LEMMA PostInputIInv ==
  ASSUME IInv, NEW i \in Input \cup {Empty}, NEW c \in Circuit, PostInput(i, c)
  PROVE  IInv'
<1> DEFINE p == [input |-> i, circuit |-> c]
<1>0. p \in Job /\ [input |-> i, circuit |-> c, solved |-> FALSE] \in Post
  BY DEF Job, Post
<1>1. /\ posts' \in 0 .. MaxPosts
      /\ UNCHANGED <<alive, pubData, witness, inputs, wtns, compare, reply>> /\ alive
  BY ConstantsAssumption DEF PostInput, StartProve, Listening, IInv, TypeOK, files
<1>2. CASE status = "busy"
  <2>1. mtxHeld' = TRUE /\ pending' = p
        /\ UNCHANGED <<status, executing, canceled, error, proof, worker, last>>
    BY <1>2 DEF PostInput, StartProve
  <2> HIDE DEF p
  <2>2. TypeOK'
    BY <1>0, <1>1, <2>1 DEF IInv, TypeOK
  <2>3. OneThread'
    BY <1>1, <2>1 DEF IInv, OneThread, Working
  <2> QED BY <2>2, <2>3 DEF IInv
<1>3. CASE status # "busy"
  <2>1. /\ CheckPending(status, p, executing, canceled, worker)
        /\ last' = [input |-> i, circuit |-> c, solved |-> FALSE] /\ mtxHeld' = mtxHeld
    BY <1>3 DEF PostInput, StartProve
  <2>2. /\ status \in Status \ {"busy"} /\ executing \in Job /\ canceled \in BOOLEAN
        /\ worker \in [Worker -> Statement]
    BY <1>3 DEF IInv, TypeOK
  <2>3. /\ \A w \in Worker : worker[w] = "idle"
        /\ ~canceled
    BY <1>1, <1>3 DEF IInv, OneThread, Working
  <2> HIDE DEF p
  <2>4. /\ status' \in Status /\ executing' \in Job /\ pending' \in Job
        /\ canceled' \in BOOLEAN /\ error' \in BOOLEAN
        /\ proof' \in Solution \cup {None}
        /\ worker' \in [Worker -> Statement]
        /\ OneThread'
    BY <1>0, <2>1, <2>2, <2>3, StartJob
  <2> QED BY <1>0, <1>1, <2>1, <2>4 DEF IInv, TypeOK
<1> QED BY <1>2, <1>3

LEMMA RequestIInv == ASSUME IInv, PostCancel \/ GetStatus \/ CompareStatus \/ FillReply PROVE IInv'
<1>1. CASE PostCancel
  BY <1>1 DEF IInv, TypeOK, OneThread, Working, PostCancel, Listening, files
<1>2. CASE GetStatus
  <2>1. reply' \in Answer
    BY <1>2, NoReplyType DEF GetStatus, Answer
  <2> QED BY <1>2, <2>1 DEF IInv, TypeOK, OneThread, Working, GetStatus, volatile, files
<1>3. CASE CompareStatus
  <2>1. reply' \in Answer
    BY <1>3 DEF CompareStatus, IInv, TypeOK, Answer
  <2> QED BY <1>3, <2>1 DEF IInv, TypeOK, OneThread, Working, CompareStatus, volatile, files
<1>4. CASE FillReply
  <2>1. reply' \in Answer
    BY <1>4 DEF FillReply, IInv, TypeOK, Answer
  <2> QED BY <1>4, <2>1 DEF IInv, TypeOK, OneThread, Working, FillReply, volatile, files
<1> QED BY <1>1, <1>2, <1>3, <1>4

LEMMA TerminateIInv == ASSUME IInv, Terminate, inputs' \in Files PROVE IInv'
<1>1. reply' \in Answer
  BY NoReplyType DEF IInv, TypeOK, Terminate
<1>2. TypeOK'
  <2>1. alive' \in BOOLEAN /\ mtxHeld' \in BOOLEAN
    BY DEF Terminate
  <2>3. compare' \in 0 .. 6
    BY DEF Terminate
  <2>2. UNCHANGED <<status, pending, executing, canceled, error, proof, pubData, worker,
                    witness, wtns, posts, last>>
    BY DEF Terminate, volatile
  <2> QED BY <1>1, <2>1, <2>2, <2>3 DEF IInv, TypeOK, Files
<1>3. ~alive'
  BY DEF Terminate
<1> QED BY <1>2, <1>3 DEF IInv

(* A thread that goes on to another statement keeps the shape of OneThread. *)
LEMMA GotoKeeps ==
  ASSUME IInv, alive, NEW w \in Worker, Working(w),
         NEW s \in {"load", "check", "prove", "caught", "finish"}, Goto(w, s),
         UNCHANGED <<status, canceled, mtxHeld, pending>>
  PROVE  /\ worker' \in [Worker -> Statement]
         /\ OneThread'
<1>1. worker \in [Worker -> Statement]
  BY DEF IInv, TypeOK
<1>2. worker'[w] = s /\ \A u \in Worker : u # w => worker'[u] = worker[u]
  BY <1>1 DEF Goto
<1> QED BY <1>1, <1>2 DEF IInv, OneThread, Working, Goto, Statement

LEMMA WriteType == ASSUME IInv, NEW w, NEW f, WriteInput(w, f) PROVE inputs' \in Files
  BY ConstantsAssumption DEF IInv, TypeOK, WriteInput, Files, files

(* The steps that end the process. *)
LEMMA EndsProcess ==
  ASSUME IInv, NEW w, ParseFails(w) \/ PipeFails(w) \/ LoadTerminates(w)
  PROVE  Terminate /\ inputs' \in Files /\ alive
<1>1. CASE ParseFails(w) \/ LoadTerminates(w)
  BY <1>1 DEF ParseFails, LoadTerminates, At, IInv, TypeOK, Files
<1>2. CASE PipeFails(w)
  <2>1. PICK f \in Input \cup {None, Truncated} : WriteInput(w, f)
    BY <1>2 DEF PipeFails
  <2> QED BY <1>2, <2>1, WriteType DEF PipeFails, WriteInput, At
<1> QED BY <1>1, <1>2

LEMMA JobIInv == ASSUME IInv, NEW w \in Worker, JobStep(w) PROVE IInv'
<1>1. CASE ParseFails(w) \/ PipeFails(w) \/ LoadTerminates(w)
  BY <1>1, EndsProcess, TerminateIInv
<1>2. CASE Generate(w)
  <2>1. PICK f, g :
          /\ WriteInput(w, f)
          /\ f \in Input \cup {None, Truncated} /\ g \in Generated(executing.circuit, f)
          /\ wtns' = [wtns EXCEPT ![executing.circuit] = g]
          /\ last' = [last EXCEPT !.solved = (g = executing.input)]
    BY <1>2 DEF Generate
  <2>2. inputs' \in Files
    BY <2>1, WriteType
  <2>4. wtns' \in Files
    BY <2>1, ConstantsAssumption DEF Generated, IInv, TypeOK, Files
  <2>5. last' \in Post
    BY <2>1 DEF IInv, TypeOK, Post
  <2>3. alive /\ Working(w) /\ Goto(w, "load") /\ UNCHANGED <<status, canceled, mtxHeld, pending>>
    BY <1>2, <2>1 DEF Generate, WriteInput, At, Working
  <2> QED BY <1>2, <2>2, <2>3, <2>4, <2>5, GotoKeeps DEF Generate, IInv, TypeOK, Files
<1>3. CASE LoadFails(w)
  BY <1>3, GotoKeeps DEF LoadFails, IInv, TypeOK, At, Working, files
<1>4. CASE LoadWitness(w)
  <2>1. /\ alive /\ Working(w) /\ Goto(w, "check")
        /\ UNCHANGED <<status, canceled, mtxHeld, pending>>
    BY <1>4 DEF LoadWitness, At, Working
  <2>2. witness' \in Solution /\ pubData' \in Solution
    BY <1>4, ConstantsAssumption DEF LoadWitness, Solution
  <2> QED BY <1>4, <2>1, <2>2, GotoKeeps DEF LoadWitness, IInv, TypeOK, files
<1>5. CASE CheckCanceled(w)
  <2>1. /\ alive /\ Working(w) /\ (Goto(w, "finish") \/ Goto(w, "prove"))
        /\ UNCHANGED <<status, canceled, mtxHeld, pending>>
    BY <1>5 DEF CheckCanceled, At, Working
  <2> QED BY <1>5, <2>1, GotoKeeps DEF CheckCanceled, IInv, TypeOK, files
<1>6. CASE Prove(w)
  BY <1>6, GotoKeeps DEF Prove, IInv, TypeOK, At, Working, files
<1>7. CASE CatchError(w)
  BY <1>7, GotoKeeps DEF CatchError, Catch, IInv, TypeOK, At, Working, files
<1>8. CASE Finish(w)
  <2> DEFINE x == [executing EXCEPT !.input = Empty]
             ws == [worker EXCEPT ![w] = "idle"]
  <2>1. alive /\ Working(w) /\ CheckPending(Outcome, pending, x, FALSE, ws)
    BY <1>8 DEF Finish, At, Working
  <2>2. x \in Job /\ Outcome \in Status \ {"busy"}
    BY DEF IInv, TypeOK, Job, Outcome, Status
  <2>3. \A u \in Worker : Working(u) => u = w
    BY <2>1 DEF IInv, OneThread
  <2>4. /\ ws \in [Worker -> Statement]
        /\ \A u \in Worker : ws[u] = "idle"
    BY <2>3 DEF IInv, TypeOK, Working, Statement
  <2>5. pending \in Job
    BY DEF IInv, TypeOK
  <2> HIDE DEF x, ws
  <2>6. /\ status' \in Status /\ executing' \in Job /\ pending' \in Job
        /\ canceled' \in BOOLEAN /\ error' \in BOOLEAN
        /\ proof' \in Solution \cup {None}
        /\ worker' \in [Worker -> Statement]
        /\ OneThread'
    BY <2>1, <2>2, <2>4, <2>5, StartJob
  <2>7. reply' \in Answer
    BY <1>8 DEF Finish, IInv, TypeOK, Answer
  <2> QED BY <1>8, <2>6, <2>7 DEF Finish, IInv, TypeOK, files
<1> QED BY <1>1, <1>2, <1>3, <1>4, <1>5, <1>6, <1>7, <1>8 DEF JobStep

LEMMA RestartIInv == ASSUME IInv, Restart PROVE IInv'
<1>1. TypeOK'
  BY ConstantsAssumption DEF Restart, IInv, TypeOK, Status, Statement, Job, NoJob, files
<1>2. OneThread'
  BY DEF Restart, OneThread, Working, NoJob
<1> QED BY <1>1, <1>2 DEF IInv

LEMMA NextIInv == IInv /\ [Next]_vars => IInv'
<1> SUFFICES ASSUME IInv, [Next]_vars PROVE IInv'
  OBVIOUS
<1>1. CASE UNCHANGED vars
  BY <1>1 DEF IInv, TypeOK, OneThread, Working, vars, volatile, files
<1> QED BY <1>1, PostInputIInv, RequestIInv, JobIInv, RestartIInv DEF Next, Requests

(* The variables of the server keep their types (fullprover.hpp:13-50). *)
THEOREM ServerTypes == Spec => []TypeOK
<1>1. IInv => TypeOK
  BY DEF IInv
<1> QED BY <1>1, InitIInv, NextIInv, PTL DEF Spec

LEMMA IInvSoleWorker == IInv => SoleWorker
<1> SUFFICES ASSUME IInv, alive
             PROVE  Cardinality({w \in Worker : worker[w] # "idle"})
                      = IF status = "busy" THEN 1 ELSE 0
  BY DEF SoleWorker
<1>1. CASE status = "busy"
  <2>1. PICK w \in Worker : Working(w) /\ \A u \in Worker : Working(u) => u = w
    BY <1>1 DEF IInv, OneThread
  <2>2. {u \in Worker : worker[u] # "idle"} = {w}
    BY <2>1 DEF Working
  <2> QED BY <1>1, <2>2, FS_Singleton
<1>2. CASE status # "busy"
  <2>1. {u \in Worker : worker[u] # "idle"} = {}
    BY <1>2 DEF IInv, OneThread, Working
  <2> QED BY <1>2, <2>1, FS_EmptySet
<1> QED BY <1>1, <1>2

(* One thread works exactly while status is busy (fullprover.cpp:82). *)
THEOREM OneJob == Spec => []SoleWorker
  BY InitIInv, NextIInv, IInvSoleWorker, PTL DEF Spec

-----------------------------------------------------------------------------
LEMMA CheckStatus ==
  ASSUME NEW st, NEW p, NEW x, NEW c, NEW ws, c = FALSE, CheckPending(st, p, x, c, ws)
  PROVE  canceled' = FALSE /\ status' \in {st, "busy"}
<1>1. CASE p.input # Empty /\ p.circuit # Empty
  BY <1>1 DEF CheckPending
<1>2. CASE ~(p.input # Empty /\ p.circuit # Empty)
  BY <1>2 DEF CheckPending
<1> QED BY <1>1, <1>2

LEMMA StepIsJobStep ==
  ASSUME IInv, Next PROVE Jobs!Next \/ UNCHANGED <<JobState, Verdict>>
<1>1. ASSUME NEW i \in Input \cup {Empty}, NEW c \in Circuit, PostInput(i, c)
      PROVE  Jobs!Accept \/ UNCHANGED <<JobState, Verdict>>
  <2>1. alive /\ alive'
    BY <1>1 DEF PostInput, StartProve, Listening
  <2>2. CASE status = "busy"
    BY <1>1, <2>1, <2>2 DEF PostInput, StartProve, JobState, Verdict
  <2>3. CASE status # "busy"
    <3>1. canceled = FALSE
      BY <2>1, <2>3 DEF IInv, TypeOK, OneThread
    <3>2. CheckPending(status, [input |-> i, circuit |-> c], executing, canceled, worker)
      BY <1>1, <2>3 DEF PostInput, StartProve
    <3>3. canceled' = FALSE /\ status' \in {status, "busy"}
      BY <3>1, <3>2, CheckStatus
    <3>4. status # "down"
      BY DEF IInv, TypeOK, Status
    <3> QED BY <2>1, <2>3, <3>3, <3>4 DEF JobState, Verdict, Jobs!Accept
  <2> QED BY <2>2, <2>3
<1>2. CASE PostCancel
  BY <1>2 DEF PostCancel, Listening, JobState, Verdict, Jobs!Next, Jobs!Cancel, IInv, TypeOK
<1>3. CASE GetStatus \/ CompareStatus \/ FillReply
  BY <1>3 DEF GetStatus, CompareStatus, FillReply, volatile, JobState, Verdict
<1>4. ASSUME NEW w \in Worker, JobStep(w)
      PROVE  Jobs!Next \/ UNCHANGED <<JobState, Verdict>>
  <2>1. CASE ParseFails(w) \/ PipeFails(w) \/ LoadTerminates(w)
    <3>1. alive /\ ~alive'
      BY <2>1, EndsProcess DEF Terminate
    <3>2. status # "down"
      BY DEF IInv, TypeOK, Status
    <3> QED BY <3>1, <3>2 DEF JobState, Verdict, Jobs!Next, Jobs!Stop
  <2>2. CASE Finish(w)
    <3>1. alive /\ alive' /\ Working(w) /\ ~mtxHeld
      BY <2>2 DEF Finish, At, Working
    <3>2. status = "busy"
      BY <3>1 DEF IInv, OneThread
    <3>3. pending.input = Empty \/ pending.circuit = Empty
      BY <3>1 DEF IInv, OneThread
    <3>4. status' = Outcome
      BY <2>2, <3>3 DEF Finish, CheckPending
    <3>5. JobState = IF canceled THEN "canceled" ELSE "running"
      BY <3>1, <3>2 DEF JobState
    <3>6. JobState' = "none" /\ Verdict' = Outcome
      BY <3>1, <3>4 DEF JobState, Verdict, Outcome
    <3>7. Outcome \in IF canceled THEN {"aborted"} ELSE {"failed", "success"}
      BY DEF Outcome
    <3>8. CASE canceled
      BY <3>5, <3>6, <3>7, <3>8 DEF Jobs!Next, Jobs!End
    <3>9. CASE ~canceled
      BY <3>5, <3>6, <3>7, <3>9 DEF Jobs!Next, Jobs!End
    <3> QED BY <3>8, <3>9
  <2>3. CASE Generate(w) \/ LoadFails(w) \/ LoadWitness(w) \/ CheckCanceled(w) \/ Prove(w)
               \/ CatchError(w)
    <3>1. UNCHANGED <<alive, status, canceled>>
      BY <2>3 DEF Generate, LoadFails, LoadWitness, CheckCanceled, Prove, CatchError, Catch
    <3> QED BY <3>1 DEF JobState, Verdict
  <2> QED BY <1>4, <2>1, <2>2, <2>3 DEF JobStep
<1>5. CASE Restart
  BY <1>5 DEF Restart, JobState, Verdict, Jobs!Next, Jobs!Start
<1> QED BY <1>1, <1>2, <1>3, <1>4, <1>5 DEF Next, Requests, Jobs!Next

(* The server implements one job at a time: what a client is told follows    *)
(* from the jobs that were begun, canceled and ended (fullprover.cpp:82-101, *)
(* 174-191).                                                                 *)
THEOREM ServerIsProofJobs == Spec => JobSpec
<1>1. Init => Jobs!Init
  BY DEF Init, Booted, Jobs!Init, JobState, Verdict
<1>2. IInv /\ [Next]_vars => [Jobs!Next]_<<JobState, Verdict>>
  <2>1. UNCHANGED vars => UNCHANGED <<JobState, Verdict>>
    BY DEF vars, volatile, JobState, Verdict
  <2> QED BY <2>1, StepIsJobStep
<1> QED BY <1>1, <1>2, InitIInv, NextIInv, PTL DEF Spec, JobSpec, Jobs!Spec, Jobs!vars
-----------------------------------------------------------------------------
(* What a job knows: it is that of the last body posted; a solution of it  *)
(* the generator left is the one that is loaded; and where it ends     *)
(* without a cancellation or an error, proof and public signals are of the *)
(* witness it loaded.                                                      *)

LastSolved == [input |-> last.input, circuit |-> last.circuit]

Sound ==
  /\ proof # None /\ proof = pubData
  /\ last.input = Empty \/ ~last.solved \/ proof = LastSolved

JobKnows(w) ==
  /\ Working(w) => last.input = executing.input /\ last.circuit = executing.circuit
  /\ worker[w] = "parse" => executing.circuit \in Circuit
  /\ worker[w] = "load" => (last.solved => wtns[executing.circuit] = executing.input)
  /\ worker[w] \in {"check", "prove"} =>
       /\ witness # None /\ pubData = witness
       /\ last.solved => witness = LastSolved
  /\ worker[w] = "finish" => canceled \/ error \/ Sound

ServerKnows == (\A w \in Worker : JobKnows(w)) /\ (status = "success" => Sound)

(* What a call of getStatus has found so far.  A status other than busy    *)
(* stands until the call has returned: nothing but a request starts a job. *)
CallKnows ==
  /\ compare > 0 => alive
  /\ compare \in 1 .. 5 =>
       /\ reply.status = None
       /\ reply.raced \/ \A i \in 1 .. compare - 1 : status # Comparisons[i]
  /\ compare = 6 => reply.status \in Status /\ reply.status \in {"busy", status}

RInv == IInv /\ (alive => ServerKnows) /\ CallKnows /\ ReplyHonest

Honest(r) ==
  /\ r.status = None => r.raced
  /\ r.status = "success" =>
       /\ r.proof # None /\ r.proof = r.pubData
       /\ r.last.input = Empty \/ ~r.last.solved
            \/ r.proof = [input |-> r.last.input, circuit |-> r.last.circuit]

LEMMA HonestReply == ReplyHonest <=> (compare = 0 => Honest(reply))
  BY DEF ReplyHonest, Honest

LEMMA HonestReplyNext == ReplyHonest' <=> (compare' = 0 => Honest(reply'))
  BY DEF ReplyHonest, Honest

LEMMA NoReplyHonest == Honest(NoReply)
  BY ConstantsAssumption DEF Honest, NoReply, Status

LEMMA InitRInv == Init => RInv
<1> SUFFICES ASSUME Init PROVE RInv
  OBVIOUS
<1>1. ServerKnows
  BY DEF Init, Booted, ServerKnows, JobKnows, Working
<1>2. CallKnows
  BY DEF Init, CallKnows
<1>3. ReplyHonest
  BY NoReplyHonest, HonestReply DEF Init
<1> QED BY <1>1, <1>2, <1>3, InitIInv DEF RInv

LEMMA PostInputRInv ==
  ASSUME RInv, NEW i \in Input \cup {Empty}, NEW c \in Circuit, PostInput(i, c)
  PROVE  RInv'
<1> DEFINE p == [input |-> i, circuit |-> c]
<1>1. /\ IInv' /\ alive /\ alive' /\ compare = 0 /\ compare' = 0
      /\ UNCHANGED <<pubData, witness, wtns, reply>>
  BY PostInputIInv DEF RInv, PostInput, StartProve, Listening, files
<1>2. CallKnows' /\ ReplyHonest'
  BY <1>1, HonestReply, HonestReplyNext DEF RInv, CallKnows
<1>3. ServerKnows'
  <2>1. CASE status = "busy"
    <3>1. UNCHANGED <<status, executing, canceled, error, proof, worker, last>>
      BY <2>1 DEF PostInput, StartProve
    <3> QED BY <1>1, <3>1 DEF RInv, ServerKnows, JobKnows, Working, Sound, LastSolved
  <2>2. CASE status # "busy"
    <3>1. /\ CheckPending(status, p, executing, canceled, worker)
          /\ last' = [input |-> i, circuit |-> c, solved |-> FALSE]
      BY <2>2 DEF PostInput, StartProve
    <3>2. \A w \in Worker : worker[w] = "idle"
      BY <1>1, <2>2 DEF RInv, IInv, OneThread, Working
    <3>3. worker \in [Worker -> Statement]
      BY DEF RInv, IInv, TypeOK
    <3>4. CASE i # Empty /\ c # Empty
      <4>1. PICK w \in Worker : worker' = [worker EXCEPT ![w] = "parse"]
        BY <2>2, <3>1, <3>4 DEF CheckPending
      <4>2. status' = "busy" /\ executing' = p
        BY <2>2, <3>1, <3>4 DEF CheckPending
      <4>3. \A u \in Worker : worker'[u] \in {"idle", "parse"}
        BY <3>2, <3>3, <4>1
      <4> QED BY <3>1, <4>2, <4>3 DEF ServerKnows, JobKnows, Working
    <3>5. CASE ~(i # Empty /\ c # Empty)
      <4>1. status' = status /\ worker' = worker /\ proof' = proof
        BY <3>1, <3>5 DEF CheckPending
      <4>2. status = "success" => proof # None /\ proof = pubData
        BY <1>1 DEF RInv, ServerKnows, Sound
      <4> QED BY <1>1, <3>1, <3>2, <4>1, <4>2 DEF ServerKnows, JobKnows, Working, Sound
    <3> QED BY <3>4, <3>5
  <2> QED BY <2>1, <2>2
<1> QED BY <1>1, <1>2, <1>3 DEF RInv

LEMMA PostCancelRInv == ASSUME RInv, PostCancel PROVE RInv'
<1>1. IInv' /\ UNCHANGED <<alive, status, executing, error, proof, pubData, worker, witness, wtns,
                           compare, reply, last>> /\ canceled' = TRUE
  BY RequestIInv DEF RInv, PostCancel, files
<1>2. CallKnows' /\ ReplyHonest'
  BY <1>1, HonestReply, HonestReplyNext DEF RInv, CallKnows
<1>3. alive' => ServerKnows'
  BY <1>1 DEF RInv, ServerKnows, JobKnows, Working, Sound, LastSolved
<1> QED BY <1>1, <1>2, <1>3 DEF RInv

LEMMA StatusRInv == ASSUME RInv, GetStatus \/ CompareStatus \/ FillReply PROVE RInv'
<1>1. IInv' /\ alive /\ alive' /\ UNCHANGED volatile /\ UNCHANGED <<wtns, last>>
  BY RequestIInv DEF RInv, GetStatus, CompareStatus, FillReply, Listening, files
<1>2. ServerKnows'
  BY <1>1 DEF RInv, ServerKnows, JobKnows, Working, Sound, LastSolved, volatile
<1>3. status' = status /\ status \in Status /\ compare \in 0 .. 6 /\ reply \in Answer
  BY <1>1 DEF volatile, RInv, IInv, TypeOK
<1>4. CASE GetStatus
  <2>1. compare' = 1 /\ reply'.status = None
    BY <1>4 DEF GetStatus, NoReply
  <2>2. CallKnows' /\ ReplyHonest'
    BY <1>1, <2>1, HonestReplyNext DEF CallKnows
  <2> QED BY <1>1, <1>2, <2>2 DEF RInv
<1>5. CASE CompareStatus
  <2>1. /\ compare \in 1 .. 5 /\ reply.status = None
        /\ reply.raced \/ \A i \in 1 .. compare - 1 : status # Comparisons[i]
    BY <1>5 DEF CompareStatus, RInv, CallKnows
  <2>2. CASE status = Comparisons[compare]
    <3>1. compare' = 6 /\ reply'.status = status
      BY <1>3, <1>5, <2>2 DEF CompareStatus, Answer
    <3> QED BY <1>1, <1>2, <1>3, <3>1, HonestReplyNext DEF RInv, CallKnows
  <2>3. CASE status # Comparisons[compare]
    <3>1. compare' = (IF compare = 5 THEN 0 ELSE compare + 1) /\ reply' = reply
      BY <1>5, <2>3 DEF CompareStatus
    <3>2. reply.raced \/ \A i \in 1 .. compare : status # Comparisons[i]
      BY <2>1, <2>3
    <3>3. CASE compare = 5
      <4>1. reply.raced
        BY <1>3, <3>2, <3>3 DEF Status, Comparisons
      <4>2. Honest(reply')
        BY <2>1, <3>1, <4>1, ConstantsAssumption DEF Honest, Status
      <4>3. CallKnows' /\ ReplyHonest'
        BY <3>1, <3>3, <4>2, HonestReplyNext DEF CallKnows
      <4> QED BY <1>1, <1>2, <4>3 DEF RInv
    <3>4. CASE compare # 5
      <4>1. compare' = compare + 1 /\ compare' \in 1 .. 5
        BY <2>1, <3>1, <3>4
      <4>2. reply'.raced \/ \A i \in 1 .. compare' - 1 : status' # Comparisons[i]
        BY <1>3, <2>1, <3>1, <3>2, <4>1
      <4>3. CallKnows' /\ ReplyHonest'
        BY <1>1, <2>1, <3>1, <4>1, <4>2, HonestReplyNext DEF CallKnows
      <4> QED BY <1>1, <1>2, <4>3 DEF RInv
    <3> QED BY <3>3, <3>4
  <2> QED BY <2>2, <2>3
<1>6. CASE FillReply
  <2>1. compare = 6 /\ compare' = 0 /\ reply.status \in Status /\ reply.status \in {"busy", status}
    BY <1>6 DEF FillReply, RInv, CallKnows
  <2>2. CASE reply.status = "success"
    <3>1. Sound
      BY <1>1, <2>1, <2>2 DEF RInv, ServerKnows
    <3>2. /\ reply'.proof = proof /\ reply'.pubData = pubData /\ reply'.last = last
          /\ reply'.status = "success"
      BY <1>3, <1>6, <2>2 DEF FillReply, Answer
    <3> QED BY <1>1, <1>2, <2>1, <3>1, <3>2, HonestReplyNext, ConstantsAssumption
            DEF RInv, CallKnows, Honest, Sound, LastSolved, Status
  <2>3. CASE reply.status # "success"
    <3>1. reply' = reply
      BY <1>6, <2>3 DEF FillReply
    <3> QED BY <1>1, <1>2, <2>1, <2>3, <3>1, HonestReplyNext, ConstantsAssumption
            DEF RInv, CallKnows, Honest
  <2> QED BY <2>2, <2>3
<1> QED BY <1>4, <1>5, <1>6

LEMMA TerminateRInv == ASSUME RInv, Terminate, inputs' \in Files PROVE RInv'
<1>1. IInv' /\ ~alive' /\ compare' = 0
  BY TerminateIInv DEF RInv, Terminate
<1>2. Honest(reply')
  BY NoReplyHonest, HonestReply DEF RInv, Terminate
<1> QED BY <1>1, <1>2, HonestReplyNext DEF RInv, CallKnows

(* A step of a job that leaves status and the call alone changes what its  *)
(* own thread knows, and the others are idle.                              *)
LEMMA JobOnly ==
  ASSUME RInv, NEW w \in Worker, JobStep(w), alive, alive', Working(w),
         UNCHANGED <<status, compare, reply>>,
         \A u \in Worker \ {w} : worker'[u] = worker[u], JobKnows(w)'
  PROVE  RInv'
<1>1. IInv'
  BY JobIInv DEF RInv
<1>2. CallKnows' /\ ReplyHonest'
  BY HonestReply, HonestReplyNext DEF RInv, CallKnows
<1>3. status = "busy" /\ \A u \in Worker \ {w} : worker[u] = "idle"
  BY DEF RInv, IInv, OneThread, Working
<1>4. ServerKnows'
  BY <1>3 DEF ServerKnows, JobKnows, Working
<1> QED BY <1>1, <1>2, <1>4 DEF RInv

LEMMA JobRInv == ASSUME RInv, NEW w \in Worker, JobStep(w) PROVE RInv'
<1>0. worker \in [Worker -> Statement]
  BY DEF RInv, IInv, TypeOK
<1>1. CASE ParseFails(w) \/ PipeFails(w) \/ LoadTerminates(w)
  BY <1>1, EndsProcess, TerminateRInv DEF RInv
<1>2. ASSUME NEW s, Goto(w, s) PROVE worker'[w] = s /\ \A u \in Worker \ {w} : worker'[u] = worker[u]
  BY <1>0, <1>2 DEF Goto
<1>3. CASE Generate(w)
  <2>1. /\ alive /\ alive' /\ worker[w] = "parse" /\ worker'[w] = "load" /\ Working(w)
        /\ \A u \in Worker \ {w} : worker'[u] = worker[u]
        /\ UNCHANGED <<status, executing, compare, reply>>
    BY <1>2, <1>3 DEF Generate, WriteInput, At, Working
  <2>2. /\ executing.circuit \in Circuit
        /\ last.input = executing.input /\ last.circuit = executing.circuit
    BY <2>1 DEF RInv, ServerKnows, JobKnows, Working
  <2>3. /\ last'.input = last.input /\ last'.circuit = last.circuit
        /\ last'.solved => wtns'[executing.circuit] = executing.input
    <3>1. wtns \in [Circuit -> Input \cup {None, Truncated}] /\ last \in Post
      BY DEF RInv, IInv, TypeOK
    <3>2. PICK g : /\ wtns' = [wtns EXCEPT ![executing.circuit] = g]
                   /\ last' = [last EXCEPT !.solved = (g = executing.input)]
      BY <1>3 DEF Generate
    <3> QED BY <2>1, <2>2, <3>1, <3>2 DEF Post
  <2>4. JobKnows(w)'
    BY <2>1, <2>2, <2>3 DEF JobKnows, Working
  <2> QED BY <2>1, <2>4, JobOnly
<1>4. CASE LoadFails(w)
  <2>1. /\ alive /\ alive' /\ worker'[w] = "caught" /\ Working(w)
        /\ \A u \in Worker \ {w} : worker'[u] = worker[u]
        /\ UNCHANGED <<status, executing, compare, reply, last>>
    BY <1>2, <1>4 DEF LoadFails, At, Working
  <2>2. JobKnows(w)'
    BY <2>1 DEF RInv, ServerKnows, JobKnows, Working
  <2> QED BY <2>1, <2>2, JobOnly
<1>5. CASE LoadWitness(w)
  <2> DEFINE found == [input |-> wtns[executing.circuit], circuit |-> executing.circuit]
  <2>1. /\ alive /\ alive' /\ worker[w] = "load" /\ worker'[w] = "check" /\ Working(w)
        /\ \A u \in Worker \ {w} : worker'[u] = worker[u]
        /\ UNCHANGED <<status, executing, compare, reply, last>>
        /\ witness' = found /\ pubData' = found
    BY <1>2, <1>5 DEF LoadWitness, At, Working
  <2>2. found \in Solution /\ found # None
    BY <1>5, ConstantsAssumption DEF LoadWitness, Solution
  <2>3. /\ last.solved => wtns[executing.circuit] = executing.input
        /\ last.input = executing.input /\ last.circuit = executing.circuit
    BY <2>1 DEF RInv, ServerKnows, JobKnows
  <2>4. last.solved => found = LastSolved
    BY <2>3 DEF LastSolved
  <2> HIDE DEF found
  <2>5. JobKnows(w)'
    BY <2>1, <2>2, <2>3, <2>4 DEF JobKnows, LastSolved, Working
  <2> QED BY <2>1, <2>5, JobOnly
<1>6. CASE CheckCanceled(w)
  <2>1. /\ alive /\ alive' /\ worker[w] = "check" /\ Working(w)
        /\ worker'[w] = "prove" \/ (worker'[w] = "finish" /\ canceled)
        /\ \A u \in Worker \ {w} : worker'[u] = worker[u]
        /\ UNCHANGED <<status, executing, canceled, pubData, witness, compare, reply, last>>
    BY <1>2, <1>6 DEF CheckCanceled, At, Working
  <2>2. JobKnows(w)'
    BY <2>1 DEF RInv, ServerKnows, JobKnows, LastSolved, Working
  <2> QED BY <2>1, <2>2, JobOnly
<1>7. CASE Prove(w)
  <2>1. /\ alive /\ alive' /\ worker[w] = "prove" /\ Working(w) /\ worker'[w] = "finish"
        /\ \A u \in Worker \ {w} : worker'[u] = worker[u]
        /\ UNCHANGED <<status, executing, canceled, pubData, witness, compare, reply, last>>
        /\ proof' = witness
    BY <1>2, <1>7 DEF Prove, At, Working
  <2>2. Sound'
    BY <2>1 DEF RInv, ServerKnows, JobKnows, Sound, LastSolved
  <2>3. JobKnows(w)'
    BY <2>1, <2>2 DEF RInv, ServerKnows, JobKnows, Working
  <2> QED BY <2>1, <2>3, JobOnly
<1>8. CASE CatchError(w)
  <2>1. /\ alive /\ alive' /\ worker[w] = "caught" /\ Working(w) /\ worker'[w] = "finish"
        /\ \A u \in Worker \ {w} : worker'[u] = worker[u]
        /\ UNCHANGED <<status, executing, canceled, compare, reply, last>>
    BY <1>2, <1>8 DEF CatchError, Catch, At, Working
  <2>2. canceled' \/ error'
    BY <1>8 DEF CatchError, Catch
  <2>3. JobKnows(w)'
    BY <2>1, <2>2 DEF RInv, ServerKnows, JobKnows, Working
  <2> QED BY <2>1, <2>3, JobOnly
<1>9. CASE Finish(w)
  <2>1. /\ alive /\ alive' /\ worker[w] = "finish" /\ Working(w) /\ ~mtxHeld
        /\ UNCHANGED <<pubData, compare, last>>
        /\ reply' = IF compare = 0 THEN reply ELSE [reply EXCEPT !.raced = TRUE]
    BY <1>9 DEF Finish, At, Working
  <2>2. pending.input = Empty \/ pending.circuit = Empty
    BY <2>1 DEF RInv, IInv, OneThread
  <2>3. status' = Outcome /\ worker' = [worker EXCEPT ![w] = "idle"] /\ proof' = proof
    BY <1>9, <2>2 DEF Finish, CheckPending
  <2>4. status = "busy" /\ \A u \in Worker : worker'[u] = "idle"
    BY <1>0, <2>1, <2>3 DEF RInv, IInv, OneThread, Working
  <2>5. Outcome = "success" => Sound'
    BY <2>1, <2>3 DEF Outcome, RInv, ServerKnows, JobKnows, Sound, LastSolved
  <2>6. ServerKnows'
    BY <2>3, <2>4, <2>5 DEF ServerKnows, JobKnows, Working
  <2>7. CallKnows'
    <3>1. reply \in Answer
      BY DEF RInv, IInv, TypeOK
    <3>2. reply'.status = reply.status /\ (compare # 0 => reply'.raced)
      BY <2>1, <3>1 DEF Answer
    <3> QED BY <2>1, <2>4, <3>2 DEF RInv, CallKnows, Status
  <2>8. ReplyHonest'
    BY <2>1, HonestReply, HonestReplyNext DEF RInv
  <2> QED BY <2>6, <2>7, <2>8, JobIInv DEF RInv
<1> QED BY <1>1, <1>3, <1>4, <1>5, <1>6, <1>7, <1>8, <1>9 DEF JobStep

LEMMA RestartRInv == ASSUME RInv, Restart PROVE RInv'
<1>1. /\ IInv' /\ status' = "ready" /\ worker' = [w \in Worker |-> "idle"]
      /\ UNCHANGED <<compare, reply>> /\ ~alive
  BY RestartIInv DEF RInv, Restart
<1>2. ServerKnows'
  BY <1>1 DEF ServerKnows, JobKnows, Working
<1>3. CallKnows' /\ ReplyHonest'
  BY <1>1, HonestReply, HonestReplyNext DEF RInv, CallKnows, IInv, TypeOK
<1> QED BY <1>1, <1>2, <1>3 DEF RInv

LEMMA NextRInv == RInv /\ [Next]_vars => RInv'
<1> SUFFICES ASSUME RInv, [Next]_vars PROVE RInv'
  OBVIOUS
<1>1. CASE UNCHANGED vars
  <2>1. IInv'
    BY <1>1, NextIInv DEF RInv
  <2>2. CallKnows' /\ ReplyHonest'
    BY <1>1, HonestReply, HonestReplyNext DEF RInv, CallKnows, vars, volatile
  <2>3. alive' => ServerKnows'
    BY <1>1 DEF RInv, ServerKnows, JobKnows, Working, Sound, LastSolved, vars, volatile, files
  <2> QED BY <2>1, <2>2, <2>3 DEF RInv
<1> QED BY <1>1, PostInputRInv, PostCancelRInv, StatusRInv, JobRInv, RestartRInv DEF Next, Requests

(* An answer that says success carries the proof and the signals of one    *)
(* witness, that of the last body posted if its generator wrote one,       *)
(* although getStatus takes no lock (fullprover.cpp:216); one that says    *)
(* nothing was given while a job ended.                                    *)
THEOREM HonestCorrect == Spec => []ReplyHonest
<1>1. RInv => ReplyHonest
  BY DEF RInv
<1> QED BY <1>1, InitRInv, NextRInv, PTL DEF Spec
=============================================================================
