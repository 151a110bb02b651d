----------------------------- MODULE ProofServer -----------------------------
(***************************************************************************)
(* The rapidsnark proof server: class FullProver                           *)
(* (native/rapidsnark/src/fullprover.cpp), the routes of proverapi.cpp and *)
(* main_proofserver.cpp.  Pistache runs the handlers on one thread, one    *)
(* request after the other; a job runs on a detached thread of its own.    *)
(*                                                                         *)
(* An action is a piece of code between two points at which the other      *)
(* thread can be seen: a critical section of mtx is one action, and so is  *)
(* each read getStatus makes, because getStatus takes no lock.             *)
(*                                                                         *)
(* mtx is a std::mutex.  A thread that locks it twice never returns:       *)
(* startProve does so when it finds a job running, since it calls abort    *)
(* with mtx held.                                                          *)
(***************************************************************************)
EXTENDS Naturals, FiniteSets

CONSTANTS
  Input,      \* bodies of POST /input
  Empty,      \* the empty body, and the empty string
  Parses,     \* bodies json::parse accepts; it throws for the others
  Solves,     \* bodies the witness generator accepts; it writes no file for others
  Circuit,    \* values of :circuit, not empty
  Loaded,     \* circuits whose zkey the server was started with
  Built,      \* circuits with a witness generator at ./build/<circuit>
  Foreign,    \* circuits whose generator was compiled for another prime
  Worker,     \* threads of jobs
  None,       \* a json null, a file that does not exist
  Truncated,  \* a file of ./build that ends too early
  MaxPosts    \* bound of the model: POST /input requests

Solution == [input : Input, circuit : Circuit]
Status == {"ready", "busy", "aborted", "failed", "success"}

ASSUME ConstantsAssumption ==
  /\ Parses \subseteq Input /\ Solves \subseteq Parses
  /\ Empty \notin Input
  /\ Loaded \subseteq Circuit /\ Built \subseteq Circuit /\ Foreign \subseteq Circuit
  /\ None \notin Input /\ Truncated \notin Input /\ None # Truncated
  /\ None \notin Solution /\ None \notin Status
  /\ MaxPosts \in Nat

VARIABLES
  alive,      \* the process runs
  status,     \* FullProver::status
  mtxHeld,    \* the request thread holds mtx and waits for it
  pending,    \* pendingInput and pendingCircuit
  executing,  \* executingInput and executingCircuit
  canceled,   \* FullProver::canceled
  error,      \* errString is not empty
  proof,      \* FullProver::proof, as the witness it is a proof of
  pubData,    \* FullProver::pubData, as the witness it is taken from
  inputs,     \* inputs[c]: the file ./build/input_<c>.json, as the body it holds
  wtns,       \* wtns[c]: the file ./build/<c>.wtns, as the input it solves
  worker,     \* worker[w]: the statement thread w is at
  witness,    \* wtnsData of the job: the file it has mapped
  compare,    \* the comparison of getStatus the request thread makes next; 0: none
  reply,      \* the last answer to GET /status
  posts,      \* POST /input requests so far
  last        \* the last POST /input, and what became of it

volatile == <<status, pending, executing, canceled, error, proof, pubData, worker, witness>>
files == <<inputs, wtns>>
vars == <<alive, mtxHeld, volatile, files, compare, reply, posts, last>>

Job == [input : Input \cup {Empty}, circuit : Circuit \cup {Empty}]
NoJob == [input |-> Empty, circuit |-> Empty]

Post == [input : Input \cup {Empty}, circuit : Circuit \cup {Empty}, solved : BOOLEAN]
NoPost == [input |-> Empty, circuit |-> Empty, solved |-> FALSE]
NoReply == [status |-> None, proof |-> None, pubData |-> None, last |-> NoPost, raced |-> TRUE]

(* The order in which getStatus compares. *)
Comparisons == <<"ready", "aborted", "failed", "success", "busy">>

Answer == [status : Status \cup {None}, proof : Solution \cup {None},
           pubData : Solution \cup {None}, last : Post, raced : BOOLEAN]
Statement == {"idle", "parse", "load", "check", "prove", "caught", "finish"}

TypeOK ==
  /\ alive \in BOOLEAN
  /\ status \in Status
  /\ mtxHeld \in BOOLEAN
  /\ pending \in Job /\ executing \in Job
  /\ canceled \in BOOLEAN /\ error \in BOOLEAN
  /\ proof \in Solution \cup {None} /\ pubData \in Solution \cup {None}
  /\ inputs \in [Circuit -> Input \cup {None, Truncated}]
  /\ wtns \in [Circuit -> Input \cup {None, Truncated}]
  /\ worker \in [Worker -> Statement]
  /\ witness \in Solution \cup {None}
  /\ compare \in 0 .. 6
  /\ reply \in Answer
  /\ posts \in 0 .. MaxPosts
  /\ last \in Post

(* The constructor, once it has loaded every zkey. *)
Booted ==
  /\ status = "ready"
  /\ pending = NoJob /\ executing = NoJob
  /\ canceled = FALSE /\ error = FALSE
  /\ proof = None /\ pubData = None
  /\ worker = [w \in Worker |-> "idle"]
  /\ witness = None

Init ==
  /\ alive = TRUE
  /\ Booted
  /\ mtxHeld = FALSE
  /\ inputs = [c \in Circuit |-> None]
  /\ wtns = [c \in Circuit |-> None]
  /\ compare = 0
  /\ reply = NoReply
  /\ posts = 0
  /\ last = NoPost

-----------------------------------------------------------------------------
(* checkPending, with mtx held, given what it finds in status, in pending, *)
(* in executing, in canceled and among the threads.                        *)
CheckPending(st, p, x, c, ws) ==
  \/ /\ st # "busy" /\ p.input # Empty /\ p.circuit # Empty
     /\ status' = "busy"
     /\ executing' = p
     /\ pending' = NoJob
     /\ error' = FALSE
     /\ canceled' = FALSE
     /\ proof' = None
     /\ \E w \in Worker :
          /\ ws[w] = "idle"
          /\ worker' = [ws EXCEPT ![w] = "parse"]
  \/ /\ ~(st # "busy" /\ p.input # Empty /\ p.circuit # Empty)
     /\ status' = st
     /\ executing' = x
     /\ pending' = p
     /\ canceled' = c
     /\ worker' = ws
     /\ UNCHANGED <<error, proof>>

-----------------------------------------------------------------------------
(* The request thread. *)
Listening == alive /\ ~mtxHeld /\ compare = 0

(* startProve, for a server whose status it takes for st. *)
StartProve(i, c, st) ==
  LET p == [input |-> i, circuit |-> c] IN
  /\ Listening
  /\ posts < MaxPosts
  /\ posts' = posts + 1
  /\ \/ /\ st = "busy"
        /\ mtxHeld' = TRUE
        /\ pending' = p
        /\ UNCHANGED <<status, executing, canceled, error, proof, worker, last>>
     \/ /\ st # "busy"
        /\ CheckPending(st, p, executing, canceled, worker)
        /\ last' = [input |-> i, circuit |-> c, solved |-> FALSE]
        /\ UNCHANGED mtxHeld
  /\ UNCHANGED <<alive, pubData, witness, files, compare, reply>>

(* A mutant: the new input is started at once, the running job forgotten. *)
PostInputAtOnce(i, c) == StartProve(i, c, "ready")

(* postInput.  With a job running, abort waits for ever for the mutex its *)
(* caller holds.                                                          *)
PostInput(i, c) == StartProve(i, c, status)

(* postCancel and abort; without a running job they change nothing. *)
PostCancel ==
  /\ Listening
  /\ status = "busy"
  /\ canceled' = TRUE
  /\ UNCHANGED <<alive, mtxHeld, status, pending, executing, error, proof, pubData, worker,
                 witness, files, compare, reply, posts, last>>

(* getStatus, with one read of status per comparison: the build may read it *)
(* once or again each time.                                                 *)
GetStatus ==
  /\ Listening
  /\ compare' = 1
  /\ reply' = [NoReply EXCEPT !.raced = FALSE]
  /\ UNCHANGED <<alive, mtxHeld, volatile, files, posts, last>>

CompareStatus ==
  /\ alive
  /\ compare \in 1 .. 5
  /\ \/ /\ status = Comparisons[compare]
        /\ compare' = 6
        /\ reply' = [reply EXCEPT !.status = status]
     \/ /\ status # Comparisons[compare]
        /\ compare' = IF compare = 5 THEN 0 ELSE compare + 1
        /\ UNCHANGED reply
  /\ UNCHANGED <<alive, mtxHeld, volatile, files, posts, last>>

(* The branch taken copies proof and pubData when it reports a success. *)
FillReply ==
  /\ alive
  /\ compare = 6
  /\ compare' = 0
  /\ reply' = IF reply.status = "success"
              THEN [reply EXCEPT !.proof = proof, !.pubData = pubData, !.last = last]
              ELSE reply
  /\ UNCHANGED <<alive, mtxHeld, volatile, files, posts, last>>

-----------------------------------------------------------------------------
(* The thread of a job: thread_calculateProve. *)
At(w, statement) == alive /\ worker[w] = statement
Goto(w, statement) == worker' = [worker EXCEPT ![w] = statement]

(* An exception nobody catches, or a read through a null pointer: the    *)
(* process ends, and a call in progress is not answered.                 *)
Terminate ==
  /\ alive' = FALSE
  /\ compare' = 0
  /\ reply' = IF compare = 0 THEN reply ELSE NoReply
  /\ mtxHeld' = FALSE
  /\ UNCHANGED <<volatile, wtns, posts, last>>

(* json::parse throws a json::parse_error, which is no std::runtime_error. *)
ParseFails(w) ==
  /\ At(w, "parse")
  /\ executing.input \notin Parses
  /\ Terminate
  /\ UNCHANGED inputs

(* The body goes to a file, and nobody looks whether it got there: a file *)
(* that cannot be opened stays what it was, a full disk cuts it off.      *)
WriteInput(w, f) ==
  LET c == executing.circuit IN
  /\ At(w, "parse")
  /\ executing.input \in Parses
  /\ f \in {executing.input, inputs[c], Truncated}
  /\ inputs' = [inputs EXCEPT ![c] = f]

(* What the generator of c leaves as its file when it is given f: it meets *)
(* a full disk and leaves a truncated file, or it fails before and leaves  *)
(* the old one.                                                            *)
Generated(c, f) ==
  {wtns[c]} \cup IF c \in Built /\ f \in Solves THEN {f, Truncated} ELSE {}

(* The body is written and the generator of the circuit runs; how it ended *)
(* is printed and otherwise ignored.                                       *)
Generate(w) ==
  LET c == executing.circuit IN
  /\ \E f \in Input \cup {None, Truncated} :
       /\ WriteInput(w, f)
       /\ \E g \in Generated(c, f) :
            /\ wtns' = [wtns EXCEPT ![c] = g]
            /\ last' = [last EXCEPT !.solved = (g = executing.input)]
  /\ Goto(w, "load")
  /\ UNCHANGED <<alive, mtxHeld, status, pending, executing, canceled, error, proof, pubData,
                 witness, compare, reply, posts>>

(* popen fails: fgets reads from a null pipe. *)
PipeFails(w) ==
  /\ \E f \in Input \cup {None, Truncated} : WriteInput(w, f)
  /\ Terminate

(* openExisting and loadHeader throw a std::runtime_error for a file that *)
(* is missing or too short.                                               *)
LoadFails(w) ==
  /\ At(w, "load")
  /\ wtns[executing.circuit] \in {None, Truncated}
  /\ Goto(w, "caught")
  /\ UNCHANGED <<alive, mtxHeld, status, pending, executing, canceled, error, proof, pubData,
                 witness, files, compare, reply, posts, last>>

(* std::invalid_argument for another prime; zkHeaders holds null for a   *)
(* circuit that is not loaded.                                           *)
LoadTerminates(w) ==
  /\ At(w, "load")
  /\ wtns[executing.circuit] \in Input
  /\ executing.circuit \notin Loaded \ Foreign
  /\ Terminate
  /\ UNCHANGED inputs

LoadWitness(w) ==
  LET found == [input |-> wtns[executing.circuit], circuit |-> executing.circuit] IN
  /\ At(w, "load")
  /\ found.input \in Input
  /\ found.circuit \in Loaded \ Foreign
  /\ witness' = found
  /\ pubData' = found
  /\ Goto(w, "check")
  /\ UNCHANGED <<alive, mtxHeld, status, pending, executing, canceled, error, proof, files,
                 compare, reply, posts, last>>

(* isCanceled before the proof: a canceled job is not proved. *)
CheckCanceled(w) ==
  /\ At(w, "check")
  /\ ~mtxHeld
  /\ \/ canceled /\ proof' = None /\ Goto(w, "finish")
     \/ ~canceled /\ UNCHANGED proof /\ Goto(w, "prove")
  /\ UNCHANGED <<alive, mtxHeld, status, pending, executing, canceled, error, pubData, witness,
                 files, compare, reply, posts, last>>

Prove(w) ==
  /\ At(w, "prove")
  /\ proof' = witness
  /\ Goto(w, "finish")
  /\ UNCHANGED <<alive, mtxHeld, status, pending, executing, canceled, error, pubData, witness,
                 files, compare, reply, posts, last>>

(* The catch clause, which leaves e in errString and goes on at statement. *)
Catch(w, e, statement) ==
  /\ At(w, "caught")
  /\ ~mtxHeld
  /\ error' = e
  /\ Goto(w, statement)
  /\ UNCHANGED <<alive, mtxHeld, status, pending, executing, canceled, proof, pubData, witness,
                 files, compare, reply, posts, last>>

(* Mutants: the catch clause reports nothing; it does not call calcFinished. *)
CatchErrorSilently(w) == Catch(w, error, "finish")
CatchErrorAndLeave(w) == Catch(w, error \/ ~canceled, "idle")

(* isCanceled, then errString. *)
CatchError(w) == Catch(w, error \/ ~canceled, "finish")

(* A mutant: calcFinished does not look at canceled. *)
OutcomeUncanceled == IF error THEN "failed" ELSE "success"

Outcome == IF canceled THEN "aborted" ELSE IF error THEN "failed" ELSE "success"

(* calcFinished, which ends with checkPending. *)
Finish(w) ==
  /\ At(w, "finish")
  /\ ~mtxHeld
  /\ CheckPending(Outcome, pending, [executing EXCEPT !.input = Empty], FALSE,
                  [worker EXCEPT ![w] = "idle"])
  /\ reply' = IF compare = 0 THEN reply ELSE [reply EXCEPT !.raced = TRUE]
  /\ UNCHANGED <<alive, mtxHeld, pubData, witness, files, compare, posts, last>>

-----------------------------------------------------------------------------
(* systemd starts the process again (service/rapidsnark.service); the files *)
(* of ./build are still there.                                              *)
Restart ==
  /\ ~alive
  /\ alive' = TRUE
  /\ status' = "ready"
  /\ pending' = NoJob /\ executing' = NoJob
  /\ canceled' = FALSE /\ error' = FALSE
  /\ proof' = None /\ pubData' = None
  /\ worker' = [w \in Worker |-> "idle"]
  /\ witness' = None
  /\ UNCHANGED <<mtxHeld, files, compare, reply, posts, last>>

Requests ==
  \/ \E i \in Input \cup {Empty}, c \in Circuit : PostInput(i, c)
  \/ PostCancel
  \/ GetStatus \/ CompareStatus \/ FillReply

JobStep(w) ==
  \/ ParseFails(w) \/ Generate(w) \/ PipeFails(w)
  \/ LoadFails(w) \/ LoadTerminates(w) \/ LoadWitness(w)
  \/ CheckCanceled(w) \/ Prove(w) \/ CatchError(w) \/ Finish(w)

Next == Requests \/ (\E w \in Worker : JobStep(w)) \/ Restart

(* The threads of the process go on; requests need not come. *)
Fairness ==
  /\ \A w \in Worker : WF_vars(JobStep(w))
  /\ WF_vars(CompareStatus \/ FillReply)

Spec == Init /\ [][Next]_vars /\ Fairness

-----------------------------------------------------------------------------
(* A job is running exactly when status is busy, and it is the only one:   *)
(* nothing but status keeps two threads from sharing executingInput, proof *)
(* and the files of ./build (fullprover.cpp:82).                           *)
SoleWorker ==
  alive => Cardinality({w \in Worker : worker[w] # "idle"}) = IF status = "busy" THEN 1 ELSE 0

(* The server implements one job at a time with a cancellation that wins *)
(* over the outcome (fullprover.cpp:174).                                *)
JobState ==
  IF ~alive \/ status # "busy" THEN "none" ELSE IF canceled THEN "canceled" ELSE "running"
Verdict == IF alive THEN status ELSE "down"
Jobs == INSTANCE ProofJobs WITH job <- JobState, verdict <- Verdict
JobSpec == Jobs!Spec

(* What GET /status answers (fullprover.cpp:216) although it takes no lock: *)
(* a success carries a proof and the public signals of one witness, and     *)
(* that is the witness of the last body posted, unless that body was empty  *)
(* or its generator did not leave a solution of it, when an older result or *)
(* an older file was used; an answer without a status is given only when    *)
(* the job ended during the call.                                           *)
ReplyHonest ==
  compare = 0 =>
    /\ reply.status = None => reply.raced
    /\ reply.status = "success" =>
         /\ reply.proof # None /\ reply.proof = reply.pubData
         /\ reply.last.input = Empty \/ ~reply.last.solved
              \/ reply.proof = [input |-> reply.last.input, circuit |-> reply.last.circuit]

(* Every job ends, unless an input arrived while it ran: that call holds *)
(* mtx for ever (fullprover.cpp:76, 205).                                *)
JobEnds == (alive /\ status = "busy") ~> (~alive \/ status # "busy" \/ mtxHeld)
=============================================================================
