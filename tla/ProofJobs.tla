------------------------------ MODULE ProofJobs ------------------------------
(***************************************************************************)
(* What the proof server promises the client that polls it                 *)
(* (native/rapidsnark/tools/request.js): one job at a time, a job that was *)
(* canceled ends as aborted and never as a success, and a verdict stands   *)
(* until the next job begins or the process goes down.                     *)
(***************************************************************************)
VARIABLES
  job,      \* the job: none, running, or running although canceled
  verdict   \* what a client is told: the state of the job or its outcome

vars == <<job, verdict>>

TypeOK ==
  /\ job \in {"none", "running", "canceled"}
  /\ verdict \in {"ready", "busy", "aborted", "failed", "success", "down"}

Init ==
  /\ job = "none"
  /\ verdict = "ready"

Accept ==
  /\ job = "none"
  /\ verdict # "down"
  /\ job' = "running"
  /\ verdict' = "busy"

Cancel ==
  /\ job = "running"
  /\ job' = "canceled"
  /\ UNCHANGED verdict

End ==
  /\ job # "none"
  /\ job' = "none"
  /\ verdict' \in IF job = "canceled" THEN {"aborted"} ELSE {"failed", "success"}

(* The process ends, and with it the job. *)
Stop ==
  /\ verdict # "down"
  /\ job' = "none"
  /\ verdict' = "down"

Start ==
  /\ verdict = "down"
  /\ verdict' = "ready"
  /\ UNCHANGED job

Next == Accept \/ Cancel \/ End \/ Stop \/ Start

Spec == Init /\ [][Next]_vars
=============================================================================
