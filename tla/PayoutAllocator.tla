-------------------------- MODULE PayoutAllocator --------------------------
(***************************************************************************)
(* The monthly payout script (scripts/payment_allocator.py).  One run      *)
(* shares the agents' pool of a month by logins, pays the shares that      *)
(* reach the minimum through the Strike API and carries the others         *)
(* forward.  Everything it writes to payout_log is one transaction,        *)
(* committed after the last payment: a run that stops half-way leaves the  *)
(* log as it was, and the money it sent is gone.  Nothing stops a second   *)
(* run for a month.                                                        *)
(*                                                                         *)
(* The script reads payout_log only as the sum of an agent's rows with     *)
(* status 'carried_forward', so the table is its sums by agent and status. *)
(***************************************************************************)
EXTENDS Naturals, FiniteSets, Functions

CONSTANTS
  Agent,       \* npubs
  Month,       \* months the script is run for
  Revenue,     \* Revenue[m]: what Strike says was received in m, in sats
  MinPayout,   \* SBM_MIN_PAYOUT_SATS
  DryRun,      \* values SBM_DRY_RUN has
  MaxLogins,   \* bound of the model: rows of login_verifications
  MaxRuns,     \* bound of the model: runs of the script
  MaxLost,     \* bound of the model: payments made and reported as failed
  MaxCrashes,  \* bound of the model: runs that stop half-way
  NoMonth      \* the script is not running

ASSUME ConstantsAssumption ==
  /\ IsFiniteSet(Agent)
  /\ Revenue \in [Month -> Nat]
  /\ MinPayout \in Nat \ {0}
  /\ DryRun \subseteq BOOLEAN
  /\ NoMonth \notin Month
  /\ MaxLogins \in Nat /\ MaxRuns \in Nat
  /\ MaxLost \in Nat /\ MaxCrashes \in Nat

VARIABLES
  rows,      \* rows[m]: rows of login_verifications of month m
  logins,    \* logins[m][a]: those of agent a
  month,     \* the month the script runs for
  pc,        \* how far the run is: "idle", "counted" or "paying"
  dry,       \* SBM_DRY_RUN of this run, "dry" or "real"
  total,     \* login_counts['total'] of this run
  due,       \* agent_payouts not processed yet: due[a] sats, or 0
  carried,   \* sum of the rows 'carried_forward', as the transaction sees it
  paid,      \* sum of the rows 'paid', as the transaction sees it
  earned,    \* shares allocated so far (not stored by the script)
  saved,     \* the three sums as of the last commit
  moved,     \* sats that left the account for each agent
  pretended, \* sats a dry run said it paid to each agent
  runs,      \* runs so far
  lost,      \* payments made and reported as failed so far
  crashes    \* runs that stopped half-way so far

table == <<rows, logins>>
run == <<month, pc, dry, total>>
bounds == <<runs, lost, crashes>>
vars == <<rows, logins, month, pc, dry, total, due, carried, paid, earned, saved,
          moved, pretended, runs, lost, crashes>>

Sats == [Agent -> Nat]

TypeOK ==
  /\ rows \in [Month -> Nat]
  /\ logins \in [Month -> [Agent -> Nat]]
  /\ month \in Month \cup {NoMonth}
  /\ pc \in {"idle", "counted", "paying"}
  /\ pc # "idle" => month \in Month
  /\ dry \in {"dry", "real"}
  /\ total \in Nat
  /\ due \in Sats
  /\ carried \in Sats
  /\ paid \in Sats
  /\ earned \in Sats
  /\ saved \in [carried : Sats, paid : Sats, earned : Sats]
  /\ moved \in Sats
  /\ pretended \in Sats
  /\ runs \in Nat
  /\ lost \in Nat
  /\ crashes \in Nat

Nothing == [a \in Agent |-> 0]

Init ==
  /\ rows = [m \in Month |-> 0]
  /\ logins = [m \in Month |-> Nothing]
  /\ month = NoMonth
  /\ pc = "idle"
  /\ dry = "real"
  /\ total = 0
  /\ due = Nothing
  /\ carried = Nothing
  /\ paid = Nothing
  /\ earned = Nothing
  /\ saved = [carried |-> Nothing, paid |-> Nothing, earned |-> Nothing]
  /\ moved = Nothing
  /\ pretended = Nothing
  /\ runs = 0
  /\ lost = 0
  /\ crashes = 0

-----------------------------------------------------------------------------
(* The server logs a login of the month while the script may be running.   *)
LogLogin(m, a) ==
  /\ rows[m] < MaxLogins
  /\ rows' = [rows EXCEPT ![m] = @ + 1]
  /\ logins' = [logins EXCEPT ![m][a] = @ + 1]
  /\ UNCHANGED <<run, due, carried, paid, earned, saved, moved, pretended, bounds>>

(* The first query of get_login_counts: the rows of the month by client,   *)
(* whose sum is the total.  The second, by agent, is a query of its own.   *)
CountLogins(m) ==
  /\ pc = "idle"
  /\ runs < MaxRuns
  /\ runs' = runs + 1
  /\ month' = m
  /\ total' = rows[m]
  /\ \E d \in DryRun : dry' = IF d THEN "dry" ELSE "real"
  /\ pc' = "counted"
  /\ UNCHANGED <<table, due, carried, paid, earned, saved, moved, pretended, lost, crashes>>

(* No logins, no revenue, or Strike could not be asked for it (which is    *)
(* the same): the run is over.                                             *)
NothingToAllocate ==
  /\ pc = "counted"
  /\ pc' = "idle"
  /\ month' = NoMonth
  /\ UNCHANGED <<table, dry, total, due, carried, paid, earned, saved, moved,
                 pretended, bounds>>

(* 15% of the revenue is the agents', shared by logins, rounded down.      *)
AgentPool(m) == (Revenue[m] * 15) \div 100

(* A mutant: rounded to the next sat. *)
QuotaRoundedUp(m, a) == (AgentPool(m) * logins[m][a] + total - 1) \div total
Quota(m, a) == (AgentPool(m) * logins[m][a]) \div total
(* int(pool * (n / total)) is one sat less when the division is exact and  *)
(* n / total, a float, is not: int(22 * (15 / 22)) = 14.                   *)
MayLoseASat(m) ==
  {a \in Agent : Quota(m, a) > 0 /\ Quota(m, a) * total = AgentPool(m) * logins[m][a]}
Shares(m, short) ==
  [a \in Agent |-> IF a \in short THEN Quota(m, a) - 1 ELSE Quota(m, a)]

(* An agent with logins this month whose share and carried balance reach   *)
(* the minimum is paid.  An agent without logins is not looked at.         *)
Paid(m, share) ==
  {a \in Agent : logins[m][a] > 0 /\ share[a] + carried[a] >= MinPayout}

(* A mutant: clear_carried_forward forgotten. *)
CarriedKept(m, share) ==
  [a \in Agent |-> IF a \in Paid(m, share) THEN carried[a] ELSE carried[a] + share[a]]
CarriedAfter(m, share) ==
  [a \in Agent |-> IF a \in Paid(m, share) THEN 0 ELSE carried[a] + share[a]]

DueAfter(m, share) ==
  [a \in Agent |-> IF a \in Paid(m, share) THEN share[a] + carried[a] ELSE 0]

(* The second query of get_login_counts and the steps 2 to 4 of            *)
(* run_allocation: every agent with logins is to be paid or gets a row     *)
(* 'carried_forward', in a transaction that stays open.                    *)
Allocate ==
  /\ pc = "counted"
  /\ total > 0
  /\ Revenue[month] > 0
  /\ pc' = "paying"
  /\ \E short \in SUBSET MayLoseASat(month) :
       LET share == Shares(month, short) IN
       /\ due' = DueAfter(month, share)
       /\ carried' = CarriedAfter(month, share)
       /\ earned' = [a \in Agent |-> earned[a] + share[a]]
  /\ UNCHANGED <<table, month, dry, total, paid, saved, moved, pretended, bounds>>

(* A mutant: the payment is not recorded. *)
RecordNothing(a) == UNCHANGED <<paid, carried>>
(* record_payout with status 'paid' or 'carried_forward'. *)
RecordPaid(a) == paid' = [paid EXCEPT ![a] = @ + due[a]] /\ UNCHANGED carried
RecordCarried(a) == carried' = [carried EXCEPT ![a] = @ + due[a]] /\ UNCHANGED paid

(* A mutant: a quote that is accepted counts as paid. *)
MoveNothing(a) == UNCHANGED moved
Move(a) == moved' = [moved EXCEPT ![a] = @ + due[a]]

Processed(a) ==
  /\ due[a] > 0
  /\ due' = [due EXCEPT ![a] = 0]

(* pay_via_strike: the payment is completed and said to be. *)
Pay(a) ==
  /\ Processed(a)
  /\ dry = "real"
  /\ Move(a)
  /\ RecordPaid(a)
  /\ UNCHANGED <<table, run, earned, saved, pretended, bounds>>

(* The agent has no Lightning address, or the payment failed. *)
CarryForward(a) ==
  /\ Processed(a)
  /\ RecordCarried(a)
  /\ UNCHANGED <<table, run, earned, saved, moved, pretended, bounds>>

(* The payment is made, and the answer is a timeout, an error or a state   *)
(* other than COMPLETED (a payment still pending).                         *)
PayAndLoseAnswer(a) ==
  /\ Processed(a)
  /\ dry = "real"
  /\ lost < MaxLost
  /\ lost' = lost + 1
  /\ Move(a)
  /\ RecordCarried(a)
  /\ UNCHANGED <<table, run, earned, saved, pretended, runs, crashes>>

(* SBM_DRY_RUN: no payment, and the same row as for one. *)
PayDry(a) ==
  /\ Processed(a)
  /\ dry = "dry"
  /\ pretended' = [pretended EXCEPT ![a] = @ + due[a]]
  /\ RecordPaid(a)
  /\ UNCHANGED <<table, run, earned, saved, moved, bounds>>

Sums == [carried |-> carried, paid |-> paid, earned |-> earned]

Commit ==
  /\ pc = "paying"
  /\ due = Nothing
  /\ pc' = "idle"
  /\ month' = NoMonth
  /\ saved' = Sums
  /\ UNCHANGED <<table, dry, total, due, carried, paid, earned, moved, pretended, bounds>>

(* The process is killed, or an exception makes it roll back: a write that *)
(* SQLite refuses, an error in between.                                    *)
Stop ==
  /\ pc # "idle"
  /\ crashes < MaxCrashes
  /\ crashes' = crashes + 1
  /\ pc' = "idle"
  /\ month' = NoMonth
  /\ due' = Nothing
  /\ carried' = saved.carried
  /\ paid' = saved.paid
  /\ earned' = saved.earned
  /\ UNCHANGED <<table, dry, total, saved, moved, pretended, runs, lost>>

Next ==
  \/ \E m \in Month : CountLogins(m) \/ \E a \in Agent : LogLogin(m, a)
  \/ NothingToAllocate \/ Allocate
  \/ \E a \in Agent : Pay(a) \/ CarryForward(a) \/ PayAndLoseAnswer(a) \/ PayDry(a)
  \/ Commit
  \/ Stop

Spec == Init /\ [][Next]_vars

-----------------------------------------------------------------------------
(* Every sat allocated to an agent is in the committed log once, as paid   *)
(* or as carried forward: clearing, carrying again after a failure, paying *)
(* and rolling back neither lose nor double a balance.                     *)
LedgerBalanced ==
  \A a \in Agent : saved.carried[a] + saved.paid[a] = saved.earned[a]

(* What the log calls paid has left the account, or a dry run made it up.  *)
PaidMovedOrPretended ==
  \A a \in Agent : saved.paid[a] <= moved[a] + pretended[a]

(* More money leaves the account for an agent than the log says only if a  *)
(* run stopped half-way or an answer was lost: both make the next run pay  *)
(* it again.                                                               *)
MovedMeansPaid ==
  crashes = 0 /\ lost = 0 => \A a \in Agent : moved[a] <= paid[a]

(* The shares of a run do not exceed the agents' pool (the header: "15%    *)
(* distributed to agents"), whatever the rounding, if no login was logged  *)
(* between the two queries.                                                *)
PoolRespected ==
  [][pc = "counted" /\ pc' = "paying" /\ rows[month] = total =>
       SumFunction(earned') <= SumFunction(earned) + AgentPool(month)]_vars

(* What the log calls paid has left the account (app/db/schema.sql,        *)
(* paid_at: "Unix timestamp when paid (NULL if not paid)").                *)
PaidMeansMoved == \A a \in Agent : saved.paid[a] <= moved[a]
=============================================================================
