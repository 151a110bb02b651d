---------------------------- MODULE PayoutProofs ----------------------------
(***************************************************************************)
(* What holds of the payout log for every number of agents, months, runs   *)
(* and stops, every revenue and every minimum; at the end, that no run     *)
(* shares more than the pool.                                              *)
(***************************************************************************)
EXTENDS PayoutAllocator, FiniteSetTheorems, WellFoundedInduction, TLAPS

(* What a run holds, before its commit: the transaction's sums and what is *)
(* still due make up the shares, outside of the payments nothing is due    *)
(* and the sums are those of the last commit, and a row 'paid' has its     *)
(* money or its pretence.                                                  *)
Balanced ==
  /\ \A a \in Agent : carried[a] + due[a] + paid[a] = earned[a]
  /\ LedgerBalanced
  /\ pc # "paying" => due = Nothing /\ saved = Sums

Moved ==
  /\ \A a \in Agent : paid[a] <= moved[a] + pretended[a]
  /\ PaidMovedOrPretended

Inv == TypeOK /\ Balanced /\ Moved /\ MovedMeansPaid

-----------------------------------------------------------------------------
(* Shares are amounts: a rounding error takes a sat only where there is    *)
(* one.                                                                    *)
LEMMA QuotaNat ==
  ASSUME TypeOK, NEW m \in Month, NEW a \in Agent, total > 0
  PROVE  Quota(m, a) \in Nat
<1>1. AgentPool(m) \in Nat
  BY ConstantsAssumption DEF AgentPool
<1>2. logins[m][a] \in Nat
  BY DEF TypeOK
<1>3. AgentPool(m) * logins[m][a] \in Nat
  BY <1>1, <1>2
<1>4. \A x \in Nat, y \in Nat : y > 0 => x \div y \in Nat
  OBVIOUS
<1>5. QED
  BY <1>3, <1>4 DEF Quota, TypeOK

LEMMA SharesTypes ==
  ASSUME TypeOK, NEW m \in Month, total > 0, NEW short \in SUBSET MayLoseASat(m)
  PROVE  Shares(m, short) \in Sats
<1>1. ASSUME NEW a \in Agent
      PROVE  Shares(m, short)[a] \in Nat
  <2>1. Quota(m, a) \in Nat
    BY QuotaNat
  <2>2. a \in short => Quota(m, a) > 0
    BY DEF MayLoseASat
  <2>3. Shares(m, short)[a] = IF a \in short THEN Quota(m, a) - 1 ELSE Quota(m, a)
    BY DEF Shares
  <2>4. QED
    BY <2>1, <2>2, <2>3
<1>2. QED
  BY <1>1 DEF Shares, Sats

(* An allocation adds every agent's share to what is due or carried.       *)
LEMMA AllocateEffect ==
  ASSUME TypeOK, Balanced, Allocate
  PROVE  /\ due' \in Sats /\ carried' \in Sats /\ earned' \in Sats
         /\ \A a \in Agent : carried'[a] + due'[a] + paid[a] = earned'[a]
<1>1. month \in Month /\ total > 0
  BY DEF Allocate, TypeOK
<1>2. PICK short \in SUBSET MayLoseASat(month) :
        /\ due' = DueAfter(month, Shares(month, short))
        /\ carried' = CarriedAfter(month, Shares(month, short))
        /\ earned' = [a \in Agent |-> earned[a] + Shares(month, short)[a]]
  BY DEF Allocate
<1> DEFINE share == Shares(month, short)
<1>3. share \in Sats
  BY <1>1, SharesTypes
<1>4. due = Nothing
  BY DEF Balanced, Allocate
<1> HIDE DEF share
<1>5. ASSUME NEW a \in Agent
      PROVE  /\ due'[a] \in Nat /\ carried'[a] \in Nat /\ earned'[a] \in Nat
             /\ carried'[a] + due'[a] + paid[a] = earned'[a]
  <2>1. /\ share[a] \in Nat /\ carried[a] \in Nat /\ paid[a] \in Nat /\ earned[a] \in Nat
        /\ carried[a] + paid[a] = earned[a]
    BY <1>3, <1>4 DEF Sats, TypeOK, Balanced, Nothing
  <2>2. /\ due'[a] = IF a \in Paid(month, share) THEN share[a] + carried[a] ELSE 0
        /\ carried'[a] = IF a \in Paid(month, share) THEN 0 ELSE carried[a] + share[a]
        /\ earned'[a] = earned[a] + share[a]
    BY <1>2 DEF share, DueAfter, CarriedAfter
  <2>3. QED
    BY <2>1, <2>2
<1>6. QED
  BY <1>2, <1>5 DEF Sats, DueAfter, CarriedAfter

-----------------------------------------------------------------------------
LEMMA InitInv == Init => Inv
BY DEF Init, Inv, TypeOK, Sats, Nothing, Balanced, LedgerBalanced, Sums, Moved,
       PaidMovedOrPretended, MovedMeansPaid

(* A payment, a carry or a dry run moves an amount from due to one of the  *)
(* two sums, and to `moved' or `pretended' whenever it goes to paid.       *)
LEMMA ProcessedStep ==
  ASSUME Inv, NEW b \in Agent,
         Pay(b) \/ CarryForward(b) \/ PayAndLoseAnswer(b) \/ PayDry(b)
  PROVE  Inv'
<1> USE DEF Inv
<1>1. pc = "paying"
  BY DEF Balanced, Nothing, Pay, CarryForward, PayAndLoseAnswer, PayDry, Processed
<1>2. /\ pc' = pc /\ month' = month /\ dry' = dry /\ total' = total
      /\ saved' = saved /\ earned' = earned /\ rows' = rows /\ logins' = logins
      /\ due' = [due EXCEPT ![b] = 0]
      /\ runs' = runs /\ crashes' = crashes
  BY DEF Pay, CarryForward, PayAndLoseAnswer, PayDry, Processed, table, run, bounds
<1>3. \/ /\ paid' = [paid EXCEPT ![b] = @ + due[b]] /\ carried' = carried
         /\ \/ moved' = [moved EXCEPT ![b] = @ + due[b]] /\ pretended' = pretended
            \/ moved' = moved /\ pretended' = [pretended EXCEPT ![b] = @ + due[b]]
         /\ lost' = lost
      \/ /\ carried' = [carried EXCEPT ![b] = @ + due[b]] /\ paid' = paid
         /\ pretended' = pretended
         /\ \/ moved' = moved /\ lost' = lost
            \/ moved' = [moved EXCEPT ![b] = @ + due[b]] /\ lost' = lost + 1
  BY DEF Pay, CarryForward, PayAndLoseAnswer, PayDry, RecordPaid, RecordCarried, Move,
         bounds
<1>4. TypeOK'
  <2>1. due' \in Sats
    BY <1>2 DEF TypeOK, Sats
  <2>2. ASSUME NEW f \in Sats
        PROVE  [f EXCEPT ![b] = @ + due[b]] \in Sats
    BY DEF TypeOK, Sats
  <2>3. /\ paid' \in Sats /\ carried' \in Sats /\ moved' \in Sats
        /\ pretended' \in Sats /\ lost' \in Nat
    <3>1. /\ paid \in Sats /\ carried \in Sats /\ moved \in Sats /\ pretended \in Sats
          /\ lost \in Nat /\ lost + 1 \in Nat
      BY DEF TypeOK
    <3>2. QED
      BY <1>3, <2>2, <3>1
  <2>4. QED
    BY <1>2, <2>1, <2>3 DEF TypeOK
<1>5. \A a \in Agent : carried'[a] + due'[a] + paid'[a] = earned'[a]
  BY <1>2, <1>3 DEF TypeOK, Sats, Balanced
<1>6. Balanced'
  BY <1>1, <1>2, <1>5 DEF Balanced, LedgerBalanced
<1>7. \A a \in Agent : moved[a] <= moved'[a] /\ pretended[a] <= pretended'[a]
  BY <1>3 DEF TypeOK, Sats
<1>8. \A a \in Agent : paid'[a] <= moved'[a] + pretended'[a]
  <2> TAKE a \in Agent
  <2>1. /\ paid[a] \in Nat /\ moved[a] \in Nat /\ pretended[a] \in Nat /\ due[b] \in Nat
        /\ paid[a] <= moved[a] + pretended[a]
    BY DEF TypeOK, Sats, Moved
  <2>2. CASE a = b
    BY <1>3, <2>1, <2>2 DEF TypeOK, Sats
  <2>3. CASE a # b
    BY <1>3, <2>1, <2>3 DEF TypeOK, Sats
  <2>4. QED
    BY <2>2, <2>3
<1>9. Moved'
  <2>1. ASSUME NEW a \in Agent
        PROVE  saved.paid[a] <= moved'[a] + pretended'[a]
    <3>1. /\ saved.paid[a] \in Nat /\ moved[a] \in Nat /\ moved'[a] \in Nat
          /\ pretended[a] \in Nat /\ pretended'[a] \in Nat
      BY <1>4 DEF TypeOK, Sats
    <3>2. saved.paid[a] <= moved[a] + pretended[a]
      BY DEF Moved, PaidMovedOrPretended
    <3>3. QED
      BY <1>7, <3>1, <3>2
  <2>2. QED
    BY <1>2, <1>8, <2>1 DEF Moved, PaidMovedOrPretended
<1>10. MovedMeansPaid'
  BY <1>2, <1>3 DEF MovedMeansPaid, TypeOK, Sats
<1>11. QED
  BY <1>4, <1>6, <1>9, <1>10

LEMMA InvStep == Inv /\ [Next]_vars => Inv'
<1> SUFFICES ASSUME Inv, [Next]_vars PROVE Inv'
  OBVIOUS
<1> USE DEF Inv
<1>1. ASSUME NEW m \in Month, NEW b \in Agent, LogLogin(m, b)
      PROVE  Inv'
  <2>1. /\ UNCHANGED <<month, pc, dry, total, due, carried, paid, earned, saved, moved,
                       pretended, runs, lost, crashes>>
    BY <1>1 DEF LogLogin, run, bounds
  <2>2. rows' \in [Month -> Nat] /\ logins' \in [Month -> [Agent -> Nat]]
    BY <1>1 DEF LogLogin, TypeOK
  <2>3. QED
    BY <2>1, <2>2 DEF TypeOK, Balanced, LedgerBalanced, Sums, Moved,
                      PaidMovedOrPretended, MovedMeansPaid
<1>2. ASSUME NEW m \in Month, CountLogins(m)
      PROVE  Inv'
  BY <1>2 DEF CountLogins, table, TypeOK, Balanced, LedgerBalanced, Sums, Moved,
              PaidMovedOrPretended, MovedMeansPaid
<1>3. CASE NothingToAllocate
  BY <1>3 DEF NothingToAllocate, table, bounds, TypeOK, Balanced, LedgerBalanced, Sums,
              Moved, PaidMovedOrPretended, MovedMeansPaid
<1>4. CASE Allocate
  <2>1. /\ UNCHANGED <<rows, logins, month, dry, total, paid, saved, moved, pretended,
                       runs, lost, crashes>>
        /\ pc' = "paying" /\ month \in Month
    BY <1>4 DEF Allocate, table, bounds, TypeOK
  <2>2. /\ due' \in Sats /\ carried' \in Sats /\ earned' \in Sats
        /\ \A a \in Agent : carried'[a] + due'[a] + paid[a] = earned'[a]
    BY <1>4, AllocateEffect
  <2>3. TypeOK'
    BY <2>1, <2>2 DEF TypeOK
  <2>4. Balanced'
    BY <2>1, <2>2 DEF Balanced, LedgerBalanced
  <2>5. QED
    BY <2>1, <2>3, <2>4 DEF Moved, PaidMovedOrPretended, MovedMeansPaid
<1>5. ASSUME NEW b \in Agent,
             Pay(b) \/ CarryForward(b) \/ PayAndLoseAnswer(b) \/ PayDry(b)
      PROVE  Inv'
  BY <1>5, ProcessedStep
<1>6. CASE Commit
  <2>1. /\ UNCHANGED <<rows, logins, dry, total, due, carried, paid, earned, moved,
                       pretended, runs, lost, crashes>>
        /\ due = Nothing /\ pc' = "idle" /\ month' = NoMonth /\ saved' = Sums
    BY <1>6 DEF Commit, table, bounds
  <2>2. \A a \in Agent : carried[a] + paid[a] = earned[a]
    BY <2>1 DEF Balanced, Nothing, TypeOK, Sats
  <2>3. TypeOK'
    BY <2>1 DEF TypeOK, Sums
  <2>4. Balanced'
    BY <2>1, <2>2 DEF Balanced, LedgerBalanced, Sums
  <2>5. Moved'
    BY <2>1 DEF Moved, PaidMovedOrPretended, Sums
  <2>6. QED
    BY <2>1, <2>3, <2>4, <2>5 DEF MovedMeansPaid
<1>7. CASE Stop
  <2>1. /\ UNCHANGED <<rows, logins, dry, total, saved, moved, pretended, runs, lost>>
        /\ crashes' = crashes + 1 /\ pc' = "idle" /\ month' = NoMonth /\ due' = Nothing
        /\ carried' = saved.carried /\ paid' = saved.paid /\ earned' = saved.earned
    BY <1>7 DEF Stop, table
  <2>2. TypeOK'
    BY <2>1 DEF TypeOK, Sats, Nothing
  <2>3. saved = Sums'
    BY <2>1 DEF Sums, TypeOK
  <2>4. \A a \in Agent : carried'[a] + due'[a] + paid'[a] = earned'[a]
    <3> TAKE a \in Agent
    <3>1. saved.carried[a] \in Nat /\ saved.paid[a] \in Nat
      BY DEF TypeOK, Sats
    <3>2. QED
      BY <2>1, <3>1 DEF Balanced, LedgerBalanced, Nothing
  <2>5. Balanced'
    BY <2>1, <2>3, <2>4 DEF Balanced, LedgerBalanced, Nothing
  <2>6. Moved'
    BY <2>1 DEF Moved, PaidMovedOrPretended
  <2>7. MovedMeansPaid'
    BY <2>1 DEF MovedMeansPaid, TypeOK
  <2>8. QED
    BY <2>2, <2>5, <2>6, <2>7
<1>8. CASE UNCHANGED vars
  BY <1>8 DEF vars, TypeOK, Balanced, LedgerBalanced, Sums, Moved,
              PaidMovedOrPretended, MovedMeansPaid
<1>9. QED
  BY <1>1, <1>2, <1>3, <1>4, <1>5, <1>6, <1>7, <1>8 DEF Next

LEMMA Invariance == Spec => []Inv
BY InitInv, InvStep, PTL DEF Spec

-----------------------------------------------------------------------------
(* The script's variables keep their types: no balance is ever negative.   *)
THEOREM TypeCorrect == Spec => []TypeOK
<1>1. Inv => TypeOK
  BY DEF Inv
<1>2. QED
  BY <1>1, Invariance, PTL

(* The committed log accounts for every allocated sat once, whatever fails *)
(* and wherever runs stop.                                                 *)
THEOREM LedgerCorrect == Spec => []LedgerBalanced
<1>1. Inv => LedgerBalanced
  BY DEF Inv, Balanced
<1>2. QED
  BY <1>1, Invariance, PTL

(* Only a dry run makes a row 'paid' without money.                        *)
THEOREM PaidCorrect == Spec => []PaidMovedOrPretended
<1>1. Inv => PaidMovedOrPretended
  BY DEF Inv, Moved
<1>2. QED
  BY <1>1, Invariance, PTL

(* Only a stop or a lost answer makes more money leave than the log says.  *)
THEOREM MovedCorrect == Spec => []MovedMeansPaid
<1>1. Inv => MovedMeansPaid
  BY DEF Inv
<1>2. QED
  BY <1>1, Invariance, PTL

(* Without dry runs the log's 'paid' is money that left.                   *)
THEOREM PaidWithoutDryRuns ==
  ASSUME DryRun = {FALSE}
  PROVE  Spec => []PaidMeansMoved
<1> DEFINE Real == dry = "real" /\ \A a \in Agent : pretended[a] = 0
<1>1. Init => Real
  BY DEF Init, Nothing
<1>2. Real /\ [Next]_vars => Real'
  BY DEF Next, vars, LogLogin, CountLogins, NothingToAllocate, Allocate, Pay,
         CarryForward, PayAndLoseAnswer, PayDry, Commit, Stop, run
<1>3. Real /\ Inv => PaidMeansMoved
  BY DEF Inv, TypeOK, Sats, Moved, PaidMovedOrPretended, PaidMeansMoved
<1>4. QED
  BY <1>1, <1>2, <1>3, Invariance, PTL DEF Spec

-----------------------------------------------------------------------------
(* Sums over the agents.  SumFunction adds the values of a function one by *)
(* one, each time that of the agent CHOOSE takes from those that are left. *)
Picked(s) == CHOOSE x \in s : TRUE

IsSums(sum, f) ==
  sum = [s \in SUBSET Agent |-> IF s = {} THEN 0 ELSE f[Picked(s)] + sum[s \ {Picked(s)}]]

SumsOf(f) == CHOOSE sum : IsSums(sum, f)

LEMMA SumIter ==
  ASSUME NEW f, DOMAIN f = Agent PROVE SumFunction(f) = SumsOf(f)[Agent]
BY DEF SumFunction, SumFunctionOnSet, FoldFunctionOnSet, MapThenFoldSet, IsSums, Picked, SumsOf

LEMMA Least ==
  ASSUME NEW S \in SUBSET Nat, S # {}
  PROVE  \E m \in S : \A k \in S : m <= k
<1>1. PICK m \in S : \A k \in S : <<k, m>> \notin OpToRel(<, Nat)
  BY NatLessThanWellFounded, WFMin, Zenon
<1>2. \A k \in S : ~(k < m)
  BY <1>1, Zenon DEF OpToRel
<1> QED BY <1>2

LEMMA SmallerSet ==
  ASSUME NEW s \in SUBSET Agent
  PROVE  /\ Cardinality(s) \in Nat /\ (Cardinality(s) = 0 <=> s = {})
         /\ s # {} => /\ Picked(s) \in s /\ s \ {Picked(s)} \in SUBSET Agent
                      /\ Cardinality(s \ {Picked(s)}) = Cardinality(s) - 1
<1>1. IsFiniteSet(s)
  BY ConstantsAssumption, FS_Subset
<1>2. s # {} => Picked(s) \in s
  BY DEF Picked
<1> QED BY <1>1, <1>2, FS_CardinalityType, FS_EmptySet, FS_RemoveElement

(* Induction over the sets of agents. *)
LEMMA SubsetInduction ==
  ASSUME NEW P, {} \in P,
         \A s \in SUBSET Agent : s # {} /\ s \ {Picked(s)} \in P => s \in P
  PROVE  SUBSET Agent \subseteq P
<1> SUFFICES ASSUME NEW t \in SUBSET Agent, t \notin P PROVE FALSE
  OBVIOUS
<1> DEFINE S == {n \in Nat : \E s \in SUBSET Agent : s \notin P /\ Cardinality(s) = n}
<1>1. S \in SUBSET Nat /\ S # {}
  BY SmallerSet
<1>2. PICK n \in S : \A k \in S : n <= k
  BY <1>1, Least
<1>3. PICK s \in SUBSET Agent : s \notin P /\ Cardinality(s) = n
  BY <1>2
<1>4. s # {} /\ s \ {Picked(s)} \notin P
  BY <1>3
<1>5. n - 1 \in S
  <2>1. s \ {Picked(s)} \in SUBSET Agent /\ Cardinality(s \ {Picked(s)}) = n - 1 /\ n # 0
    BY <1>3, <1>4, SmallerSet
  <2> QED BY <1>4, <2>1
<1> QED BY <1>2, <1>5

(* The sums exist. *)
LEMMA SumsExist ==
  ASSUME NEW f PROVE IsSums(SumsOf(f), f)
<1> DEFINE Step(g, s) == IF s = {} THEN 0 ELSE f[Picked(s)] + g[s \ {Picked(s)}]
           Upto(n) == {s \in SUBSET Agent : Cardinality(s) <= n}
           S == {n \in Nat : \E g : \A s \in Upto(n) : g[s] = Step(g, s)}
<1>1. 0 \in S
  <2>1. ASSUME NEW s \in Upto(0) PROVE s = {}
    <3>1. s \in SUBSET Agent /\ Cardinality(s) <= 0
      OBVIOUS
    <3>2. Cardinality(s) \in Nat /\ (Cardinality(s) = 0 <=> s = {})
      BY <3>1, SmallerSet
    <3> QED BY <3>1, <3>2
  <2> DEFINE g == [s \in SUBSET Agent |-> 0]
  <2>2. \A s \in Upto(0) : g[s] = Step(g, s)
    BY <2>1
  <2> HIDE DEF g, Step, Upto
  <2> QED BY <2>2
<1>2. ASSUME NEW n \in Nat, n \in S PROVE n + 1 \in S
  <2>1. PICK g : \A s \in Upto(n) : g[s] = Step(g, s)
    BY <1>2
  <2> DEFINE h == [s \in SUBSET Agent |-> IF Cardinality(s) <= n THEN g[s] ELSE Step(g, s)]
  <2>2. ASSUME NEW s \in Upto(n + 1) PROVE h[s] = Step(h, s)
    <3>1. h[s] = Step(g, s)
      BY <2>1
    <3>2. CASE s = {}
      BY <3>1, <3>2
    <3>3. CASE s # {}
      <4>1. s \ {Picked(s)} \in SUBSET Agent /\ Cardinality(s \ {Picked(s)}) <= n
        BY <3>3, SmallerSet
      <4>2. h[s \ {Picked(s)}] = g[s \ {Picked(s)}]
        BY <4>1
      <4> HIDE DEF h
      <4> QED BY <3>1, <4>2
    <3> QED BY <3>2, <3>3
  <2> HIDE DEF h, Step, Upto
  <2> QED BY <2>2
<1> HIDE DEF S
<1>3. Nat \subseteq S
  <2> SUFFICES ASSUME Nat \ S # {} PROVE FALSE
    OBVIOUS
  <2>1. PICK m \in Nat \ S : \A k \in Nat \ S : m <= k
    BY Least
  <2>2. m # 0 /\ m - 1 \in Nat /\ m - 1 \in S
    BY <1>1, <2>1
  <2> QED BY <1>2, <2>1, <2>2
<1>4. PICK n \in Nat : n = Cardinality(Agent)
  BY SmallerSet
<1>5. PICK g : \A s \in Upto(n) : g[s] = Step(g, s)
  BY <1>3 DEF S
<1>6. \A s \in SUBSET Agent : Cardinality(s) <= n
  BY <1>4, ConstantsAssumption, FS_Subset
<1>7. IsSums([s \in SUBSET Agent |-> g[s]], f)
  <2>1. \A s \in SUBSET Agent : g[s] = Step(g, s)
    BY <1>5, <1>6
  <2>2. \A s \in SUBSET Agent : s # {} => s \ {Picked(s)} \in SUBSET Agent
    OBVIOUS
  <2> QED BY <2>1, <2>2 DEF IsSums
<1> QED BY <1>7 DEF SumsOf

(* Sums by the step that SumFunction makes.                                *)
LEMMA SumStep ==
  ASSUME NEW f, NEW s \in SUBSET Agent
  PROVE  SumsOf(f)[s] = IF s = {} THEN 0 ELSE f[Picked(s)] + SumsOf(f)[s \ {Picked(s)}]
BY SumsExist DEF IsSums

LEMMA SumOfNone == ASSUME NEW f PROVE SumsOf(f)[{}] = 0
BY SumStep, {} \in SUBSET Agent

LEMMA SumType ==
  ASSUME NEW f \in [Agent -> Nat]
  PROVE  SumFunction(f) = SumsOf(f)[Agent] /\ \A s \in SUBSET Agent : SumsOf(f)[s] \in Nat
<1> DEFINE P == {s \in SUBSET Agent : SumsOf(f)[s] \in Nat}
<1>1. {} \in P
  BY SumOfNone
<1>2. ASSUME NEW s \in SUBSET Agent, s # {}, s \ {Picked(s)} \in P PROVE s \in P
  <2>1. Picked(s) \in Agent /\ SumsOf(f)[s] = f[Picked(s)] + SumsOf(f)[s \ {Picked(s)}]
    BY <1>2, SumStep, SmallerSet
  <2> QED BY <1>2, <2>1
<1> HIDE DEF P
<1>3. SUBSET Agent \subseteq P
  BY <1>1, <1>2, SubsetInduction
<1> QED BY <1>3, SumIter DEF P

(* A sum of sums, and of an agent's one more. *)
LEMMA SumOfSums ==
  ASSUME NEW f \in [Agent -> Nat], NEW g \in [Agent -> Nat]
  PROVE  SumFunction([a \in Agent |-> f[a] + g[a]]) = SumFunction(f) + SumFunction(g)
<1> DEFINE h == [a \in Agent |-> f[a] + g[a]]
           P == {s \in SUBSET Agent : SumsOf(h)[s] = SumsOf(f)[s] + SumsOf(g)[s]}
<1>1. h \in [Agent -> Nat]
  OBVIOUS
<1>2. {} \in P
  BY SumOfNone
<1>3. ASSUME NEW s \in SUBSET Agent, s # {}, s \ {Picked(s)} \in P PROVE s \in P
  <2>1. PICK x \in Agent : x = Picked(s)
    BY <1>3, SmallerSet
  <2>2. h[x] = f[x] + g[x]
    OBVIOUS
  <2> HIDE DEF h
  <2>3. /\ SumsOf(f)[s] = f[x] + SumsOf(f)[s \ {x}]
        /\ SumsOf(g)[s] = g[x] + SumsOf(g)[s \ {x}]
        /\ SumsOf(h)[s] = h[x] + SumsOf(h)[s \ {x}]
    BY <1>3, <2>1, SumStep
  <2>4. SumsOf(f)[s \ {x}] \in Nat /\ SumsOf(g)[s \ {x}] \in Nat
        /\ SumsOf(h)[s \ {x}] = SumsOf(f)[s \ {x}] + SumsOf(g)[s \ {x}]
    BY <1>3, <2>1, SumType
  <2> QED BY <2>2, <2>3, <2>4
<1> HIDE DEF P, h
<1>4. Agent \in P
  BY <1>2, <1>3, SubsetInduction
<1>5. SumFunction(h) = SumFunction(f) + SumFunction(g)
  BY <1>1, <1>4, SumType DEF P
<1> QED BY <1>5 DEF h

LEMMA OneMore ==
  ASSUME NEW f \in [Agent -> Nat], NEW b \in Agent
  PROVE  SumFunction([f EXCEPT ![b] = @ + 1]) = SumFunction(f) + 1
<1> DEFINE one == [a \in Agent |-> IF a = b THEN 1 ELSE 0]
           P == {s \in SUBSET Agent : SumsOf(one)[s] = IF b \in s THEN 1 ELSE 0}
<1>1. one \in [Agent -> Nat]
  OBVIOUS
<1>2. {} \in P
  BY SumOfNone
<1>3. ASSUME NEW s \in SUBSET Agent, s # {}, s \ {Picked(s)} \in P PROVE s \in P
  <2>1. PICK x \in s : x = Picked(s)
    BY <1>3, SmallerSet
  <2>2. one[x] = IF x = b THEN 1 ELSE 0
    OBVIOUS
  <2> HIDE DEF one
  <2>3. SumsOf(one)[s] = one[x] + SumsOf(one)[s \ {x}]
    BY <1>3, <2>1, SumStep
  <2>4. SumsOf(one)[s \ {x}] = IF b \in s \ {x} THEN 1 ELSE 0
    BY <1>3, <2>1
  <2> QED BY <2>2, <2>3, <2>4
<1> HIDE DEF P
<1>4. Agent \in P
  BY <1>2, <1>3, SubsetInduction
<1>5. SumFunction(one) = 1
  BY <1>1, <1>4, SumType DEF P
<1>6. \A a \in Agent : one[a] = IF a = b THEN 1 ELSE 0
  OBVIOUS
<1> HIDE DEF one
<1>7. [f EXCEPT ![b] = @ + 1] = [a \in Agent |-> f[a] + one[a]]
  <2> DEFINE g == [f EXCEPT ![b] = @ + 1]
             h == [a \in Agent |-> f[a] + one[a]]
  <2>1. \A a \in Agent : g[a] = h[a]
    BY <1>6
  <2> QED BY <2>1
<1> QED BY <1>1, <1>5, <1>7, SumOfSums

LEMMA SumOfNothing == SumFunction(Nothing) = 0
<1> DEFINE P == {s \in SUBSET Agent : SumsOf(Nothing)[s] = 0}
<1>1. {} \in P
  BY SumOfNone
<1>2. ASSUME NEW s \in SUBSET Agent, s # {}, s \ {Picked(s)} \in P PROVE s \in P
  <2>1. Picked(s) \in Agent /\ SumsOf(Nothing)[s] = Nothing[Picked(s)] + SumsOf(Nothing)[s \ {Picked(s)}]
    BY <1>2, SumStep, SmallerSet
  <2> QED BY <1>2, <2>1 DEF Nothing
<1> HIDE DEF P
<1>3. Agent \in P
  BY <1>1, <1>2, SubsetInduction
<1> QED BY <1>3, SumType DEF P, Nothing

LEMMA Distributive ==
  ASSUME NEW i \in Nat, NEW j \in Nat, NEW k \in Nat PROVE i * (j + k) = (i * j) + (i * k)
OBVIOUS

(* What holds of the values of two functions holds of their sums.          *)
LEMMA SumBound ==
  ASSUME NEW f \in [Agent -> Nat], NEW g \in [Agent -> Nat], NEW x \in Nat, NEW y \in Nat,
         \A a \in Agent : x * f[a] <= y * g[a]
  PROVE  x * SumFunction(f) <= y * SumFunction(g)
<1> DEFINE P == {s \in SUBSET Agent : x * SumsOf(f)[s] <= y * SumsOf(g)[s]}
<1>1. {} \in P
  BY SumOfNone
<1>2. ASSUME NEW s \in SUBSET Agent, s # {}, s \ {Picked(s)} \in P PROVE s \in P
  <2>1. PICK a \in Agent : a = Picked(s)
    BY <1>2, SmallerSet
  <2>2. /\ SumsOf(f)[s] = f[a] + SumsOf(f)[s \ {a}]
        /\ SumsOf(g)[s] = g[a] + SumsOf(g)[s \ {a}]
    BY <1>2, <2>1, SumStep
  <2>3. PICK k \in Nat, l \in Nat, m \in Nat, n \in Nat :
          k = f[a] /\ l = g[a] /\ m = SumsOf(f)[s \ {a}] /\ n = SumsOf(g)[s \ {a}]
    BY <1>2, <2>1, SumType
  <2>4. x * k <= y * l /\ x * m <= y * n
    BY <1>2, <2>1, <2>3
  <2>5. x * (k + m) = (x * k) + (x * m) /\ y * (l + n) = (y * l) + (y * n)
    BY Distributive
  <2>6. x * k \in Nat /\ x * m \in Nat /\ y * l \in Nat /\ y * n \in Nat
    OBVIOUS
  <2>7. x * (k + m) <= y * (l + n)
    BY <2>4, <2>5, <2>6
  <2> QED BY <2>2, <2>3, <2>7
<1> HIDE DEF P
<1>3. Agent \in P
  BY <1>1, <1>2, SubsetInduction
<1> QED BY <1>3, SumType DEF P

-----------------------------------------------------------------------------
(* The total of the first query, were no login logged before the second,   *)
(* is the sum of what the second finds.                                    *)
RowsCounted == \A m \in Month : rows[m] = SumFunction(logins[m])

LEMMA RowsInit == Init => RowsCounted
BY SumOfNothing DEF Init, RowsCounted

LEMMA RowsStep == TypeOK /\ RowsCounted /\ [Next]_vars => RowsCounted'
<1> SUFFICES ASSUME TypeOK, RowsCounted, [Next]_vars PROVE RowsCounted'
  OBVIOUS
<1>1. ASSUME NEW m \in Month, NEW b \in Agent, LogLogin(m, b) PROVE RowsCounted'
  <2> SUFFICES ASSUME NEW n \in Month PROVE rows'[n] = SumFunction(logins'[n])
    BY DEF RowsCounted
  <2>1. rows[n] = SumFunction(logins[n]) /\ logins[n] \in [Agent -> Nat]
    BY DEF RowsCounted, TypeOK
  <2>2. CASE n = m
    <3>1. rows'[n] = rows[n] + 1 /\ logins'[n] = [logins[n] EXCEPT ![b] = @ + 1]
      BY <1>1, <2>2 DEF LogLogin, TypeOK
    <3> QED BY <2>1, <3>1, OneMore
  <2>3. CASE n # m
    <3>1. rows'[n] = rows[n] /\ logins'[n] = logins[n]
      BY <1>1, <2>3 DEF LogLogin, TypeOK
    <3> QED BY <2>1, <3>1
  <2> QED BY <2>2, <2>3
<1>2. CASE UNCHANGED table
  BY <1>2 DEF RowsCounted, table
<1> QED BY <1>1, <1>2 DEF Next, vars, table, CountLogins, NothingToAllocate, Allocate, Pay,
           CarryForward, PayAndLoseAnswer, PayDry, Commit, Stop

(* A share is not more than the agent's part of the pool.                  *)
LEMMA ShareBound ==
  ASSUME TypeOK, NEW m \in Month, total > 0, NEW short \in SUBSET MayLoseASat(m), NEW a \in Agent
  PROVE  total * Shares(m, short)[a] <= AgentPool(m) * logins[m][a]
<1>1. PICK x \in Nat : x = AgentPool(m) * logins[m][a]
  <2>1. AgentPool(m) \in Nat /\ logins[m][a] \in Nat
    BY ConstantsAssumption DEF AgentPool, TypeOK
  <2> QED BY <2>1
<1>2. PICK t \in Nat : t = total /\ t > 0
  BY DEF TypeOK
<1>3. PICK q \in Nat : q = Quota(m, a) /\ t * q <= x
  <2>1. x \div t \in Nat /\ t * (x \div t) <= x
    BY <1>2
  <2> QED BY <1>1, <1>2, <2>1 DEF Quota
<1>4. PICK r \in Nat : r = Shares(m, short)[a] /\ r <= q
  <2>1. Shares(m, short)[a] \in Nat
    BY SharesTypes DEF Sats
  <2>2. Shares(m, short)[a] = q \/ Shares(m, short)[a] = q - 1
    BY <1>3 DEF Shares
  <2> QED BY <2>1, <2>2
<1>5. t * r <= t * q
  BY <1>4
<1>6. t * r \in Nat /\ t * q \in Nat
  OBVIOUS
<1> QED BY <1>1, <1>2, <1>3, <1>4, <1>5, <1>6

LEMMA PoolStep ==
  ASSUME TypeOK, RowsCounted, Next, pc = "counted", pc' = "paying", rows[month] = total
  PROVE  SumFunction(earned') <= SumFunction(earned) + AgentPool(month)
<1>1. Allocate
  BY DEF Next, LogLogin, run, CountLogins, NothingToAllocate, Pay, CarryForward,
         PayAndLoseAnswer, PayDry, Commit, Stop
<1>2. month \in Month /\ total > 0 /\ total \in Nat /\ earned \in [Agent -> Nat]
  BY <1>1 DEF Allocate, TypeOK, Sats
<1>3. PICK short \in SUBSET MayLoseASat(month) :
        earned' = [a \in Agent |-> earned[a] + Shares(month, short)[a]]
  BY <1>1 DEF Allocate
<1>4. PICK share \in [Agent -> Nat] : share = Shares(month, short)
  BY <1>2, SharesTypes DEF Sats
<1>5. PICK pool \in Nat : pool = AgentPool(month)
  BY <1>2, ConstantsAssumption DEF AgentPool
<1>6. logins[month] \in [Agent -> Nat] /\ SumFunction(logins[month]) = total
  BY <1>2 DEF TypeOK, RowsCounted
<1>7. \A a \in Agent : total * share[a] <= pool * logins[month][a]
  BY <1>2, <1>4, <1>5, ShareBound
<1>8. total * SumFunction(share) <= pool * total
  BY <1>2, <1>6, <1>7, SumBound
<1>9. PICK s \in Nat : s = SumFunction(share)
  BY SumType
<1>10. s <= pool
  <2>1. \A i \in Nat, j \in Nat, k \in Nat : i > 0 /\ i * j <= k * i => j <= k
    OBVIOUS
  <2> QED BY <1>2, <1>8, <1>9, <2>1
<1>11. SumFunction(earned') = SumFunction(earned) + s
  BY <1>2, <1>3, <1>4, <1>9, SumOfSums
<1>12. SumFunction(earned) \in Nat
  BY <1>2, SumType
<1> QED BY <1>5, <1>10, <1>11, <1>12

(* No run shares more than the agents' pool (get_agent_pool and step 2 of  *)
(* run_allocation), whatever the floats lose.                              *)
THEOREM PoolCorrect == Spec => PoolRespected
<1>1. TypeOK /\ RowsCounted /\ [Next]_vars =>
        [pc = "counted" /\ pc' = "paying" /\ rows[month] = total =>
           SumFunction(earned') <= SumFunction(earned) + AgentPool(month)]_vars
  BY PoolStep
<1>2. Spec => []RowsCounted
  BY RowsInit, RowsStep, TypeCorrect, PTL DEF Spec
<1> QED BY <1>1, <1>2, TypeCorrect, PTL DEF Spec, PoolRespected
=============================================================================
