-------------------------- MODULE EmailOutboxProofs --------------------------
(***************************************************************************)
(* Proofs about EmailOutbox, for any number of mails and of runs, any      *)
(* batch size, budget and backoff.  They rest on one assumption about the  *)
(* deployment that the code states and does not enforce: a run that is     *)
(* cancelled returns before its lease is over.                             *)
(***************************************************************************)
EXTENDS EmailOutbox, TLAPS

\* leaseSeconds is Timeout + Interval or more, so Grace < Interval is enough.
LEMMA LeaseFact ==
    /\ leaseSeconds \in Nat
    /\ Grace < Interval => Timeout + Grace < leaseSeconds
BY SettingAssumption DEF leaseSeconds

LEMMA BackoffFact == \A n \in Nat : backoffFor(n) \in Nat
<1> SUFFICES ASSUME NEW n \in Nat PROVE backoffFor(n) \in Nat
  OBVIOUS
<1> DEFINE d == BaseBackoff * 2^(n - 1)
<1>1. CASE d \in 1..MaxBackoff /\ n - 1 <= MaxBackoffShift
  <2>1. backoffFor(n) = d
    BY <1>1 DEF backoffFor
  <2> QED BY <2>1, <1>1, SettingAssumption
<1>2. CASE ~(d \in 1..MaxBackoff /\ n - 1 <= MaxBackoffShift)
  <2>1. backoffFor(n) = MaxBackoff
    BY <1>2 DEF backoffFor
  <2> QED BY <2>1, SettingAssumption
<1> QED BY <1>1, <1>2

LEMMA InitIndInv == Init => IndInv
BY SettingAssumption
   DEF Init, IndInv, TypeOK, LeaseOK, OneHolder, NoSilentLoss

LEMMA TypeStep == TypeOK /\ [Next]_vars => TypeOK'
<1> SUFFICES ASSUME TypeOK, [Next]_vars PROVE TypeOK'
  OBVIOUS
<1>0. /\ TypeOK /\ leaseSeconds \in Nat /\ MaxAttempts \in Nat \ {0}
      /\ Timeout \in Nat /\ Grace \in Nat
      /\ \A m \in Mails : backoffFor(attempts[m]) \in Nat
  BY LeaseFact, BackoffFact, SettingAssumption DEF TypeOK
<1>1. ASSUME NEW m \in Mails, EnqueueEmail(m) PROVE TypeOK'
  BY <1>1, <1>0 DEF EnqueueEmail, TypeOK, runVars
<1>2. ASSUME NEW r \in Runs, ClaimPendingEmails(r) PROVE TypeOK'
  <2> PICK S \in SUBSET Due :
        /\ attempts' = [m \in Mails |->
                IF m \in S /\ attempts[m] < MaxAttempts THEN attempts[m] + 1
                ELSE attempts[m]]
        /\ left' = [m \in Mails |-> IF m \in S THEN leaseSeconds ELSE left[m]]
        /\ hold' = [hold EXCEPT ![r] = S]
    BY <1>2 DEF ClaimPendingEmails
  <2>1. S \subseteq Mails
    BY DEF Due
  <2>2. attempts' \in [Mails -> 0..MaxAttempts] /\ left' \in [Mails -> Nat]
    BY <1>0 DEF TypeOK
  <2> QED BY <2>1, <2>2, <1>2, <1>0 DEF ClaimPendingEmails, TypeOK
<1>3. ASSUME NEW r \in Runs, NEW m \in Mails, Send(r, m) PROVE TypeOK'
  BY <1>3, <1>0 DEF Send, TypeOK, rowVars
<1>4. ASSUME NEW r \in Runs, MarkEmailSent(r) PROVE TypeOK'
  BY <1>4, <1>0 DEF MarkEmailSent, NextRow, TypeOK
<1>5. ASSUME NEW r \in Runs, RecordFailure(r) PROVE TypeOK'
  <2>1. cur[r] \in Mails
    BY <1>5, <1>0 DEF RecordFailure, TypeOK
  <2> QED BY <2>1, <1>5, <1>0 DEF RecordFailure, NextRow, TypeOK
<1>6. ASSUME NEW r \in Runs, OutcomeLost(r) PROVE TypeOK'
  BY <1>6, <1>0 DEF OutcomeLost, NextRow, TypeOK, rowVars
<1>7. ASSUME NEW r \in Runs, Finish(r) PROVE TypeOK'
  BY <1>7, <1>0 DEF Finish, Return, TypeOK
<1>8. ASSUME NEW r \in Runs, Stop(r) \/ Crash(r) PROVE TypeOK'
  BY <1>8, <1>0 DEF Stop, Crash, Return, TypeOK
<1>9. CASE Tick
  BY <1>9, <1>0 DEF Tick, TypeOK
<1>10. CASE UNCHANGED vars
  BY <1>10, <1>0 DEF vars, rowVars, runVars, TypeOK
<1> QED BY <1>1, <1>2, <1>3, <1>4, <1>5, <1>6, <1>7, <1>8, <1>9, <1>10 DEF Next

\* A row some run holds has time left on its lease.
LEMMA HeldIsNotDue ==
    ASSUME Grace < Interval, IndInv
    PROVE  \A r \in Runs : \A m \in hold[r] : m \notin Due
<1> SUFFICES ASSUME NEW r \in Runs, NEW m \in hold[r] PROVE m \notin Due
  OBVIOUS
<1>1. /\ left[m] + age[r] >= leaseSeconds /\ left[m] \in Nat
      /\ age[r] \in 0..(Timeout + Grace)
  BY DEF IndInv, LeaseOK, TypeOK
<1> QED BY <1>1, LeaseFact, SettingAssumption DEF Due

LEMMA HolderStep ==
    ASSUME Grace < Interval
    PROVE  IndInv /\ [Next]_vars => LeaseOK' /\ OneHolder'
<1> SUFFICES ASSUME IndInv, [Next]_vars PROVE LeaseOK' /\ OneHolder'
  OBVIOUS
<1>0. /\ TypeOK /\ LeaseOK /\ OneHolder /\ leaseSeconds \in Nat
      /\ age \in [Runs -> Nat] /\ left \in [Mails -> Nat]
      /\ hold \in [Runs -> SUBSET Mails]
      /\ status \in [Mails -> {"none", "pending", "sent", "failed", "pruned"}]
  BY LeaseFact, SettingAssumption DEF IndInv, TypeOK
<1> USE DEF LeaseOK, OneHolder
\* A step that gives no run a new row and leaves the rows of every run alone.
<1>a. ASSUME \A q \in Runs : hold'[q] \subseteq hold[q],
             \A q \in Runs : \A m \in hold'[q] :
                /\ age'[q] = age[q] /\ left'[m] = left[m]
                /\ status'[m] = status[m]
      PROVE  LeaseOK' /\ OneHolder'
  BY <1>a, <1>0
<1>1. ASSUME NEW m \in Mails, EnqueueEmail(m) PROVE LeaseOK' /\ OneHolder'
  <2>1. UNCHANGED <<hold, age, left>>
        /\ \A k \in Mails : status[k] = "pending" => status'[k] = "pending"
    BY <1>1, <1>0 DEF EnqueueEmail, runVars
  <2> QED BY <2>1, <1>0
<1>2. ASSUME NEW r \in Runs, ClaimPendingEmails(r) PROVE LeaseOK' /\ OneHolder'
  <2> PICK S \in SUBSET Due :
        /\ left' = [m \in Mails |-> IF m \in S THEN leaseSeconds ELSE left[m]]
        /\ hold' = [hold EXCEPT ![r] = S]
    BY <1>2 DEF ClaimPendingEmails
  <2>1. /\ \A q \in Runs \ {r} : hold'[q] = hold[q] /\ age'[q] = age[q]
        /\ hold'[r] = S /\ age'[r] = 0 /\ status' = status
    BY <1>2, <1>0 DEF ClaimPendingEmails, TypeOK
  <2>2. \A q \in Runs : \A m \in hold[q] : m \notin S
    BY HeldIsNotDue
  <2>3. /\ \A m \in S : m \in Mails /\ status[m] = "pending"
        /\ \A m \in S : left'[m] = leaseSeconds
        /\ \A m \in Mails \ S : left'[m] = left[m]
    BY <1>0 DEF Due
  <2>4. OneHolder'
    BY <2>1, <2>2, <1>0
  <2>5. LeaseOK'
    <3> SUFFICES ASSUME NEW q \in Runs, NEW m \in hold'[q]
                 PROVE  status'[m] = "pending" /\ left'[m] + age'[q] >= leaseSeconds
      OBVIOUS
    <3>1. CASE q = r
      BY <3>1, <2>1, <2>3, <1>0
    <3>2. CASE q # r
      <4>1. m \in hold[q] /\ m \in Mails \ S
        BY <3>2, <2>1, <2>2, <1>0
      <4> QED BY <4>1, <3>2, <2>1, <2>3, <1>0
    <3> QED BY <3>1, <3>2
  <2> QED BY <2>4, <2>5
<1>3. ASSUME NEW r \in Runs, NEW m \in Mails, Send(r, m) PROVE LeaseOK' /\ OneHolder'
  BY <1>3, <1>0 DEF Send, rowVars
<1>4. ASSUME NEW r \in Runs,
             MarkEmailSent(r) \/ RecordFailure(r) \/ OutcomeLost(r)
      PROVE  LeaseOK' /\ OneHolder'
  <2>1. /\ \A q \in Runs \ {r} : hold'[q] = hold[q]
        /\ hold'[r] = hold[r] \ {cur[r]} /\ age' = age /\ cur[r] \in hold[r]
    BY <1>4, <1>0 DEF MarkEmailSent, RecordFailure, OutcomeLost, NextRow, TypeOK
  <2>2. \A m \in Mails \ {cur[r]} : status'[m] = status[m] /\ left'[m] = left[m]
    BY <1>4, <1>0 DEF MarkEmailSent, RecordFailure, OutcomeLost, rowVars, TypeOK
  <2>3. \A q \in Runs : hold'[q] \subseteq hold[q] /\ cur[r] \notin hold'[q]
    BY <2>1, <1>0
  <2> QED BY <2>1, <2>2, <2>3, <1>0, <1>a
<1>5. ASSUME NEW r \in Runs, Finish(r) \/ Stop(r) \/ Crash(r)
      PROVE  LeaseOK' /\ OneHolder'
  <2>1. /\ \A q \in Runs \ {r} : hold'[q] = hold[q] /\ age'[q] = age[q]
        /\ hold'[r] = {} /\ left' = left
    BY <1>5, <1>0 DEF Finish, Stop, Crash, Return, TypeOK
  <2>2. \A m \in Mails : status[m] = "pending" => status'[m] = status[m]
    BY <1>5, <1>0 DEF Finish, Stop, Crash, Prunable
  <2> QED BY <2>1, <2>2, <1>0, <1>a
<1>6. CASE Tick
  <2>1. UNCHANGED <<hold, status>>
    BY <1>6 DEF Tick
  <2>2. \A q \in Runs : hold[q] # {} => age'[q] = age[q] + 1
    BY <1>6, <1>0 DEF Tick, TypeOK
  <2>3. \A m \in Mails : left'[m] >= left[m] - 1 /\ left'[m] \in Nat
    BY <1>6, <1>0 DEF Tick
  <2> QED BY <2>1, <2>2, <2>3, <1>0
<1>7. CASE UNCHANGED vars
  BY <1>7, <1>0 DEF vars, rowVars, runVars
<1> QED BY <1>1, <1>2, <1>3, <1>4, <1>5, <1>6, <1>7 DEF Next

LEMMA LossStep == TypeOK /\ NoSilentLoss /\ [Next]_vars => NoSilentLoss'
<1> SUFFICES ASSUME TypeOK, NoSilentLoss, [Next]_vars PROVE NoSilentLoss'
  OBVIOUS
<1>0. /\ TypeOK /\ NoSilentLoss /\ MaxAttempts \in Nat
      /\ attempts \in [Mails -> 0..MaxAttempts]
  BY SettingAssumption DEF TypeOK
<1> USE DEF NoSilentLoss
<1>1. ASSUME NEW m \in Mails, EnqueueEmail(m) PROVE NoSilentLoss'
  BY <1>1, <1>0 DEF EnqueueEmail, runVars, TypeOK
<1>2. ASSUME NEW r \in Runs, ClaimPendingEmails(r) PROVE NoSilentLoss'
  <2>1. UNCHANGED <<status, cur, accepted>>
        /\ \A q \in Runs : st'[q] = "sent" => st[q] = "sent"
    BY <1>2, <1>0 DEF ClaimPendingEmails, TypeOK
  <2>2. \A m \in Mails : attempts[m] = MaxAttempts => attempts'[m] = MaxAttempts
    BY <1>2, <1>0 DEF ClaimPendingEmails
  <2> QED BY <2>1, <2>2, <1>0
<1>3. ASSUME NEW r \in Runs, NEW m \in Mails, Send(r, m) PROVE NoSilentLoss'
  <2>1. accepted \subseteq accepted' /\ UNCHANGED <<status, attempts>>
    BY <1>3 DEF Send, rowVars
  <2>2. \A q \in Runs : st'[q] = "sent" => cur'[q] \in accepted'
    BY <1>3, <1>0, <2>1 DEF Send, TypeOK
  <2> QED BY <2>1, <2>2, <1>0
<1>4. ASSUME NEW r \in Runs,
             MarkEmailSent(r) \/ RecordFailure(r) \/ OutcomeLost(r)
      PROVE  NoSilentLoss'
  <2>1. /\ \A q \in Runs : st'[q] = "sent" => st[q] = "sent" /\ cur'[q] = cur[q]
        /\ UNCHANGED <<attempts, accepted>>
    BY <1>4, <1>0 DEF MarkEmailSent, RecordFailure, OutcomeLost, NextRow,
                      rowVars, TypeOK
  <2>2. \A m \in Mails :
            \/ status'[m] = status[m]
            \/ status'[m] = "sent" /\ m \in accepted
            \/ status'[m] = "failed" /\ attempts[m] = MaxAttempts
    BY <1>4, <1>0 DEF MarkEmailSent, RecordFailure, OutcomeLost, rowVars, TypeOK
  <2> QED BY <2>1, <2>2, <1>0
<1>5. ASSUME NEW r \in Runs, Finish(r) \/ Stop(r) \/ Crash(r)
      PROVE  NoSilentLoss'
  <2>1. /\ \A q \in Runs : st'[q] = "sent" => st[q] = "sent" /\ cur'[q] = cur[q]
        /\ UNCHANGED <<attempts, accepted>>
    BY <1>5, <1>0 DEF Finish, Stop, Crash, Return, TypeOK
  <2>2. \A m \in Mails :
            \/ status'[m] = status[m]
            \/ status'[m] = "pruned" /\ status[m] \in {"sent", "failed"}
    BY <1>5, <1>0 DEF Finish, Stop, Crash, Prunable, TypeOK
  <2> QED BY <2>1, <2>2, <1>0
<1>6. CASE Tick
  BY <1>6, <1>0 DEF Tick
<1>7. CASE UNCHANGED vars
  BY <1>7, <1>0 DEF vars, rowVars, runVars
<1> QED BY <1>1, <1>2, <1>3, <1>4, <1>5, <1>6, <1>7 DEF Next

\* Invariance of the inductive invariant.  Where a run returns within one
\* interval of its cancellation, the lease keeps every two runs apart and no
\* mail is given up in silence.
THEOREM Invariance == ASSUME Grace < Interval PROVE Spec => []IndInv
<1>1. IndInv /\ [Next]_vars => IndInv'
  BY TypeStep, HolderStep, LossStep DEF IndInv
<1> QED BY InitIndInv, <1>1, PTL DEF Spec

\* No row is in the hands of two runs of the job at once.
THEOREM SingleHolder == ASSUME Grace < Interval PROVE Spec => []OneHolder
<1>1. IndInv => OneHolder
  BY DEF IndInv
<1> QED BY Invariance, <1>1, PTL

\* What MarkEmailSent, MarkEmailFailed and PruneEmailOutbox record is never
\* undone, although the statements ask for the id of the row and no more.
THEOREM Final == ASSUME Grace < Interval PROVE Spec => OutcomeIsFinal
<1> DEFINE Keeps == \A m \in Mails : Terminal(m) =>
            status'[m] \in {status[m], "pruned"} /\ attempts'[m] = attempts[m]
<1>1. IndInv /\ [Next]_vars => [Keeps]_vars
  <2> SUFFICES ASSUME IndInv, Next, NEW m \in Mails, Terminal(m)
               PROVE  /\ status'[m] \in {status[m], "pruned"}
                      /\ attempts'[m] = attempts[m]
    OBVIOUS
  <2>0. TypeOK /\ \A r \in Runs : m \notin hold[r]
    BY DEF IndInv, LeaseOK, Terminal
  <2>1. CASE \E k \in Mails : EnqueueEmail(k)
    BY <2>1, <2>0 DEF EnqueueEmail, Terminal, TypeOK
  <2>2. ASSUME NEW r \in Runs, ClaimPendingEmails(r)
        PROVE  status'[m] = status[m] /\ attempts'[m] = attempts[m]
    <3>1. m \notin Due
      BY DEF Due, Terminal
    <3> QED BY <3>1, <2>2, <2>0 DEF ClaimPendingEmails, TypeOK
  <2>3. ASSUME NEW r \in Runs, NEW k \in Mails, Send(r, k)
        PROVE  status'[m] = status[m] /\ attempts'[m] = attempts[m]
    BY <2>3 DEF Send, rowVars
  <2>4. ASSUME NEW r \in Runs,
               MarkEmailSent(r) \/ RecordFailure(r) \/ OutcomeLost(r)
        PROVE  status'[m] = status[m] /\ attempts'[m] = attempts[m]
    <3>1. cur[r] # m
      BY <2>4, <2>0 DEF MarkEmailSent, RecordFailure, OutcomeLost, TypeOK
    <3> QED BY <3>1, <2>4, <2>0
            DEF MarkEmailSent, RecordFailure, OutcomeLost, rowVars, TypeOK
  <2>5. ASSUME NEW r \in Runs, Finish(r) \/ Stop(r) \/ Crash(r)
        PROVE  status'[m] \in {status[m], "pruned"} /\ attempts'[m] = attempts[m]
    BY <2>5, <2>0 DEF Finish, Stop, Crash, Return, TypeOK
  <2>6. CASE Tick
    BY <2>6 DEF Tick
  <2> QED BY <2>1, <2>2, <2>3, <2>4, <2>5, <2>6 DEF Next
<1> QED BY Invariance, <1>1, PTL DEF Spec, OutcomeIsFinal

\* A mail is never dropped in silence.  Unlike the others this result needs
\* no assumption on the settings: it holds even where two runs meet on a row.
THEOREM NoLoss == Spec => []NoSilentLoss
<1>1. Init => TypeOK /\ NoSilentLoss
  BY InitIndInv DEF IndInv
<1>2. TypeOK /\ NoSilentLoss /\ [Next]_vars => TypeOK' /\ NoSilentLoss'
  BY TypeStep, LossStep
<1> QED BY <1>1, <1>2, PTL DEF Spec

=============================================================================
