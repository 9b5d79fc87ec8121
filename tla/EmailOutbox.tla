----------------------------- MODULE EmailOutbox -----------------------------
(***************************************************************************)
(* The email_outbox table and the email-dispatch job that drains it.  A    *)
(* run claims a batch of due rows by pushing next_attempt_at forward (the  *)
(* lease), sends them one after the other and records each outcome.  Runs  *)
(* of several replicas may overlap (see JobLock), and nothing in the       *)
(* statements but the lease keeps them off each other's rows: every        *)
(* outcome is recorded with WHERE id = $1 alone.                           *)
(*                                                                         *)
(* Time is counted in ticks.  The context of a run is cancelled Timeout    *)
(* ticks after its start; a run returns at most Grace ticks later, since   *)
(* the outcome of a failed send is written with a context that is not      *)
(* cancelled.  Not modelled: addresses, bodies and error texts, and the    *)
(* order of the rows in a batch.  A claimed row is pending, and a pending  *)
(* row has its body, so the branch for a missing body is not reachable.    *)
(***************************************************************************)
EXTENDS Naturals, FiniteSets

CONSTANTS
    Mails,         \* rows of email_outbox, by id
    Runs,          \* runs of the job that may be in progress at one time
    Timeout,       \* WORKER_JOB_TIMEOUT
    Interval,      \* EMAIL_DISPATCH_INTERVAL
    MinLease,      \* minLeaseSeconds
    Grace,         \* ticks a cancelled run takes to return
    BatchSize,     \* EMAIL_DISPATCH_BATCH_SIZE
    MaxAttempts,   \* EMAIL_MAX_ATTEMPTS
    BaseBackoff, MaxBackoff, MaxBackoffShift,
    None

ASSUME MailAssumption == None \notin Mails

ASSUME SettingAssumption ==
    /\ Timeout \in Nat \ {0} /\ Interval \in Nat \ {0}
    /\ MinLease \in Nat /\ Grace \in Nat
    /\ BatchSize \in Nat \ {0} /\ MaxAttempts \in Nat \ {0}
    /\ BaseBackoff \in Nat \ {0} /\ MaxBackoff \in Nat \ {0}
    /\ MaxBackoffShift \in Nat

VARIABLES
    status,     \* "none", "pending", "sent", "failed" or "pruned"
    attempts,   \* attempts column; all values from MaxAttempts on are one
    left,       \* ticks until next_attempt_at
    st,         \* what a run does next: "idle", "loop", "sent" or "err"
    hold,       \* rows a run has claimed and not finished with
    cur,        \* the row it is sending
    age,        \* ticks since the run started
    accepted    \* mails the provider has taken, by idempotency key

rowVars == <<status, attempts, left>>
runVars == <<st, hold, cur, age>>
vars == <<rowVars, runVars, accepted>>

leaseSeconds ==
    LET lease == Timeout + Interval IN
    IF lease < MinLease THEN MinLease ELSE lease

\* attempts is the count after the claim, so the first failure waits
\* BaseBackoff.
backoffFor(n) ==
    LET d == BaseBackoff * 2^(n - 1) IN
    IF n - 1 <= MaxBackoffShift /\ d \in 1..MaxBackoff THEN d ELSE MaxBackoff

Due == {m \in Mails : status[m] = "pending" /\ left[m] = 0}

Terminal(m) == status[m] \in {"sent", "failed", "pruned"}

Cancelled(r) == age[r] >= Timeout

Init ==
    /\ status = [m \in Mails |-> "none"]
    /\ attempts = [m \in Mails |-> 0]
    /\ left = [m \in Mails |-> 0]
    /\ st = [r \in Runs |-> "idle"]
    /\ hold = [r \in Runs |-> {}]
    /\ cur = [r \in Runs |-> None]
    /\ age = [r \in Runs |-> 0]
    /\ accepted = {}

-----------------------------------------------------------------------------
\* EnqueueEmail, in the transaction of the handler that causes the mail.
EnqueueEmail(m) ==
    /\ status[m] = "none"
    /\ status' = [status EXCEPT ![m] = "pending"]
    /\ UNCHANGED <<attempts, left, runVars, accepted>>

\* Mutant: the lease is one interval, whatever a run may take.
ClaimShortLease(r) ==
    /\ st[r] = "idle"
    /\ \E S \in SUBSET Due :
        /\ Cardinality(S) <= BatchSize
        /\ Cardinality(S) < BatchSize => S = Due
        /\ attempts' = [m \in Mails |->
                IF m \in S /\ attempts[m] < MaxAttempts THEN attempts[m] + 1
                ELSE attempts[m]]
        /\ left' = [m \in Mails |-> IF m \in S THEN Interval ELSE left[m]]
        /\ hold' = [hold EXCEPT ![r] = S]
    /\ st' = [st EXCEPT ![r] = "loop"]
    /\ age' = [age EXCEPT ![r] = 0]
    /\ UNCHANGED <<status, cur, accepted>>

\* Run up to the claim, which is one statement: FOR UPDATE SKIP LOCKED gives
\* two claims at once different rows.  A claim that finds nothing is a run
\* that only prunes.  A claim whose answer is lost is a claim and a Crash.
ClaimPendingEmails(r) ==
    /\ st[r] = "idle"
    /\ \E S \in SUBSET Due :
        /\ Cardinality(S) <= BatchSize
        /\ Cardinality(S) < BatchSize => S = Due
        /\ attempts' = [m \in Mails |->
                IF m \in S /\ attempts[m] < MaxAttempts THEN attempts[m] + 1
                ELSE attempts[m]]
        /\ left' = [m \in Mails |-> IF m \in S THEN leaseSeconds ELSE left[m]]
        /\ hold' = [hold EXCEPT ![r] = S]
    /\ st' = [st EXCEPT ![r] = "loop"]
    /\ age' = [age EXCEPT ![r] = 0]
    /\ UNCHANGED <<status, cur, accepted>>

\* One sender.Send.  An error does not mean that the provider did not take
\* the mail.
Send(r, m) ==
    /\ st[r] = "loop" /\ m \in hold[r]
    /\ ~Cancelled(r)
    /\ cur' = [cur EXCEPT ![r] = m]
    /\ \/ /\ st' = [st EXCEPT ![r] = "sent"]
          /\ accepted' = accepted \cup {m}
       \/ /\ st' = [st EXCEPT ![r] = "err"]
          /\ accepted' \in {accepted, accepted \cup {m}}
    /\ UNCHANGED <<rowVars, hold, age>>

\* The run goes on to its next row.
NextRow(r) ==
    /\ st' = [st EXCEPT ![r] = "loop"]
    /\ hold' = [hold EXCEPT ![r] = @ \ {cur[r]}]
    /\ cur' = [cur EXCEPT ![r] = None]
    /\ UNCHANGED <<age, accepted>>

\* MarkEmailSent, with the context of the run.
MarkEmailSent(r) ==
    /\ st[r] = "sent"
    /\ ~Cancelled(r)
    /\ status' = [status EXCEPT ![cur[r]] = "sent"]
    /\ NextRow(r)
    /\ UNCHANGED <<attempts, left>>

\* Mutant: a row is retried whatever its budget.
RescheduleAlways(r) ==
    /\ st[r] = "err"
    /\ left' = [left EXCEPT ![cur[r]] = backoffFor(attempts[cur[r]])]
    /\ NextRow(r)
    /\ UNCHANGED <<status, attempts>>

\* markFailed once the budget is spent, reschedule before; both detached
\* from the context of the run.  The count is the one the claim returned,
\* and still that of the row while one run holds it (OneHolder).
RecordFailure(r) ==
    /\ st[r] = "err"
    /\ IF attempts[cur[r]] >= MaxAttempts
       THEN /\ status' = [status EXCEPT ![cur[r]] = "failed"]
            /\ UNCHANGED left
       ELSE /\ left' = [left EXCEPT ![cur[r]] = backoffFor(attempts[cur[r]])]
            /\ UNCHANGED status
    /\ NextRow(r)
    /\ UNCHANGED attempts

\* The statement that records an outcome fails: it is logged, and the lease
\* of the row runs on.
OutcomeLost(r) ==
    /\ st[r] \in {"sent", "err"}
    /\ NextRow(r)
    /\ UNCHANGED rowVars

\* Mutant: pending rows are pruned too.
PrunableAny == {m \in Mails : status[m] # "none"}

\* Rows of PruneEmailOutbox; any of them may be older than the retention.
Prunable == {m \in Mails : status[m] \in {"sent", "failed"}}

Return(r) ==
    /\ st' = [st EXCEPT ![r] = "idle"]
    /\ hold' = [hold EXCEPT ![r] = {}]
    /\ cur' = [cur EXCEPT ![r] = None]
    /\ age' = [age EXCEPT ![r] = 0]
    /\ UNCHANGED <<attempts, left, accepted>>

\* The end of Run: maybePrune may be throttled, capped or fail, and deletes
\* some of the rows it may delete.
Finish(r) ==
    /\ st[r] = "loop" /\ hold[r] = {}
    /\ \E P \in SUBSET Prunable :
        status' = [m \in Mails |-> IF m \in P THEN "pruned" ELSE status[m]]
    /\ Return(r)

\* The loop stops at a cancelled context and leaves its rows to the lease.
Stop(r) ==
    /\ st[r] = "loop" /\ hold[r] # {}
    /\ Cancelled(r)
    /\ Return(r)
    /\ UNCHANGED status

\* The process dies.
Crash(r) ==
    /\ st[r] # "idle"
    /\ Return(r)
    /\ UNCHANGED status

Tick ==
    /\ \A r \in Runs : st[r] # "idle" => age[r] < Timeout + Grace
    /\ left' = [m \in Mails |-> IF left[m] > 0 THEN left[m] - 1 ELSE 0]
    /\ age' = [r \in Runs |-> IF st[r] = "idle" THEN 0 ELSE age[r] + 1]
    /\ UNCHANGED <<status, attempts, st, hold, cur, accepted>>

Next ==
    \/ \E m \in Mails : EnqueueEmail(m)
    \/ \E r \in Runs :
        \/ ClaimPendingEmails(r)
        \/ \E m \in Mails : Send(r, m)
        \/ MarkEmailSent(r)
        \/ RecordFailure(r)
        \/ OutcomeLost(r)
        \/ Finish(r)
        \/ Stop(r)
        \/ Crash(r)
    \/ Tick

Spec == Init /\ [][Next]_vars

\* Time passes and a run in progress moves on.  Crashes and failing writes
\* may happen at any time, but not every time a row gets as far as its send,
\* or as the record of the outcome.
Fairness ==
    /\ WF_vars(Tick)
    /\ \A r \in Runs :
        /\ WF_vars(ClaimPendingEmails(r))
        /\ WF_vars(Finish(r) \/ Stop(r))
        /\ WF_vars(OutcomeLost(r))
    /\ \A m \in Mails :
        /\ SF_vars(\E r \in Runs : Send(r, m))
        /\ SF_vars(\E r \in Runs : cur[r] = m /\ MarkEmailSent(r))
        /\ SF_vars(\E r \in Runs : cur[r] = m /\ RecordFailure(r))

FairSpec == Spec /\ Fairness

-----------------------------------------------------------------------------
(* Properties *)

\* Types, and that a run that is past its claim has the rows it works on.
TypeOK ==
    /\ status \in [Mails -> {"none", "pending", "sent", "failed", "pruned"}]
    /\ attempts \in [Mails -> 0..MaxAttempts]
    /\ left \in [Mails -> Nat]
    /\ st \in [Runs -> {"idle", "loop", "sent", "err"}]
    /\ hold \in [Runs -> SUBSET Mails]
    /\ cur \in [Runs -> Mails \cup {None}]
    /\ age \in [Runs -> 0..(Timeout + Grace)]
    /\ accepted \subseteq Mails
    /\ \A r \in Runs :
        /\ st[r] = "idle" => hold[r] = {}
        /\ st[r] \in {"sent", "err"} => cur[r] \in hold[r]

\* The lease of a claimed row outlives the run that claimed it.
LeaseOK ==
    \A r \in Runs : \A m \in hold[r] :
        status[m] = "pending" /\ left[m] + age[r] >= leaseSeconds

\* No row is in the hands of two runs: no second send while the first is on
\* its way, and no outcome recorded over another one.  It needs Grace to be
\* less than Interval.
OneHolder ==
    \A r, q \in Runs : r # q => hold[r] \cap hold[q] = {}

\* No mail is lost in silence: a row that is recorded as sent was taken by
\* the provider, and a row that is given up, or gone from the table, was
\* taken by the provider or had its whole budget of attempts.
NoSilentLoss ==
    /\ \A m \in Mails :
        /\ status[m] = "sent" => m \in accepted
        /\ status[m] \in {"failed", "pruned"} =>
                m \in accepted \/ attempts[m] = MaxAttempts
    /\ \A r \in Runs : st[r] = "sent" => cur[r] \in accepted

\* The inductive invariant behind OneHolder, OutcomeIsFinal and NoSilentLoss.
IndInv == TypeOK /\ LeaseOK /\ OneHolder /\ NoSilentLoss

\* What the job recorded stands: a row marked sent is not marked failed by a
\* late run, nor the other way round, and neither is ever claimed again.
OutcomeIsFinal ==
    [][\A m \in Mails : Terminal(m) =>
            status'[m] \in {status[m], "pruned"} /\ attempts'[m] = attempts[m]]_vars

\* There is no stuck state: a queued mail is sent or given up in the end.
EveryMailSettles == \A m \in Mails : status[m] = "pending" ~> Terminal(m)

=============================================================================
