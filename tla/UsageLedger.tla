---------------------------- MODULE UsageLedger ----------------------------
(***************************************************************************)
(* Metering of one organization's tool calls.  The gateway counts this     *)
(* month's usage_events against the plan's cap before it dispatches a      *)
(* call, and writes the call's row only after it has run.  The             *)
(* usage-rollup job recounts whole months into usage_rollups and prunes    *)
(* old rows, in that order, while calls keep landing; a run may fail at    *)
(* any statement, and runs may overlap when the job lock expired.          *)
(*                                                                         *)
(* Months are given by their first instants, so they may have different    *)
(* lengths.  Not modelled: the split of a rollup by tool, the audit row    *)
(* written beside the usage row and the drift log that compares the two,   *)
(* which no step reads, and the clock difference between the worker and    *)
(* the database.                                                           *)
(***************************************************************************)
EXTENDS Integers, FiniteSets

CONSTANTS
    Calls,          \* tools/call requests, each made once
    MaxInFlight,    \* bound: calls past the quota check at any time
    Runs,           \* executions of the job that may be alive together
    Limit,          \* max_tool_calls_per_month, -1 for unlimited
    Starts,         \* first instants of the calendar months
    Lookback,       \* rollupLookbackMonths
    Retention,      \* USAGE_EVENTS_RETENTION
    RollupInterval, \* USAGE_ROLLUP_INTERVAL
    BatchSize,      \* USAGE_ROLLUP_BATCH_SIZE
    MaxBatches,     \* maxPruneBatches
    MaxTime         \* bound: the last instant

Time == 0..MaxTime

ASSUME MeteringAssumption ==
    /\ IsFiniteSet(Calls)
    /\ {MaxInFlight, Lookback, Retention, RollupInterval, BatchSize, MaxBatches} \subseteq Nat \ {0}
    /\ Limit \in Nat \cup {-1}
    /\ MaxTime \in Nat /\ Retention <= MaxTime

\* Every instant lies in a month, and every month is followed by another.
ASSUME CalendarAssumption ==
    /\ Starts \subseteq Nat
    /\ \A t \in Time : \E p \in Starts : p <= t /\ \A q \in Starts : q <= t => q <= p
    /\ \A t \in Time : \E q \in Starts : t < q /\ \A r \in Starts : t < r => q <= r

VARIABLES
    now,
    call,       \* "new", "counted", "running", "done"
    at,         \* occurred_at of the row a call left
    events,     \* usage_events: the calls whose row is there
    rollup,     \* usage_rollups: month -> call_count, 0 for no row
    pc,         \* where a run of the job is: "idle", "rollup", "prune"
    since,      \* the lower bound the run computed when it began
    batches,    \* prune batches of the run so far
    ledger,     \* history: every call whose row was ever written
    overdue,    \* history: instants since a rollup committed, at most RollupInterval
    open, late, overlap  \* history, 0 or 1: a count failed and the call was
                         \* let through; no rollup for more than a RollupInterval;
                         \* two runs were alive together

gateway == <<call, at, ledger, open>>
job == <<pc, since, batches, overdue, overlap>>
vars == <<now, events, rollup, late, gateway, job>>

\* date_trunc('month', t)
MonthStart(t) == CHOOSE p \in Starts : p <= t /\ \A q \in Starts : q <= t => q <= p

\* AddDate(0, 1, 0) of the first of a month.
NextMonth(p) == CHOOSE q \in Starts : p < q /\ \A r \in Starts : p < r => q <= r

\* The first of the month n months before t's; 0 before the calendar begins.
MonthsBack(n, t) ==
    LET Months(p) == {q \in Starts : p < q /\ q <= t}
        P == {p \in Starts : p <= t /\ Cardinality(Months(p)) = n}
    IN  IF P = {} THEN 0 ELSE CHOOSE p \in P : TRUE

\* The length of the month that began at p.
Length(p) == NextMonth(p) - p

Cutoff(t) == t - Retention

\* The first month that began at or after the cutoff: the oldest whole one.
Floor(t) == IF MonthStart(Cutoff(t)) < Cutoff(t)
            THEN NextMonth(MonthStart(Cutoff(t)))
            ELSE MonthStart(Cutoff(t))

\* Mutant: only the month that is open.
OpenMonthOnly(t) == IF MonthStart(t) < Floor(t) THEN Floor(t) ELSE MonthStart(t)

rollupSince(t) == LET lookback == MonthsBack(Lookback - 1, t)
                  IN  IF lookback < Floor(t) THEN Floor(t) ELSE lookback

\* The rows of C that occurred in the month that began at p.
InMonth(C, p) == {c \in C : MonthStart(at[c]) = p}

CountUsageEventsForOrgSince(t) == Cardinality({c \in events : t <= at[c]})

\* Mutant: the limit itself still passes.
EnforceLimitOffByOne(n) == Limit = -1 \/ n <= Limit

EnforceLimit(n) == Limit = -1 \/ n < Limit

InFlight == {c \in Calls : call[c] \in {"counted", "running"}}

Init ==
    /\ now = Retention
    /\ call = [c \in Calls |-> "new"]
    /\ at = [c \in Calls |-> 0]
    /\ events = {} /\ ledger = {}
    /\ rollup = [p \in Starts |-> 0]
    /\ pc = [r \in Runs |-> "idle"]
    /\ since = [r \in Runs |-> 0]
    /\ batches = [r \in Runs |-> 0]
    /\ overdue = 0
    /\ open = 0 /\ late = 0 /\ overlap = 0

Advance(c, from, to) == /\ call[c] = from
                        /\ call' = [call EXCEPT ![c] = to]

\* The count is below the cap: the call goes on to the rate limiter.
PassQuota(c) ==
    /\ Cardinality(InFlight) < MaxInFlight
    /\ EnforceLimit(CountUsageEventsForOrgSince(MonthStart(now)))
    /\ Advance(c, "new", "counted")
    /\ UNCHANGED <<now, events, rollup, late, at, ledger, open, job>>

RefuseQuota(c) ==
    /\ ~EnforceLimit(CountUsageEventsForOrgSince(MonthStart(now)))
    /\ Advance(c, "new", "done")
    /\ UNCHANGED <<now, events, rollup, late, at, ledger, open, job>>

\* The count or the plan could not be read: the call is let through.
FailOpen(c) ==
    /\ Cardinality(InFlight) < MaxInFlight
    /\ Advance(c, "new", "counted")
    /\ open' = 1
    /\ UNCHANGED <<now, events, rollup, late, at, ledger, job>>

Dispatch(c) ==
    /\ Advance(c, "counted", "running")
    /\ UNCHANGED <<now, events, rollup, late, at, ledger, open, job>>

\* The bucket is empty or Redis does not answer; nothing is recorded.
RefuseRate(c) ==
    /\ Advance(c, "counted", "done")
    /\ UNCHANGED <<now, events, rollup, late, at, ledger, open, job>>

\* occurred_at is the database's time of the insert, after the call ran.
recordUsage(c) ==
    /\ Advance(c, "running", "done")
    /\ at' = [at EXCEPT ![c] = now]
    /\ events' = events \cup {c}
    /\ ledger' = ledger \cup {c}
    /\ UNCHANGED <<now, rollup, late, open, job>>

\* The insert fails, or the process dies before it.
DropUsage(c) ==
    /\ Advance(c, "running", "done")
    /\ UNCHANGED <<now, events, rollup, late, at, ledger, open, job>>

\* The window is computed from the clock before the first statement.
Run(r) ==
    /\ pc[r] = "idle"
    /\ pc' = [pc EXCEPT ![r] = "rollup"]
    /\ since' = [since EXCEPT ![r] = rollupSince(now)]
    /\ overlap' = IF \E o \in Runs : pc[o] # "idle" THEN 1 ELSE overlap
    /\ UNCHANGED <<now, events, rollup, late, gateway, batches, overdue>>

\* Mutant: the recount is added to what is there.
RollupAdds(r) ==
    /\ pc[r] = "rollup"
    /\ LET rows == {c \in events : since[r] <= at[c]}
       IN  rollup' = [p \in Starts |-> rollup[p] + Cardinality(InMonth(rows, p))]
    /\ pc' = [pc EXCEPT ![r] = "prune"]
    /\ overdue' = 0
    /\ UNCHANGED <<now, events, late, gateway, since, batches, overlap>>

\* Every month of the window that has rows is recounted and overwritten.
RollupUsageEvents(r) ==
    /\ pc[r] = "rollup"
    /\ LET rows == {c \in events : since[r] <= at[c]}
       IN  rollup' = [p \in Starts |-> IF InMonth(rows, p) = {} THEN rollup[p]
                                       ELSE Cardinality(InMonth(rows, p))]
    /\ pc' = [pc EXCEPT ![r] = "prune"]
    /\ overdue' = 0
    /\ UNCHANGED <<now, events, late, gateway, since, batches, overlap>>

\* The run is over; its locals are gone.
End(r) ==
    /\ pc' = [pc EXCEPT ![r] = "idle"]
    /\ since' = [since EXCEPT ![r] = 0]
    /\ batches' = [batches EXCEPT ![r] = 0]

Expired == {c \in events : at[c] < Cutoff(now)}

\* One DELETE of at most BatchSize rows, whichever the scan meets first.
PruneUsageEvents(r) ==
    /\ pc[r] = "prune"
    /\ \E D \in SUBSET Expired :
        /\ events' = events \ D
        /\ \/ /\ D = Expired /\ Cardinality(D) < BatchSize
              /\ End(r)
           \/ /\ Cardinality(D) = BatchSize
              /\ batches[r] + 1 = MaxBatches
              /\ End(r)
           \/ /\ Cardinality(D) = BatchSize
              /\ batches[r] + 1 < MaxBatches
              /\ batches' = [batches EXCEPT ![r] = @ + 1]
              /\ UNCHANGED <<pc, since>>
    /\ UNCHANGED <<now, rollup, late, gateway, overdue, overlap>>

\* A statement fails, the timeout strikes or the worker dies; what committed
\* stays.
Abort(r) ==
    /\ pc[r] # "idle"
    /\ End(r)
    /\ UNCHANGED <<now, events, rollup, late, gateway, overdue, overlap>>

Tick ==
    /\ now < MaxTime
    /\ now' = now + 1
    /\ overdue' = IF overdue < RollupInterval THEN overdue + 1 ELSE overdue
    /\ late' = IF overdue = RollupInterval THEN 1 ELSE late
    /\ UNCHANGED <<events, rollup, gateway, pc, since, batches, overlap>>

GatewayStep(c) ==
    \/ PassQuota(c)
    \/ RefuseQuota(c)
    \/ FailOpen(c)
    \/ Dispatch(c)
    \/ RefuseRate(c)
    \/ recordUsage(c)
    \/ DropUsage(c)

JobStep(r) ==
    \/ Run(r)
    \/ RollupUsageEvents(r)
    \/ PruneUsageEvents(r)
    \/ Abort(r)

Next ==
    \/ Tick
    \/ \E c \in Calls : GatewayStep(c)
    \/ \E r \in Runs : JobStep(r)

Spec == Init /\ [][Next]_vars

-----------------------------------------------------------------------------

\* Every variable has the type of the column or local it stands for, and
\* usage_events holds only rows that were written.
TypeOK ==
    /\ now \in Time /\ Retention <= now
    /\ call \in [Calls -> {"new", "counted", "running", "done"}]
    /\ at \in [Calls -> Time]
    /\ events \subseteq ledger /\ ledger \subseteq Calls
    /\ rollup \in [Starts -> Nat]
    /\ pc \in [Runs -> {"idle", "rollup", "prune"}]
    /\ since \in [Runs -> Starts]
    /\ batches \in [Runs -> Nat]
    /\ overdue \in 0..RollupInterval
    /\ {open, late, overlap} \subseteq {0, 1}

\* RollupUsageEvents overwrites and does not add: however often it runs and
\* whatever it overlaps, a rollup never claims more calls than were recorded
\* in its month.
NeverOvercounts == \A p \in Starts : rollup[p] <= Cardinality(InMonth(ledger, p))

\* A row is pruned only past the retention, and a run that has yet to roll up
\* recounts no month that the prune has touched, unless runs overlapped.
WindowIsWhole ==
    \A c \in ledger \ events :
        /\ at[c] < Cutoff(now)
        /\ overlap = 1 \/ \A r \in Runs : pc[r] = "rollup" => at[c] < since[r]

\* The months the model lives through, and what the bound below assumes.
Months == {p \in Starts : p <= MaxTime}

QuotaPremise == open = 0 /\ Limit # -1 /\ \A p \in Months : Length(p) <= Retention

\* The cap is exceeded by no more than the calls that were in flight when the
\* last one was admitted: the count lags behind the calls it has let through.
\* A failed count lets any number through, and with a retention shorter than
\* a month the prune forgets calls of the month being counted.
QuotaOvershootBounded ==
    QuotaPremise =>
        \A p \in Starts : Cardinality(InMonth(ledger, p)) < Limit + MaxInFlight

\* What has landed and what is in flight this month stay within the cap and
\* the calls that may be in flight.
Headroom ==
    QuotaPremise =>
        /\ Cardinality(InMonth(ledger, MonthStart(now))) + Cardinality(InFlight) < Limit + MaxInFlight
        /\ Limit = 0 => InFlight = {}

\* No row is dated in the future, and only a call that is done has one.
RowsOfDoneCalls == \A c \in ledger : at[c] <= now /\ call[c] = "done"

OneRun == overlap = 0 => \A r, o \in Runs : pc[r] # "idle" /\ pc[o] # "idle" => r = o

\* The inductive invariant.
IndInv ==
    /\ TypeOK
    /\ NeverOvercounts
    /\ WindowIsWhole
    /\ RowsOfDoneCalls
    /\ OneRun
    /\ Cardinality(InFlight) <= MaxInFlight
    /\ Headroom
    /\ QuotaOvershootBounded

\* Billing history is durable: what a month's rollup says is never taken
\* back, whatever the retention, as long as runs do not overlap.
RollupNeverShrinks ==
    [][overlap' = 0 => \A p \in Starts : rollup[p] <= rollup'[p]]_vars

\* A row leaves usage_events only after the rollup of its month has counted
\* every call of that month, provided a rollup commits in every RollupInterval,
\* runs do not overlap, and the retention leaves room for the month and one
\* RollupInterval.
PrunedIsCounted ==
    \A c \in ledger \ events :
        LET p == MonthStart(at[c])
        IN  (late = 0 /\ overlap = 0 /\ Length(p) + RollupInterval <= Retention)
            => rollup[p] = Cardinality(InMonth(ledger, p))

=============================================================================
