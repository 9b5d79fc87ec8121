------------------------------- MODULE JobLock -------------------------------
(***************************************************************************)
(* The scheduler of the worker: every replica runs the same job on its own *)
(* ticker, and a Redis key with a TTL decides which of them really runs    *)
(* it.  One job is modelled; jobs have different keys and do not meet.     *)
(*                                                                         *)
(* Time is counted in ticks.  A run ends within MaxRun ticks: the job      *)
(* timeout, plus what the job needs to return once it is cancelled.  The   *)
(* statistics of the jobs and the health endpoint are left out.            *)
(***************************************************************************)
EXTENDS Naturals

CONSTANTS
    Replicas,   \* worker processes
    Interval,   \* Job.Interval()
    Fraction,   \* the part of the interval the lock leaves free; 10 in lockTTL
    MaxRun,     \* WORKER_JOB_TIMEOUT, and the time to return after it
    None,       \* no key
    Orphan      \* owner id of a process that is gone

ASSUME OwnerAssumption ==
    None \notin Replicas /\ Orphan \notin Replicas /\ None # Orphan

ASSUME TimeAssumption ==
    /\ Interval \in Nat \ {0}
    /\ Fraction \in Nat \ {0}
    /\ MaxRun \in Nat \ {0}

VARIABLES
    holder,    \* value of the lock key
    left,      \* ticks until the key expires
    st,        \* "down", "wait" (in the select of loop) or "run"
    timer,     \* ticks until a replica's ticker fires; Interval if it is down
    due,       \* replicas about to call tryRun: at start, or a tick in ticker.C
    age,       \* ticks since the current run of a replica started, or 0
    \* history
    gap,       \* ticks since the last run that did not fail, up to Interval
    last,      \* the value of gap when the latest run started
    exposed    \* replicas whose lock was lost with Redis' data during a run

lockVars == <<holder, left>>
workerVars == <<lockVars, st, timer, due, age, gap, last, exposed>>

\* Slightly less than a full interval.
lockTTL ==
    LET ttl == Interval - Interval \div Fraction IN
    IF ttl <= 0 THEN Interval ELSE ttl

Running == {p \in Replicas : st[p] = "run"}

-----------------------------------------------------------------------------
\* SET NX EX, when the key is free.
Acquire(p) ==
    /\ holder = None
    /\ holder' = p
    /\ left' = lockTTL

\* Mutant: whoever releases drops the key.
ReleaseAny(p) == holder' = None /\ left' = 0

\* The compare-and-delete script.
Release(p) ==
    /\ holder' = IF holder = p THEN None ELSE holder
    /\ left' = IF holder = p THEN 0 ELSE left

-----------------------------------------------------------------------------
InitLock ==
    /\ holder = None /\ left = 0
    /\ st = [p \in Replicas |-> "down"]
    /\ timer = [p \in Replicas |-> Interval]
    /\ due = {}
    /\ age = [p \in Replicas |-> 0]
    /\ gap = Interval /\ last = Interval
    /\ exposed = {}

\* A process starts with an owner id of its own; loop creates the ticker, which
\* fires after a full interval, and tries a first run.
Boot(p) ==
    /\ st[p] = "down"
    /\ st' = [st EXCEPT ![p] = "wait"]
    /\ due' = due \cup {p}
    /\ UNCHANGED <<lockVars, timer, age, gap, last, exposed>>

\* tryRun with the lock acquired.
Start(p) ==
    /\ st[p] = "wait"
    /\ p \in due
    /\ Acquire(p)
    /\ st' = [st EXCEPT ![p] = "run"]
    /\ age' = [age EXCEPT ![p] = 0]
    /\ due' = due \ {p}
    /\ last' = gap
    /\ gap' = 0
    /\ exposed' = exposed \ {p}
    /\ UNCHANGED timer

\* tryRun with the lock held elsewhere.
Skip(p) ==
    /\ st[p] = "wait"
    /\ p \in due
    /\ holder # None
    /\ due' = due \ {p}
    /\ UNCHANGED <<lockVars, st, timer, age, gap, last, exposed>>

\* tryRun with an error from Redis; the SET may have been applied.
LockError(p) ==
    /\ st[p] = "wait"
    /\ p \in due
    /\ \/ Acquire(p)
       \/ UNCHANGED lockVars
    /\ due' = due \ {p}
    /\ UNCHANGED <<st, timer, age, gap, last, exposed>>

\* Mutant: a successful run releases the key.
SucceedReleases(p) ==
    /\ st[p] = "run"
    /\ st' = [st EXCEPT ![p] = "wait"]
    /\ age' = [age EXCEPT ![p] = 0]
    /\ Release(p)
    /\ UNCHANGED <<timer, due, gap, last, exposed>>

\* A run returns no error: the key stays until it expires.
Succeed(p) ==
    /\ st[p] = "run"
    /\ st' = [st EXCEPT ![p] = "wait"]
    /\ age' = [age EXCEPT ![p] = 0]
    /\ UNCHANGED <<lockVars, timer, due, gap, last, exposed>>

\* A run returns an error or panics: the key is released, if it is still the
\* replica's own.  The release may fail.
Fail(p) ==
    /\ st[p] = "run"
    /\ st' = [st EXCEPT ![p] = "wait"]
    /\ \/ /\ Release(p)
          /\ gap' = IF holder = p THEN Interval ELSE gap
       \/ UNCHANGED <<lockVars, gap>>
    /\ age' = [age EXCEPT ![p] = 0]
    /\ UNCHANGED <<timer, due, last, exposed>>

\* The process dies; its key is left to expire.
Crash(p) ==
    /\ st[p] # "down"
    /\ st' = [st EXCEPT ![p] = "down"]
    /\ due' = due \ {p}
    /\ holder' = IF holder = p THEN Orphan ELSE holder
    /\ timer' = [timer EXCEPT ![p] = Interval]
    /\ age' = [age EXCEPT ![p] = 0]
    /\ UNCHANGED <<left, gap, last, exposed>>

\* Redis loses its data set.
RedisFlush ==
    /\ holder # None
    /\ holder' = None /\ left' = 0
    /\ gap' = Interval
    /\ exposed' = exposed \cup Running
    /\ UNCHANGED <<st, timer, due, age, last>>

\* Mutant: the key has no TTL.
ExpireNever == UNCHANGED lockVars

\* The EX of the SET.
Expire ==
    /\ left' = IF left > 0 THEN left - 1 ELSE 0
    /\ holder' = IF left > 1 THEN holder ELSE None

\* A time.Ticker keeps its period and buffers one tick.
Fired == {p \in Replicas : st[p] # "down" /\ timer[p] = 1}

WorkerTick ==
    /\ \A p \in Running : age[p] < MaxRun
    /\ Expire
    /\ timer' = [p \in Replicas |->
                    IF st[p] = "down" THEN timer[p]
                    ELSE IF timer[p] = 1 THEN Interval ELSE timer[p] - 1]
    /\ due' = due \cup Fired
    /\ age' = [p \in Replicas |-> IF p \in Running THEN age[p] + 1 ELSE age[p]]
    /\ gap' = IF gap < Interval THEN gap + 1 ELSE gap
    /\ UNCHANGED <<st, last, exposed>>

Work ==
    \/ \E p \in Replicas :
        \/ Boot(p)
        \/ Start(p)
        \/ Skip(p)
        \/ LockError(p)
        \/ Succeed(p)
        \/ Fail(p)
        \/ Crash(p)
    \/ RedisFlush

NextLock == Work \/ WorkerTick

SpecLock == InitLock /\ [][NextLock]_workerVars

\* The select of an idle replica takes a tick within the tick of the model.
Prompt == \A p \in Replicas : st[p] = "wait" => p \notin due

NextPrompt == Work \/ (Prompt /\ WorkerTick)

\* Time passes, a run ends when its context does, a dead process is
\* restarted, and Redis does not fail every Acquire of a replica.
Fairness ==
    /\ WF_workerVars(Prompt /\ WorkerTick)
    /\ \A p \in Replicas :
        /\ WF_workerVars(Boot(p))
        /\ WF_workerVars(Skip(p))
        /\ WF_workerVars(Succeed(p) \/ Fail(p))
        /\ SF_workerVars(Start(p))

PromptSpec == InitLock /\ [][NextPrompt]_workerVars /\ Fairness

-----------------------------------------------------------------------------
(* Properties *)

\* Types, and that there is a TTL exactly while there is a key.
LockTypes ==
    /\ holder \in Replicas \cup {None, Orphan}
    /\ left \in 0..lockTTL
    /\ left = 0 <=> holder = None
    /\ st \in [Replicas -> {"down", "wait", "run"}]
    /\ timer \in [Replicas -> 1..Interval]
    /\ due \subseteq Replicas
    /\ age \in [Replicas -> 0..MaxRun]
    /\ gap \in 0..Interval /\ last \in 0..Interval
    /\ exposed \subseteq Replicas

\* What the lock gives as a debounce: no run starts within lockTTL of a run
\* on any replica, unless that one failed or Redis lost its data.
StartsApart == last >= lockTTL

\* A free key means the last run is old enough; a key says how old it is.
GapOK ==
    IF holder = None THEN gap >= lockTTL ELSE gap + left >= lockTTL

\* A run younger than the TTL holds the key, and the key ends with it: no
\* other replica can drop or take it.
KeyOK ==
    \A p \in Running \ exposed :
        age[p] < lockTTL => holder = p /\ left + age[p] = lockTTL

\* Two replicas run at once only if the older run has outlived its key.
Overlap ==
    \A p, q \in Running \ exposed :
        \/ p = q
        \/ age[p] >= age[q] + lockTTL
        \/ age[q] >= age[p] + lockTTL

\* The inductive invariant behind StartsApart and Overlap.
LockInd == LockTypes /\ StartsApart /\ GapOK /\ KeyOK /\ Overlap

\* The job does not stop: whatever crashes, failed runs and lost answers of
\* Redis have left behind, such as a key whose owner is gone, some replica
\* starts a run again once the replicas stay up.
StartsAgain ==
    <>[][\A p \in Replicas : ~Crash(p)]_workerVars => (gap > 0 ~> gap = 0)

\* What docs/10-transactional-email.md takes the lock to give: at most one
\* replica runs the job at a time.  It needs runs shorter than the key's TTL.
Serialised == \A p, q \in Running \ exposed : p = q

=============================================================================
