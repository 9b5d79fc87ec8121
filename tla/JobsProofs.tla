----------------------------- MODULE JobsProofs -----------------------------
(***************************************************************************)
(* Proofs about two parts of the worker.  JobLock, for any number of       *)
(* replicas, any interval and any bound on a run: StartsApart and          *)
(* Overlap speak of runs; what carries them through a step is what the     *)
(* key says about the run that set it (GapOK and KeyOK).  UsageLedger,     *)
(* whose job runs under that lock, for every calendar, retention, cap      *)
(* and number of calls and runs.                                           *)
(***************************************************************************)
EXTENDS JobLock, UsageLedger, FiniteSetTheorems, TLAPS

-----------------------------------------------------------------------------
(* The lock *)

LEMMA TTLFact == lockTTL \in 1..Interval
BY TimeAssumption DEF lockTTL

LEMMA InitLockInd == InitLock => LockInd
BY TTLFact, TimeAssumption
   DEF InitLock, LockInd, LockTypes, StartsApart, GapOK, KeyOK, Overlap, Running

LEMMA TypeStep == LockInd /\ [NextLock]_workerVars => LockTypes'
<1> SUFFICES ASSUME LockInd, [NextLock]_workerVars PROVE LockTypes'
  OBVIOUS
<1> USE DEF LockTypes
<1>0. /\ lockTTL \in 1..Interval /\ Interval \in Nat \ {0} /\ MaxRun \in Nat
      /\ LockTypes
  BY TTLFact, TimeAssumption DEF LockInd
<1>1. ASSUME NEW p \in Replicas, Boot(p) \/ Skip(p) \/ Succeed(p)
      PROVE  LockTypes'
  BY <1>1, <1>0 DEF Boot, Skip, Succeed, lockVars
<1>2. ASSUME NEW p \in Replicas, Start(p) PROVE LockTypes'
  BY <1>2, <1>0, OwnerAssumption DEF Start, Acquire
<1>3. ASSUME NEW p \in Replicas, LockError(p) PROVE LockTypes'
  BY <1>3, <1>0, OwnerAssumption DEF LockError, Acquire, lockVars
<1>4. ASSUME NEW p \in Replicas, Fail(p) PROVE LockTypes'
  BY <1>4, <1>0, OwnerAssumption DEF Fail, Release, lockVars
<1>5. ASSUME NEW p \in Replicas, Crash(p) PROVE LockTypes'
  BY <1>5, <1>0, OwnerAssumption DEF Crash
<1>6. CASE RedisFlush
  BY <1>6, <1>0 DEF RedisFlush, Running
<1>7. CASE WorkerTick
  <2>1. left' \in 0..lockTTL /\ (left' = 0 <=> holder' = None)
        /\ holder' \in Replicas \cup {None, Orphan}
    BY <1>7, <1>0 DEF WorkerTick, Expire
  <2>2. age' \in [Replicas -> 0..MaxRun]
    BY <1>7, <1>0 DEF WorkerTick, Running
  <2>3. timer' \in [Replicas -> 1..Interval] /\ gap' \in 0..Interval
    BY <1>7, <1>0 DEF WorkerTick
  <2> QED BY <2>1, <2>2, <2>3, <1>7, <1>0 DEF WorkerTick, Fired
<1>8. CASE UNCHANGED workerVars
  BY <1>8, <1>0 DEF workerVars, lockVars
<1> QED BY <1>1, <1>2, <1>3, <1>4, <1>5, <1>6, <1>7, <1>8 DEF NextLock, Work

LEMMA GapStep == LockInd /\ [NextLock]_workerVars => StartsApart' /\ GapOK'
<1> SUFFICES ASSUME LockInd, [NextLock]_workerVars PROVE StartsApart' /\ GapOK'
  OBVIOUS
<1> USE DEF StartsApart, GapOK
<1>0. /\ lockTTL \in 1..Interval /\ Interval \in Nat \ {0}
      /\ gap \in 0..Interval /\ last \in 0..Interval /\ left \in 0..lockTTL
      /\ left = 0 <=> holder = None
      /\ StartsApart /\ GapOK
  BY TTLFact, TimeAssumption DEF LockInd, LockTypes
<1>1. ASSUME NEW p \in Replicas, Boot(p) \/ Skip(p) \/ Succeed(p)
      PROVE  StartsApart' /\ GapOK'
  BY <1>1, <1>0 DEF Boot, Skip, Succeed, lockVars
<1>2. ASSUME NEW p \in Replicas, Start(p) PROVE StartsApart' /\ GapOK'
  BY <1>2, <1>0, OwnerAssumption DEF Start, Acquire
<1>3. ASSUME NEW p \in Replicas, LockError(p) PROVE StartsApart' /\ GapOK'
  BY <1>3, <1>0, OwnerAssumption DEF LockError, Acquire, lockVars
<1>4. ASSUME NEW p \in Replicas, Fail(p) PROVE StartsApart' /\ GapOK'
  BY <1>4, <1>0, OwnerAssumption DEF Fail, Release, lockVars
<1>5. ASSUME NEW p \in Replicas, Crash(p) PROVE StartsApart' /\ GapOK'
  BY <1>5, <1>0, OwnerAssumption DEF Crash
<1>6. CASE RedisFlush
  BY <1>6, <1>0 DEF RedisFlush
<1>7. CASE WorkerTick
  BY <1>7, <1>0 DEF WorkerTick, Expire
<1>8. CASE UNCHANGED workerVars
  BY <1>8, <1>0 DEF workerVars, lockVars
<1> QED BY <1>1, <1>2, <1>3, <1>4, <1>5, <1>6, <1>7, <1>8 DEF NextLock, Work

LEMMA RunsStep == LockInd /\ [NextLock]_workerVars => KeyOK' /\ Overlap'
<1> SUFFICES ASSUME LockInd, [NextLock]_workerVars PROVE KeyOK' /\ Overlap'
  OBVIOUS
<1>0. /\ lockTTL \in Nat \ {0} /\ left \in 0..lockTTL
      /\ left = 0 <=> holder = None
      /\ age \in [Replicas -> Nat] /\ exposed \subseteq Replicas
      /\ st \in [Replicas -> {"down", "wait", "run"}]
      /\ KeyOK /\ Overlap
  BY TTLFact, TimeAssumption DEF LockInd, LockTypes
\* A step after which no run is new and every key of a young run is kept.
<1>1. ASSUME Running' \subseteq Running, exposed \subseteq exposed',
             \A p \in Running' : age'[p] = age[p],
             \A p \in Running' \ exposed' :
                holder = p => holder' = p /\ left' = left
      PROVE  KeyOK' /\ Overlap'
  BY <1>1, <1>0 DEF KeyOK, Overlap
<1>2. ASSUME NEW p \in Replicas, Boot(p) \/ Skip(p) PROVE KeyOK' /\ Overlap'
  <2>1. Running' = Running /\ UNCHANGED <<exposed, age, holder, left>>
    BY <1>2, <1>0 DEF Boot, Skip, Running, lockVars
  <2> QED BY <2>1, <1>1
<1>3. ASSUME NEW p \in Replicas, Start(p) PROVE KeyOK' /\ Overlap'
  <2>1. /\ \A q \in Replicas \ {p} : st'[q] = st[q] /\ age'[q] = age[q]
        /\ st'[p] = "run" /\ age'[p] = 0
        /\ holder = None /\ holder' = p /\ left' = lockTTL
        /\ exposed' = exposed \ {p}
    BY <1>3, <1>0 DEF Start, Acquire
  <2>2. \A q \in (Running' \ exposed') \ {p} :
            q \in Running \ exposed /\ age'[q] >= lockTTL
    <3> SUFFICES ASSUME NEW q \in (Running' \ exposed') \ {p}
                 PROVE  q \in Running \ exposed /\ age'[q] >= lockTTL
      OBVIOUS
    <3>1. q \in Replicas /\ q # p /\ st'[q] = "run"
      BY DEF Running
    <3>2. q \in Running \ exposed /\ age'[q] = age[q]
      BY <3>1, <2>1 DEF Running
    <3>3. ~(age[q] < lockTTL)
      BY <3>1, <3>2, <2>1, <1>0, OwnerAssumption DEF KeyOK
    <3> QED BY <3>1, <3>2, <3>3, <1>0
  <2>3. KeyOK'
    BY <2>1, <2>2, <1>0 DEF KeyOK, Running
  <2>4. Overlap'
    <3> SUFFICES ASSUME NEW q \in Running' \ exposed', NEW s \in Running' \ exposed',
                        q # s
                 PROVE  \/ age'[q] >= age'[s] + lockTTL
                        \/ age'[s] >= age'[q] + lockTTL
      BY DEF Overlap
    <3>0. q \in Replicas /\ s \in Replicas
      BY DEF Running
    <3>1. CASE q = p
      BY <3>1, <3>0, <2>1, <2>2, <1>0
    <3>2. CASE s = p
      BY <3>2, <3>0, <2>1, <2>2, <1>0
    <3>3. CASE q # p /\ s # p
      BY <3>3, <3>0, <2>1, <2>2, <1>0 DEF Overlap
    <3> QED BY <3>1, <3>2, <3>3
  <2> QED BY <2>3, <2>4
<1>4. ASSUME NEW p \in Replicas, LockError(p) PROVE KeyOK' /\ Overlap'
  <2>1. /\ Running' = Running /\ UNCHANGED <<exposed, age>>
        /\ holder = None \/ UNCHANGED <<holder, left>>
    BY <1>4 DEF LockError, Acquire, Running, lockVars
  <2>2. \A q \in Running' \ exposed' : holder = q => holder' = q /\ left' = left
    BY <2>1, OwnerAssumption DEF Running
  <2> QED BY <2>1, <2>2, <1>1
<1>5. ASSUME NEW p \in Replicas, Succeed(p) \/ Fail(p) \/ Crash(p)
      PROVE  KeyOK' /\ Overlap'
  <2>1. /\ \A q \in Replicas \ {p} : st'[q] = st[q] /\ age'[q] = age[q]
        /\ st'[p] # "run" /\ exposed' = exposed
        /\ holder # p => holder' = holder /\ left' = left
    BY <1>5, <1>0 DEF Succeed, Fail, Crash, Release, lockVars
  <2>2. /\ Running' \subseteq Running \ {p}
        /\ \A q \in Running' : age'[q] = age[q]
    BY <2>1 DEF Running
  <2> QED BY <2>1, <2>2, <1>1
<1>6. CASE RedisFlush
  <2>1. /\ Running' = Running /\ age' = age /\ exposed' = exposed \cup Running
    BY <1>6 DEF RedisFlush, Running
  <2> QED BY <2>1, <1>1
<1>7. CASE WorkerTick
  <2>1. /\ Running' = Running /\ exposed' = exposed
        /\ \A p \in Running : age'[p] = age[p] + 1
    BY <1>7, <1>0 DEF WorkerTick, Running
  <2>2. /\ left' = IF left > 0 THEN left - 1 ELSE 0
        /\ holder' = IF left > 1 THEN holder ELSE None
    BY <1>7 DEF WorkerTick, Expire
  <2>3. KeyOK'
    <3> SUFFICES ASSUME NEW p \in Running \ exposed, age'[p] < lockTTL
                 PROVE  holder' = p /\ left' + age'[p] = lockTTL
      BY <2>1 DEF KeyOK
    <3>1. age[p] \in Nat /\ age'[p] = age[p] + 1
      BY <2>1, <1>0 DEF Running
    <3>2. holder = p /\ left + age[p] = lockTTL
      BY <3>1, <1>0 DEF KeyOK
    <3> QED BY <3>1, <3>2, <2>2, <1>0
  <2>4. Overlap'
    <3> SUFFICES ASSUME NEW q \in Running \ exposed, NEW s \in Running \ exposed,
                        q # s
                 PROVE  \/ age'[q] >= age'[s] + lockTTL
                        \/ age'[s] >= age'[q] + lockTTL
      BY <2>1 DEF Overlap
    <3>1. age[q] \in Nat /\ age[s] \in Nat
      BY <1>0 DEF Running
    <3> QED BY <3>1, <2>1, <1>0 DEF Overlap
  <2> QED BY <2>3, <2>4
<1>8. CASE UNCHANGED workerVars
  <2>1. Running' = Running /\ UNCHANGED <<exposed, age, holder, left>>
    BY <1>8 DEF workerVars, lockVars, Running
  <2> QED BY <2>1, <1>1
<1> QED
  BY <1>2, <1>3, <1>4, <1>5, <1>6, <1>7, <1>8 DEF NextLock, Work

-----------------------------------------------------------------------------
\* The inductive invariant of the scheduler holds in every reachable state.
THEOREM LockInvariance == SpecLock => []LockInd
<1>1. LockInd /\ [NextLock]_workerVars => LockInd'
  BY TypeStep, GapStep, RunsStep DEF LockInd
<1> QED BY InitLockInd, <1>1, PTL DEF SpecLock

\* The debounce of tryRun: two runs that did not fail start at least lockTTL
\* apart, fleet wide, as long as Redis keeps its data.
THEOREM Debounce == SpecLock => []StartsApart
<1>1. LockInd => StartsApart
  BY DEF LockInd
<1> QED BY LockInvariance, <1>1, PTL

\* Runs of two replicas overlap only when the older one has outlived its key.
THEOREM OverlapBound == SpecLock => []Overlap
<1>1. LockInd => Overlap
  BY DEF LockInd
<1> QED BY LockInvariance, <1>1, PTL

\* With a job timeout below the TTL of the key, as the hourly jobs have it,
\* the lock does serialise runs.
THEOREM ShortRunsAreSerialised ==
    ASSUME MaxRun < lockTTL
    PROVE  SpecLock => []Serialised
<1>1. LockInd => Serialised
  <2> SUFFICES ASSUME LockInd, NEW p \in Running \ exposed,
                      NEW q \in Running \ exposed, p # q
               PROVE  FALSE
    BY DEF Serialised
  <2>1. age[p] \in 0..MaxRun /\ age[q] \in 0..MaxRun
    BY DEF LockInd, LockTypes, Running
  <2> QED BY <2>1, TTLFact, TimeAssumption DEF LockInd, Overlap
<1> QED BY LockInvariance, <1>1, PTL

-----------------------------------------------------------------------------
(* The ledger *)

\* The month of an instant is the last one that began by then.
LEMMA MonthStartDef ==
    ASSUME NEW t \in Time
    PROVE  /\ MonthStart(t) \in Starts /\ MonthStart(t) \in Nat /\ MonthStart(t) <= t
           /\ \A q \in Starts : q <= t => q <= MonthStart(t)
BY CalendarAssumption DEF MonthStart

\* Anything that began by then and is not before the month is the month.
LEMMA MonthUnique ==
    ASSUME NEW t \in Time, NEW u \in Time, t <= u, MonthStart(u) <= t
    PROVE  MonthStart(t) = MonthStart(u)
<1>1. /\ MonthStart(t) \in Starts /\ MonthStart(t) \in Nat /\ MonthStart(t) <= t
      /\ \A q \in Starts : q <= t => q <= MonthStart(t)
  BY MonthStartDef
<1>2. /\ MonthStart(u) \in Starts /\ MonthStart(u) \in Nat /\ MonthStart(u) <= u
      /\ \A q \in Starts : q <= u => q <= MonthStart(u)
  BY MonthStartDef
<1> QED BY <1>1, <1>2, MeteringAssumption DEF Time

LEMMA NextMonthDef ==
    ASSUME NEW t \in Time
    PROVE  /\ NextMonth(t) \in Starts /\ NextMonth(t) \in Nat /\ t < NextMonth(t)
           /\ \A r \in Starts : t < r => NextMonth(t) <= r
BY CalendarAssumption DEF NextMonth

\* The window of a run begins with a month, at or after the prune's cutoff.
LEMMA SinceBound ==
    ASSUME NEW t \in Time, Retention <= t
    PROVE  /\ rollupSince(t) \in Starts /\ rollupSince(t) \in Nat
           /\ Cutoff(t) <= rollupSince(t)
<1> DEFINE k == Cutoff(t)
           m == MonthStart(k)
           f == Floor(t)
           l == MonthsBack(Lookback - 1, t)
<1>1. k \in Time /\ k = t - Retention
  BY MeteringAssumption DEF Cutoff, Time
<1>2. m \in Starts /\ m \in Nat /\ m <= k /\ \A q \in Starts : q <= k => q <= m
  BY <1>1, MonthStartDef
<1>3. m \in Time
  BY <1>1, <1>2, MeteringAssumption DEF Time
<1>4. NextMonth(m) \in Starts /\ NextMonth(m) \in Nat /\ m < NextMonth(m)
  BY <1>3, NextMonthDef
<1>5. f \in Starts /\ f \in Nat /\ k <= f
  <2>1. CASE m < k
    <3>1. f = NextMonth(m)
      BY <2>1 DEF Floor
    <3>2. ~(NextMonth(m) <= k)
      BY <1>1, <1>2, <1>4
    <3> QED BY <3>1, <3>2, <1>1, <1>4, MeteringAssumption DEF Time
  <2>2. CASE ~(m < k)
    <3>1. f = m
      BY <2>2 DEF Floor
    <3> QED BY <3>1, <2>2, <1>1, <1>2, MeteringAssumption DEF Time
  <2> QED BY <2>1, <2>2
<1>6. 0 \in Starts
  <2>1. 0 \in Time
    BY MeteringAssumption DEF Time
  <2> QED BY <2>1, CalendarAssumption
<1>7. l \in Starts /\ l \in Nat
  BY <1>6, CalendarAssumption DEF MonthsBack
<1>8. rollupSince(t) = IF l < f THEN f ELSE l
  BY DEF rollupSince
<1> HIDE DEF k, m, f, l
<1>9. k <= IF l < f THEN f ELSE l
  BY <1>1, <1>5, <1>7, MeteringAssumption DEF Time
<1> QED BY <1>5, <1>7, <1>8, <1>9 DEF k

\* The sets that are counted are finite.
LEMMA Finite ==
    ASSUME TypeOK
    PROVE  /\ IsFiniteSet(InFlight) /\ IsFiniteSet(events) /\ IsFiniteSet(ledger)
           /\ \A p : IsFiniteSet(InMonth(ledger, p))
           /\ Cardinality(InFlight) \in Nat
           /\ \A p : Cardinality(InMonth(ledger, p)) \in Nat
<1>1. InFlight \subseteq Calls /\ ledger \subseteq Calls /\ events \subseteq ledger
  BY DEF TypeOK, InFlight
<1>2. IsFiniteSet(InFlight) /\ IsFiniteSet(ledger) /\ IsFiniteSet(events)
  BY <1>1, FS_Subset, MeteringAssumption
<1>3. \A p : IsFiniteSet(InMonth(ledger, p))
  <2> SUFFICES ASSUME NEW p PROVE IsFiniteSet(InMonth(ledger, p))
    OBVIOUS
  <2>1. InMonth(ledger, p) \subseteq ledger
    BY DEF InMonth
  <2> QED BY <2>1, <1>2, FS_Subset
<1> QED BY <1>2, <1>3, FS_CardinalityType

\* What the gateway counts is every call recorded this month: with a
\* retention of at least a month no row of this month has been pruned.
LEMMA CountIsExact ==
    ASSUME TypeOK, WindowIsWhole, RowsOfDoneCalls, QuotaPremise
    PROVE  CountUsageEventsForOrgSince(MonthStart(now)) = Cardinality(InMonth(ledger, MonthStart(now)))
<1> DEFINE m == MonthStart(now)
<1>0. /\ now \in Time /\ now \in Int /\ Retention \in Nat /\ MaxTime \in Nat /\ now <= MaxTime
      /\ \A c \in ledger : at[c] \in Time /\ at[c] \in Nat /\ at[c] <= now
      /\ events \subseteq ledger
  BY MeteringAssumption DEF TypeOK, RowsOfDoneCalls, Time
<1>1. m \in Starts /\ m \in Nat /\ m <= now /\ \A q \in Starts : q <= now => q <= m
  BY <1>0, MonthStartDef
<1>2. m \in Time
  BY <1>0, <1>1 DEF Time
<1>3. NextMonth(m) \in Starts /\ NextMonth(m) \in Nat /\ m < NextMonth(m)
  BY <1>2, NextMonthDef
<1>4. now < NextMonth(m)
  BY <1>0, <1>1, <1>3
<1>5. NextMonth(m) - m <= Retention
  <2>1. m \in Months
    BY <1>0, <1>1 DEF Months
  <2> QED BY <2>1 DEF QuotaPremise, Length
<1>6. ASSUME NEW c \in ledger, MonthStart(at[c]) = m PROVE c \in events /\ m <= at[c]
  <2>1. m <= at[c]
    BY <1>0, <1>6, MonthStartDef
  <2>2. ~(at[c] < now - Retention)
    BY <1>0, <1>1, <1>3, <1>4, <1>5, <2>1
  <2> QED BY <2>1, <2>2 DEF WindowIsWhole, Cutoff
<1>7. ASSUME NEW c \in ledger, m <= at[c] PROVE MonthStart(at[c]) = m
  BY <1>0, <1>7, MonthUnique
<1>8. {c \in events : m <= at[c]} = InMonth(ledger, m)
  BY <1>0, <1>6, <1>7 DEF InMonth
<1> QED BY <1>8 DEF CountUsageEventsForOrgSince

LEMMA InitInv == Init => IndInv
<1> SUFFICES ASSUME Init PROVE IndInv
  OBVIOUS
<1> USE DEF Init
<1>0. /\ Retention \in Nat /\ MaxTime \in Nat /\ Retention <= MaxTime /\ MaxInFlight \in Nat \ {0}
      /\ RollupInterval \in Nat /\ Limit \in Nat \cup {-1} /\ 0 \in Time
  BY MeteringAssumption DEF Time
<1>1. 0 \in Starts
  BY <1>0, CalendarAssumption
<1>2. TypeOK
  BY <1>0, <1>1 DEF TypeOK, Time
<1>3. InFlight = {} /\ \A p : InMonth(ledger, p) = {}
  BY DEF InFlight, InMonth
<1>4. Cardinality(InFlight) = 0 /\ \A p : Cardinality(InMonth(ledger, p)) = 0
  BY <1>3, FS_EmptySet
<1>5. NeverOvercounts /\ WindowIsWhole /\ RowsOfDoneCalls /\ OneRun
  BY <1>4 DEF NeverOvercounts, WindowIsWhole, RowsOfDoneCalls, OneRun
<1>6. Headroom /\ QuotaOvershootBounded /\ Cardinality(InFlight) <= MaxInFlight
  BY <1>0, <1>3, <1>4 DEF Headroom, QuotaOvershootBounded, QuotaPremise
<1> QED BY <1>2, <1>5, <1>6 DEF IndInv

\* A step of the gateway before the call's row is written moves one call, and
\* puts it in flight only when there is room and the count allows it.
LEMMA CallStep ==
    ASSUME IndInv, NEW c \in Calls,
           \/ PassQuota(c) \/ RefuseQuota(c) \/ FailOpen(c)
           \/ Dispatch(c) \/ RefuseRate(c) \/ DropUsage(c)
    PROVE  IndInv'
<1>0. /\ TypeOK /\ NeverOvercounts /\ WindowIsWhole /\ RowsOfDoneCalls /\ OneRun
      /\ Cardinality(InFlight) <= MaxInFlight /\ Headroom /\ QuotaOvershootBounded
  BY DEF IndInv
<1>1. /\ IsFiniteSet(InFlight) /\ Cardinality(InFlight) \in Nat
      /\ \A p : Cardinality(InMonth(ledger, p)) \in Nat
      /\ MaxInFlight \in Nat \ {0} /\ Limit \in Nat \cup {-1}
  BY <1>0, Finite, MeteringAssumption
<1>2. /\ UNCHANGED <<now, events, rollup, late, at, ledger, job>>
      /\ call[c] # "done"
      /\ \E s \in {"counted", "running", "done"} : call' = [call EXCEPT ![c] = s]
      /\ open' = open \/ open' = 1
  BY DEF PassQuota, RefuseQuota, FailOpen, Dispatch, RefuseRate, DropUsage, Advance
<1>3. TypeOK'
  BY <1>0, <1>2 DEF TypeOK, job
<1>4. NeverOvercounts' /\ WindowIsWhole' /\ OneRun' /\ RowsOfDoneCalls'
  <2>1. NeverOvercounts'
    BY <1>0, <1>2 DEF NeverOvercounts, InMonth
  <2>2. WindowIsWhole'
    BY <1>0, <1>2 DEF WindowIsWhole, Cutoff, job
  <2>3. OneRun'
    BY <1>0, <1>2 DEF OneRun, job
  <2>4. RowsOfDoneCalls'
    BY <1>0, <1>2 DEF RowsOfDoneCalls, TypeOK
  <2> QED BY <2>1, <2>2, <2>3, <2>4
<1>5. QuotaPremise' => QuotaPremise
  BY <1>2 DEF QuotaPremise
<1>6. QuotaOvershootBounded'
  BY <1>0, <1>2, <1>5 DEF QuotaOvershootBounded, InMonth
<1>7. ASSUME InFlight' \subseteq InFlight
      PROVE  Cardinality(InFlight') <= MaxInFlight /\ Headroom'
  <2>1. Cardinality(InFlight') <= Cardinality(InFlight) /\ Cardinality(InFlight') \in Nat
    BY <1>1, <1>7, FS_Subset, FS_CardinalityType
  <2>2. InMonth(ledger, MonthStart(now))' = InMonth(ledger, MonthStart(now))
    BY <1>2 DEF InMonth
  <2> QED BY <1>0, <1>1, <1>5, <1>7, <2>1, <2>2 DEF Headroom
<1>8. CASE RefuseQuota(c) \/ Dispatch(c) \/ RefuseRate(c) \/ DropUsage(c)
  <2>1. InFlight' \subseteq InFlight
    BY <1>8, <1>0 DEF InFlight, RefuseQuota, Dispatch, RefuseRate, DropUsage, Advance, TypeOK
  <2> QED BY <2>1, <1>0, <1>3, <1>4, <1>6, <1>7 DEF IndInv
<1>9. CASE PassQuota(c) \/ FailOpen(c)
  <2>1. /\ InFlight' = InFlight \cup {c} /\ c \notin InFlight
        /\ Cardinality(InFlight) < MaxInFlight
    BY <1>9, <1>0 DEF InFlight, PassQuota, FailOpen, Advance, TypeOK
  <2>2. Cardinality(InFlight') = Cardinality(InFlight) + 1
    BY <1>1, <2>1, FS_AddElement
  <2>3. ASSUME QuotaPremise'
        PROVE  /\ Cardinality(InMonth(ledger, MonthStart(now))) < Limit
               /\ Limit # -1
    <3>1. PassQuota(c) /\ QuotaPremise
      BY <1>5, <1>9, <2>3 DEF FailOpen, QuotaPremise
    <3>2. EnforceLimit(Cardinality(InMonth(ledger, MonthStart(now))))
      BY <1>0, <3>1, CountIsExact DEF PassQuota
    <3> QED BY <3>1, <3>2 DEF EnforceLimit, QuotaPremise
  <2>4. InMonth(ledger, MonthStart(now))' = InMonth(ledger, MonthStart(now))
    BY <1>2 DEF InMonth
  <2>5. Headroom'
    BY <1>1, <2>1, <2>2, <2>3, <2>4 DEF Headroom
  <2> QED BY <1>1, <1>3, <1>4, <1>6, <2>1, <2>2, <2>5 DEF IndInv
<1> QED BY <1>8, <1>9

\* The row of a call takes its place in the month it is written in, and the
\* call is no longer in flight.
LEMMA RecordStep ==
    ASSUME IndInv, NEW c \in Calls, recordUsage(c)
    PROVE  IndInv'
<1>0. /\ TypeOK /\ NeverOvercounts /\ WindowIsWhole /\ RowsOfDoneCalls /\ OneRun
      /\ Cardinality(InFlight) <= MaxInFlight /\ Headroom /\ QuotaOvershootBounded
  BY DEF IndInv
<1>1. /\ IsFiniteSet(InFlight) /\ Cardinality(InFlight) \in Nat
      /\ \A p : IsFiniteSet(InMonth(ledger, p)) /\ Cardinality(InMonth(ledger, p)) \in Nat
      /\ MaxInFlight \in Nat \ {0} /\ Limit \in Nat \cup {-1}
  BY <1>0, Finite, MeteringAssumption
<1>m. PICK m \in Starts : m = MonthStart(now)
  BY <1>0, MonthStartDef DEF TypeOK
<1>2. /\ UNCHANGED <<now, rollup, late, open, job>>
      /\ call[c] = "running" /\ call' = [call EXCEPT ![c] = "done"]
      /\ at' = [at EXCEPT ![c] = now]
      /\ events' = events \cup {c} /\ ledger' = ledger \cup {c}
  BY DEF recordUsage, Advance
<1>3. /\ c \notin ledger /\ c \notin events
      /\ \A d \in ledger : at'[d] = at[d]
      /\ at'[c] = now /\ now \in Int
  BY <1>0, <1>2 DEF TypeOK, RowsOfDoneCalls, Time
<1>4. TypeOK'
  BY <1>0, <1>2 DEF TypeOK, job
<1>5. WindowIsWhole'
  BY <1>0, <1>2, <1>3 DEF WindowIsWhole, Cutoff, job
<1>6. RowsOfDoneCalls' /\ OneRun'
  <2>1. RowsOfDoneCalls'
    BY <1>0, <1>2, <1>3 DEF RowsOfDoneCalls, TypeOK
  <2>2. OneRun'
    BY <1>0, <1>2 DEF OneRun, job
  <2> QED BY <2>1, <2>2
<1>7. /\ \A p : p # m => InMonth(ledger, p)' = InMonth(ledger, p)
      /\ InMonth(ledger, m)' = InMonth(ledger, m) \cup {c}
      /\ c \notin InMonth(ledger, m)
  BY <1>m, <1>2, <1>3 DEF InMonth
<1>8. /\ \A p : p # m => Cardinality(InMonth(ledger, p)') = Cardinality(InMonth(ledger, p))
      /\ Cardinality(InMonth(ledger, m)') = Cardinality(InMonth(ledger, m)) + 1
  BY <1>1, <1>7, FS_AddElement
<1>9. NeverOvercounts'
  <2> SUFFICES ASSUME NEW p \in Starts
               PROVE  rollup[p] <= Cardinality(InMonth(ledger, p)')
    BY <1>2 DEF NeverOvercounts
  <2>1. rollup[p] \in Nat /\ rollup[p] <= Cardinality(InMonth(ledger, p))
    BY <1>0 DEF NeverOvercounts, TypeOK
  <2>2. Cardinality(InMonth(ledger, p)) <= Cardinality(InMonth(ledger, p)')
    BY <1>1, <1>8
  <2> QED BY <1>1, <1>8, <2>1, <2>2
<1>10. InFlight' = InFlight \ {c} /\ c \in InFlight
  BY <1>0, <1>2 DEF InFlight, TypeOK
<1>11. Cardinality(InFlight') = Cardinality(InFlight) - 1
  BY <1>1, <1>10, FS_RemoveElement
<1>12. QuotaPremise' <=> QuotaPremise
  BY <1>2 DEF QuotaPremise
<1>13. Headroom'
  <2>1. MonthStart(now)' = m
    BY <1>m, <1>2
  <2> QED BY <1>m, <1>0, <1>1, <1>8, <1>10, <1>11, <1>12, <2>1 DEF Headroom
<1>14. QuotaOvershootBounded'
  <2> SUFFICES ASSUME QuotaPremise, NEW p \in Starts
               PROVE  Cardinality(InMonth(ledger, p)') < Limit + MaxInFlight
    BY <1>12 DEF QuotaOvershootBounded
  <2>1. CASE p = m
    <3>1. Cardinality(InMonth(ledger, m)) + Cardinality(InFlight) < Limit + MaxInFlight
      BY <1>m, <1>0 DEF Headroom
    <3>2. Cardinality(InFlight') \in Nat
      BY <1>1, <1>10, FS_RemoveElement, FS_CardinalityType
    <3> QED BY <1>1, <1>8, <1>11, <2>1, <3>1, <3>2
  <2>2. CASE p # m
    BY <1>0, <1>8, <2>2 DEF QuotaOvershootBounded
  <2> QED BY <2>1, <2>2
<1> QED BY <1>0, <1>1, <1>4, <1>5, <1>6, <1>9, <1>11, <1>13, <1>14 DEF IndInv

\* A recount of a month that no prune has touched finds every call that was
\* recorded in it.
LEMMA RecountIsWhole ==
    ASSUME IndInv, NEW r \in Runs, pc[r] = "rollup", overlap = 0, NEW p \in Starts,
           InMonth({c \in events : since[r] <= at[c]}, p) # {}
    PROVE  InMonth({c \in events : since[r] <= at[c]}, p) = InMonth(ledger, p)
<1>0. /\ \A c \in ledger : at[c] \in Time /\ at[c] \in Nat
      /\ since[r] \in Starts /\ since[r] \in Nat /\ p \in Nat
      /\ events \subseteq ledger
      /\ \A c \in ledger \ events : at[c] < since[r]
  <2>1. /\ \A c \in ledger : at[c] \in Time /\ at[c] \in Nat
        /\ events \subseteq ledger
    BY MeteringAssumption DEF IndInv, TypeOK, Time
  <2>2. since[r] \in Starts /\ since[r] \in Nat /\ p \in Nat
    BY CalendarAssumption DEF IndInv, TypeOK
  <2>3. \A c \in ledger \ events : at[c] < since[r]
    BY DEF IndInv, WindowIsWhole
  <2> QED BY <2>1, <2>2, <2>3
<1>1. PICK d \in events : since[r] <= at[d] /\ MonthStart(at[d]) = p
  BY DEF InMonth
<1>2. since[r] <= p
  BY <1>0, <1>1, MonthStartDef
<1>3. ASSUME NEW c \in ledger, MonthStart(at[c]) = p
      PROVE  c \in events /\ since[r] <= at[c]
  <2>1. p <= at[c]
    BY <1>0, <1>3, MonthStartDef
  <2>2. since[r] <= at[c] /\ ~(at[c] < since[r])
    BY <1>0, <1>2, <2>1
  <2> QED BY <1>0, <2>2
<1> QED BY <1>0, <1>3 DEF InMonth

\* The steps of the job leave calls and the ledger alone.
LEMMA JobInv ==
    ASSUME IndInv, NEW r \in Runs, JobStep(r)
    PROVE  IndInv'
<1>0. /\ TypeOK /\ NeverOvercounts /\ WindowIsWhole /\ RowsOfDoneCalls /\ OneRun
      /\ Cardinality(InFlight) <= MaxInFlight /\ Headroom /\ QuotaOvershootBounded
  BY DEF IndInv
<1>1. /\ now \in Time /\ now \in Int /\ Retention \in Nat /\ Retention <= now
      /\ \A c \in Calls : at[c] \in Time /\ at[c] \in Int
      /\ Starts \subseteq Nat /\ 0 \in Starts
  <2>1. 0 \in Time
    BY MeteringAssumption DEF Time
  <2> QED BY <1>0, <2>1, MeteringAssumption, CalendarAssumption DEF TypeOK, Time
<1>2. /\ UNCHANGED <<now, late, call, at, ledger, open>>
      /\ events' \subseteq events
  BY DEF JobStep, Run, RollupUsageEvents, PruneUsageEvents, Abort, gateway
<1>3. /\ RowsOfDoneCalls' /\ Headroom' /\ QuotaOvershootBounded'
      /\ Cardinality(InFlight)' <= MaxInFlight
  <2>1. RowsOfDoneCalls'
    BY <1>0, <1>2 DEF RowsOfDoneCalls
  <2>2. /\ InFlight' = InFlight
        /\ \A p : InMonth(ledger, p)' = InMonth(ledger, p)
        /\ MonthStart(now)' = MonthStart(now)
        /\ QuotaPremise' <=> QuotaPremise
    BY <1>2 DEF InFlight, InMonth, QuotaPremise
  <2>3. Headroom'
    <3>1. InMonth(ledger, MonthStart(now))' = InMonth(ledger, MonthStart(now))
      BY <1>2 DEF InMonth
    <3> QED BY <1>0, <2>2, <3>1 DEF Headroom
  <2>4. QuotaOvershootBounded'
    BY <1>0, <2>2 DEF QuotaOvershootBounded
  <2> QED BY <1>0, <2>1, <2>2, <2>3, <2>4
<1>4. ASSUME rollup' = rollup PROVE NeverOvercounts'
  BY <1>0, <1>2, <1>4 DEF NeverOvercounts, InMonth
<1>5. CASE Run(r)
  <2>1. /\ pc[r] = "idle" /\ pc' = [pc EXCEPT ![r] = "rollup"]
        /\ since' = [since EXCEPT ![r] = rollupSince(now)]
        /\ overlap' = IF \E o \in Runs : pc[o] # "idle" THEN 1 ELSE overlap
        /\ UNCHANGED <<events, rollup, batches, overdue>>
    BY <1>5 DEF Run
  <2>2. rollupSince(now) \in Starts /\ rollupSince(now) \in Nat /\ Cutoff(now) <= rollupSince(now)
    BY <1>1, SinceBound
  <2>3. TypeOK'
    BY <1>0, <1>2, <2>1, <2>2 DEF TypeOK
  <2>4. WindowIsWhole'
    <3> SUFFICES ASSUME NEW c \in ledger \ events
                 PROVE  /\ at[c] < Cutoff(now)
                        /\ overlap' = 1 \/ \A o \in Runs : pc'[o] = "rollup" => at[c] < since'[o]
      BY <1>2, <2>1 DEF WindowIsWhole, Cutoff
    <3>1. at[c] < Cutoff(now) /\ at[c] \in Int /\ Cutoff(now) \in Int
      BY <1>0, <1>1 DEF WindowIsWhole, TypeOK, Cutoff
    <3>2. at[c] < rollupSince(now)
      BY <2>2, <3>1
    <3>3. ASSUME overlap' # 1, NEW o \in Runs, pc'[o] = "rollup"
          PROVE  at[c] < since'[o]
      <4>1. o = r
        BY <1>0, <2>1, <3>3 DEF TypeOK
      <4> QED BY <1>0, <2>1, <3>2, <4>1 DEF TypeOK
    <3> QED BY <3>1, <3>3
  <2>5. OneRun'
    BY <1>0, <2>1 DEF OneRun, TypeOK
  <2> QED BY <1>3, <1>4, <2>1, <2>3, <2>4, <2>5 DEF IndInv
<1>6. CASE RollupUsageEvents(r)
  <2> DEFINE rows == {c \in events : since[r] <= at[c]}
  <2>1. /\ pc[r] = "rollup" /\ pc' = [pc EXCEPT ![r] = "prune"]
        /\ rollup' = [p \in Starts |-> IF InMonth(rows, p) = {} THEN rollup[p]
                                       ELSE Cardinality(InMonth(rows, p))]
        /\ overdue' = 0
        /\ UNCHANGED <<events, since, batches, overlap>>
    BY <1>6 DEF RollupUsageEvents
  <2>2. \A p : /\ InMonth(rows, p) \subseteq InMonth(ledger, p)
               /\ IsFiniteSet(InMonth(ledger, p))
    BY <1>0, Finite DEF InMonth, TypeOK
  <2>3. \A p : /\ Cardinality(InMonth(rows, p)) \in Nat
               /\ Cardinality(InMonth(rows, p)) <= Cardinality(InMonth(ledger, p))
    BY <2>2, FS_Subset, FS_CardinalityType
  <2> HIDE DEF rows
  <2>4. TypeOK'
    <3>1. rollup' \in [Starts -> Nat]
      BY <1>0, <2>1, <2>3 DEF TypeOK
    <3>2. overdue' \in 0..RollupInterval
      BY <2>1, MeteringAssumption
    <3> QED BY <1>0, <1>2, <2>1, <3>1, <3>2 DEF TypeOK
  <2>5. NeverOvercounts'
    <3>1. \A p : InMonth(ledger, p)' = InMonth(ledger, p)
      BY <1>2 DEF InMonth
    <3> QED BY <1>0, <2>1, <2>3, <3>1 DEF NeverOvercounts
  <2>6. WindowIsWhole'
    BY <1>0, <1>2, <2>1 DEF WindowIsWhole, Cutoff, TypeOK
  <2>7. OneRun'
    BY <1>0, <2>1 DEF OneRun, TypeOK
  <2> QED BY <1>3, <2>4, <2>5, <2>6, <2>7 DEF IndInv
<1>7. CASE PruneUsageEvents(r) \/ Abort(r)
  <2>1. /\ pc[r] # "idle"
        /\ UNCHANGED <<rollup, overdue, overlap>>
        /\ \/ End(r)
           \/ UNCHANGED <<pc, since>> /\ batches' = [batches EXCEPT ![r] = @ + 1]
    BY <1>7 DEF PruneUsageEvents, Abort
  <2>2. /\ \A o \in Runs : o # r => pc'[o] = pc[o] /\ since'[o] = since[o]
        /\ \A o \in Runs : pc'[o] # "idle" => pc[o] # "idle"
    BY <1>0, <2>1 DEF End, TypeOK
  <2>3. TypeOK'
    BY <1>0, <1>1, <1>2, <2>1 DEF TypeOK, End
  <2>4. OneRun'
    BY <1>0, <2>1, <2>2 DEF OneRun
  <2>5. ASSUME NEW c \in events \ events' PROVE at[c] < Cutoff(now) /\ pc[r] = "prune"
    BY <1>7, <2>5 DEF PruneUsageEvents, Expired, Abort
  <2>6. WindowIsWhole'
    <3> SUFFICES ASSUME NEW c \in ledger, c \notin events'
                 PROVE  /\ at[c] < Cutoff(now)
                        /\ overlap = 1 \/ \A o \in Runs : pc'[o] = "rollup" => at[c] < since'[o]
      BY <1>2, <2>1 DEF WindowIsWhole, Cutoff
    <3>1. CASE c \in events
      <4>1. at[c] < Cutoff(now) /\ pc[r] = "prune"
        BY <2>5, <3>1
      <4>2. ASSUME overlap # 1, NEW o \in Runs, pc'[o] = "rollup" PROVE FALSE
        <5>1. o = r
          BY <1>0, <2>1, <2>2, <4>2 DEF OneRun, TypeOK
        <5>2. pc'[r] # "rollup"
          BY <1>0, <2>1, <4>1 DEF End, TypeOK
        <5> QED BY <4>2, <5>1, <5>2
      <4> QED BY <4>1, <4>2
    <3>2. CASE c \notin events
      <4>1. /\ at[c] < Cutoff(now)
            /\ overlap = 1 \/ \A o \in Runs : pc[o] = "rollup" => at[c] < since[o]
        BY <1>0, <3>2 DEF WindowIsWhole
      <4>2. \A o \in Runs : pc'[o] = "rollup" => pc[o] = "rollup" /\ since'[o] = since[o]
        BY <1>0, <2>1 DEF End, TypeOK
      <4> QED BY <4>1, <4>2
    <3> QED BY <3>1, <3>2
  <2> QED BY <1>3, <1>4, <2>1, <2>3, <2>4, <2>6 DEF IndInv
<1> QED BY <1>5, <1>6, <1>7 DEF JobStep

\* A new month starts with nothing recorded and at most MaxInFlight calls on
\* the way.
LEMMA TickInv ==
    ASSUME IndInv, Tick
    PROVE  IndInv'
<1>0. /\ TypeOK /\ NeverOvercounts /\ WindowIsWhole /\ RowsOfDoneCalls /\ OneRun
      /\ Cardinality(InFlight) <= MaxInFlight /\ Headroom /\ QuotaOvershootBounded
  BY DEF IndInv
<1>1. /\ UNCHANGED <<events, rollup, call, at, ledger, open, pc, since, batches, overlap>>
      /\ now' = now + 1 /\ now < MaxTime
      /\ overdue' = IF overdue < RollupInterval THEN overdue + 1 ELSE overdue
      /\ late' = IF overdue = RollupInterval THEN 1 ELSE late
  BY DEF Tick, gateway, job
<1>2. /\ now \in Time /\ now' \in Time /\ now \in Nat /\ Retention \in Nat /\ MaxTime \in Nat
      /\ \A c \in ledger : at[c] \in Time /\ at[c] \in Nat /\ at[c] <= now
      /\ RollupInterval \in Nat /\ MaxInFlight \in Nat \ {0} /\ Limit \in Nat \cup {-1}
  BY <1>0, <1>1, MeteringAssumption DEF TypeOK, Time, RowsOfDoneCalls
<1>3. TypeOK'
  BY <1>0, <1>1, <1>2 DEF TypeOK
<1>4. WindowIsWhole' /\ RowsOfDoneCalls' /\ OneRun'
  <2>1. WindowIsWhole'
    BY <1>0, <1>1, <1>2 DEF WindowIsWhole, Cutoff
  <2>2. RowsOfDoneCalls'
    BY <1>0, <1>1, <1>2 DEF RowsOfDoneCalls
  <2>3. OneRun'
    BY <1>0, <1>1 DEF OneRun
  <2> QED BY <2>1, <2>2, <2>3
<1>5. /\ InFlight' = InFlight
      /\ \A p : InMonth(ledger, p)' = InMonth(ledger, p)
      /\ QuotaPremise' <=> QuotaPremise
  BY <1>1 DEF InFlight, InMonth, QuotaPremise
<1>6. NeverOvercounts' /\ QuotaOvershootBounded'
  BY <1>0, <1>1, <1>5 DEF NeverOvercounts, QuotaOvershootBounded
<1>7. /\ Cardinality(InFlight) \in Nat
      /\ \A p : Cardinality(InMonth(ledger, p)) \in Nat
  BY <1>0, Finite
<1>8. Headroom'
  <2>1. PICK m \in Starts : m = MonthStart(now')
    BY <1>2, MonthStartDef
  <2>2. PICK k \in Starts : k = MonthStart(now)
    BY <1>2, MonthStartDef
  <2>3. InMonth(ledger, m) = InMonth(ledger, k) \/ InMonth(ledger, m) = {}
    <3>1. CASE m <= now
      <4>1. m = k
        BY <1>1, <1>2, <2>1, <2>2, <3>1, MonthUnique
      <4> QED BY <4>1
    <3>2. CASE ~(m <= now)
      <4>1. ASSUME NEW c \in ledger, MonthStart(at[c]) = m PROVE FALSE
        <5>1. m <= at[c] /\ m \in Nat
          BY <1>2, <4>1, MonthStartDef
        <5> QED BY <1>2, <3>2, <5>1
      <4> QED BY <4>1 DEF InMonth
    <3> QED BY <3>1, <3>2
  <2>4. ASSUME QuotaPremise
        PROVE  /\ Cardinality(InMonth(ledger, m)) + Cardinality(InFlight) < Limit + MaxInFlight
               /\ Limit = 0 => InFlight = {}
    <3>1. /\ Cardinality(InMonth(ledger, k)) + Cardinality(InFlight) < Limit + MaxInFlight
          /\ Limit = 0 => InFlight = {}
      BY <1>0, <2>2, <2>4 DEF Headroom
    <3>2. Limit \in Nat
      BY <1>2, <2>4 DEF QuotaPremise
    <3>3. CASE InMonth(ledger, m) = {}
      <4>1. Cardinality(InMonth(ledger, m)) = 0
        BY <3>3, FS_EmptySet
      <4>2. CASE Limit = 0
        <5>1. Cardinality(InFlight) = 0
          BY <3>1, <4>2, FS_EmptySet
        <5> QED BY <1>2, <3>1, <4>1, <4>2, <5>1
      <4>3. CASE Limit # 0
        BY <1>0, <1>2, <1>7, <3>1, <3>2, <4>1, <4>3
      <4> QED BY <4>2, <4>3
    <3>4. CASE InMonth(ledger, m) = InMonth(ledger, k)
      BY <3>1, <3>4
    <3> QED BY <2>3, <3>3, <3>4
  <2>5. InMonth(ledger, MonthStart(now))' = InMonth(ledger, m)
    BY <1>1, <2>1 DEF InMonth
  <2> QED BY <1>5, <2>4, <2>5 DEF Headroom
<1> QED BY <1>0, <1>3, <1>4, <1>5, <1>6, <1>8 DEF IndInv

LEMMA StepInv == IndInv /\ [Next]_vars => IndInv'
<1> SUFFICES ASSUME IndInv, [Next]_vars PROVE IndInv'
  OBVIOUS
<1>1. CASE Tick
  BY <1>1, TickInv
<1>2. ASSUME NEW c \in Calls, GatewayStep(c) PROVE IndInv'
  BY <1>2, CallStep, RecordStep DEF GatewayStep
<1>3. ASSUME NEW r \in Runs, JobStep(r) PROVE IndInv'
  BY <1>3, JobInv
<1>4. CASE UNCHANGED vars
  <2> USE <1>4 DEF vars, gateway, job
  <2>1. TypeOK' /\ NeverOvercounts' /\ WindowIsWhole' /\ RowsOfDoneCalls' /\ OneRun'
    BY DEF IndInv, TypeOK, NeverOvercounts, InMonth, WindowIsWhole, Cutoff, RowsOfDoneCalls, OneRun
  <2>2. InFlight' = InFlight /\ Headroom' /\ QuotaOvershootBounded'
    BY DEF IndInv, InFlight, Headroom, QuotaOvershootBounded, QuotaPremise, InMonth
  <2> QED BY <2>1, <2>2 DEF IndInv
<1> QED BY <1>1, <1>2, <1>3, <1>4 DEF Next

\* The ledger's invariant holds in every reachable state.
THEOREM Invariance == Spec => []IndInv
BY InitInv, StepInv, PTL DEF Spec

\* A month's recorded calls exceed the cap by less than the calls that may be
\* in flight, for every cap, calendar and retention of at least a month.
THEOREM Overshoot == Spec => []QuotaOvershootBounded
<1>1. IndInv => QuotaOvershootBounded
  BY DEF IndInv
<1> QED BY <1>1, Invariance, PTL

\* A rollup never counts a call twice.
THEOREM NoOvercount == Spec => []NeverOvercounts
<1>1. IndInv => NeverOvercounts
  BY DEF IndInv
<1> QED BY <1>1, Invariance, PTL

\* While runs do not overlap, no rollup is overwritten by a smaller count,
\* whatever the retention and the calendar.
THEOREM Durable == Spec => RollupNeverShrinks
<1> DEFINE Keeps == overlap' = 0 => \A p \in Starts : rollup[p] <= rollup'[p]
<1>1. IndInv /\ [Next]_vars => [Keeps]_vars
  <2> SUFFICES ASSUME IndInv, Next, overlap' = 0, NEW p \in Starts
               PROVE  rollup[p] <= rollup'[p]
    OBVIOUS
  <2>0. rollup[p] \in Nat /\ TypeOK
    BY DEF IndInv, TypeOK
  <2>1. CASE rollup' = rollup
    BY <2>0, <2>1
  <2>2. ASSUME NEW r \in Runs, RollupUsageEvents(r) PROVE rollup[p] <= rollup'[p]
    <3> DEFINE rows == {c \in events : since[r] <= at[c]}
    <3>1. /\ pc[r] = "rollup" /\ overlap = 0
          /\ rollup'[p] = IF InMonth(rows, p) = {} THEN rollup[p] ELSE Cardinality(InMonth(rows, p))
      BY <2>2 DEF RollupUsageEvents
    <3>2. CASE InMonth(rows, p) = {}
      BY <2>0, <3>1, <3>2
    <3>3. CASE InMonth(rows, p) # {}
      <4>1. InMonth(rows, p) = InMonth(ledger, p)
        BY <3>1, <3>3, RecountIsWhole
      <4>2. rollup[p] <= Cardinality(InMonth(ledger, p))
        BY DEF IndInv, NeverOvercounts
      <4> QED BY <3>1, <3>3, <4>1, <4>2
    <3> QED BY <3>2, <3>3
  <2>3. rollup' = rollup \/ \E r \in Runs : RollupUsageEvents(r)
    BY DEF Next, Tick, GatewayStep, PassQuota, RefuseQuota, FailOpen, Dispatch, RefuseRate,
           recordUsage, DropUsage, JobStep, Run, PruneUsageEvents, Abort
  <2> QED BY <2>1, <2>2, <2>3
<1> QED BY <1>1, Invariance, PTL DEF Spec, RollupNeverShrinks

-----------------------------------------------------------------------------
(***************************************************************************)
(* Pruned rows are counted rows.  A month is settled from the rollup that  *)
(* follows its end on; whatever a run's window leaves out was settled      *)
(* before the run began, which needs the window to reach past the month    *)
(* before the open one, and months that last a RollupInterval.              *)
(***************************************************************************)

WindowPremise == Lookback >= 2 /\ \A p \in Months : RollupInterval <= Length(p)

Roomy == {p \in Months : Length(p) + RollupInterval <= Retention}

\* A month that a run leaves out ended a RollupInterval ago.
LeftOutIsOld ==
    \A r \in Runs : pc[r] = "rollup" =>
        \A p \in Roomy : p < since[r] => NextMonth(p) + RollupInterval <= now

\* A month that was over at the last rollup is counted in full.
Settled ==
    (late = 0 /\ overlap = 0) =>
        \A p \in Roomy : NextMonth(p) + overdue <= now => rollup[p] = Cardinality(InMonth(ledger, p))

\* A month the model lives through has a next one.
LEMMA MonthType ==
    ASSUME NEW p \in Months
    PROVE  /\ p \in Starts /\ p \in Time /\ p \in Nat
           /\ NextMonth(p) \in Starts /\ NextMonth(p) \in Nat /\ p < NextMonth(p)
           /\ \A q \in Starts : p < q => NextMonth(p) <= q
           /\ Length(p) \in Nat /\ NextMonth(p) = p + Length(p)
<1>1. p \in Starts /\ p \in Time /\ p \in Nat
  BY MeteringAssumption, CalendarAssumption DEF Months, Time
<1>2. /\ NextMonth(p) \in Starts /\ NextMonth(p) \in Nat /\ p < NextMonth(p)
      /\ \A q \in Starts : p < q => NextMonth(p) <= q
  BY <1>1, NextMonthDef
<1>3. Length(p) \in Nat /\ NextMonth(p) = p + Length(p)
  BY <1>1, <1>2 DEF Length
<1> QED BY <1>1, <1>2, <1>3

\* What rollupSince leaves out ended a RollupInterval ago: it began before the
\* cutoff, or the window holds a whole month after it.
LEMMA LeftOut ==
    ASSUME WindowPremise, NEW t \in Time, Retention <= t,
           NEW p \in Roomy, p < rollupSince(t)
    PROVE  NextMonth(p) + RollupInterval <= t
<1> DEFINE k == Cutoff(t)
           m == MonthStart(k)
           l == MonthsBack(Lookback - 1, t)
<1>0. /\ t \in Nat /\ t <= MaxTime /\ MaxTime \in Nat /\ Retention \in Nat /\ RollupInterval \in Nat
      /\ Lookback \in Nat /\ Lookback >= 2
  BY MeteringAssumption DEF Time, WindowPremise
<1>1. k \in Time /\ k = t - Retention /\ k \in Nat
  BY <1>0 DEF Cutoff, Time
<1>2. m \in Starts /\ m \in Nat /\ m <= k /\ \A q \in Starts : q <= k => q <= m
  BY <1>1, MonthStartDef
<1>3. /\ p \in Months /\ Length(p) + RollupInterval <= Retention /\ p \in Starts /\ p \in Nat
      /\ NextMonth(p) \in Nat /\ Length(p) \in Nat /\ NextMonth(p) = p + Length(p)
      /\ \A q \in Starts : p < q => NextMonth(p) <= q
  BY MonthType DEF Roomy
<1>4. CASE rollupSince(t) = Floor(t)
  <2>1. p < k
    <3>1. CASE m < k
      <4>1. m \in Time
        BY <1>0, <1>1, <1>2 DEF Time
      <4>2. /\ Floor(t) = NextMonth(m) /\ NextMonth(m) \in Nat
            /\ \A q \in Starts : m < q => NextMonth(m) <= q
        BY <3>1, <4>1, NextMonthDef DEF Floor
      <4> QED BY <1>1, <1>2, <1>3, <1>4, <3>1, <4>2
    <3>2. CASE ~(m < k)
      BY <1>1, <1>2, <1>3, <1>4, <3>2 DEF Floor
    <3> QED BY <3>1, <3>2
  <2> HIDE DEF k
  <2> QED BY <1>0, <1>1, <1>3, <2>1
<1>5. CASE rollupSince(t) = l
  <2> DEFINE After(q) == {s \in Starts : q < s /\ s <= t}
             P == {q \in Starts : q <= t /\ Cardinality(After(q)) = Lookback - 1}
  <2>1. l = IF P = {} THEN 0 ELSE CHOOSE q \in P : TRUE
    BY DEF MonthsBack
  <2>2. P # {}
    BY <1>3, <1>5, <2>1
  <2>3. l \in P
    BY <2>1, <2>2
  <2>4. l \in Starts /\ l <= t /\ Cardinality(After(l)) = Lookback - 1
    BY <2>3
  <2>5. After(l) # {}
    BY <1>0, <2>4, FS_EmptySet
  <2>6. PICK s \in Starts : l < s /\ s <= t
    BY <2>5
  <2>7. l \in Months /\ s \in Nat /\ l \in Nat
    <3> HIDE DEF l, P, After
    <3>1. s \in Nat /\ l \in Nat
      BY <2>4, <2>6, CalendarAssumption
    <3> QED BY <1>0, <2>4, <3>1 DEF Months
  <2>8. /\ NextMonth(l) \in Nat /\ Length(l) \in Nat /\ NextMonth(l) = l + Length(l)
        /\ NextMonth(l) <= s /\ RollupInterval <= Length(l)
    BY <2>6, <2>7, MonthType DEF WindowPremise
  <2>9. NextMonth(p) <= l
    BY <1>3, <1>5, <2>4
  <2> HIDE DEF l, P, After
  <2> QED BY <1>0, <1>3, <2>6, <2>7, <2>8, <2>9
<1> QED BY <1>4, <1>5 DEF rollupSince

LEMMA LeftOutStep ==
    ASSUME WindowPremise, IndInv, LeftOutIsOld, [Next]_vars
    PROVE  LeftOutIsOld'
<1>0. /\ now \in Time /\ now \in Nat /\ Retention <= now /\ RollupInterval \in Nat
      /\ pc \in [Runs -> {"idle", "rollup", "prune"}] /\ since \in [Runs -> Starts]
      /\ \A p \in Roomy : NextMonth(p) \in Nat
  <2>1. \A p \in Roomy : NextMonth(p) \in Nat
    BY MonthType DEF Roomy
  <2> QED BY <2>1, MeteringAssumption DEF IndInv, TypeOK, Time
<1> SUFFICES ASSUME NEW o \in Runs, pc'[o] = "rollup", NEW p \in Roomy, p < since'[o]
             PROVE  NextMonth(p) + RollupInterval <= now'
  BY DEF LeftOutIsOld
<1>1. CASE UNCHANGED <<now, pc, since>>
  BY <1>1 DEF LeftOutIsOld
<1>2. CASE Tick
  <2>1. NextMonth(p) + RollupInterval <= now /\ now' = now + 1
    BY <1>2 DEF LeftOutIsOld, Tick
  <2> QED BY <1>0, <2>1
<1>3. ASSUME NEW r \in Runs, JobStep(r) PROVE NextMonth(p) + RollupInterval <= now'
  <2>0. now' = now
    BY <1>3 DEF JobStep, Run, RollupUsageEvents, PruneUsageEvents, Abort
  <2>1. CASE pc[o] = "rollup" /\ since'[o] = since[o]
    BY <2>0, <2>1 DEF LeftOutIsOld
  <2>2. CASE Run(r) /\ o = r
    <3>1. since'[o] = rollupSince(now)
      BY <1>0, <2>2 DEF Run
    <3> QED BY <1>0, <2>0, <3>1, LeftOut
  <2>3. ASSUME ~(Run(r) /\ o = r) PROVE pc[o] = "rollup" /\ since'[o] = since[o]
    BY <1>0, <1>3, <2>3 DEF JobStep, Run, RollupUsageEvents, PruneUsageEvents, Abort, End
  <2> QED BY <2>1, <2>2, <2>3
<1>4. UNCHANGED <<now, pc, since>> \/ Tick \/ \E r \in Runs : JobStep(r)
  BY DEF Next, GatewayStep, PassQuota, RefuseQuota, FailOpen, Dispatch, RefuseRate,
         recordUsage, DropUsage, job, vars
<1> QED BY <1>1, <1>2, <1>3, <1>4

\* A rollup counts in full every month that its window holds, and leaves the
\* earlier ones as they are.
LEMMA RollupSettles ==
    ASSUME WindowPremise, IndInv, LeftOutIsOld, Settled, NEW r \in Runs, RollupUsageEvents(r)
    PROVE  Settled'
<1> DEFINE rows == {c \in events : since[r] <= at[c]}
<1>0. /\ TypeOK /\ NeverOvercounts /\ WindowIsWhole /\ RowsOfDoneCalls
      /\ pc[r] = "rollup"
      /\ overdue' = 0 /\ UNCHANGED <<now, late, overlap, ledger, at>>
      /\ rollup' = [p \in Starts |-> IF InMonth(rows, p) = {} THEN rollup[p]
                                     ELSE Cardinality(InMonth(rows, p))]
  BY DEF IndInv, RollupUsageEvents, gateway
<1>1. /\ now \in Nat /\ RollupInterval \in Nat /\ overdue \in 0..RollupInterval
      /\ since[r] \in Starts /\ since[r] \in Nat
      /\ events \subseteq ledger
      /\ \A c \in ledger : at[c] \in Time /\ at[c] \in Nat
  <2>1. now \in Nat /\ RollupInterval \in Nat /\ overdue \in 0..RollupInterval
    BY <1>0, MeteringAssumption DEF TypeOK, Time
  <2>2. since[r] \in Starts /\ since[r] \in Nat
    BY <1>0, CalendarAssumption DEF TypeOK
  <2>3. events \subseteq ledger /\ \A c \in ledger : at[c] \in Time /\ at[c] \in Nat
    BY <1>0, MeteringAssumption DEF TypeOK, Time
  <2> QED BY <2>1, <2>2, <2>3
<1> SUFFICES ASSUME late = 0, overlap = 0, NEW p \in Roomy, NextMonth(p) <= now
             PROVE  rollup'[p] = Cardinality(InMonth(ledger, p))
  <2>1. \A p : InMonth(ledger, p)' = InMonth(ledger, p)
    BY <1>0 DEF InMonth
  <2>2. \A p \in Roomy : NextMonth(p) + 0 = NextMonth(p)
    BY MonthType DEF Roomy
  <2> QED BY <1>0, <2>1, <2>2 DEF Settled
<1>2. /\ p \in Starts /\ p \in Nat /\ p \in Time /\ NextMonth(p) \in Nat
      /\ p < NextMonth(p) /\ \A q \in Starts : p < q => NextMonth(p) <= q
  BY MonthType DEF Roomy
<1>3. rollup[p] \in Nat /\ rollup[p] <= Cardinality(InMonth(ledger, p))
  BY <1>0, <1>2 DEF TypeOK, NeverOvercounts
<1>4. CASE InMonth(rows, p) # {}
  <2>1. InMonth(rows, p) = InMonth(ledger, p)
    BY <1>0, <1>2, <1>4, RecountIsWhole
  <2> QED BY <1>0, <1>2, <1>4, <2>1
<1>5. CASE InMonth(rows, p) = {}
  <2>1. rollup'[p] = rollup[p]
    BY <1>0, <1>2, <1>5
  <2>2. CASE p < since[r]
    <3>1. NextMonth(p) + RollupInterval <= now
      BY <1>0, <2>2 DEF LeftOutIsOld
    <3>2. NextMonth(p) + overdue <= now
      BY <1>1, <1>2, <3>1
    <3> QED BY <2>1, <3>2 DEF Settled
  <2>3. CASE ~(p < since[r])
    <3>1. ASSUME NEW c \in ledger, MonthStart(at[c]) = p PROVE FALSE
      <4>1. p <= at[c]
        BY <1>1, <3>1, MonthStartDef
      <4>2. since[r] <= at[c]
        BY <1>1, <1>2, <2>3, <4>1
      <4>3. c \in events
        BY <1>0, <1>1, <4>2 DEF WindowIsWhole
      <4> QED BY <1>5, <3>1, <4>2, <4>3 DEF InMonth
    <3>2. InMonth(ledger, p) = {}
      BY <3>1 DEF InMonth
    <3>3. Cardinality(InMonth(ledger, p)) = 0
      BY <3>2, FS_EmptySet
    <3> QED BY <1>3, <2>1, <3>3
  <2> QED BY <2>2, <2>3
<1> QED BY <1>4, <1>5

LEMMA SettledStep ==
    ASSUME WindowPremise, IndInv, LeftOutIsOld, Settled, [Next]_vars
    PROVE  Settled'
<1>0. /\ TypeOK /\ RowsOfDoneCalls
      /\ now \in Time /\ now \in Nat /\ RollupInterval \in Nat /\ overdue \in 0..RollupInterval
      /\ \A c \in ledger : at[c] \in Time
      /\ {late, overlap} \subseteq {0, 1}
  BY MeteringAssumption DEF IndInv, TypeOK, Time
<1>1. CASE /\ UNCHANGED <<now, at, ledger, rollup, late, overdue>>
           /\ overlap' = 0 => overlap = 0
  BY <1>1 DEF Settled, InMonth
<1>2. CASE Tick
  <2>1. /\ UNCHANGED <<rollup, at, ledger, overlap>> /\ now' = now + 1
        /\ late' = 0 => late = 0 /\ overdue' = overdue + 1
    BY <1>0, <1>2 DEF Tick, gateway, job
  <2>2. \A p : InMonth(ledger, p)' = InMonth(ledger, p)
    BY <2>1 DEF InMonth
  <2>3. ASSUME late' = 0, NEW p \in Roomy, NextMonth(p) + overdue' <= now'
        PROVE  NextMonth(p) + overdue <= now
    <3>1. NextMonth(p) \in Nat
      BY MonthType DEF Roomy
    <3> QED BY <1>0, <2>1, <2>3, <3>1
  <2> QED BY <2>1, <2>2, <2>3 DEF Settled
<1>3. ASSUME NEW c \in Calls, recordUsage(c) PROVE Settled'
  <2>1. /\ UNCHANGED <<now, rollup, late, overdue, overlap>>
        /\ at' = [at EXCEPT ![c] = now] /\ ledger' = ledger \cup {c}
        /\ c \notin ledger /\ at'[c] = now
    BY <1>0, <1>3 DEF recordUsage, Advance, job, TypeOK, RowsOfDoneCalls
  <2>2. ASSUME NEW p \in Roomy, NextMonth(p) + overdue <= now
        PROVE  InMonth(ledger, p)' = InMonth(ledger, p)
    <3>1. /\ p \in Starts /\ p \in Nat /\ NextMonth(p) \in Nat /\ p < NextMonth(p)
          /\ NextMonth(p) \in Starts
      BY MonthType DEF Roomy
    <3>2. NextMonth(p) <= now
      BY <1>0, <2>2, <3>1
    <3>3. MonthStart(now) # p
      BY <1>0, <3>1, <3>2, MonthStartDef
    <3> QED BY <1>0, <2>1, <3>3 DEF InMonth, TypeOK
  <2> QED BY <2>1, <2>2 DEF Settled
<1>4. ASSUME NEW r \in Runs, RollupUsageEvents(r) PROVE Settled'
  BY <1>4, RollupSettles
<1>5. \/ Tick
      \/ \E c \in Calls : recordUsage(c)
      \/ \E r \in Runs : RollupUsageEvents(r)
      \/ /\ UNCHANGED <<now, at, ledger, rollup, late, overdue>>
         /\ overlap' = 0 => overlap = 0
  BY DEF Next, GatewayStep, PassQuota, RefuseQuota, FailOpen, Dispatch, RefuseRate,
         DropUsage, JobStep, Run, PruneUsageEvents, Abort, job, gateway, vars
<1> QED BY <1>1, <1>2, <1>3, <1>4, <1>5

\* A row past the retention is of a month that ended a RollupInterval ago.
LEMMA SettledCounts ==
    ASSUME IndInv, Settled
    PROVE  PrunedIsCounted
<1> SUFFICES ASSUME NEW c \in ledger \ events, NEW p, p = MonthStart(at[c]),
                    late = 0, overlap = 0, Length(p) + RollupInterval <= Retention
             PROVE  rollup[p] = Cardinality(InMonth(ledger, p))
  BY DEF PrunedIsCounted
<1>0. /\ at[c] \in Time /\ at[c] \in Nat /\ at[c] <= MaxTime /\ MaxTime \in Nat
      /\ now \in Nat /\ Retention \in Nat /\ RollupInterval \in Nat /\ overdue \in 0..RollupInterval
      /\ at[c] < now - Retention
  BY MeteringAssumption DEF IndInv, TypeOK, WindowIsWhole, Cutoff, Time
<1>1. p \in Starts /\ p \in Nat /\ p <= at[c]
  BY <1>0, MonthStartDef
<1>2. p \in Months
  BY <1>0, <1>1 DEF Months
<1>3. p \in Roomy
  BY <1>2 DEF Roomy
<1>4. NextMonth(p) \in Nat /\ Length(p) \in Nat /\ NextMonth(p) = p + Length(p)
  BY <1>2, MonthType
<1>5. NextMonth(p) + overdue <= now
  BY <1>0, <1>1, <1>4
<1> QED BY <1>3, <1>5 DEF Settled

\* While rollups keep their interval and do not overlap, no row is pruned that
\* its month's rollup has not counted: for every calendar whose months last an
\* RollupInterval, and a lookback of at least two months.
THEOREM CountedBeforePruned ==
    ASSUME WindowPremise
    PROVE  Spec => []PrunedIsCounted
<1>1. Init => LeftOutIsOld /\ Settled
  <2> SUFFICES ASSUME Init PROVE LeftOutIsOld /\ Settled
    OBVIOUS
  <2>1. LeftOutIsOld
    BY DEF Init, LeftOutIsOld
  <2>2. \A p : InMonth(ledger, p) = {}
    BY DEF Init, InMonth
  <2>3. \A p \in Roomy : rollup[p] = 0
    BY DEF Init, Roomy, Months
  <2> QED BY <2>1, <2>2, <2>3, FS_EmptySet DEF Settled
<1>2. IndInv /\ LeftOutIsOld /\ Settled /\ [Next]_vars => LeftOutIsOld' /\ Settled'
  BY LeftOutStep, SettledStep
<1>3. IndInv /\ Settled => PrunedIsCounted
  BY SettledCounts
<1> QED BY <1>1, <1>2, <1>3, Invariance, PTL DEF Spec

=============================================================================
