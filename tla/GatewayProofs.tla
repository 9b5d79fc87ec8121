--------------------------- MODULE GatewayProofs ----------------------------
(***************************************************************************)
(* Proofs about Connectors, McpGateway and SheetTools, for any number of   *)
(* organizations, connectors, keys, requests and calls, any cap, any       *)
(* number of sweeps that overlap, any batch, and any capacity and refill   *)
(* of the buckets.  Each invariant says what a request or a sweep carries  *)
(* from one of its statements to the next: the connectors' part is used    *)
(* again for the gateway, which reads the same rows.                       *)
(***************************************************************************)
EXTENDS McpGateway, SheetTools, FiniteSetTheorems, SequenceTheorems, WellFoundedInduction, TLAPS

-----------------------------------------------------------------------------
(* The connectors *)

Creates == [op : {"create"}, conn : Conns,
            new : [type : Types, config : Configs, status : {"inactive"}]]
Updates == [op : {"update"}, conn : Conns, old : Rows, new : Rows]
Checks == [op : {"check"}, conn : Conns, status : Check]
Items == [conn : Conns, was : Statuses]
SweepRows == [at : {"idle", "next", "write", "notify"}, todo : Seq(Items), status : Statuses,
              late : SUBSET Conns]

\* A sweep under way has something to do, and writes what a probe can say.
SweepOK(w) ==
    /\ w \in SweepRows
    /\ w.at # "idle" => w.todo # <<>>
    /\ w.at = "write" => w.status \in Check

ConnTypes ==
    /\ row \in [Conns -> Rows] /\ drawn \subseteq Conns /\ stamped \in Seq(Conns)
    /\ pend \in [Requests -> {Idle} \cup Creates \cup Updates \cup Checks]
    /\ sweep \in [Sweeps -> SweepRows] /\ \A s \in Sweeps : SweepOK(sweep[s])
    /\ changes \in Nat /\ told \subseteq Conns /\ dup \in BOOLEAN /\ clobbered \in BOOLEAN

\* An id belongs to one row, or to one request that will insert it.
ConnIds ==
    /\ Present \subseteq drawn /\ told \subseteq drawn
    /\ Range(stamped) \subseteq Present /\ IsInjective(stamped)
    /\ \A r \in Requests :
          /\ pend[r].op = "create" => pend[r].conn \in drawn \ (Present \cup told)
          /\ pend[r].op = "update" => pend[r].new.type # "none"
    /\ \A r, s \in Requests :
          pend[r].op = "create" /\ pend[s].op = "create" /\ pend[r].conn = pend[s].conn => r = s

Creating(o) == {r \in Requests : pend[r].op = "create" /\ OrgOf(pend[r].conn) = o}
OfOrg(o) == {c \in Present : OrgOf(c) = o}

WithinCap ==
    \A o \in Orgs :
        Cardinality(OfOrg(o)) + Cardinality(Creating(o))
          <= (IF MaxConnectors = 0 THEN 0 ELSE MaxConnectors - 1 + Cardinality(Requests))

\* Rows of its batch a sweep has still to write.
Due(w, i) == i \in 1 .. Len(w.todo) /\ (i = 1 => w.at # "notify")

\* What a sweep has still to write and saw active, nobody was told of, or
\* was while the sweep was under way.
NewsOnly(w, T) ==
    /\ \A i, j \in 1 .. Len(w.todo) : w.todo[i].conn = w.todo[j].conn => i = j
    /\ \A i \in 1 .. Len(w.todo) :
          Due(w, i) /\ w.todo[i].conn \in T \ w.late => w.todo[i].was # "active"

AlertOnce ==
    /\ ~dup
    /\ clobbered => told = {}
    /\ \A c \in told \cap Present : row[c].status = "error"
    /\ \A s \in Sweeps : NewsOnly(sweep[s], told)

ConnInd == ConnTypes /\ ConnIds /\ WithinCap /\ AlertOnce

-----------------------------------------------------------------------------

\* Taking an id out of the order leaves the others, each once.
LEMMA RemoveFirstDef ==
    ASSUME NEW S, NEW s \in Seq(S), IsInjective(s), NEW c
    PROVE  /\ RemoveFirst(s, c) \in Seq(S) /\ IsInjective(RemoveFirst(s, c))
           /\ Range(RemoveFirst(s, c)) = Range(s) \ {c}
<1> DEFINE I == {i \in 1 .. Len(s) : s[i] = c}
<1>0. Len(s) \in Nat /\ DOMAIN s = 1 .. Len(s) /\ Range(s) = {s[i] : i \in 1 .. Len(s)}
  BY LenProperties DEF Range
<1>1. CASE I = {}
  <2>1. RemoveFirst(s, c) = s
    BY <1>1 DEF RemoveFirst
  <2> QED BY <2>1, <1>1, <1>0
<1>2. CASE I # {}
  <2>1. PICK k \in 1 .. Len(s) : s[k] = c
    BY <1>2
  <2>2. I = {k}
    BY <2>1, <1>0 DEF IsInjective
  <2>3. SelectInSeq(s, LAMBDA v : v = c) = k
    BY <2>2 DEF SelectInSeq, Min
  <2> DEFINE t == SubSeq(s, 1, k - 1) \o SubSeq(s, k + 1, Len(s))
  <2>4. RemoveFirst(s, c) = t
    BY <2>1, <2>3 DEF RemoveFirst, RemoveAt
  <2>5. \A i \in 1 .. Len(s) : s[i] \in S
    BY ElementOfSeq
  <2>6. /\ SubSeq(s, 1, k - 1) \in Seq(S) /\ Len(SubSeq(s, 1, k - 1)) = k - 1
        /\ \A i \in 1 .. k - 1 : SubSeq(s, 1, k - 1)[i] = s[i]
    OBVIOUS
  <2>7. /\ SubSeq(s, k + 1, Len(s)) \in Seq(S)
        /\ Len(SubSeq(s, k + 1, Len(s))) = Len(s) - k
        /\ \A i \in 1 .. Len(s) - k : SubSeq(s, k + 1, Len(s))[i] = s[k + i]
    OBVIOUS
  <2>8. /\ t \in Seq(S) /\ Len(t) = Len(s) - 1 /\ DOMAIN t = 1 .. Len(s) - 1
        /\ \A i \in 1 .. Len(s) - 1 : t[i] = IF i < k THEN s[i] ELSE s[i + 1]
    <3> DEFINE u == SubSeq(s, 1, k - 1)  v == SubSeq(s, k + 1, Len(s))
    <3>0. /\ u \in Seq(S) /\ v \in Seq(S) /\ Len(u) = k - 1 /\ Len(v) = Len(s) - k
          /\ \A i \in 1 .. k - 1 : u[i] = s[i]
          /\ \A i \in 1 .. Len(s) - k : v[i] = s[k + i]
      BY <2>6, <2>7
    <3>1. /\ t \in Seq(S) /\ Len(t) = Len(u) + Len(v)
          /\ \A i \in 1 .. Len(u) + Len(v) : t[i] = IF i <= Len(u) THEN u[i] ELSE v[i - Len(u)]
      <4> HIDE DEF u, v
      <4> QED BY <3>0, ConcatProperties DEF t, u, v
    <3> HIDE DEF t, u, v
    <3>2. ASSUME NEW i \in 1 .. Len(s) - 1
          PROVE  t[i] = IF i < k THEN s[i] ELSE s[i + 1]
      <4>0. i \in 1 .. Len(u) + Len(v) /\ (i < k <=> i <= Len(u)) /\ k \in Int /\ i \in Int
        BY <3>0, <1>0
      <4>1. CASE i < k
        <5>1. t[i] = u[i] /\ i \in 1 .. k - 1
          BY <4>0, <4>1, <3>1
        <5> QED BY <5>1, <4>1, <3>0
      <4>2. CASE ~(i < k)
        <5>1. i - (k - 1) \in 1 .. Len(s) - k /\ k + (i - (k - 1)) = i + 1
          BY <4>2, <1>0
        <5>2. t[i] = v[i - (k - 1)]
          BY <4>0, <4>2, <3>0, <3>1
        <5>3. v[i - (k - 1)] = s[k + (i - (k - 1))]
          BY <5>1, <3>0
        <5> QED BY <5>1, <5>2, <5>3, <4>2
      <4> QED BY <4>1, <4>2
    <3>3. Len(t) = Len(s) - 1
      BY <3>0, <3>1, <1>0
    <3> QED BY <3>1, <3>2, <3>3, <1>0, LenProperties
  <2> HIDE DEF t
  <2>9. IsInjective(t)
    <3> SUFFICES ASSUME NEW i \in DOMAIN t, NEW j \in DOMAIN t, t[i] = t[j] PROVE i = j
      BY DEF IsInjective
    <3>1. \A a, b \in 1 .. Len(s) : s[a] = s[b] => a = b
      BY <1>0 DEF IsInjective
    <3> QED BY <2>8, <3>1, <1>0
  <2>10. Range(t) = Range(s) \ {c}
    <3>1. ASSUME NEW x \in Range(t) PROVE x \in Range(s) \ {c}
      <4>1. PICK i \in 1 .. Len(s) - 1 : x = t[i]
        BY <2>8 DEF Range
      <4>2. \A a, b \in 1 .. Len(s) : s[a] = s[b] => a = b
        BY <1>0 DEF IsInjective
      <4> QED BY <4>1, <4>2, <2>8, <2>1, <1>0
    <3>2. ASSUME NEW x \in Range(s) \ {c} PROVE x \in Range(t)
      <4>1. PICK i \in 1 .. Len(s) : x = s[i]
        BY <1>0
      <4>2. i # k
        BY <4>1, <2>1, <3>2
      <4>3. CASE i < k
        BY <4>3, <4>1, <2>8, <1>0 DEF Range
      <4>4. CASE i > k
        <5>1. i - 1 \in DOMAIN t /\ t[i - 1] = s[i]
          BY <4>4, <2>8, <1>0
        <5> QED BY <5>1, <4>1 DEF Range
      <4> QED BY <4>2, <4>3, <4>4, <1>0
    <3> QED BY <3>1, <3>2
  <2> QED BY <2>4, <2>8, <2>9, <2>10
<1> QED BY <1>1, <1>2

\* What a request holds follows from what it is doing.
LEMMA PendKinds ==
    ASSUME ConnTypes, NEW r \in Requests
    PROVE  /\ pend[r].op = "create" => pend[r] \in Creates
           /\ pend[r].op = "update" => pend[r] \in Updates
           /\ pend[r].op = "check" => pend[r] \in Checks
           /\ pend[r].op \in {"idle", "create", "update", "check"}
           /\ pend[r] = Idle => pend[r].op = "idle"
BY DEF ConnTypes, Idle, Creates, Updates, Checks

\* A row that is there is whole.
LEMMA RowIsTyped ==
    ASSUME ConnTypes, NEW c \in Conns
    PROVE  /\ row[c] \in Rows /\ DOMAIN row[c] = {"type", "config", "status"}
           /\ c \in Present <=> row[c].type # "none"
BY DEF ConnTypes, Rows, Present

\* The order after an id was stamped.
LEMMA AppendStamp ==
    ASSUME NEW s \in Seq(Conns), IsInjective(s), NEW c \in Conns
    PROVE  LET t == Append(RemoveFirst(s, c), c)
           IN t \in Seq(Conns) /\ IsInjective(t) /\ Range(t) = Range(s) \cup {c}
<1> DEFINE u == RemoveFirst(s, c)
<1>1. u \in Seq(Conns) /\ IsInjective(u) /\ Range(u) = Range(s) \ {c}
  BY RemoveFirstDef
<1> HIDE DEF u
<1> DEFINE t == Append(u, c)
<1>2. /\ t \in Seq(Conns) /\ Len(t) = Len(u) + 1
      /\ \A i \in 1 .. Len(u) : t[i] = u[i]
      /\ t[Len(u) + 1] = c
  BY <1>1, AppendProperties
<1>3. Len(u) \in Nat /\ DOMAIN u = 1 .. Len(u) /\ DOMAIN t = 1 .. Len(u) + 1
  BY <1>1, <1>2, LenProperties
<1> HIDE DEF t
<1>4. \A i \in 1 .. Len(u) : u[i] # c
  BY <1>1, <1>3 DEF Range
<1>5. IsInjective(t)
  <2> SUFFICES ASSUME NEW i \in 1 .. Len(u) + 1, NEW j \in 1 .. Len(u) + 1, t[i] = t[j]
               PROVE  i = j
    BY <1>3 DEF IsInjective
  <2>1. i \in 1 .. Len(u) \/ i = Len(u) + 1
    BY <1>3
  <2>2. j \in 1 .. Len(u) \/ j = Len(u) + 1
    BY <1>3
  <2>3. \A a, b \in 1 .. Len(u) : u[a] = u[b] => a = b
    BY <1>1, <1>3 DEF IsInjective
  <2> QED BY <2>1, <2>2, <2>3, <1>2, <1>4
<1>6. Range(t) = Range(s) \cup {c}
  <2>1. ASSUME NEW x \in Range(t) PROVE x \in Range(s) \cup {c}
    <3>1. PICK i \in 1 .. Len(u) + 1 : x = t[i]
      BY <1>3 DEF Range
    <3>2. i \in 1 .. Len(u) \/ i = Len(u) + 1
      BY <1>3
    <3> QED BY <3>1, <3>2, <1>1, <1>2, <1>3 DEF Range
  <2>2. ASSUME NEW x \in Range(u) PROVE x \in Range(t)
    <3>1. PICK i \in 1 .. Len(u) : x = u[i]
      BY <1>3 DEF Range
    <3>2. i \in DOMAIN t /\ t[i] = x
      BY <3>1, <1>2, <1>3
    <3> QED BY <3>2 DEF Range
  <2>3. c \in Range(t)
    <3>1. Len(u) + 1 \in DOMAIN t
      BY <1>3
    <3> QED BY <3>1, <1>2 DEF Range
  <2> QED BY <2>1, <2>2, <2>3, <1>1
<1> QED BY <1>2, <1>5, <1>6 DEF t, u

\* The write of a health check (UpdateConnectorHealth) changes a status only.
LEMMA HealthWritten ==
    ASSUME ConnTypes, ConnIds, NEW c \in Present, NEW st \in Check,
           UpdateConnectorHealth(c, st)
    PROVE  /\ row' \in [Conns -> Rows] /\ Present' = Present
           /\ \A d \in Conns : row'[d].status = IF d = c THEN st ELSE row[d].status
           /\ stamped' \in Seq(Conns) /\ IsInjective(stamped') /\ Range(stamped') \subseteq Present
<1>1. c \in Conns /\ c \in Present
  BY DEF Present
<1>2. stamped' \in Seq(Conns) /\ IsInjective(stamped') /\ Range(stamped') = Range(stamped) \cup {c}
  BY <1>1, AppendStamp DEF ConnTypes, ConnIds, UpdateConnectorHealth
<1>3. /\ row' \in [Conns -> Rows]
      /\ \A d \in Conns : /\ row'[d].status = IF d = c THEN st ELSE row[d].status
                          /\ row'[d].type = row[d].type
  BY <1>1 DEF ConnTypes, UpdateConnectorHealth, Rows, Check, Statuses
<1> QED BY <1>1, <1>2, <1>3 DEF Present, ConnIds

\* A sweep leaves the head of its batch and keeps the rest.
LEMMA SweepDone ==
    ASSUME NEW w, SweepOK(w), w.at # "idle"
    PROVE  /\ SweepOK(Done(w)) /\ Done(w) \in SweepRows
           /\ Len(Done(w).todo) = Len(w.todo) - 1
           /\ Len(w.todo) # 1 => Done(w).late = w.late
           /\ \A i \in 1 .. Len(w.todo) - 1 : Done(w).todo[i] = w.todo[i + 1]
           /\ Head(w.todo) = w.todo[1] /\ 1 \in 1 .. Len(w.todo)
           /\ Head(w.todo) \in Items
<1>1. w.todo \in Seq(Items) /\ w.todo # <<>> /\ w.late \in SUBSET Conns
  BY DEF SweepOK, SweepRows
<1>2. /\ Head(w.todo) \in Items /\ Head(w.todo) = w.todo[1]
      /\ Tail(w.todo) \in Seq(Items) /\ Len(Tail(w.todo)) = Len(w.todo) - 1
      /\ \A i \in 1 .. Len(w.todo) - 1 : Tail(w.todo)[i] = w.todo[i + 1]
      /\ Len(w.todo) \in Nat \ {0}
  BY <1>1, HeadTailProperties, EmptySeq
<1>3. CASE Len(w.todo) = 1
  BY <1>2, <1>3 DEF Done, Asleep, Statuses, SweepOK, SweepRows
<1>4. CASE Len(w.todo) # 1
  <2>1. Done(w) = [at |-> "next", todo |-> Tail(w.todo), status |-> "inactive", late |-> w.late]
    BY <1>4 DEF Done
  <2>2. Tail(w.todo) # <<>>
    <3>1. Len(Tail(w.todo)) # 0
      BY <1>2, <1>4
    <3> QED BY <3>1, EmptySeq
  <2> DEFINE d == Done(w)
  <2>3. d.at = "next" /\ d.todo = Tail(w.todo) /\ d.status = "inactive" /\ d.late = w.late
    BY <2>1
  <2>4. d \in SweepRows
    BY <2>1, <1>1, <1>2 DEF SweepRows, Statuses
  <2> HIDE DEF d
  <2>5. SweepOK(d)
    BY <2>2, <2>3, <2>4 DEF SweepOK
  <2> QED BY <2>3, <2>4, <2>5, <1>2 DEF d
<1> QED BY <1>3, <1>4

\* What another sweep told of is noted, and nothing else of a sweep changes.
LEMMA SweepOvertaken ==
    ASSUME NEW w, SweepOK(w), NEW c \in Conns
    PROVE  /\ SweepOK(Overtaken(w, c)) /\ Overtaken(w, c) \in SweepRows
           /\ Overtaken(w, c).todo = w.todo /\ Overtaken(w, c).at = w.at
           /\ w.late \subseteq Overtaken(w, c).late
           /\ \A i \in DOMAIN w.todo : w.todo[i].conn = c => c \in Overtaken(w, c).late
BY DEF Overtaken, SweepOK, SweepRows

\* A function on 1 .. n is a sequence.
LEMMA FunctionIsSeq ==
    ASSUME NEW S, NEW n \in Nat, NEW f \in [1 .. n -> S]
    PROVE  f \in Seq(S) /\ Len(f) = n
OBVIOUS

\* A batch holds each id once, with the status its row has.
LEMMA RunBatch ==
    ASSUME ConnTypes, ConnIds, NEW s \in Sweeps, Run(s)
    PROVE  \E w \in SweepRows :
           /\ sweep' = [sweep EXCEPT ![s] = w] /\ SweepOK(w)
           /\ \A i \in 1 .. Len(w.todo) :
                 w.todo[i].conn \in Present /\ w.todo[i].was = row[w.todo[i].conn].status
           /\ \A i, j \in 1 .. Len(w.todo) : w.todo[i].conn = w.todo[j].conn => i = j
<1>1. PICK never \in SetToSeqs(Present \ Range(stamped)) :
          LET batch == ListConnectorsForHealthCheck(never)
          IN  /\ batch # <<>>
              /\ sweep' = [sweep EXCEPT ![s] = Batch(batch)]
  BY DEF Run
<1> DEFINE N == Present \ Range(stamped)
           batch == ListConnectorsForHealthCheck(never)
           all == never \o stamped
<1>2. Cardinality(N) \in Nat /\ N \subseteq Conns
  <2>1. IsFiniteSet(N) /\ N \subseteq Conns
    BY FS_Subset, ConnectorAssumption DEF Present
  <2> QED BY <2>1, FS_CardinalityType
<1>3. /\ never \in [1 .. Cardinality(N) -> N]
      /\ \A i, j \in 1 .. Cardinality(N) : i # j => never[i] # never[j]
  BY <1>1 DEF SetToSeqs
<1>4. /\ never \in Seq(N) /\ never \in Seq(Conns) /\ Len(never) = Cardinality(N)
      /\ \A i \in 1 .. Len(never) : never[i] \in Present \ Range(stamped)
  <2>1. never \in [1 .. Cardinality(N) -> Conns]
    BY <1>2, <1>3
  <2>2. /\ never \in Seq(N) /\ Len(never) = Cardinality(N)
    BY <1>2, <1>3, FunctionIsSeq
  <2>3. never \in Seq(Conns)
    BY <2>1, <1>2, FunctionIsSeq
  <2> QED BY <2>2, <2>3, <1>3
<1>5. /\ stamped \in Seq(Conns) /\ Len(stamped) \in Nat /\ DOMAIN stamped = 1 .. Len(stamped)
      /\ \A i, j \in 1 .. Len(stamped) : stamped[i] = stamped[j] => i = j
      /\ \A i \in 1 .. Len(stamped) : stamped[i] \in Range(stamped) /\ stamped[i] \in Present
  BY LenProperties DEF ConnTypes, ConnIds, IsInjective, Range
<1> HIDE DEF N
<1>6. /\ all \in Seq(Conns) /\ Len(all) = Len(never) + Len(stamped)
      /\ \A i \in 1 .. Len(never) + Len(stamped) :
            all[i] = IF i <= Len(never) THEN never[i] ELSE stamped[i - Len(never)]
  <2>1. never \in Seq(Conns) /\ stamped \in Seq(Conns)
    BY <1>4, <1>5
  <2> QED BY <2>1, ConcatProperties
<1> HIDE DEF all
<1>7. \A i \in 1 .. Len(all) : all[i] \in Present
  <2> SUFFICES ASSUME NEW i \in 1 .. Len(all) PROVE all[i] \in Present
    OBVIOUS
  <2>1. CASE i <= Len(never)
    BY <2>1, <1>2, <1>4, <1>6
  <2>2. CASE ~(i <= Len(never))
    <3>1. i - Len(never) \in 1 .. Len(stamped)
      BY <2>2, <1>2, <1>4, <1>5, <1>6
    <3> QED BY <3>1, <2>2, <1>5, <1>6
  <2> QED BY <2>1, <2>2
<1>8. \A i, j \in 1 .. Len(all) : all[i] = all[j] => i = j
  <2> SUFFICES ASSUME NEW i \in 1 .. Len(all), NEW j \in 1 .. Len(all), all[i] = all[j] PROVE i = j
    OBVIOUS
  <2>0. Len(never) \in Nat /\ i \in 1 .. Len(never) + Len(stamped) /\ j \in 1 .. Len(never) + Len(stamped)
    BY <1>2, <1>4, <1>6
  <2>1. CASE i <= Len(never) /\ j <= Len(never)
    BY <2>0, <2>1, <1>3, <1>4, <1>6
  <2>2. CASE i <= Len(never) /\ ~(j <= Len(never))
    <3>1. j - Len(never) \in 1 .. Len(stamped) /\ i \in 1 .. Len(never)
      BY <2>0, <2>2, <1>5
    <3>2. all[i] = never[i] /\ all[j] = stamped[j - Len(never)]
      BY <2>0, <2>2, <1>6
    <3> QED BY <3>1, <3>2, <1>4, <1>5
  <2>3. CASE ~(i <= Len(never)) /\ j <= Len(never)
    <3>1. i - Len(never) \in 1 .. Len(stamped) /\ j \in 1 .. Len(never)
      BY <2>0, <2>3, <1>5
    <3>2. all[j] = never[j] /\ all[i] = stamped[i - Len(never)]
      BY <2>0, <2>3, <1>6
    <3> QED BY <3>1, <3>2, <1>4, <1>5
  <2>4. CASE ~(i <= Len(never)) /\ ~(j <= Len(never))
    <3>1. i - Len(never) \in 1 .. Len(stamped) /\ j - Len(never) \in 1 .. Len(stamped)
      BY <2>0, <2>4, <1>5
    <3>2. all[i] = stamped[i - Len(never)] /\ all[j] = stamped[j - Len(never)]
      BY <2>0, <2>4, <1>6
    <3>3. i - Len(never) = j - Len(never)
      BY <3>1, <3>2, <1>5
    <3> QED BY <3>3, <2>0
  <2> QED BY <2>1, <2>2, <2>3, <2>4
<1> DEFINE n == IF Len(all) < BatchSize THEN Len(all) ELSE BatchSize
<1>9. n \in 0 .. Len(all) /\ Len(all) \in Nat
  BY <1>2, <1>4, <1>5, <1>6, ConnectorAssumption
<1>10. batch = SubSeq(all, 1, n)
  BY DEF ListConnectorsForHealthCheck, all
<1> HIDE DEF n, batch
<1>11. /\ batch \in Seq(Conns) /\ Len(batch) = n /\ \A i \in 1 .. n : batch[i] = all[i]
       /\ DOMAIN batch = 1 .. n
  BY <1>6, <1>9, <1>10
<1>12. batch # <<>> /\ sweep' = [sweep EXCEPT ![s] = Batch(batch)]
  BY <1>1 DEF batch
<1> DEFINE todo == [i \in 1 .. n |-> [conn |-> batch[i], was |-> row[batch[i]].status]]
<1>13. \A i \in 1 .. n : [conn |-> batch[i], was |-> row[batch[i]].status] \in Items
  BY <1>7, <1>9, <1>11 DEF Items, ConnTypes, Rows, Present
<1>14. todo \in Seq(Items) /\ Len(todo) = n
  <2>1. todo \in [1 .. n -> Items] /\ n \in Nat
    BY <1>9, <1>13
  <2> HIDE DEF todo
  <2> QED BY <2>1, FunctionIsSeq
<1>15. n # 0
  BY <1>11, <1>12, EmptySeq
<1>16. todo # <<>>
  BY <1>14, <1>15, EmptySeq
<1> DEFINE w == Batch(batch)
<1>17. /\ w.todo = todo /\ w.at = "next"
       /\ w \in [at : {"next"}, todo : {todo}, status : {"inactive"}, late : {{}}]
  <2>1. w = [at |-> "next", todo |-> todo, status |-> "inactive", late |-> {}]
    BY <1>11 DEF Batch, Asleep
  <2> HIDE DEF w, todo
  <2> QED BY <2>1
<1>18. \A i \in 1 .. n : todo[i].conn = batch[i] /\ todo[i].was = row[batch[i]].status
  OBVIOUS
<1> HIDE DEF todo, w
<1>19. w \in SweepRows /\ SweepOK(w)
  BY <1>14, <1>16, <1>17 DEF Statuses, SweepRows, SweepOK
<1>20. \A i, j \in 1 .. n : todo[i].conn = todo[j].conn => i = j
  BY <1>8, <1>9, <1>11, <1>18
<1>21. \A i \in 1 .. n : todo[i].conn \in Present
  BY <1>7, <1>9, <1>11, <1>18
<1>22. /\ w \in SweepRows /\ sweep' = [sweep EXCEPT ![s] = w] /\ SweepOK(w)
       /\ \A i \in 1 .. Len(w.todo) :
             w.todo[i].conn \in Present /\ w.todo[i].was = row[w.todo[i].conn].status
       /\ \A i, j \in 1 .. Len(w.todo) : w.todo[i].conn = w.todo[j].conn => i = j
  <2>1. sweep' = [sweep EXCEPT ![s] = w]
    BY <1>12 DEF w
  <2> QED BY <2>1, <1>14, <1>17, <1>18, <1>19, <1>20, <1>21
<1> QED BY <1>22

-----------------------------------------------------------------------------

\* The invariant holds at the start.
LEMMA ConnInit == InitConnectors => ConnInd
<1> SUFFICES ASSUME InitConnectors PROVE ConnInd
  OBVIOUS
<1> USE DEF InitConnectors
<1>1. /\ row = [c \in Conns |-> Absent] /\ pend = [r \in Requests |-> Idle]
      /\ sweep = [s \in Sweeps |-> Asleep]
      /\ Present = {} /\ \A o \in Orgs : OfOrg(o) = {} /\ Creating(o) = {}
  BY DEF Present, OfOrg, Creating, Absent, Idle
<1>2. /\ <<>> \in Seq(Conns) /\ <<>> \in Seq(Items) /\ Range(<<>>) = {} /\ IsInjective(<<>>)
      /\ Len(<<>>) = 0
  BY DEF Range, IsInjective
<1>3. ConnTypes
  <2>1. Absent \in Rows /\ Asleep \in SweepRows /\ SweepOK(Asleep)
    BY <1>2 DEF Rows, Absent, Asleep, Statuses, SweepRows, SweepOK
  <2> HIDE DEF InitConnectors
  <2>2. /\ drawn = {} /\ stamped = <<>> /\ changes = 0 /\ told = {} /\ dup = FALSE /\ clobbered = FALSE
    BY DEF InitConnectors
  <2> QED BY <2>1, <2>2, <1>1, <1>2 DEF ConnTypes
<1>4. ConnIds
  BY <1>1, <1>2 DEF ConnIds, Idle
<1>5. WithinCap
  <2>1. Cardinality({}) = 0 /\ Cardinality(Requests) \in Nat
    BY FS_EmptySet, FS_CardinalityType, ConnectorAssumption
  <2>2. \A o \in Orgs : Cardinality(OfOrg(o)) = 0 /\ Cardinality(Creating(o)) = 0
    BY <2>1, <1>1
  <2> HIDE DEF InitConnectors
  <2> QED BY <2>1, <2>2, ConnectorAssumption DEF WithinCap
<1>6. AlertOnce
  BY <1>1, <1>2 DEF AlertOnce, NewsOnly, Asleep
<1> QED BY <1>3, <1>4, <1>5, <1>6 DEF ConnInd

\* Types and ids, action by action.
LEMMA ConnTypesStep == ConnTypes /\ ConnIds /\ [NextConnectors]_connVars => ConnTypes' /\ ConnIds'
<1> SUFFICES ASSUME ConnTypes, ConnIds, [NextConnectors]_connVars PROVE ConnTypes' /\ ConnIds'
  OBVIOUS
<1> USE DEF Idle
<1>1. ASSUME NEW r \in Requests, NEW c \in Conns, NEW t \in Types, NEW cfg \in Configs,
             Create(r, c, t, cfg)
      PROVE  ConnTypes' /\ ConnIds'
  <2>1. Present' = Present
    BY <1>1 DEF Create, Present
  <2> DEFINE p == [op |-> "create", conn |-> c,
                   new |-> [type |-> t, config |-> cfg, status |-> "inactive"]]
  <2>2. p \in Creates /\ p.op = "create" /\ p.conn = c
    BY DEF Creates
  <2>3. pend' = [pend EXCEPT ![r] = p] /\ drawn' = drawn \cup {c} /\ c \notin drawn
    BY <1>1 DEF Create
  <2> HIDE DEF p
  <2>4. ConnTypes'
    BY <1>1, <2>2, <2>3 DEF ConnTypes, Create
  <2>5. ConnIds'
    BY <1>1, <2>1, <2>2, <2>3, PendKinds DEF ConnTypes, ConnIds, Create
  <2> QED BY <2>4, <2>5
<1>2. ASSUME NEW r \in Requests, CreateConnector(r)
      PROVE  ConnTypes' /\ ConnIds'
  <2>1. pend[r] \in Creates
    BY <1>2, PendKinds DEF CreateConnector
  <2>2. pend[r].conn \in Conns /\ pend[r].new \in Rows /\ pend[r].new.type # "none"
    BY <2>1 DEF Creates, Rows, Statuses, Types
  <2>3. row' = [row EXCEPT ![pend[r].conn] = pend[r].new] /\ Present' = Present \cup {pend[r].conn}
    BY <1>2, <2>2 DEF CreateConnector, Present, ConnTypes
  <2>4. ConnTypes'
    BY <1>2, <2>2, <2>3 DEF ConnTypes, CreateConnector
  <2>5. ConnIds'
    <3>1. /\ pend' = [pend EXCEPT ![r] = Idle] /\ UNCHANGED <<drawn, stamped, told>>
          /\ pend[r].op = "create"
      BY <1>2 DEF CreateConnector
    <3> QED BY <3>1, <2>2, <2>3 DEF ConnTypes, ConnIds
  <2> QED BY <2>4, <2>5
<1>3. ASSUME NEW r \in Requests, NEW c \in Conns, NEW f \in Patches, Update(r, c, f)
      PROVE  ConnTypes' /\ ConnIds'
  <2> DEFINE new == [g \in DOMAIN row[c] |-> IF g \in DOMAIN f THEN f[g] ELSE row[c][g]]
             p == [op |-> "update", conn |-> c, old |-> row[c], new |-> new]
  <2>1. row[c] \in Rows /\ DOMAIN row[c] = {"type", "config", "status"} /\ row[c].type # "none"
    BY <1>3, RowIsTyped DEF Update
  <2>2. /\ "type" \notin DOMAIN f
        /\ "config" \in DOMAIN f => f.config \in Configs
        /\ "status" \in DOMAIN f => f.status \in Statuses
    BY PatchAssumption DEF Statuses
  <2>3. new \in Rows /\ new.type # "none"
    BY <2>1, <2>2 DEF Rows
  <2> HIDE DEF new
  <2>4. p \in Updates /\ p.op = "update" /\ p.new = new
    BY <2>1, <2>3 DEF Updates
  <2>5. pend' = [pend EXCEPT ![r] = p] /\ changes' = changes + 1
    BY <1>3 DEF Update, Change, new
  <2> HIDE DEF p
  <2>6. UNCHANGED <<row, drawn, stamped, sweep, told, dup, clobbered>> /\ Present' = Present
    BY <1>3 DEF Update, Present
  <2>7. ConnTypes'
    BY <2>4, <2>5, <2>6 DEF ConnTypes
  <2>8. ConnIds'
    BY <2>3, <2>4, <2>5, <2>6 DEF ConnTypes, ConnIds
  <2> QED BY <2>7, <2>8
<1>4. ASSUME NEW r \in Requests, UpdateConnector(r)
      PROVE  ConnTypes' /\ ConnIds'
  <2>1. pend[r] \in Updates /\ pend[r].new.type # "none"
    BY <1>4, PendKinds DEF UpdateConnector, ConnIds
  <2>2. pend[r].conn \in Conns /\ pend[r].new \in Rows /\ pend[r].conn \in Present
    BY <1>4, <2>1 DEF Updates, UpdateConnector
  <2>3. row' = [row EXCEPT ![pend[r].conn] = pend[r].new] /\ Present' = Present
    BY <1>4, <2>1, <2>2 DEF UpdateConnector, Present, ConnTypes
  <2>4. /\ pend' = [pend EXCEPT ![r] = Idle] /\ told' \subseteq told /\ clobbered' \in BOOLEAN
        /\ UNCHANGED <<drawn, stamped, sweep, changes, dup>>
    BY <1>4 DEF UpdateConnector, ConnTypes
  <2>5. ConnTypes'
    BY <2>2, <2>3, <2>4 DEF ConnTypes
  <2>6. ConnIds'
    BY <2>3, <2>4 DEF ConnTypes, ConnIds
  <2> QED BY <2>5, <2>6
<1>5. ASSUME NEW r \in Requests, NEW c \in Conns, CheckHealth(r, c)
      PROVE  ConnTypes' /\ ConnIds'
  <2>1. PICK st \in Check : pend' = [pend EXCEPT ![r] = [op |-> "check", conn |-> c, status |-> st]]
    BY <1>5 DEF CheckHealth
  <2> DEFINE p == [op |-> "check", conn |-> c, status |-> st]
  <2>2. p \in Checks /\ p.op = "check"
    BY DEF Checks
  <2>3. pend' = [pend EXCEPT ![r] = p]
    BY <2>1
  <2> HIDE DEF p
  <2>4. /\ UNCHANGED <<row, drawn, stamped, sweep, told, dup, clobbered>> /\ Present' = Present
        /\ changes' = changes + 1
    BY <1>5 DEF CheckHealth, Change, Present
  <2> QED BY <2>2, <2>3, <2>4 DEF ConnTypes, ConnIds
<1>6. ASSUME NEW r \in Requests, CheckHealthWrite(r)
      PROVE  ConnTypes' /\ ConnIds'
  <2>1. pend[r] \in Checks
    BY <1>6, PendKinds DEF CheckHealthWrite
  <2>2. pend[r].status \in Check /\ pend[r].conn \in Present
    BY <1>6, <2>1 DEF Checks, CheckHealthWrite
  <2>3. UpdateConnectorHealth(pend[r].conn, pend[r].status)
    BY <1>6 DEF CheckHealthWrite
  <2>4. /\ row' \in [Conns -> Rows] /\ Present' = Present
        /\ stamped' \in Seq(Conns) /\ IsInjective(stamped') /\ Range(stamped') \subseteq Present
    BY <2>2, <2>3, HealthWritten
  <2>5. /\ pend' = [pend EXCEPT ![r] = Idle] /\ told' \subseteq told
        /\ UNCHANGED <<drawn, sweep, changes, dup, clobbered>>
    BY <1>6 DEF CheckHealthWrite
  <2> QED BY <2>4, <2>5 DEF ConnTypes, ConnIds
<1>7. ASSUME NEW r \in Requests, Abandon(r)
      PROVE  ConnTypes' /\ ConnIds'
  <2>1. /\ pend' = [pend EXCEPT ![r] = Idle] /\ Present' = Present
        /\ UNCHANGED <<row, drawn, stamped, sweep, changes, told, dup, clobbered>>
    BY <1>7 DEF Abandon, Present
  <2> QED BY <2>1 DEF ConnTypes, ConnIds
<1>8. ASSUME NEW c \in Conns, DeleteConnector(c)
      PROVE  ConnTypes' /\ ConnIds'
  <2>1. /\ row' = [row EXCEPT ![c] = Absent] /\ stamped' = RemoveFirst(stamped, c)
        /\ UNCHANGED <<drawn, pend, sweep, told, dup, clobbered>> /\ changes' = changes + 1
    BY <1>8 DEF DeleteConnector, Change
  <2>2. Absent \in Rows /\ Absent.type = "none"
    BY DEF Absent, Rows, Statuses
  <2>3. Present' = Present \ {c}
    BY <2>1, <2>2 DEF Present, ConnTypes
  <2>4. stamped' \in Seq(Conns) /\ IsInjective(stamped') /\ Range(stamped') = Range(stamped) \ {c}
    BY <2>1, RemoveFirstDef DEF ConnTypes, ConnIds
  <2>5. ConnTypes'
    BY <2>1, <2>2, <2>4 DEF ConnTypes
  <2>6. ConnIds'
    BY <2>1, <2>3, <2>4 DEF ConnIds
  <2> QED BY <2>5, <2>6
<1>9. ASSUME NEW c \in Conns, KeyLost(c)
      PROVE  ConnTypes' /\ ConnIds'
  <2>1. /\ row' = [row EXCEPT ![c].config = Lost] /\ changes' = changes + 1
        /\ UNCHANGED <<drawn, stamped, pend, sweep, told, dup, clobbered>>
    BY <1>9 DEF KeyLost, Change
  <2>2. /\ row' \in [Conns -> Rows] /\ Present' = Present
    BY <2>1 DEF ConnTypes, Present, Rows
  <2> QED BY <2>1, <2>2 DEF ConnTypes, ConnIds
<1>10. ASSUME NEW s \in Sweeps, Run(s) PROVE ConnTypes' /\ ConnIds'
  <2>1. UNCHANGED <<row, drawn, stamped, pend, changes, told, dup, clobbered>> /\ Present' = Present
    BY <1>10 DEF Run, Present
  <2>2. PICK w \in SweepRows : sweep' = [sweep EXCEPT ![s] = w] /\ SweepOK(w)
    BY <1>10, RunBatch
  <2> QED BY <2>1, <2>2 DEF ConnTypes, ConnIds
<1>11. ASSUME NEW s \in Sweeps, Skip(s) \/ notify(s) \/ SweepFails(s)
       PROVE  ConnTypes' /\ ConnIds'
  <2>1. /\ UNCHANGED <<row, drawn, stamped, pend, told, dup, clobbered>> /\ Present' = Present
        /\ sweep[s].at # "idle" /\ sweep' = [sweep EXCEPT ![s] = Done(sweep[s])]
        /\ changes' \in Nat
    BY <1>11 DEF Skip, notify, SweepFails, MoveOn, Present, Change, ConnTypes
  <2>2. SweepOK(Done(sweep[s])) /\ Done(sweep[s]) \in SweepRows
    BY <2>1, SweepDone DEF ConnTypes
  <2> QED BY <2>1, <2>2 DEF ConnTypes, ConnIds
<1>12. ASSUME NEW s \in Sweeps, SweepCheck(s) PROVE ConnTypes' /\ ConnIds'
  <2>1. /\ UNCHANGED <<row, drawn, stamped, pend, changes, told, dup, clobbered>> /\ Present' = Present
        /\ sweep[s].at = "next"
    BY <1>12 DEF SweepCheck, Present
  <2>2. PICK st \in Check : sweep' = [sweep EXCEPT ![s] = Answered(sweep[s], st)]
    BY <1>12 DEF SweepCheck
  <2>3. SweepOK(Answered(sweep[s], st)) /\ Answered(sweep[s], st) \in SweepRows
    BY <2>1 DEF ConnTypes, SweepOK, SweepRows, Check, Statuses, Answered
  <2> QED BY <2>1, <2>2, <2>3 DEF ConnTypes, ConnIds
<1>13. ASSUME NEW s \in Sweeps, SweepWrite(s) PROVE ConnTypes' /\ ConnIds'
  <2> DEFINE w == sweep[s]
             item == Head(w.todo)
  <2>1. w.at = "write" /\ UNCHANGED <<drawn, pend, changes, clobbered>> /\ SweepOK(w)
    BY <1>13 DEF SweepWrite, ConnTypes
  <2>2. SweepOK(Done(w)) /\ Done(w) \in SweepRows /\ item \in Items
    BY <2>1, SweepDone
  <2>3. CASE item.conn \notin Present
    <3>1. /\ UNCHANGED <<row, stamped, told, dup>> /\ Present' = Present
          /\ sweep' = [sweep EXCEPT ![s] = Done(w)]
      BY <1>13, <2>3 DEF SweepWrite, MoveOn, Present
    <3> HIDE DEF w
    <3> QED BY <3>1, <2>1, <2>2 DEF ConnTypes, ConnIds
  <2>4. CASE item.conn \in Present
    <3>1. UpdateConnectorHealth(item.conn, w.status) /\ w.status \in Check
      BY <1>13, <2>4, <2>1 DEF SweepWrite, SweepOK
    <3>2. /\ row' \in [Conns -> Rows] /\ Present' = Present
          /\ stamped' \in Seq(Conns) /\ IsInjective(stamped') /\ Range(stamped') \subseteq Present
      BY <3>1, <2>4, HealthWritten
    <3>3. dup' \in BOOLEAN /\ told' \subseteq told \cup {item.conn}
      BY <1>13, <2>4 DEF SweepWrite, ConnTypes
    <3>4. item.conn \in Conns
      BY <2>2 DEF Items
    <3>5. sweep' \in [Sweeps -> SweepRows] /\ \A u \in Sweeps : SweepOK(sweep'[u])
      <4> DEFINE n == [w EXCEPT !.at = "notify"]
      <4>1. SweepOK(n) /\ n \in SweepRows
        BY <2>1 DEF SweepOK, SweepRows
      <4>2. \/ sweep' = [u \in Sweeps |-> IF u = s THEN n ELSE Overtaken(sweep[u], item.conn)]
            \/ sweep' = [sweep EXCEPT ![s] = Done(w)]
        BY <1>13, <2>4 DEF SweepWrite, MoveOn
      <4>3. \A u \in Sweeps : /\ SweepOK(Overtaken(sweep[u], item.conn))
                              /\ Overtaken(sweep[u], item.conn) \in SweepRows
        BY <3>4, SweepOvertaken DEF ConnTypes
      <4> HIDE DEF n, w, item
      <4> QED BY <2>2, <4>1, <4>2, <4>3 DEF ConnTypes
    <3> HIDE DEF item, w
    <3>6. ConnTypes'
      BY <2>1, <3>2, <3>3, <3>4, <3>5 DEF ConnTypes
    <3>7. ConnIds'
      BY <2>1, <2>4, <3>2, <3>3 DEF ConnIds
    <3> QED BY <3>6, <3>7
  <2> QED BY <2>3, <2>4
<1>14. ASSUME NEW s \in Sweeps, Stop(s) PROVE ConnTypes' /\ ConnIds'
  <2>1. /\ UNCHANGED <<row, drawn, stamped, pend, told, dup, clobbered>> /\ Present' = Present
        /\ sweep' = [sweep EXCEPT ![s] = Asleep] /\ changes' = changes + 1
    BY <1>14 DEF Stop, Change, Present
  <2>2. SweepOK(Asleep) /\ Asleep \in SweepRows
    BY DEF SweepOK, SweepRows, Asleep, Statuses
  <2> QED BY <2>1, <2>2 DEF ConnTypes, ConnIds
<1>15. CASE UNCHANGED connVars
  BY <1>15 DEF connVars, tables, ConnTypes, ConnIds, Present
<1> QED
  BY <1>1, <1>2, <1>3, <1>4, <1>5, <1>6, <1>7, <1>8, <1>9, <1>10, <1>11, <1>12, <1>13, <1>14, <1>15
     DEF NextConnectors, RequestStep, SweepStep

-----------------------------------------------------------------------------

\* The rows and the insertions of an organization are finitely many.
LEMMA OrgCounts ==
    ASSUME NEW o
    PROVE  /\ IsFiniteSet(OfOrg(o)) /\ Cardinality(OfOrg(o)) \in Nat
           /\ IsFiniteSet(Creating(o)) /\ Cardinality(Creating(o)) \in Nat
           /\ Cardinality(Creating(o)) <= Cardinality(Requests) /\ Cardinality(Requests) \in Nat
<1>1. OfOrg(o) \in SUBSET Conns /\ Creating(o) \in SUBSET Requests
  BY DEF OfOrg, Creating, Present
<1> QED BY <1>1, FS_Subset, FS_CardinalityType, ConnectorAssumption

\* A step that neither inserts a row nor begins to.
LEMMA CapKeeps ==
    ASSUME ConnTypes, ConnTypes', WithinCap, Present' \subseteq Present,
           \A o \in Orgs : Creating(o)' \subseteq Creating(o)
    PROVE  WithinCap'
<1> SUFFICES ASSUME NEW o \in Orgs
             PROVE  Cardinality(OfOrg(o)') + Cardinality(Creating(o)')
                      <= (IF MaxConnectors = 0 THEN 0 ELSE MaxConnectors - 1 + Cardinality(Requests))
  BY DEF WithinCap
<1>1. OfOrg(o)' \in SUBSET OfOrg(o) /\ Creating(o)' \in SUBSET Creating(o)
  BY DEF OfOrg
<1>2. /\ Cardinality(OfOrg(o)') <= Cardinality(OfOrg(o)) /\ Cardinality(OfOrg(o)') \in Nat
      /\ Cardinality(Creating(o)') <= Cardinality(Creating(o)) /\ Cardinality(Creating(o)') \in Nat
  BY <1>1, OrgCounts, FS_Subset, FS_CardinalityType
<1> QED BY <1>2, OrgCounts, ConnectorAssumption DEF WithinCap

\* max_connectors, counted and then inserted under without a lock.
LEMMA WithinCapStep == ConnTypes /\ ConnIds /\ WithinCap /\ [NextConnectors]_connVars => WithinCap'
<1> SUFFICES ASSUME ConnTypes, ConnIds, WithinCap, [NextConnectors]_connVars PROVE WithinCap'
  OBVIOUS
<1>0. ConnTypes' /\ ConnIds'
  BY ConnTypesStep
<1>1. ASSUME NEW r \in Requests, NEW c \in Conns, NEW t \in Types, NEW cfg \in Configs,
             Create(r, c, t, cfg)
      PROVE  WithinCap'
  <2> SUFFICES ASSUME NEW o \in Orgs
               PROVE  Cardinality(OfOrg(o)') + Cardinality(Creating(o)')
                        <= (IF MaxConnectors = 0 THEN 0 ELSE MaxConnectors - 1 + Cardinality(Requests))
    BY DEF WithinCap
  <2>1. OfOrg(o)' = OfOrg(o)
    BY <1>1 DEF Create, OfOrg, Present
  <2>2. CASE o # OrgOf(c)
    <3>1. Creating(o)' = Creating(o)
      BY <1>1, <2>2, PendKinds DEF Create, Creating, ConnTypes, Idle
    <3> QED BY <2>1, <3>1 DEF WithinCap
  <2>3. CASE o = OrgOf(c)
    <3>1. Cardinality(OfOrg(o)) < MaxConnectors
      BY <1>1, <2>3 DEF Create, EnforceLimit, CountConnectorsByOrg, OfOrg
    <3>2. Cardinality(Creating(o)') <= Cardinality(Requests) /\ Cardinality(Creating(o)') \in Nat
      <4>1. Creating(o)' \in SUBSET Requests
        BY DEF Creating
      <4> QED BY <4>1, FS_Subset, FS_CardinalityType, ConnectorAssumption
    <3> QED BY <2>1, <3>1, <3>2, OrgCounts, ConnectorAssumption
  <2> QED BY <2>2, <2>3
<1>2. ASSUME NEW r \in Requests, CreateConnector(r)
      PROVE  WithinCap'
  <2> SUFFICES ASSUME NEW o \in Orgs
               PROVE  Cardinality(OfOrg(o)') + Cardinality(Creating(o)')
                        <= (IF MaxConnectors = 0 THEN 0 ELSE MaxConnectors - 1 + Cardinality(Requests))
    BY DEF WithinCap
  <2> DEFINE c == pend[r].conn
  <2>1. /\ pend[r] \in Creates /\ pend[r].op = "create" /\ c \in Conns /\ c \notin Present
        /\ pend[r].new.type # "none"
    BY <1>2, PendKinds DEF CreateConnector, Creates, Types, ConnIds
  <2>2. row' = [row EXCEPT ![c] = pend[r].new] /\ pend' = [pend EXCEPT ![r] = Idle]
    BY <1>2 DEF CreateConnector
  <2>3. Present' = Present \cup {c}
    BY <2>1, <2>2 DEF Present, ConnTypes
  <2>4. CASE o # OrgOf(c)
    <3>1. OfOrg(o)' = OfOrg(o) /\ Creating(o)' = Creating(o)
      BY <2>1, <2>2, <2>3, <2>4 DEF Creating, OfOrg, ConnTypes, Idle
    <3> QED BY <3>1 DEF WithinCap
  <2>5. CASE o = OrgOf(c)
    <3>1. OfOrg(o)' = OfOrg(o) \cup {c} /\ c \notin OfOrg(o)
      BY <2>1, <2>3, <2>5 DEF OfOrg
    <3>2. Creating(o)' = Creating(o) \ {r} /\ r \in Creating(o)
      BY <2>1, <2>2, <2>5 DEF Creating, ConnTypes, Idle
    <3>3. Cardinality(OfOrg(o)') = Cardinality(OfOrg(o)) + 1
      BY <3>1, OrgCounts, FS_AddElement
    <3>4. Cardinality(Creating(o)') = Cardinality(Creating(o)) - 1
      BY <3>2, OrgCounts, FS_RemoveElement
    <3>5. /\ Cardinality(OfOrg(o)) \in Nat /\ Cardinality(Creating(o)) \in Nat
      BY OrgCounts
    <3> QED BY <3>3, <3>4, <3>5 DEF WithinCap
  <2> QED BY <2>4, <2>5
<1>3. ASSUME Present' \subseteq Present,
             \A r \in Requests : pend'[r].op = "create" => pend'[r] = pend[r]
      PROVE  WithinCap'
  <2>1. \A o \in Orgs : Creating(o)' \subseteq Creating(o)
    BY <1>3 DEF Creating
  <2> QED BY <1>0, <1>3, <2>1, CapKeeps
<1>4. ASSUME NEW r \in Requests,
             \/ \E c \in Conns, f \in Patches : Update(r, c, f)
             \/ \E c \in Conns : CheckHealth(r, c)
             \/ Abandon(r)
      PROVE  WithinCap'
  <2>1. Present' = Present
    BY <1>4 DEF Update, CheckHealth, Abandon, Present
  <2>2. \A s \in Requests : pend'[s].op = "create" => pend'[s] = pend[s]
    BY <1>4 DEF Update, CheckHealth, Abandon, ConnTypes, Idle
  <2> QED BY <2>1, <2>2, <1>3
<1>5. ASSUME NEW r \in Requests, UpdateConnector(r) PROVE WithinCap'
  <2>1. pend[r].new.type # "none" /\ pend[r].conn \in Present
    BY <1>5 DEF UpdateConnector, ConnIds
  <2>2. Present' = Present
    BY <1>5, <2>1 DEF UpdateConnector, Present, ConnTypes
  <2>3. \A s \in Requests : pend'[s].op = "create" => pend'[s] = pend[s]
    BY <1>5 DEF UpdateConnector, ConnTypes, Idle
  <2> QED BY <2>2, <2>3, <1>3
<1>6. ASSUME NEW r \in Requests, CheckHealthWrite(r) PROVE WithinCap'
  <2>1. pend[r].status \in Check /\ pend[r].conn \in Present
    BY <1>6, PendKinds DEF Checks, CheckHealthWrite
  <2>2. Present' = Present
    BY <1>6, <2>1, HealthWritten DEF CheckHealthWrite
  <2>3. \A s \in Requests : pend'[s].op = "create" => pend'[s] = pend[s]
    BY <1>6 DEF CheckHealthWrite, ConnTypes, Idle
  <2> QED BY <2>2, <2>3, <1>3
<1>7. ASSUME NEW c \in Conns, DeleteConnector(c) \/ KeyLost(c) PROVE WithinCap'
  <2>1. Present' \subseteq Present
    BY <1>7 DEF DeleteConnector, KeyLost, Absent, Present, ConnTypes, Rows
  <2>2. pend' = pend
    BY <1>7 DEF DeleteConnector, KeyLost
  <2> QED BY <2>1, <2>2, <1>3
<1>8. ASSUME NEW s \in Sweeps, Run(s) \/ SweepStep(s) \/ SweepFails(s) \/ Stop(s)
      PROVE  WithinCap'
  <2>1. pend' = pend
    <3>1. SweepWrite(s) => pend' = pend
      BY DEF SweepWrite
    <3>2. SweepCheck(s) \/ Run(s) => pend' = pend
      BY DEF SweepCheck, Run
    <3>3. Skip(s) \/ notify(s) \/ SweepFails(s) \/ Stop(s) => pend' = pend
      BY DEF Skip, notify, SweepFails, Stop
    <3> QED BY <1>8, <3>1, <3>2, <3>3 DEF SweepStep
  <2>2. CASE row' = row
    <3>1. Present' = Present
      BY <2>2 DEF Present
    <3> QED BY <2>1, <3>1, <1>3
  <2>3. CASE row' # row
    <3>1. SweepWrite(s)
      <4>1. SweepCheck(s) \/ Run(s) => row' = row
        BY DEF SweepCheck, Run
      <4>2. Skip(s) \/ notify(s) \/ SweepFails(s) \/ Stop(s) => row' = row
        BY DEF Skip, notify, SweepFails, Stop
      <4> QED BY <1>8, <2>3, <4>1, <4>2 DEF SweepStep
    <3>2. /\ UpdateConnectorHealth(Head(sweep[s].todo).conn, sweep[s].status)
          /\ Head(sweep[s].todo).conn \in Present /\ sweep[s].status \in Check
      BY <3>1, <2>3 DEF SweepWrite, ConnTypes, SweepOK
    <3>3. Present' = Present
      BY <3>2, HealthWritten
    <3> QED BY <2>1, <3>3, <1>3
  <2> QED BY <2>2, <2>3
<1>9. CASE UNCHANGED connVars
  <2>1. Present' = Present /\ pend' = pend
    BY <1>9 DEF connVars, tables, Present
  <2> QED BY <2>1, <1>3
<1> QED BY <1>1, <1>2, <1>4, <1>5, <1>6, <1>7, <1>8, <1>9 DEF NextConnectors, RequestStep

-----------------------------------------------------------------------------

\* A step that touches neither a sweep nor what it was told of.
LEMMA AlertKeeps ==
    ASSUME AlertOnce, dup' = dup, sweep' = sweep, told' \subseteq told,
           clobbered' => told' = {},
           \A c \in told' \cap Present' : row'[c].status = "error"
    PROVE  AlertOnce'
<1>1. \A s \in Sweeps : NewsOnly(sweep[s], told)'
  BY DEF AlertOnce, NewsOnly, Due
<1> QED BY <1>1 DEF AlertOnce

\* A sweep goes on to the next row of its batch.
LEMMA NewsMoveOn ==
    ASSUME NEW w, SweepOK(w), w.at # "idle", NEW T, NEW U, NewsOnly(w, T),
           U \subseteq T \cup {Head(w.todo).conn}
    PROVE  NewsOnly(Done(w), U)
<1> DEFINE n == Len(w.todo)  d == Done(w)
<1>1. /\ Len(d.todo) = n - 1 /\ n \in Nat /\ n >= 1
      /\ \A i \in 1 .. n - 1 : d.todo[i] = w.todo[i + 1]
      /\ n # 1 => d.late = w.late
      /\ Head(w.todo) = w.todo[1]
  <2>1. n \in Nat
    BY LenProperties DEF SweepOK, SweepRows
  <2> QED BY <2>1, SweepDone
<1>2. /\ \A i, j \in 1 .. n : w.todo[i].conn = w.todo[j].conn => i = j
      /\ \A i \in 1 .. n : Due(w, i) /\ w.todo[i].conn \in T \ w.late => w.todo[i].was # "active"
  BY DEF NewsOnly
<1> HIDE DEF n, d
<1>3. \A i \in 1 .. n - 1 : i + 1 \in 1 .. n /\ i + 1 # 1 /\ 1 \in 1 .. n /\ n # 1
  BY <1>1
<1>4. ASSUME NEW i \in 1 .. n - 1, NEW j \in 1 .. n - 1, d.todo[i].conn = d.todo[j].conn
      PROVE  i = j
  <2>1. w.todo[i + 1].conn = w.todo[j + 1].conn /\ i + 1 \in 1 .. n /\ j + 1 \in 1 .. n
    BY <1>1, <1>3, <1>4
  <2>2. i + 1 = j + 1
    BY <2>1, <1>2
  <2> QED BY <2>2, <1>1
<1>5. ASSUME NEW i \in 1 .. n - 1, d.todo[i].conn \in U \ d.late
      PROVE  d.todo[i].was # "active"
  <2>1. w.todo[i + 1].conn # w.todo[1].conn
    BY <1>2, <1>3
  <2>2. w.todo[i + 1].conn \in T \ w.late
    BY <2>1, <1>1, <1>3, <1>5
  <2>3. Due(w, i + 1)
    BY <1>3 DEF Due, n
  <2> QED BY <2>2, <2>3, <1>1, <1>2, <1>3
<1>6. NewsOnly(d, U)
  BY <1>1, <1>4, <1>5 DEF NewsOnly
<1> QED BY <1>6 DEF d

LEMMA AlertMovesOn ==
    ASSUME ConnTypes, AlertOnce, NEW s \in Sweeps, sweep[s].at # "idle",
           sweep' = [sweep EXCEPT ![s] = Done(@)], dup' = FALSE,
           told' \subseteq told,
           clobbered' => told' = {},
           \A c \in told' \cap Present' : row'[c].status = "error"
    PROVE  AlertOnce'
<1>1. ASSUME NEW u \in Sweeps PROVE NewsOnly(sweep'[u], told')
  <2>1. CASE u = s
    <3>1. SweepOK(sweep[s]) /\ NewsOnly(sweep[s], told) /\ sweep'[s] = Done(sweep[s])
      BY DEF ConnTypes, AlertOnce
    <3> QED BY <2>1, <3>1, NewsMoveOn
  <2>2. CASE u # s
    <3>1. sweep'[u] = sweep[u] /\ NewsOnly(sweep[u], told)
      BY <2>2 DEF ConnTypes, AlertOnce
    <3> QED BY <3>1 DEF NewsOnly
  <2> QED BY <2>1, <2>2
<1> QED BY <1>1 DEF AlertOnce, NewsOnly, Due

\* A sweep that another one overtakes notes what it told of.
LEMMA NewsOvertaken ==
    ASSUME NEW w, SweepOK(w), NEW c \in Conns, NEW T, NEW U, NewsOnly(w, T),
           U \subseteq T \cup {c}
    PROVE  NewsOnly(Overtaken(w, c), U)
<1> DEFINE o == Overtaken(w, c)
<1>1. /\ o.todo = w.todo /\ o.at = w.at /\ w.late \subseteq o.late
      /\ \A i \in DOMAIN w.todo : w.todo[i].conn = c => c \in o.late
      /\ DOMAIN w.todo = 1 .. Len(w.todo)
  BY SweepOvertaken, LenProperties DEF SweepOK, SweepRows
<1> HIDE DEF o
<1>2. ASSUME NEW i \in 1 .. Len(w.todo), Due(o, i), o.todo[i].conn \in U \ o.late
      PROVE  o.todo[i].was # "active"
  <2>1. Due(w, i) /\ w.todo[i].conn \in T \ w.late
    BY <1>1, <1>2 DEF Due
  <2> QED BY <2>1, <1>1 DEF NewsOnly
<1>3. NewsOnly(o, U)
  BY <1>1, <1>2 DEF NewsOnly
<1> QED BY <1>3 DEF o

\* "A credential broken for a week produces one email".
LEMMA AlertOnceStep == ConnTypes /\ ConnIds /\ AlertOnce /\ [NextConnectors]_connVars => AlertOnce'
<1> SUFFICES ASSUME ConnTypes, ConnIds, AlertOnce, [NextConnectors]_connVars PROVE AlertOnce'
  OBVIOUS
<1>0. ConnTypes' /\ ConnIds' /\ dup = FALSE
  BY ConnTypesStep DEF ConnTypes, AlertOnce
<1>1. ASSUME UNCHANGED <<row, sweep, told, dup, clobbered>> PROVE AlertOnce'
  BY <1>1 DEF AlertOnce, NewsOnly, Present, Due
<1>2. ASSUME NEW r \in Requests,
             \/ \E c \in Conns, t \in Types, cfg \in Configs : Create(r, c, t, cfg)
             \/ \E c \in Conns, f \in Patches : Update(r, c, f)
             \/ \E c \in Conns : CheckHealth(r, c)
             \/ Abandon(r)
      PROVE  AlertOnce'
  BY <1>1, <1>2 DEF Create, Update, CheckHealth, Abandon
<1>3. ASSUME NEW r \in Requests, CreateConnector(r) PROVE AlertOnce'
  <2> DEFINE c == pend[r].conn
  <2>1. c \notin told /\ c \in Conns
    BY <1>3, PendKinds DEF CreateConnector, ConnIds, Creates
  <2>2. row' = [row EXCEPT ![c] = pend[r].new] /\ UNCHANGED <<sweep, told, dup, clobbered>>
    BY <1>3 DEF CreateConnector
  <2> HIDE DEF c
  <2>3. \A d \in told' \cap Present' : row'[d].status = "error"
    BY <2>1, <2>2 DEF Present, AlertOnce, ConnTypes
  <2> QED BY <2>2, <2>3, AlertKeeps DEF AlertOnce
<1>4. ASSUME NEW r \in Requests, UpdateConnector(r) PROVE AlertOnce'
  <2> DEFINE p == pend[r]
  <2>1. p \in Updates /\ p.new \in Rows /\ p.old \in Rows /\ p.conn \in Present
    BY <1>4, PendKinds DEF UpdateConnector, Updates
  <2>2. /\ row' = [row EXCEPT ![p.conn] = p.new] /\ UNCHANGED <<sweep, dup>>
        /\ clobbered' = (clobbered \/ \E f \in DOMAIN p.new :
                            p.new[f] = p.old[f] /\ row[p.conn][f] # p.old[f])
        /\ told' = IF clobbered' THEN {}
                   ELSE IF p.new.status # p.old.status THEN told \ {p.conn} ELSE told
    BY <1>4 DEF UpdateConnector
  <2> HIDE DEF p
  <2>3. \A d \in told' \cap Present' : row'[d].status = "error"
    <3> SUFFICES ASSUME NEW d \in told', d \in Present' PROVE row'[d].status = "error"
      OBVIOUS
    <3>1. d \in told /\ ~clobbered' /\ d \in Conns
      BY <2>2 DEF Present
    <3>2. CASE d # p.conn
      BY <2>1, <2>2, <3>1, <3>2 DEF Present, AlertOnce, ConnTypes
    <3>3. CASE d = p.conn
      <4>1. p.new.status = p.old.status
        BY <2>2, <3>1, <3>3
      <4>2. "status" \in DOMAIN p.new
        BY <2>1 DEF Rows
      <4>3. row[d].status = p.old.status
        BY <2>2, <3>1, <3>3, <4>1, <4>2
      <4>4. row'[d] = p.new
        BY <2>2, <3>1, <3>3 DEF ConnTypes
      <4>5. d \in told \cap Present
        BY <2>1, <3>1, <3>3
      <4> QED BY <4>1, <4>3, <4>4, <4>5 DEF AlertOnce
    <3> QED BY <3>2, <3>3
  <2> QED BY <2>2, <2>3, AlertKeeps
<1>5. ASSUME NEW r \in Requests, CheckHealthWrite(r) PROVE AlertOnce'
  <2> DEFINE c == pend[r].conn  st == pend[r].status
  <2>1. st \in Check /\ c \in Present
    BY <1>5, PendKinds DEF Checks, CheckHealthWrite
  <2>2. /\ UpdateConnectorHealth(c, st) /\ told' = (IF st = "active" THEN told \ {c} ELSE told)
        /\ UNCHANGED <<sweep, dup, clobbered>>
    BY <1>5 DEF CheckHealthWrite
  <2> HIDE DEF c, st
  <2>3. /\ Present' = Present
        /\ \A d \in Conns : row'[d].status = IF d = c THEN st ELSE row[d].status
    BY <2>1, <2>2, HealthWritten
  <2>4. \A d \in told' \cap Present' : row'[d].status = "error"
    BY <2>1, <2>2, <2>3 DEF Present, AlertOnce, Check
  <2> QED BY <2>2, <2>4, AlertKeeps DEF AlertOnce
<1>6. ASSUME NEW c \in Conns, DeleteConnector(c) \/ KeyLost(c) PROVE AlertOnce'
  <2>1. /\ UNCHANGED <<sweep, told, dup, clobbered>> /\ Present' \subseteq Present
        /\ \A d \in Present' : row'[d].status = row[d].status
    <3>1. CASE DeleteConnector(c)
      <4>1. /\ row' = [row EXCEPT ![c] = Absent] /\ Absent.type = "none"
            /\ UNCHANGED <<sweep, told, dup, clobbered>>
        BY <3>1 DEF DeleteConnector, Absent
      <4> QED BY <4>1 DEF Present, ConnTypes
    <3>2. CASE KeyLost(c)
      <4>1. /\ row' = [row EXCEPT ![c].config = Lost] /\ UNCHANGED <<sweep, told, dup, clobbered>>
        BY <3>2 DEF KeyLost
      <4> QED BY <4>1 DEF Present, ConnTypes, Rows
    <3> QED BY <1>6, <3>1, <3>2
  <2>2. \A d \in told' \cap Present' : row'[d].status = "error"
    BY <2>1 DEF AlertOnce
  <2> QED BY <2>1, <2>2, AlertKeeps DEF AlertOnce
<1>7. ASSUME NEW s \in Sweeps, Run(s) PROVE AlertOnce'
  <2>1. /\ UNCHANGED <<row, told, dup, clobbered>> /\ Present' = Present
    BY <1>7 DEF Run, Present
  <2>2. PICK w \in SweepRows :
        /\ sweep' = [sweep EXCEPT ![s] = w]
        /\ \A i \in 1 .. Len(w.todo) :
              w.todo[i].conn \in Present /\ w.todo[i].was = row[w.todo[i].conn].status
        /\ \A i, j \in 1 .. Len(w.todo) : w.todo[i].conn = w.todo[j].conn => i = j
    BY <1>7, RunBatch
  <2>3. NewsOnly(w, told)
    BY <2>2 DEF AlertOnce, NewsOnly
  <2>4. \A u \in Sweeps : NewsOnly(sweep'[u], told)
    BY <2>2, <2>3 DEF AlertOnce, ConnTypes
  <2> QED BY <2>1, <2>4 DEF AlertOnce, NewsOnly, Due
<1>8. ASSUME NEW s \in Sweeps, Skip(s) \/ notify(s) \/ SweepFails(s) PROVE AlertOnce'
  <2>1. /\ UNCHANGED <<row, told, dup, clobbered>> /\ Present' = Present
        /\ sweep[s].at # "idle" /\ MoveOn(s)
    BY <1>8 DEF Skip, notify, SweepFails, Present
  <2>2. \A d \in told' \cap Present' : row'[d].status = "error"
    BY <2>1 DEF AlertOnce
  <2> QED BY <2>1, <2>2, <1>0, AlertMovesOn DEF AlertOnce, MoveOn
<1>9. ASSUME NEW s \in Sweeps, SweepCheck(s) PROVE AlertOnce'
  <2>1. /\ UNCHANGED <<row, told, dup, clobbered>> /\ Present' = Present /\ sweep[s].at = "next"
    BY <1>9 DEF SweepCheck, Present
  <2>2. PICK st \in Check : sweep' = [sweep EXCEPT ![s] = Answered(sweep[s], st)]
    BY <1>9 DEF SweepCheck
  <2>3. /\ sweep'[s].at = "write" /\ sweep'[s].todo = sweep[s].todo /\ sweep'[s].late = sweep[s].late
        /\ \A u \in Sweeps : u # s => sweep'[u] = sweep[u]
    BY <2>2 DEF ConnTypes, SweepRows, Answered
  <2>4. NewsOnly(sweep'[s], told)
    BY <2>1, <2>3 DEF AlertOnce, NewsOnly, Due
  <2>5. \A u \in Sweeps : NewsOnly(sweep'[u], told)
    BY <2>3, <2>4 DEF AlertOnce
  <2> QED BY <2>1, <2>5 DEF AlertOnce, NewsOnly, Due
<1>10. ASSUME NEW s \in Sweeps, SweepWrite(s) PROVE AlertOnce'
  <2> DEFINE w == sweep[s]
             item == Head(w.todo)
             alert == Alert(item, w.status)
  <2>1. /\ w.at = "write" /\ UNCHANGED clobbered /\ w.status \in Check
        /\ SweepOK(w) /\ NewsOnly(w, told)
    BY <1>10 DEF SweepWrite, ConnTypes, SweepOK, AlertOnce
  <2>2. CASE item.conn \notin Present
    <3>1. /\ UNCHANGED <<row, told, dup>> /\ Present' = Present /\ MoveOn(s)
      BY <1>10, <2>2 DEF SweepWrite, Present
    <3>2. \A d \in told' \cap Present' : row'[d].status = "error"
      BY <3>1 DEF AlertOnce
    <3> QED BY <2>1, <3>1, <3>2, <1>0, AlertMovesOn DEF AlertOnce, MoveOn
  <2>3. CASE item.conn \in Present
    <3> DEFINE n == [w EXCEPT !.at = "notify"]
    <3>1. /\ UpdateConnectorHealth(item.conn, w.status)
          /\ alert => sweep' = [u \in Sweeps |-> IF u = s THEN n ELSE Overtaken(sweep[u], item.conn)]
          /\ ~alert => MoveOn(s)
          /\ dup' = (dup \/ (alert /\ item.conn \in told \ w.late))
          /\ told' = IF w.status = "active" THEN told \ {item.conn}
                     ELSE IF alert /\ ~clobbered THEN told \cup {item.conn} ELSE told
      BY <1>10, <2>3 DEF SweepWrite
    <3>2. /\ Present' = Present
          /\ \A d \in Conns : row'[d].status = IF d = item.conn THEN w.status ELSE row[d].status
      BY <2>1, <2>3, <3>1, HealthWritten
    <3>3. item = w.todo[1] /\ 1 \in 1 .. Len(w.todo) /\ Due(w, 1) /\ item.conn \in Conns
      BY <2>1, SweepDone DEF Due, Items
    <3>4. alert => item.was = "active" /\ w.status = "error"
      BY DEF Alert
    <3>5. alert => item.conn \notin told \ w.late
      BY <2>1, <3>3, <3>4 DEF NewsOnly
    <3>6. /\ n.at = "notify" /\ n.todo = w.todo /\ n.late = w.late
      BY <2>1 DEF SweepOK, SweepRows
    <3> HIDE DEF item, alert, w, n
    <3>7. /\ dup' = FALSE /\ (clobbered' => told' = {}) /\ told' \subseteq told \cup {item.conn}
          /\ ~alert => told' \subseteq told
      BY <1>0, <2>1, <3>1, <3>5 DEF AlertOnce
    <3>8. \A d \in told' \cap Present' : row'[d].status = "error"
      BY <2>1, <3>1, <3>2, <3>4 DEF Present, AlertOnce, Check
    <3>9. CASE ~alert
      <4>1. sweep[s].at # "idle" /\ sweep' = [sweep EXCEPT ![s] = Done(@)]
        BY <2>1, <3>1, <3>9 DEF w, MoveOn
      <4> QED BY <3>7, <3>8, <3>9, <4>1, AlertMovesOn
    <3>10. CASE alert
      <4>1. NewsOnly(n, told')
        <5>1. \A i \in 1 .. Len(w.todo) : i # 1 => w.todo[i].conn # item.conn /\ Due(w, i)
          BY <3>3, <2>1 DEF NewsOnly, Due
        <5> QED BY <2>1, <3>6, <3>7, <5>1 DEF NewsOnly, Due
      <4>2. ASSUME NEW u \in Sweeps, u # s
            PROVE  NewsOnly(Overtaken(sweep[u], item.conn), told')
        <5>1. SweepOK(sweep[u]) /\ NewsOnly(sweep[u], told)
          BY DEF ConnTypes, AlertOnce
        <5> QED BY <3>3, <3>7, <5>1, NewsOvertaken
      <4>3. \A u \in Sweeps : NewsOnly(sweep'[u], told')
        BY <3>1, <3>10, <4>1, <4>2
      <4> QED BY <3>7, <3>8, <4>3 DEF AlertOnce, NewsOnly, Due
    <3> QED BY <3>9, <3>10
  <2> QED BY <2>2, <2>3
<1>11. ASSUME NEW s \in Sweeps, Stop(s) PROVE AlertOnce'
  <2>1. UNCHANGED <<row, told, dup, clobbered>> /\ sweep' = [sweep EXCEPT ![s] = Asleep] /\ Present' = Present
    BY <1>11 DEF Stop, Present
  <2>2. Len(Asleep.todo) = 0
    BY DEF Asleep
  <2>3. NewsOnly(Asleep, told)
    BY <2>2 DEF NewsOnly
  <2>4. \A u \in Sweeps : NewsOnly(sweep'[u], told)
    BY <2>1, <2>3 DEF AlertOnce, ConnTypes
  <2> QED BY <2>1, <2>4 DEF AlertOnce, NewsOnly, Due
<1>12. CASE UNCHANGED connVars
  BY <1>1, <1>12 DEF connVars, tables
<1> QED
  BY <1>2, <1>3, <1>4, <1>5, <1>6, <1>7, <1>8, <1>9, <1>10, <1>11, <1>12
     DEF NextConnectors, RequestStep, SweepStep

\* The inductive invariant.
LEMMA ConnInvariant == SpecConnectors => []ConnInd
<1>1. ConnInd /\ [NextConnectors]_connVars => ConnInd'
  BY ConnTypesStep, WithinCapStep, AlertOnceStep DEF ConnInd
<1> QED BY ConnInit, <1>1, PTL DEF SpecConnectors

\* max_connectors is overrun by the other requests in progress at most.
THEOREM CapHolds == SpecConnectors => []ConnectorInv
<1>1. ConnInd => ConnectorInv
  <2> SUFFICES ASSUME ConnInd PROVE ConnectorInv
    OBVIOUS
  <2>1. ConnTypeOK
    BY DEF ConnInd, ConnTypes, ConnIds, ConnTypeOK, SweepOK, SweepRows
  <2>2. \A o \in Orgs : /\ CountConnectorsByOrg(o) = Cardinality(OfOrg(o))
                        /\ {r \in Requests : pend[r].op = "create" /\ OrgOf(pend[r].conn) = o} = Creating(o)
    BY DEF CountConnectorsByOrg, OfOrg, Creating
  <2>3. WithinCap
    BY DEF ConnInd
  <2> QED BY <2>1, <2>2, <2>3 DEF ConnectorInv, WithinCap
<1> QED BY <1>1, ConnInvariant, PTL

\* An owner who was told of an outage is not told again by a sweep that lists
\* the connector later, however many sweeps overlap.
THEOREM OneMail == SpecConnectors => []OneMailPerOutage
<1>1. ConnInd => OneMailPerOutage
  BY DEF ConnInd, AlertOnce, OneMailPerOutage
<1> QED BY <1>1, ConnInvariant, PTL

-----------------------------------------------------------------------------
(* The gateway *)

KeyRows == [state : {"none", "live", "revoked"}, scopes : Scopes \cup {NoScopes}, exp : Nat]
Principals == [role : {"none", "member", "owner"},
               actions : SUBSET (UNION (Grants \cup Scopes \cup {NoScopes}))]
CallStates == {"idle", "key", "actions", "principal", "server", "run", "read", "meta", "sign",
               "link", "body", "serve"}
CallRows == [at : CallStates, key : Keys \cup {None}, conn : Conns \cup {None},
             org : Orgs \cup {None}, p : Principals, row : Rows, tool : Tools \cup {None},
             res : Resources \cup {NoRes}]
LinkRows == [org : Orgs, conn : Conns, res : Resources, exp : Nat, by : Keys]
SeenRows == [key : BOOLEAN, tools : SUBSET Tools, res : SUBSET (Conns \X Resources)]

GateTypes ==
    /\ ConnTypes /\ ConnIds
    /\ key \in [Keys -> KeyRows] /\ member \in [Keys -> {"none", "member", "owner"}]
    /\ grant \in [Keys -> Grants] /\ banned \subseteq Users /\ now \in Nat
    /\ call \in [Calls -> CallRows] /\ links \subseteq LinkRows
    /\ bucket \in [Conns -> [tokens : Int, ts : Int]] /\ taken \in [Conns -> Int]
    /\ seen \in [Calls -> SeenRows] /\ lastOK \in [Keys -> Int]

\* States in which a call holds a key, and those in which it has a row.
Keyed == {"key", "actions", "principal", "server", "run", "read", "sign"}
Resolved == {"server", "run", "read", "meta", "sign", "body", "serve"}

\* What a call has in hand, a tool apart, it had a right to since it began.
CallOK(r) ==
    /\ call[r].at = "idle" => call[r] = NoCall
    /\ call[r].at \in Keyed => call[r].key \in Keys
    /\ call[r].at \in {"link", "body", "serve"} => call[r].key = None
    /\ call[r].key \in Keys => seen[r].key /\ call[r].org = KeyOrg(call[r].key)
    /\ call[r].at \in Resolved \cup {"link"} => call[r].conn \in Conns
    /\ call[r].at \in {"read", "meta", "sign", "link", "body", "serve"} => call[r].res \in Resources
    /\ call[r].at \in Resolved /\ call[r].row.config # Lost =>
          \A f \in Resources : f \in call[r].row.config => <<call[r].conn, f>> \in seen[r].res
    /\ call[r].at = "meta" => call[r].row.config # Lost
    /\ call[r].at \in Resolved /\ call[r].key \in Keys => OrgOf(call[r].conn) = KeyOrg(call[r].key)
    /\ call[r].at \in {"read", "sign", "body", "serve"} =>
          <<call[r].conn, call[r].res>> \in seen[r].res

\* Its tool, and every tool its principal allows, was allowed since it began.
ToolsOK(r) ==
    /\ call[r].at \in {"principal", "server"} =>
          \A t \in Tools : Allows(call[r].p, Catalog[t].permission) => t \in seen[r].tools
    /\ call[r].at \in {"run", "read", "meta", "sign"} /\ call[r].key \in Keys =>
          call[r].tool \in seen[r].tools

LinkInd ==
    /\ \A k \in Keys : lastOK[k] <= now /\ ((\E r \in Calls : call[r].key = k) => lastOK[k] = now)
    /\ \A l \in links : l.exp <= lastOK[l.by] + LinkTTL

-----------------------------------------------------------------------------

\* The tools the server has.
LEMMA ToolList ==
    /\ Tools = {"describe", "query", "get_file"}
    /\ \A t \in Tools : Catalog[t].permission = <<Catalog[t].permission[1], Catalog[t].permission[2]>>
BY DEF Tools, Catalog

\* A narrowed principal is allowed what the whole one is and the scopes name.
\* With "*:*" among the actions it is not so: that grants no action but "*".
LEMMA Narrowing ==
    ASSUME NEW p, NEW scopes, NEW a, <<"*", "*">> \notin p.actions, Allows(Narrow(p, scopes), a)
    PROVE  Allows(p, a) /\ (scopes = NoScopes \/ ActionMatches(scopes, a))
<1>1. CASE scopes = NoScopes
  BY <1>1 DEF Narrow
<1>2. CASE scopes # NoScopes
  <2>1. PICK s \in scopes : Allows(p, s) /\ (s = Star \/ s = a \/ s = <<a[1], "*">>)
    BY <1>2 DEF Narrow, Allows, ActionMatches, None
  <2>2. ActionMatches(scopes, a)
    BY <2>1 DEF ActionMatches
  <2>3. CASE p.role = "owner"
    BY <2>2, <2>3 DEF Allows
  <2>4. CASE p.role # "owner"
    <3>1. PICK b \in p.actions : b = Star \/ b = s \/ b = <<s[1], "*">>
      BY <2>1, <2>4 DEF Allows, ActionMatches
    <3>2. CASE b = Star
      BY <3>2, <2>2 DEF Allows, ActionMatches
    <3>3. CASE b = s
      BY <3>3, <2>1, <2>2 DEF Allows, ActionMatches
    <3>4. CASE b = <<s[1], "*">>
      <4>1. s # Star
        BY <3>4 DEF Star
      <4>2. s = a \/ s[1] = a[1]
        BY <4>1, <2>1
      <4>3. b = <<a[1], "*">>
        BY <4>2, <3>4
      <4> QED BY <4>3, <2>2 DEF Allows, ActionMatches
    <3> QED BY <3>1, <3>2, <3>3, <3>4
  <2> QED BY <2>3, <2>4
<1> QED BY <1>1, <1>2

\* A narrowed principal is a principal.
LEMMA NarrowTyped ==
    ASSUME NEW p \in Principals, NEW scopes \in Scopes \cup {NoScopes}
    PROVE  Narrow(p, scopes) \in Principals
BY DEF Narrow, Principals, None

\* Taking tokens keeps a bucket a bucket.
LEMMA TakeTyped ==
    ASSUME GateTypes, NEW c \in Conns, NEW allowed \in BOOLEAN, Take(c, allowed)
    PROVE  /\ bucket' \in [Conns -> [tokens : Int, ts : Int]] /\ taken' \in [Conns -> Int]
           /\ \A d \in Conns : d # c => bucket'[d] = bucket[d] /\ taken'[d] = taken[d]
           /\ bucket'[c].ts = now
           /\ bucket'[c].tokens = Available(c) - (IF allowed THEN 1 ELSE 0)
           /\ taken'[c] = taken[c] + (IF allowed THEN 1 ELSE 0)
           /\ allowed = (Available(c) >= 1) /\ Available(c) \in Int
<1>1. bucket[c].tokens \in Int /\ bucket[c].ts \in Int /\ taken[c] \in Int /\ now \in Int
  BY DEF GateTypes
<1>2. Available(c) \in Int
  BY <1>1, GatewayAssumption DEF Available, Min2
<1> DEFINE n == IF allowed THEN 1 ELSE 0
<1>3. n \in Int
  OBVIOUS
<1>4. /\ allowed = (Available(c) >= 1)
      /\ bucket' = [bucket EXCEPT ![c] = [tokens |-> Available(c) - n, ts |-> now]]
      /\ taken' = [taken EXCEPT ![c] = @ + n]
  BY DEF Take
<1> HIDE DEF n
<1> QED BY <1>1, <1>2, <1>3, <1>4 DEF GateTypes, n

-----------------------------------------------------------------------------

\* What the history of a call holds after a step.
LEMMA SeenAfter ==
    ASSUME Watch, NEW r \in Calls, call'[r].at # "idle"
    PROVE  /\ seen'[r].key <=> (seen[r].key \/ CallKeyValid(r)')
           /\ seen'[r].tools = seen[r].tools \cup CallTools(r)'
           /\ seen'[r].res = seen[r].res \cup Readable'
BY DEF Watch

\* When a key was last good, after a step.
LEMMA LastAfter ==
    ASSUME Watch, NEW k \in Keys
    PROVE  /\ KeyValid(k)' \/ (\E r \in Calls : call'[r].key = k) => lastOK'[k] = now'
           /\ ~(KeyValid(k)' \/ \E r \in Calls : call'[r].key = k) => lastOK'[k] = lastOK[k]
BY DEF Watch

\* A call that a step leaves alone keeps what it had.
LEMMA CallKept ==
    ASSUME Watch, NEW r \in Calls, call'[r] = call[r]
    PROVE  (CallOK(r) => CallOK(r)') /\ (ToolsOK(r) => ToolsOK(r)')
<1>1. CASE call[r].at = "idle"
  <2>1. CallOK(r) => CallOK(r)'
    <3>1. CallOK(r) => call[r] = NoCall
      BY <1>1 DEF CallOK
    <3>2. NoCall.at = "idle" /\ NoCall.key = None /\ None \notin Keys
      BY GatewayAssumption DEF NoCall
    <3> QED BY <3>1, <3>2, <1>1 DEF CallOK, Keyed, Resolved
  <2>2. ToolsOK(r)'
    BY <1>1 DEF ToolsOK
  <2> QED BY <2>1, <2>2
<1>2. CASE call[r].at # "idle"
  <2>1. /\ seen[r].key => seen'[r].key
        /\ seen[r].tools \subseteq seen'[r].tools /\ seen[r].res \subseteq seen'[r].res
    BY <1>2, SeenAfter
  <2> QED BY <2>1 DEF CallOK, ToolsOK
<1> QED BY <1>1, <1>2

\* A call that ended.
LEMMA CallEnded ==
    ASSUME GateTypes, NEW r \in Calls, End(r)
    PROVE  /\ call' \in [Calls -> CallRows] /\ CallOK(r)' /\ ToolsOK(r)'
           /\ \A q \in Calls \ {r} : call'[q] = call[q]
           /\ call'[r].key = None
<1>1. NoCall \in CallRows
  BY DEF NoCall, CallRows, CallStates, Nobody, Principals, NoRes, Absent, Rows, Statuses, None
<1>2. call' = [call EXCEPT ![r] = NoCall]
  BY DEF End
<1>3. call'[r] = NoCall /\ call' \in [Calls -> CallRows]
  BY <1>1, <1>2 DEF GateTypes
<1>4. NoCall.at = "idle" /\ NoCall.key = None /\ None \notin Keys
  BY GatewayAssumption DEF NoCall
<1> QED BY <1>2, <1>3, <1>4 DEF CallOK, ToolsOK, Keyed, Resolved, GateTypes

\* No stored action is "*:*", which the code does not refuse.
PlainGrants == \A g \in Grants : <<"*", "*">> \notin g

\* A step of call r that keeps the tables and the other calls.
Acts(r) ==
    /\ call' \in [Calls -> CallRows] /\ \A q \in Calls \ {r} : call'[q] = call[q]
    /\ CallOK(r)'
    /\ PlainGrants /\ ToolsOK(r) => ToolsOK(r)'

\* Lookup of the key (RequireMCPKey).
LEMMA RequireMCPKeyActs ==
    ASSUME GateTypes, Watch, NEW r \in Calls, CallOK(r), NEW k \in Keys, RequireMCPKey(r, k)
    PROVE  Acts(r)
<1> DEFINE c == [NoCall EXCEPT !.at = "key", !.key = k, !.org = KeyOrg(k)]
<1>1. c \in CallRows /\ c.at = "key" /\ c.key = k /\ c.org = KeyOrg(k)
  BY GatewayAssumption
     DEF NoCall, CallRows, CallStates, Nobody, Principals, NoRes, Absent, Rows, Statuses, None
<1>2. call' = [call EXCEPT ![r] = c] /\ UNCHANGED <<authVars, now>>
  BY DEF RequireMCPKey, KeepRest
<1> HIDE DEF c
<1>3. call' \in [Calls -> CallRows] /\ call'[r] = c /\ \A q \in Calls \ {r} : call'[q] = call[q]
  BY <1>1, <1>2 DEF GateTypes
<1>4. KeyValid(k)'
  BY <1>2 DEF RequireMCPKey, KeyWorks, GetMCPKeyByHash, KeyValid, authVars
<1>5. seen'[r].key
  BY <1>1, <1>3, <1>4, SeenAfter DEF CallKeyValid
<1>6. CallOK(r)'
  BY <1>1, <1>3, <1>5 DEF CallOK, Keyed, Resolved
<1>7. ToolsOK(r)'
  BY <1>1, <1>3 DEF ToolsOK
<1> QED BY <1>3, <1>6, <1>7 DEF Acts

\* The grant and the scopes that were read are those a moment of the call had.
LEMMA PrincipalActs ==
    ASSUME GateTypes, Watch, NEW r \in Calls, CallOK(r), call[r].at \in {"key", "actions"},
           NEW p \in Principals, PlainGrants => <<"*", "*">> \notin p.actions,
           \A a : Allows(p, a) => Allows(Live(call[r].key), a),
           call' = [call EXCEPT ![r].at = "principal",
                                ![r].p = Narrow(p, key[call[r].key].scopes)],
           UNCHANGED <<authVars, now>>
    PROVE  Acts(r)
<1>0. PICK k \in Keys : k = call[r].key
  BY DEF CallOK, Keyed
<1> DEFINE n == Narrow(p, key[k].scopes)
<1>1. k = call[r].key /\ call[r] \in CallRows /\ key[k].scopes \in Scopes \cup {NoScopes}
  BY <1>0 DEF GateTypes, KeyRows
<1>2. n \in Principals
  BY <1>1, NarrowTyped
<1> HIDE DEF n
<1> DEFINE c == [call[r] EXCEPT !.at = "principal", !.p = n]
<1>3. call' = [call EXCEPT ![r] = c]
  BY <1>1 DEF GateTypes, CallRows, n
<1>4. c \in CallRows /\ c.at = "principal" /\ c.p = n /\ c.key = k /\ c.org = call[r].org
  BY <1>1, <1>2 DEF CallRows, CallStates
<1> HIDE DEF c
<1>5. call' \in [Calls -> CallRows] /\ call'[r] = c /\ \A q \in Calls \ {r} : call'[q] = call[q]
  BY <1>3, <1>4, ZenonT(60) DEF GateTypes
<1>6. seen'[r].key
  BY <1>1, <1>4, <1>5, SeenAfter DEF CallOK
<1>7. CallOK(r)'
  BY <1>1, <1>4, <1>5, <1>6 DEF CallOK, Keyed, Resolved
<1>8. ASSUME PlainGrants, NEW t \in Tools, Allows(n, Catalog[t].permission)
      PROVE  t \in seen'[r].tools
  <2>1. /\ Allows(p, Catalog[t].permission)
        /\ \/ key[k].scopes = NoScopes
           \/ ActionMatches(key[k].scopes, Catalog[t].permission)
    BY <1>8, Narrowing DEF n
  <2>2. t \in ToolsNow(k)
    <3>1. Allows(Live(k), Catalog[t].permission)
      BY <2>1, <1>1
    <3> QED BY <2>1, <3>1 DEF ToolsNow
  <2>3. ToolsNow(k)' = ToolsNow(k)
    BY DEF ToolsNow, Live, authVars
  <2> QED BY <2>2, <2>3, <1>1, <1>4, <1>5, SeenAfter DEF CallTools
<1>9. PlainGrants => ToolsOK(r)'
  BY <1>4, <1>5, <1>8 DEF ToolsOK
<1> QED BY <1>5, <1>7, <1>9 DEF Acts

\* The role, then the narrowing by the scopes (Authorize).
LEMMA AuthorizeActs ==
    ASSUME GateTypes, Watch, NEW r \in Calls, CallOK(r), Authorize(r)
    PROVE  Acts(r)
<1> DEFINE k == call[r].key  p == [role |-> member[k], actions |-> {}]
<1>1. /\ k \in Keys /\ call[r] \in CallRows /\ member[k] \in {"none", "member", "owner"}
      /\ call[r].at = "key" /\ UNCHANGED <<authVars, now>>
  BY DEF CallOK, Keyed, GateTypes, Authorize, KeepRest
<1>2. p \in Principals /\ p.actions = {} /\ p.role = member[k]
  BY <1>1 DEF Principals
<1>3. CASE member[k] = "member"
  <2> DEFINE c == [call[r] EXCEPT !.at = "actions", !.p = p]
  <2>1. call' = [call EXCEPT ![r] = c]
    BY <1>3 DEF Authorize, GateTypes, CallRows
  <2>2. c \in CallRows /\ c.at = "actions" /\ c.key = k /\ c.org = call[r].org
    BY <1>1, <1>2 DEF CallRows, CallStates
  <2> HIDE DEF c
  <2>3. call' \in [Calls -> CallRows] /\ call'[r] = c /\ \A q \in Calls \ {r} : call'[q] = call[q]
    BY <2>1, <2>2 DEF GateTypes
  <2>4. seen'[r].key
    BY <1>1, <2>2, <2>3, SeenAfter DEF CallOK
  <2>5. CallOK(r)'
    BY <1>1, <2>2, <2>3, <2>4 DEF CallOK, Keyed, Resolved
  <2>6. ToolsOK(r)'
    BY <2>2, <2>3 DEF ToolsOK
  <2> QED BY <2>3, <2>5, <2>6 DEF Acts
<1>4. CASE member[k] # "member"
  <2>1. \A a : Allows(p, a) => Allows(Live(k), a)
    BY <1>2 DEF Allows, ActionMatches, Live
  <2>2. call' = [call EXCEPT ![r].at = "principal", ![r].p = Narrow(p, key[k].scopes)]
    BY <1>4 DEF Authorize
  <2> HIDE DEF p
  <2> QED BY <1>1, <1>2, <2>1, <2>2, PrincipalActs
<1> QED BY <1>3, <1>4

\* The actions of the role (ListPermissionActions).
LEMMA ListPermissionActionsActs ==
    ASSUME GateTypes, Watch, NEW r \in Calls, CallOK(r), ListPermissionActionsByUserOrg(r)
    PROVE  Acts(r)
<1> DEFINE k == call[r].key  p == [role |-> "member", actions |-> Live(k).actions]
<1>1. k \in Keys /\ call[r].at = "actions" /\ UNCHANGED <<authVars, now>>
  BY DEF CallOK, Keyed, ListPermissionActionsByUserOrg, KeepRest
<1>2. Live(k).actions = {} \/ Live(k).actions \in Grants
  BY <1>1 DEF Live, GateTypes
<1>3. p \in Principals /\ p.actions = Live(k).actions /\ p.role = "member"
  BY <1>2 DEF Principals
<1>4. PlainGrants => <<"*", "*">> \notin p.actions
  BY <1>2, <1>3 DEF PlainGrants
<1>5. \A a : Allows(p, a) => Allows(Live(k), a)
  BY <1>3 DEF Allows, ActionMatches
<1>6. call' = [call EXCEPT ![r].at = "principal", ![r].p = Narrow(p, key[k].scopes)]
  BY DEF ListPermissionActionsByUserOrg
<1> HIDE DEF p
<1> QED BY <1>1, <1>3, <1>4, <1>5, <1>6, PrincipalActs

\* What a step of a call writes into its record.
LEMMA CallSet ==
    ASSUME GateTypes, NEW r \in Calls, NEW c \in CallRows, call' = [call EXCEPT ![r] = c]
    PROVE  /\ call' \in [Calls -> CallRows] /\ call'[r] = c
           /\ \A q \in Calls \ {r} : call'[q] = call[q]
BY DEF GateTypes

\* A call may end anywhere.
LEMMA EndActs ==
    ASSUME GateTypes, NEW r \in Calls, End(r)
    PROVE  Acts(r)
BY CallEnded DEF Acts

\* What a call needs to go on with what it has, the tool apart.
MayMove(r, at, res) ==
    /\ call[r].at \in Resolved /\ at \in Resolved \ {"server"} /\ at \in CallStates
    /\ at \in {"run", "read", "sign"} => call[r].key \in Keys
    /\ at \in {"body", "serve"} => call[r].key = None
    /\ at # "run" => res \in Resources
    /\ at = "meta" => call[r].row.config # Lost
    /\ at \in {"read", "sign", "body", "serve"} => <<call[r].conn, res>> \in seen[r].res

\* A call that goes on with what it has.
LEMMA MoveActs ==
    ASSUME GateTypes, Watch, NEW r \in Calls, CallOK(r),
           NEW at, NEW tool \in Tools \cup {None}, NEW res \in Resources \cup {NoRes},
           MayMove(r, at, res),
           call' = [call EXCEPT ![r] = [call[r] EXCEPT !.at = at, !.tool = tool, !.res = res]]
    PROVE  /\ call' \in [Calls -> CallRows] /\ \A q \in Calls \ {r} : call'[q] = call[q]
           /\ CallOK(r)'
           /\ call'[r].at = at /\ call'[r].tool = tool /\ call'[r].key = call[r].key
           /\ seen[r].tools \subseteq seen'[r].tools
<1> DEFINE c == [call[r] EXCEPT !.at = at, !.tool = tool, !.res = res]
<1>1. /\ c \in CallRows /\ c.at = at /\ c.tool = tool /\ c.res = res /\ c.key = call[r].key
      /\ c.org = call[r].org /\ c.conn = call[r].conn /\ c.row = call[r].row
  BY ZenonT(60) DEF GateTypes, CallRows, MayMove
<1>2. call' \in [Calls -> CallRows] /\ call'[r] = c /\ \A q \in Calls \ {r} : call'[q] = call[q]
  <2> HIDE DEF c
  <2> QED BY <1>1, CallSet DEF c
<1> HIDE DEF c
<1>3. /\ seen[r].key => seen'[r].key
      /\ seen[r].tools \subseteq seen'[r].tools /\ seen[r].res \subseteq seen'[r].res
  BY <1>1, <1>2, SeenAfter DEF MayMove, Resolved
<1>4. CallOK(r)'
  BY <1>1, <1>2, <1>3 DEF CallOK, Keyed, Resolved, MayMove
<1> QED BY <1>1, <1>2, <1>3, <1>4

\* The row is read (ResolveConnector).
LEMMA ResolveConnectorActs ==
    ASSUME GateTypes, Watch, NEW r \in Calls, CallOK(r), NEW d \in Conns, ResolveConnector(r, d)
    PROVE  Acts(r)
<1>1. CASE ~(d \in Present /\ OrgOf(d) = call[r].org)
  BY <1>1, EndActs DEF ResolveConnector
<1>2. CASE d \in Present /\ OrgOf(d) = call[r].org
  <2> DEFINE c == [call[r] EXCEPT !.at = "server", !.conn = d, !.row = row[d]]
  <2>1. call[r] \in CallRows /\ call[r].at = "principal" /\ row[d] \in Rows /\ UNCHANGED connVars
    BY DEF GateTypes, ConnTypes, ResolveConnector, KeepRest
  <2>2. /\ c \in CallRows /\ c.at = "server" /\ c.conn = d /\ c.row = row[d] /\ c.key = call[r].key
        /\ c.org = call[r].org /\ c.p = call[r].p
    BY <2>1 DEF CallRows, CallStates
  <2>3. call' = [call EXCEPT ![r] = c]
    BY <1>2, <2>1 DEF ResolveConnector, GateTypes, CallRows
  <2> HIDE DEF c
  <2>4. call' \in [Calls -> CallRows] /\ call'[r] = c /\ \A q \in Calls \ {r} : call'[q] = call[q]
    BY <2>2, <2>3, CallSet
  <2>5. /\ seen[r].key => seen'[r].key
        /\ seen[r].tools \subseteq seen'[r].tools
        /\ Readable' \subseteq seen'[r].res
    BY <2>2, <2>4, SeenAfter
  <2>6. ASSUME row[d].config # Lost, NEW f \in Resources, f \in row[d].config
        PROVE  <<d, f>> \in seen'[r].res
    <3>1. <<d, f>> \in Readable'
      BY <1>2, <2>1, <2>6 DEF Readable, Present, connVars, tables
    <3> QED BY <3>1, <2>5
  <2>7. CallOK(r)'
    BY <1>2, <2>1, <2>2, <2>4, <2>5, <2>6 DEF CallOK, Keyed, Resolved
  <2>8. ToolsOK(r) => ToolsOK(r)'
    BY <2>1, <2>2, <2>4, <2>5 DEF ToolsOK
  <2> QED BY <2>4, <2>7, <2>8 DEF Acts
<1> QED BY <1>1, <1>2

\* The tool is checked against the principal (enforce).
LEMMA enforceActs ==
    ASSUME GateTypes, Watch, NEW r \in Calls, CallOK(r), NEW t \in Tools, enforce(r, t)
    PROVE  Acts(r)
<1>1. CASE End(r)
  BY <1>1, EndActs
<1>2. CASE ~End(r)
  <2>1. /\ call[r].at = "server" /\ Allows(call[r].p, Catalog[t].permission)
        /\ call' = [call EXCEPT ![r].at = "run", ![r].tool = t]
    BY <1>2 DEF enforce
  <2>2. call[r] \in CallRows
    BY DEF GateTypes
  <2>3. call' = [call EXCEPT ![r] = [call[r] EXCEPT !.at = "run", !.tool = t, !.res = call[r].res]]
    BY <2>1, <2>2 DEF GateTypes, CallRows
  <2>4. /\ call' \in [Calls -> CallRows] /\ \A q \in Calls \ {r} : call'[q] = call[q]
        /\ CallOK(r)'
        /\ call'[r].at = "run" /\ call'[r].tool = t /\ seen[r].tools \subseteq seen'[r].tools
    <3>1. call[r].res \in Resources \cup {NoRes} /\ t \in Tools \cup {None}
      BY <2>2 DEF CallRows
    <3>2. MayMove(r, "run", call[r].res)
      BY <2>1 DEF MayMove, CallOK, Resolved, Keyed, CallStates
    <3> QED BY <2>3, <3>1, <3>2, MoveActs, ZenonT(60)
  <2>5. ToolsOK(r) => ToolsOK(r)'
    BY <2>1, <2>4 DEF ToolsOK
  <2> QED BY <2>4, <2>5 DEF Acts
<1> QED BY <1>1, <1>2

\* The stored config is opened (openGoogleSheetsConfig).
LEMMA openGoogleSheetsConfigActs ==
    ASSUME GateTypes, Watch, NEW r \in Calls, CallOK(r), openGoogleSheetsConfig(r)
    PROVE  Acts(r)
<1>1. PICK f \in Resources :
          /\ call[r].row.config # Lost
          /\ \/ /\ call[r].tool = "query" /\ f \in call[r].row.config
                /\ call' = [call EXCEPT ![r].at = "read", ![r].res = f]
             \/ /\ call[r].tool = "get_file"
                /\ call' = [call EXCEPT ![r].at = "meta", ![r].res = f]
  BY DEF openGoogleSheetsConfig
<1>2. call[r] \in CallRows /\ call[r].at = "run"
  BY DEF GateTypes, openGoogleSheetsConfig
<1>3. PICK at \in {"read", "meta"} :
          /\ call' = [call EXCEPT ![r].at = at, ![r].res = f]
          /\ at = "read" => f \in call[r].row.config
  BY <1>1
<1>4. call' = [call EXCEPT ![r] = [call[r] EXCEPT !.at = at, !.tool = call[r].tool, !.res = f]]
  BY <1>2, <1>3 DEF GateTypes, CallRows
<1>5. <<call[r].conn, f>> \in seen[r].res \/ at = "meta"
  BY <1>1, <1>2, <1>3 DEF CallOK, Resolved
<1>6. /\ call' \in [Calls -> CallRows] /\ \A q \in Calls \ {r} : call'[q] = call[q]
      /\ CallOK(r)' /\ call'[r].at = at /\ call'[r].tool = call[r].tool
      /\ call'[r].key = call[r].key /\ seen[r].tools \subseteq seen'[r].tools
  <2>1. call[r].tool \in Tools \cup {None}
    BY <1>2 DEF CallRows
  <2>2. MayMove(r, at, f)
    BY <1>1, <1>2, <1>5 DEF MayMove, CallOK, Resolved, Keyed, CallStates
  <2> QED BY <1>4, <2>1, <2>2, MoveActs, ZenonT(60)
<1>7. ToolsOK(r) => ToolsOK(r)'
  BY <1>2, <1>6 DEF ToolsOK
<1> QED BY <1>6, <1>7 DEF Acts

\* The metadata of a file is read (GetFile).
LEMMA GetFileActs ==
    ASSUME GateTypes, Watch, NEW r \in Calls, CallOK(r), GetFile(r)
    PROVE  Acts(r)
<1>1. CASE End(r)
  BY <1>1, EndActs
<1>2. CASE ~End(r)
  <2>1. PICK at \in {"body", "sign"} :
          /\ at = (IF call[r].key = None THEN "body" ELSE "sign")
          /\ IsFileAllowed(r) /\ call[r].at = "meta" /\ call' = [call EXCEPT ![r].at = at]
    BY <1>2 DEF GetFile
  <2>2. call[r] \in CallRows
    BY DEF GateTypes
  <2>3. /\ call[r].res \in Resources /\ <<call[r].conn, call[r].res>> \in seen[r].res
        /\ at = "sign" => call[r].key \in Keys
    BY <2>1, <2>2 DEF CallOK, Resolved, IsFileAllowed, CallRows
  <2>4. call' = [call EXCEPT ![r] =
                   [call[r] EXCEPT !.at = at, !.tool = call[r].tool, !.res = call[r].res]]
    BY <2>1, <2>2 DEF GateTypes, CallRows
  <2>5. /\ call' \in [Calls -> CallRows] /\ \A q \in Calls \ {r} : call'[q] = call[q]
        /\ CallOK(r)' /\ call'[r].at = at /\ call'[r].tool = call[r].tool
        /\ call'[r].key = call[r].key /\ seen[r].tools \subseteq seen'[r].tools
    <3>1. call[r].tool \in Tools \cup {None}
      BY <2>2 DEF CallRows
    <3>2. MayMove(r, at, call[r].res)
      BY <2>1, <2>3 DEF MayMove, Resolved, CallStates
    <3> QED BY <2>3, <2>4, <3>1, <3>2, MoveActs, ZenonT(60)
  <2>6. ToolsOK(r) => ToolsOK(r)'
    BY <2>1, <2>5 DEF ToolsOK
  <2> QED BY <2>5, <2>6 DEF Acts
<1> QED BY <1>1, <1>2

\* The bucket is charged (ChargeRateLimit).
LEMMA ChargeRateLimitActs ==
    ASSUME GateTypes, Watch, NEW r \in Calls, CallOK(r), ChargeRateLimit(r)
    PROVE  Acts(r)
<1>1. CASE End(r)
  BY <1>1, EndActs
<1>2. CASE ~End(r)
  BY <1>2, CallKept DEF ChargeRateLimit, Acts, GateTypes
<1> QED BY <1>1, <1>2

\* A link is signed (downloadFile).
LEMMA downloadFileActs ==
    ASSUME GateTypes, Watch, NEW r \in Calls, CallOK(r), NEW l \in links, downloadFile(r, l)
    PROVE  Acts(r)
<1> DEFINE c == [NoCall EXCEPT !.at = "link", !.conn = l.conn, !.org = l.org, !.res = l.res]
<1>1. l.conn \in Conns /\ l.org \in Orgs /\ l.res \in Resources
  BY DEF GateTypes, LinkRows
<1>2. c \in CallRows /\ c.at = "link" /\ c.key = None /\ c.conn = l.conn /\ c.res = l.res
  BY <1>1 DEF NoCall, CallRows, CallStates, Nobody, Principals, NoRes, Absent, Rows, Statuses, None
<1>3. call' = [call EXCEPT ![r] = c]
  BY DEF downloadFile
<1> HIDE DEF c
<1>4. call' \in [Calls -> CallRows] /\ call'[r] = c /\ \A q \in Calls \ {r} : call'[q] = call[q]
  BY <1>2, <1>3, CallSet
<1>5. CallOK(r)' /\ ToolsOK(r)'
  BY <1>1, <1>2, <1>4, GatewayAssumption DEF CallOK, ToolsOK, Keyed, Resolved
<1> QED BY <1>4, <1>5 DEF Acts

\* The download reads its row (DownloadFile).
LEMMA DownloadRowActs ==
    ASSUME GateTypes, Watch, NEW r \in Calls, CallOK(r), DownloadRow(r)
    PROVE  Acts(r)
<1>1. CASE End(r)
  BY <1>1, EndActs
<1>2. CASE ~End(r)
  <2>0. PICK d \in Conns : d = call[r].conn
    BY DEF CallOK, Resolved, DownloadRow
  <2> DEFINE c == [call[r] EXCEPT !.at = "meta", !.row = row[d]]
  <2>1. /\ call[r] \in CallRows /\ call[r].at = "link" /\ row[d] \in Rows /\ UNCHANGED connVars
        /\ d \in Present /\ row[d].config # Lost /\ call[r].key = None /\ call[r].res \in Resources
        /\ call' = [call EXCEPT ![r].at = "meta", ![r].row = row[d]]
    BY <1>2, <2>0 DEF GateTypes, ConnTypes, DownloadRow, KeepRest, CallOK
  <2>2. /\ c \in CallRows /\ c.at = "meta" /\ c.conn = d /\ c.row = row[d] /\ c.key = None
        /\ c.res = call[r].res
    BY <2>0, <2>1, ZenonT(60) DEF CallRows, CallStates
  <2>3. call' = [call EXCEPT ![r] = c]
    BY <2>1 DEF GateTypes, CallRows
  <2> HIDE DEF c
  <2>4. call' \in [Calls -> CallRows] /\ call'[r] = c /\ \A q \in Calls \ {r} : call'[q] = call[q]
    BY <2>2, <2>3, CallSet
  <2>5. Readable' \subseteq seen'[r].res
    BY <2>2, <2>4, SeenAfter
  <2>6. ASSUME NEW f \in Resources, f \in row[d].config
        PROVE  <<d, f>> \in seen'[r].res
    <3>1. <<d, f>> \in Readable'
      BY <2>1, <2>6 DEF Readable, Present, connVars, tables
    <3> QED BY <3>1, <2>5
  <2>7. CallOK(r)' /\ ToolsOK(r)'
    BY <2>1, <2>2, <2>4, <2>6, GatewayAssumption, ZenonT(60) DEF CallOK, ToolsOK, Keyed, Resolved
  <2> QED BY <2>4, <2>7 DEF Acts
<1> QED BY <1>1, <1>2

\* The download serves its bytes (DownloadFile).
LEMMA DownloadFileActs ==
    ASSUME GateTypes, Watch, NEW r \in Calls, CallOK(r), DownloadFile(r)
    PROVE  Acts(r)
<1>1. CASE End(r)
  BY <1>1, EndActs
<1>2. CASE ~End(r)
  <2>1. call[r].at = "body" /\ call' = [call EXCEPT ![r].at = "serve"] /\ call[r] \in CallRows
    BY <1>2 DEF DownloadFile, GateTypes
  <2>2. call' = [call EXCEPT ![r] =
                   [call[r] EXCEPT !.at = "serve", !.tool = call[r].tool, !.res = call[r].res]]
    BY <2>1 DEF GateTypes, CallRows
  <2>3. /\ call[r].tool \in Tools \cup {None} /\ call[r].res \in Resources \cup {NoRes}
        /\ MayMove(r, "serve", call[r].res)
    BY <2>1 DEF MayMove, CallOK, Resolved, CallStates, CallRows
  <2>4. /\ call' \in [Calls -> CallRows] /\ \A q \in Calls \ {r} : call'[q] = call[q]
        /\ CallOK(r)' /\ call'[r].at = "serve"
    BY <2>2, <2>3, MoveActs
  <2>5. ToolsOK(r)'
    BY <2>4 DEF ToolsOK
  <2> QED BY <2>4, <2>5 DEF Acts
<1> QED BY <1>1, <1>2

\* Every step of a call, and what it leaves alone.
LEMMA CallStepActs ==
    ASSUME GateTypes, Watch, NEW r \in Calls, CallOK(r), CallStep(r)
    PROVE  Acts(r) /\ UNCHANGED <<connVars, authVars, now>>
<1>1. ASSUME NEW k \in Keys, RequireMCPKey(r, k) PROVE Acts(r) /\ UNCHANGED <<connVars, authVars, now>>
  BY <1>1, RequireMCPKeyActs DEF RequireMCPKey, KeepRest
<1>2. CASE Authorize(r)
  BY <1>2, AuthorizeActs DEF Authorize, KeepRest
<1>3. CASE ListPermissionActionsByUserOrg(r)
  BY <1>3, ListPermissionActionsActs DEF ListPermissionActionsByUserOrg, KeepRest
<1>4. ASSUME NEW c \in Conns, ResolveConnector(r, c) PROVE Acts(r) /\ UNCHANGED <<connVars, authVars, now>>
  BY <1>4, ResolveConnectorActs DEF ResolveConnector, KeepRest
<1>5. ASSUME NEW t \in Tools, enforce(r, t) PROVE Acts(r) /\ UNCHANGED <<connVars, authVars, now>>
  BY <1>5, enforceActs DEF enforce, KeepRest
<1>6. CASE openGoogleSheetsConfig(r)
  BY <1>6, openGoogleSheetsConfigActs DEF openGoogleSheetsConfig, KeepRest
<1>7. CASE ChargeRateLimit(r)
  BY <1>7, ChargeRateLimitActs DEF ChargeRateLimit, KeepRest
<1>8. CASE GetFile(r)
  BY <1>8, GetFileActs DEF GetFile, KeepRest
<1>9. CASE SignFileLink(r)
  BY <1>9, EndActs DEF SignFileLink
<1>10. ASSUME NEW l \in links, downloadFile(r, l) PROVE Acts(r) /\ UNCHANGED <<connVars, authVars, now>>
  BY <1>10, downloadFileActs DEF downloadFile, KeepRest
<1>11. CASE DownloadRow(r)
  BY <1>11, DownloadRowActs DEF DownloadRow, KeepRest
<1>12. CASE DownloadFile(r)
  BY <1>12, DownloadFileActs DEF DownloadFile, KeepRest
<1>13. CASE Serve(r)
  BY <1>13, EndActs DEF Serve, KeepRest
<1>14. CASE Fail(r)
  BY <1>14, EndActs DEF Fail, KeepRest
<1> QED
  BY <1>1, <1>2, <1>3, <1>4, <1>5, <1>6, <1>7, <1>8, <1>9, <1>10, <1>11, <1>12, <1>13, <1>14 DEF CallStep

-----------------------------------------------------------------------------

\* A call touches the bucket of its connector, or none.
LEMMA CallStepTakes ==
    ASSUME GateTypes, NEW r \in Calls, CallOK(r), CallStep(r)
    PROVE  \/ UNCHANGED <<bucket, taken>>
           \/ \E c \in Conns, allowed \in BOOLEAN : Take(c, allowed)
<1>1. CASE ~UNCHANGED <<bucket, taken>>
  <2>1. /\ call[r].at \in {"server", "read", "meta", "body"}
        /\ \E allowed \in BOOLEAN : Take(call[r].conn, allowed)
    BY <1>1 DEF CallStep, RequireMCPKey, Authorize, ListPermissionActionsByUserOrg, ResolveConnector,
         enforce, openGoogleSheetsConfig, ChargeRateLimit, GetFile, SignFileLink, downloadFile,
         DownloadRow, DownloadFile, Serve, Fail, NoCharge
  <2>2. call[r].conn \in Conns
    BY <2>1 DEF CallOK, Resolved
  <2> QED BY <2>1, <2>2
<1> QED BY <1>1

\* A link is handed out by a call that holds a key.
LEMMA CallStepSigns ==
    ASSUME GateTypes, NEW r \in Calls, CallOK(r), CallStep(r)
    PROVE  \/ links' = links
           \/ \E l \in LinkRows : /\ links' = links \cup {l} /\ call[r].key = l.by
                                  /\ l.exp = now + LinkTTL
<1>1. CASE links' # links
  <2>1. SignFileLink(r)
    BY <1>1 DEF CallStep, RequireMCPKey, Authorize, ListPermissionActionsByUserOrg, ResolveConnector,
         enforce, openGoogleSheetsConfig, ChargeRateLimit, GetFile, downloadFile,
         DownloadRow, DownloadFile, Serve, Fail, KeepRest
  <2> DEFINE l == [org |-> call[r].org, conn |-> call[r].conn, res |-> call[r].res,
                   exp |-> now + LinkTTL, by |-> call[r].key]
  <2>2. call[r].at = "sign" /\ links' = links \cup {l}
    BY <1>1, <2>1 DEF SignFileLink
  <2>3. /\ call[r].key \in Keys /\ call[r].org \in Orgs /\ call[r].conn \in Conns
        /\ call[r].res \in Resources /\ now + LinkTTL \in Nat
    BY <2>2, GatewayAssumption DEF CallOK, Keyed, Resolved, GateTypes
  <2>4. l \in LinkRows /\ call[r].key = l.by /\ l.exp = now + LinkTTL
    BY <2>3 DEF LinkRows
  <2> QED BY <2>2, <2>4
<1> QED BY <1>1

\* What goes on around the calls leaves them, the links and the clock alone.
Around ==
    \/ \E k \in Keys : CreateMCPKey(k) \/ RevokeMCPKey(k) \/ SetMembership(k) \/ SetPermissions(k)
    \/ \E u \in Users : SetUserBan(u)
    \/ ConnectorStep

\* What the connectors do beside the gateway.
LEMMA ConnectorsAround ==
    ASSUME ConnTypes, ConnIds, GatewayStep
    PROVE  ConnTypes' /\ ConnIds'
<1>1. CASE ConnectorStep
  <2>1. NextConnectors
    BY <1>1 DEF ConnectorStep, NextConnectors, RequestStep
  <2> QED BY <2>1, ConnTypesStep
<1>2. CASE UNCHANGED tables /\ changes' \in Nat
  BY <1>2 DEF tables, ConnTypes, ConnIds, Present
<1>3. CASE ~ConnectorStep
  <2>1. UNCHANGED tables /\ (changes' = changes \/ changes' = changes + 1)
    BY <1>3, ZenonT(60) DEF GatewayStep, CallStep, RequireMCPKey, Authorize, ListPermissionActionsByUserOrg,
         ResolveConnector, enforce, openGoogleSheetsConfig, ChargeRateLimit, GetFile, SignFileLink,
         downloadFile, DownloadRow, DownloadFile, Serve, Fail, KeepRest, connVars, tables,
         CreateMCPKey, RevokeMCPKey, SetMembership, SetPermissions, SetUserBan, Change, BucketExpires, Tick
  <2>2. changes' \in Nat
    BY <2>1 DEF ConnTypes
  <2> QED BY <2>1, <2>2, <1>2
<1> QED BY <1>1, <1>3

\* What keys, members, roles and bans do beside the gateway.
LEMMA AuthAround ==
    ASSUME GateTypes, Around
    PROVE  /\ key' \in [Keys -> KeyRows] /\ member' \in [Keys -> {"none", "member", "owner"}]
           /\ grant' \in [Keys -> Grants] /\ banned' \subseteq Users
           /\ UNCHANGED <<call, links, bucket, now, taken>>
<1>1. ASSUME NEW k \in Keys, CreateMCPKey(k) PROVE key' \in [Keys -> KeyRows]
  <2>1. PICK s \in Scopes, e \in {0, now + 1} :
            key' = [key EXCEPT ![k] = [state |-> "live", scopes |-> s, exp |-> e]]
    BY <1>1 DEF CreateMCPKey
  <2> DEFINE kr == [state |-> "live", scopes |-> s, exp |-> e]
  <2>2. kr \in KeyRows
    BY DEF KeyRows, GateTypes
  <2>3. key' = [key EXCEPT ![k] = kr]
    BY <2>1
  <2> HIDE DEF kr
  <2> QED BY <2>2, <2>3 DEF GateTypes
<1>2. ASSUME NEW k \in Keys, RevokeMCPKey(k) PROVE key' \in [Keys -> KeyRows]
  BY <1>2 DEF RevokeMCPKey, GateTypes, KeyRows
<1>3. CASE \E k \in Keys : CreateMCPKey(k)
  BY <1>1, <1>3 DEF CreateMCPKey, KeepCalls, GateTypes
<1>4. CASE \E k \in Keys : RevokeMCPKey(k)
  BY <1>2, <1>4 DEF RevokeMCPKey, KeepCalls, GateTypes
<1>5. CASE \E k \in Keys : SetMembership(k)
  BY <1>5 DEF SetMembership, KeepCalls, GateTypes
<1>6. CASE \E k \in Keys : SetPermissions(k)
  BY <1>6 DEF SetPermissions, KeepCalls, GateTypes
<1>7. CASE \E u \in Users : SetUserBan(u)
  BY <1>7 DEF SetUserBan, KeepCalls, GateTypes
<1>8. CASE ConnectorStep
  BY <1>8 DEF ConnectorStep, KeepCalls, GateTypes, authVars
<1> QED BY <1>3, <1>4, <1>5, <1>6, <1>7, <1>8 DEF Around

\* The histories keep their types.
LEMMA HistoryTyped ==
    ASSUME GateTypes, Watch, now' \in Int
    PROVE  seen' \in [Calls -> SeenRows] /\ lastOK' \in [Keys -> Int]
<1>1. ASSUME NEW r \in Calls
      PROVE  [key |-> seen[r].key \/ CallKeyValid(r)', tools |-> seen[r].tools \cup CallTools(r)',
              res |-> seen[r].res \cup Readable'] \in SeenRows
  <2>1. seen[r].tools \subseteq Tools /\ seen[r].res \subseteq Conns \X Resources
    BY DEF GateTypes, SeenRows
  <2>2. CallTools(r)' \subseteq Tools /\ Readable' \subseteq Conns \X Resources
    BY DEF CallTools, ToolsNow, Readable
  <2>3. (seen[r].key \/ CallKeyValid(r)') \in BOOLEAN
    OBVIOUS
  <2> QED BY <2>1, <2>2, <2>3 DEF SeenRows
<1>2. NoSeen \in SeenRows
  BY DEF NoSeen, SeenRows
<1>3. lastOK' \in [Keys -> Int]
  BY DEF Watch, GateTypes
<1>4. seen' = [r \in Calls |-> IF call'[r].at = "idle" THEN NoSeen
                   ELSE [key |-> seen[r].key \/ CallKeyValid(r)',
                         tools |-> seen[r].tools \cup CallTools(r)',
                         res |-> seen[r].res \cup Readable']]
  BY DEF Watch
<1> QED BY <1>1, <1>2, <1>3, <1>4, Zenon

GateInd == GateTypes /\ LinkInd /\ \A r \in Calls : CallOK(r)

\* The ways a step of the gateway goes.
LEMMA GateCases ==
    ASSUME GatewayStep
    PROVE  \/ \E r \in Calls : CallStep(r)
           \/ Around
           \/ \E c \in Conns : BucketExpires(c)
           \/ Tick
BY DEF GatewayStep, Around

\* Types, step by step.
LEMMA GateTypesStep ==
    ASSUME GateTypes, \A r \in Calls : CallOK(r), Next
    PROVE  GateTypes'
<1>0. GatewayStep /\ Watch /\ ConnTypes' /\ ConnIds'
  BY ConnectorsAround DEF Next, GateTypes
<1>1. ASSUME NEW r \in Calls, CallStep(r) PROVE GateTypes'
  <2>1. Acts(r) /\ UNCHANGED <<connVars, authVars, now>>
    BY <1>0, <1>1, CallStepActs
  <2>2. bucket' \in [Conns -> [tokens : Int, ts : Int]] /\ taken' \in [Conns -> Int]
    BY <1>1, CallStepTakes, TakeTyped DEF GateTypes
  <2>3. links' \subseteq LinkRows
    BY <1>1, CallStepSigns DEF GateTypes
  <2>4. seen' \in [Calls -> SeenRows] /\ lastOK' \in [Keys -> Int]
    BY <1>0, <2>1, HistoryTyped DEF GateTypes
  <2> QED BY <1>0, <2>1, <2>2, <2>3, <2>4 DEF GateTypes, Acts, authVars
<1>2. CASE Around
  <2>1. /\ key' \in [Keys -> KeyRows] /\ member' \in [Keys -> {"none", "member", "owner"}]
        /\ grant' \in [Keys -> Grants] /\ banned' \subseteq Users
        /\ UNCHANGED <<call, links, bucket, now, taken>>
    BY <1>2, AuthAround
  <2>2. seen' \in [Calls -> SeenRows] /\ lastOK' \in [Keys -> Int]
    BY <1>0, <2>1, HistoryTyped DEF GateTypes
  <2> QED BY <1>0, <2>1, <2>2 DEF GateTypes
<1>3. ASSUME NEW c \in Conns, BucketExpires(c) PROVE GateTypes'
  <2>1. /\ bucket' = [bucket EXCEPT ![c] = [tokens |-> Capacity, ts |-> now]]
        /\ UNCHANGED <<authVars, call, links, now, taken>>
    BY <1>3 DEF BucketExpires
  <2>2. seen' \in [Calls -> SeenRows] /\ lastOK' \in [Keys -> Int]
    BY <1>0, <2>1, HistoryTyped DEF GateTypes
  <2>3. bucket' \in [Conns -> [tokens : Int, ts : Int]]
    BY <2>1, GatewayAssumption DEF GateTypes
  <2> QED BY <1>0, <2>1, <2>2, <2>3 DEF GateTypes, authVars
<1>4. CASE Tick
  <2>1. now' = now + 1 /\ UNCHANGED <<authVars, call, links, bucket, taken>>
    BY <1>4 DEF Tick
  <2>2. seen' \in [Calls -> SeenRows] /\ lastOK' \in [Keys -> Int]
    BY <1>0, <2>1, HistoryTyped DEF GateTypes
  <2> QED BY <1>0, <2>1, <2>2 DEF GateTypes, authVars
<1> QED BY <1>0, <1>1, <1>2, <1>3, <1>4, GateCases

\* The rights of every call, step by step.
LEMMA CallsStep ==
    ASSUME GateTypes, \A r \in Calls : CallOK(r), Next
    PROVE  /\ \A r \in Calls : CallOK(r)'
           /\ PlainGrants /\ (\A r \in Calls : ToolsOK(r)) => \A r \in Calls : ToolsOK(r)'
<1>0. GatewayStep /\ Watch
  BY DEF Next
<1>1. ASSUME NEW r \in Calls, CallStep(r)
      PROVE  /\ \A q \in Calls : CallOK(q)'
             /\ PlainGrants /\ (\A q \in Calls : ToolsOK(q)) => \A q \in Calls : ToolsOK(q)'
  <2>1. Acts(r)
    BY <1>0, <1>1, CallStepActs
  <2>2. \A q \in Calls \ {r} : (CallOK(q) => CallOK(q)') /\ (ToolsOK(q) => ToolsOK(q)')
    BY <1>0, <2>1, CallKept DEF Acts
  <2> QED BY <2>1, <2>2 DEF Acts
<1>2. ASSUME UNCHANGED call
      PROVE  /\ \A q \in Calls : CallOK(q)'
             /\ PlainGrants /\ (\A q \in Calls : ToolsOK(q)) => \A q \in Calls : ToolsOK(q)'
  BY <1>0, <1>2, CallKept
<1>3. CASE Around
  BY <1>2, <1>3, AuthAround
<1>4. CASE \/ \E c \in Conns : BucketExpires(c)
           \/ Tick
  BY <1>2, <1>4 DEF BucketExpires, Tick
<1> QED BY <1>0, <1>1, <1>3, <1>4, GateCases

\* Links, step by step.
LEMMA LinkIndStep ==
    ASSUME GateTypes, GateTypes', \A r \in Calls : CallOK(r), LinkInd, Next
    PROVE  LinkInd'
<1>0. GatewayStep /\ Watch
  BY DEF Next
<1>1. now' \in Int /\ now \in Int /\ now <= now'
  <2>1. now' = now \/ now' = now + 1
    BY <1>0, CallStepActs, AuthAround, GateCases DEF BucketExpires, Tick
  <2> QED BY <2>1 DEF GateTypes
<1>2. \A k \in Keys : lastOK[k] \in Int /\ lastOK'[k] \in Int /\ lastOK[k] <= now
  BY DEF GateTypes, LinkInd
<1>3. \A k \in Keys : /\ lastOK[k] <= lastOK'[k] /\ lastOK'[k] <= now'
                      /\ (\E r \in Calls : call'[r].key = k) => lastOK'[k] = now'
  <2> TAKE k \in Keys
  <2>1. lastOK[k] \in Int /\ lastOK'[k] \in Int /\ lastOK[k] <= now
    BY <1>2
  <2>2. CASE KeyValid(k)' \/ \E r \in Calls : call'[r].key = k
    <3>1. lastOK'[k] = now'
      BY <1>0, <2>2, LastAfter
    <3> QED BY <1>1, <2>1, <3>1
  <2>3. CASE ~(KeyValid(k)' \/ \E r \in Calls : call'[r].key = k)
    <3>1. lastOK'[k] = lastOK[k]
      BY <1>0, <2>3, LastAfter
    <3> QED BY <1>1, <2>1, <2>3, <3>1
  <2> QED BY <2>2, <2>3
<1>4. ASSUME NEW l \in links' PROVE l.exp <= lastOK'[l.by] + LinkTTL
  <2>1. l.by \in Keys /\ l.exp \in Int /\ LinkTTL \in Int
    BY GatewayAssumption DEF GateTypes, LinkRows
  <2>2. CASE l \in links
    <3>1. l.exp <= lastOK[l.by] + LinkTTL
      BY <2>2 DEF LinkInd
    <3> QED BY <2>1, <3>1, <1>2, <1>3
  <2>3. CASE l \notin links
    <3>1. PICK r \in Calls : CallStep(r)
      BY <1>0, <1>4, <2>3, AuthAround, GateCases DEF BucketExpires, Tick
    <3>2. l.by = call[r].key /\ l.exp = now + LinkTTL
      BY <1>4, <2>3, <3>1, CallStepSigns
    <3>3. lastOK[l.by] = now
      BY <2>1, <3>2 DEF LinkInd
    <3> QED BY <2>1, <3>2, <3>3, <1>1, <1>2, <1>3
  <2> QED BY <2>2, <2>3
<1> QED BY <1>3, <1>4 DEF LinkInd

\* Buckets, step by step.
LEMMA RateStep ==
    ASSUME GateTypes, \A r \in Calls : CallOK(r), RateBounded, Next
    PROVE  RateBounded'
<1>0. GatewayStep
  BY DEF Next
<1>1. /\ now \in Nat /\ Capacity \in Nat \ {0} /\ IdleTTL \in Nat /\ Capacity <= IdleTTL
      /\ \A c \in Conns : bucket[c].tokens \in Int /\ bucket[c].ts \in Int /\ taken[c] \in Int
  BY GatewayAssumption DEF GateTypes
<1>2. ASSUME UNCHANGED <<bucket, taken>>, now' = now \/ now' = now + 1
      PROVE  RateBounded'
  BY <1>1, <1>2 DEF RateBounded
<1>3. ASSUME NEW c \in Conns, NEW allowed \in BOOLEAN, Take(c, allowed), now' = now
      PROVE  RateBounded'
  <2>1. /\ \A d \in Conns : d # c => bucket'[d] = bucket[d] /\ taken'[d] = taken[d]
        /\ bucket'[c].ts = now
        /\ bucket'[c].tokens = Available(c) - (IF allowed THEN 1 ELSE 0)
        /\ taken'[c] = taken[c] + (IF allowed THEN 1 ELSE 0)
        /\ allowed = (Available(c) >= 1) /\ Available(c) \in Int
    BY <1>3, TakeTyped
  <2>2. /\ bucket[c].tokens \in 0 .. Capacity /\ bucket[c].ts \in 0 .. now
        /\ bucket[c].tokens + taken[c] <= Capacity + bucket[c].ts
    BY DEF RateBounded
  <2>3. /\ 0 <= Available(c) /\ Available(c) <= Capacity
        /\ Available(c) <= bucket[c].tokens + (now - bucket[c].ts)
    BY <1>1, <2>2 DEF Available, Min2
  <2>4. /\ bucket'[c].tokens \in 0 .. Capacity /\ bucket'[c].ts \in 0 .. now
        /\ bucket'[c].tokens + taken'[c] <= Capacity + bucket'[c].ts
    <3> PICK tok, ts, tak, av, cap : /\ tok = bucket[c].tokens /\ ts = bucket[c].ts /\ tak = taken[c]
                                     /\ av = Available(c) /\ cap = Capacity
      OBVIOUS
    <3>0. /\ tok \in Int /\ ts \in Int /\ tak \in Int /\ av \in Int /\ cap \in Int /\ now \in Int
          /\ 0 <= av /\ av <= cap /\ av <= tok + (now - ts) /\ tok + tak <= cap + ts /\ 0 <= now
      BY <1>1, <2>1, <2>2, <2>3
    <3>1. CASE allowed
      <4>0. Available(c) >= 1
        BY <2>1, <3>1, Zenon
      <4>1. av >= 1 /\ av - 1 \in 0 .. cap /\ now \in 0 .. now /\ av - 1 + (tak + 1) <= cap + now
        BY <3>0, <4>0
      <4>2. bucket'[c].tokens = av - 1 /\ bucket'[c].ts = now /\ taken'[c] = tak + 1
        BY <2>1, <3>1
      <4> QED BY <4>1, <4>2
    <3>2. CASE ~allowed
      <4>1. av - 0 \in 0 .. cap /\ now \in 0 .. now /\ av - 0 + (tak + 0) <= cap + now
        BY <3>0
      <4>2. bucket'[c].tokens = av - 0 /\ bucket'[c].ts = now /\ taken'[c] = tak + 0
        BY <2>1, <3>2
      <4> QED BY <4>1, <4>2
    <3> QED BY <3>1, <3>2
  <2> QED BY <1>3, <2>1, <2>4 DEF RateBounded
<1>4. ASSUME NEW c \in Conns, BucketExpires(c)
      PROVE  RateBounded'
  <2>1. /\ now >= bucket[c].ts + IdleTTL /\ UNCHANGED <<taken, now>>
        /\ bucket' = [bucket EXCEPT ![c] = [tokens |-> Capacity, ts |-> now]]
    BY <1>4 DEF BucketExpires
  <2>2. /\ \A d \in Conns : d # c => bucket'[d] = bucket[d]
        /\ bucket'[c].tokens = Capacity /\ bucket'[c].ts = now
    BY <2>1 DEF GateTypes
  <2>3. Capacity + taken[c] <= Capacity + now
    BY <1>1, <2>1 DEF RateBounded
  <2> QED BY <1>1, <2>1, <2>2, <2>3 DEF RateBounded
<1>5. ASSUME NEW r \in Calls, CallStep(r) PROVE RateBounded'
  <2>1. now' = now
    BY <1>5 DEF CallStep, RequireMCPKey, Authorize, ListPermissionActionsByUserOrg, ResolveConnector,
         enforce, openGoogleSheetsConfig, ChargeRateLimit, GetFile, SignFileLink, downloadFile,
         DownloadRow, DownloadFile, Serve, Fail, KeepRest
  <2> QED BY <1>2, <1>3, <1>5, <2>1, CallStepTakes
<1>6. CASE Around
  BY <1>2, <1>6, AuthAround
<1>7. CASE Tick
  BY <1>2, <1>7 DEF Tick
<1> QED BY <1>0, <1>4, <1>5, <1>6, <1>7, GateCases

\* The invariant holds at the start.
LEMMA GateInit == Init => GateInd /\ RateBounded /\ \A r \in Calls : ToolsOK(r)
<1> SUFFICES ASSUME Init PROVE GateInd /\ RateBounded /\ \A r \in Calls : ToolsOK(r)
  OBVIOUS
<1>1. /\ InitGateway /\ drawn = Conns /\ stamped = <<>> /\ pend = [r \in Requests |-> Idle]
      /\ sweep = [s \in Sweeps |-> Asleep] /\ changes = 0 /\ told = {} /\ dup = FALSE /\ clobbered = FALSE
      /\ row \in [Conns -> {[type |-> t, config |-> cfg, status |-> "active"] :
                             t \in Types, cfg \in Configs}]
  BY DEF Init
<1>2. ConnTypes /\ ConnIds
  <2>1. /\ <<>> \in Seq(Conns) /\ <<>> \in Seq(Items) /\ Range(<<>>) = {} /\ IsInjective(<<>>)
    BY DEF Range, IsInjective
  <2>2. SweepOK(Asleep) /\ Asleep.at = "idle"
    <3> DEFINE E == <<>>
               A == {"idle", "next", "write", "notify"}
    <3>1. E \in Seq(Items) /\ "idle" \in A /\ "inactive" \in Statuses /\ {} \in SUBSET Conns
      BY <2>1 DEF Statuses
    <3>2. Asleep = [at |-> "idle", todo |-> E, status |-> "inactive", late |-> {}]
      BY DEF Asleep
    <3> HIDE DEF E
    <3>3. Asleep \in [at : A, todo : Seq(Items), status : Statuses, late : SUBSET Conns]
      BY <3>1, <3>2
    <3>4. Asleep.at = "idle"
      BY <3>2
    <3> QED BY <3>3, <3>4 DEF SweepOK, SweepRows
  <2>3. {[type |-> t, config |-> cfg, status |-> "active"] : t \in Types, cfg \in Configs} \subseteq Rows
    BY DEF Rows, Statuses
  <2>4. row \in [Conns -> Rows]
    BY <1>1, <2>3
  <2>5. \A r \in Requests : pend[r].op = "idle"
    BY <1>1 DEF Idle
  <2>6. ConnTypes
    <3>1. /\ \A s \in Sweeps : sweep[s] = Asleep
          /\ Asleep \in SweepRows /\ sweep \in [Sweeps -> SweepRows]
      BY <1>1, <2>2 DEF SweepOK
    <3>2. \A s \in Sweeps : SweepOK(sweep[s])
      BY <2>2, <3>1
    <3>3. \A r \in Requests : pend[r] \in {Idle}
      BY <1>1
    <3> QED BY <1>1, <2>1, <2>4, <3>1, <3>2, <3>3 DEF ConnTypes
  <2>7. ConnIds
    BY <1>1, <2>1, <2>5 DEF ConnIds, Present
  <2> QED BY <2>6, <2>7
<1>3. \A r \in Calls : call[r] = NoCall
  BY <1>1 DEF InitGateway
<1>4. NoCall \in CallRows /\ NoCall.at = "idle" /\ NoCall.key = None /\ None \notin Keys
  BY GatewayAssumption
     DEF NoCall, CallRows, CallStates, Nobody, Principals, NoRes, Absent, Rows, Statuses, None
<1>5. call \in [Calls -> CallRows] /\ links = {} /\ banned = {} /\ now = 0
  <2>1. call = [r \in Calls |-> NoCall] /\ links = {} /\ banned = {} /\ now = 0
    BY <1>1 DEF InitGateway
  <2> QED BY <2>1, <1>4
<1>6. /\ seen \in [Calls -> SeenRows] /\ lastOK = [k \in Keys |-> 0]
      /\ key \in [Keys -> KeyRows] /\ member \in [Keys -> {"none", "member", "owner"}]
      /\ grant \in [Keys -> Grants]
  BY <1>1 DEF InitGateway, SeenRows, NoSeen, KeyRows
<1>7. /\ bucket = [c \in Conns |-> [tokens |-> Capacity, ts |-> 0]] /\ taken = [c \in Conns |-> 0]
  BY <1>1 DEF InitGateway
<1>8. GateTypes
  BY <1>2, <1>5, <1>6, <1>7, GatewayAssumption DEF GateTypes
<1>9. LinkInd
  BY <1>3, <1>4, <1>5, <1>6 DEF LinkInd
<1>10. \A r \in Calls : CallOK(r) /\ ToolsOK(r)
  BY <1>3, <1>4 DEF CallOK, ToolsOK, Keyed, Resolved
<1>11. RateBounded
  BY <1>5, <1>7, GatewayAssumption DEF RateBounded
<1> QED BY <1>8, <1>9, <1>10, <1>11 DEF GateInd

\* The inductive invariant.
LEMMA GateInvariant == Spec => [](GateInd /\ RateBounded)
<1>1. GateInd /\ RateBounded /\ [Next]_vars => (GateInd /\ RateBounded)'
  <2> SUFFICES ASSUME GateInd, RateBounded, [Next]_vars PROVE (GateInd /\ RateBounded)'
    OBVIOUS
  <2>1. CASE Next
    BY <2>1, GateTypesStep, CallsStep, LinkIndStep, RateStep DEF GateInd
  <2>2. CASE UNCHANGED vars
    <3>1. /\ UNCHANGED <<connVars, authVars, call, links, bucket, now, taken, seen, lastOK>>
          /\ UNCHANGED <<key, member, grant, banned>> /\ UNCHANGED <<tables, changes>>
      BY <2>2 DEF vars, gateVars, authVars, connVars
    <3>2. ConnTypes' /\ ConnIds'
      BY <3>1, ConnTypesStep DEF GateInd, GateTypes
    <3>3. GateTypes'
      BY <3>1, <3>2 DEF GateInd, GateTypes
    <3>4. LinkInd' /\ RateBounded'
      BY <3>1 DEF GateInd, LinkInd, RateBounded
    <3>5. \A r \in Calls : CallOK(r)'
      BY <3>1 DEF GateInd, CallOK
    <3> QED BY <3>3, <3>4, <3>5 DEF GateInd
  <2> QED BY <2>1, <2>2
<1> QED BY GateInit, <1>1, PTL DEF Spec

\* A connector's upstream is asked no more often than its bucket allows.
THEOREM RateHolds == Spec => []RateBounded
BY GateInvariant, PTL

\* A link outlives the authority behind it by less than its lifetime.
THEOREM LinksHold == Spec => []LinksEnd
<1>1. GateInd => LinksEnd
  <2> SUFFICES ASSUME GateInd, NEW l \in links, VerifyFileLink(l)
               PROVE  now < lastOK[l.by] + LinkTTL
    BY DEF LinksEnd
  <2>1. l.by \in Keys /\ l.exp \in Int /\ LinkTTL \in Int /\ now \in Int /\ lastOK[l.by] \in Int
    BY GatewayAssumption DEF GateInd, GateTypes, LinkRows
  <2> QED BY <2>1 DEF GateInd, LinkInd, VerifyFileLink
<1> QED BY <1>1, GateInvariant, PTL

\* What NoStaleAuthority says but for the tool, whatever the stored actions.
KeyAndRowHeld ==
    \A r \in Calls :
        /\ call[r].key # None /\ call[r].at \in {"run", "read", "meta", "sign"} =>
              seen[r].key /\ OrgOf(call[r].conn) = KeyOrg(call[r].key)
        /\ call[r].at \in {"read", "sign", "body", "serve"} =>
              <<call[r].conn, call[r].res>> \in seen[r].res

\* The key of a call was live and the row it serves was in its organization at some
\* moment since the call began, whatever roles hold (RequireMCPKey, ResolveConnector).
THEOREM KeyAndRowLive == Spec => []KeyAndRowHeld
<1>1. GateInd => KeyAndRowHeld
  BY DEF GateInd, KeyAndRowHeld, CallOK, Resolved, Keyed, GateTypes, CallRows
<1> QED BY <1>1, GateInvariant, PTL

\* No call runs on authority it did not have since it began.
THEOREM AuthorityLive == PlainGrants => (Spec => []NoStaleAuthority)
<1> SUFFICES ASSUME PlainGrants PROVE Spec => []NoStaleAuthority
  OBVIOUS
<1> DEFINE T == \A r \in Calls : ToolsOK(r)
<1>1. GateInd /\ T /\ [Next]_vars => T'
  <2> SUFFICES ASSUME GateInd, T, [Next]_vars PROVE T'
    OBVIOUS
  <2>1. CASE Next
    BY <2>1, CallsStep DEF GateInd
  <2>2. CASE UNCHANGED vars
    BY <2>2 DEF vars, gateVars, ToolsOK
  <2> QED BY <2>1, <2>2
<1>2. GateInd /\ T => NoStaleAuthority
  BY DEF GateInd, NoStaleAuthority, CallOK, ToolsOK, Resolved, Keyed, GateTypes, CallRows
<1>3. Init => T
  BY GateInit
<1> HIDE DEF T
<1> QED BY <1>1, <1>2, <1>3, GateInvariant, PTL DEF Spec

-----------------------------------------------------------------------------
(* The access tokens of the Sheets client *)

\* What a call has opened lies between what was stored when it began and what
\* is stored now, and the source it got is one of the credential it opened.
ReaderOK(r) ==
    /\ reader[r].at \in {"idle", "begun", "opened", "got"}
    /\ reader[r].at # "idle" => reader[r].begun \in 1 .. cred
    /\ reader[r].at \in {"opened", "got"} => reader[r].opened \in reader[r].begun .. cred
    /\ reader[r].at = "got" => /\ reader[r].source \in 1 .. cred
                               /\ fingerprint(reader[r].source) = fingerprint(reader[r].opened)

TokenRows == [at : {"idle", "begun", "opened", "got"}, begun : Nat, opened : Nat, source : Nat]

TokenInd ==
    /\ cred \in 1 .. Len(Credentials)
    /\ cache \in [of : 0 .. cred]
    /\ reader \in [Readers -> TokenRows]
    /\ \A r \in Readers : ReaderOK(r)

\* A connector has a credential from the start.
LEMMA CredentialsDef == Len(Credentials) \in Nat /\ 1 <= Len(Credentials)
BY SheetToolsAssumption

\* The digest is of everything a credential consists of: equal fingerprints
\* are equal credentials (fingerprint).
LEMMA FingerprintFaithful ==
    ASSUME NEW v \in 1 .. Len(Credentials), NEW w \in 1 .. Len(Credentials),
           fingerprint(v) = fingerprint(w)
    PROVE  Credentials[v] = Credentials[w]
<1> DEFINE All == [variant : {"oauth", "service_account"}, id : Nat, secret : Nat]
<1>1. Credentials[v] \in All /\ Credentials[w] \in All
  <2>1. Credentials \in Seq(All)
    BY SheetToolsAssumption
  <2> HIDE DEF All
  <2> QED BY <2>1, ElementOfSeq
<1>2. /\ Credentials[v].variant = Credentials[w].variant
      /\ Credentials[v].id = Credentials[w].id
      /\ Credentials[v].secret = Credentials[w].secret
  BY DEF fingerprint
<1> QED BY <1>1, <1>2

\* What a call that a step leaves alone has read stays right when a later
\* credential is stored.
LEMMA ReaderKept ==
    ASSUME TokenInd, cred' \in Nat, cred <= cred', NEW r \in Readers, reader'[r] = reader[r]
    PROVE  ReaderOK(r)'
<1>1. cred \in Nat /\ ReaderOK(r) /\ reader[r] \in TokenRows
  BY CredentialsDef DEF TokenInd
<1> QED BY <1>1 DEF ReaderOK, fingerprint, TokenRows

\* Every step of a call keeps the invariant (Begin, OpenCredential, Get).
LEMMA ReaderStep ==
    ASSUME TokenInd, NEW r \in Readers,
           Begin(r) \/ OpenCredential(r) \/ Get(r) \/ EndCall(r)
    PROVE  TokenInd'
<1>1. /\ cred \in Nat /\ 1 <= cred /\ cred' = cred /\ Len(Credentials) \in Nat
      /\ cred <= Len(Credentials) /\ cache.of \in 0 .. cred /\ ReaderOK(r)
      /\ reader[r] \in TokenRows /\ reader \in [Readers -> TokenRows]
  BY CredentialsDef DEF TokenInd, Begin, OpenCredential, Get, EndCall
<1>2. SUFFICES /\ cache' \in [of : 0 .. cred]
               /\ \E t \in TokenRows : reader' = [reader EXCEPT ![r] = t]
               /\ ReaderOK(r)'
  <2>1. ASSUME NEW t \in TokenRows, reader' = [reader EXCEPT ![r] = t]
        PROVE  /\ reader' \in [Readers -> TokenRows]
               /\ \A q \in Readers \ {r} : reader'[q] = reader[q]
    BY <1>1, <2>1
  <2>2. ASSUME \A q \in Readers \ {r} : reader'[q] = reader[q]
        PROVE  \A q \in Readers \ {r} : ReaderOK(q)'
    BY <1>1, <2>2, ReaderKept
  <2> QED BY <1>1, <2>1, <2>2 DEF TokenInd
<1>3. CASE Begin(r)
  <2> DEFINE t == [NoReader EXCEPT !.at = "begun", !.begun = cred]
  <2>1. t \in TokenRows /\ reader' = [reader EXCEPT ![r] = t] /\ cache' = cache
    BY <1>1, <1>3 DEF Begin, NoReader, TokenRows
  <2>2. reader'[r].at = "begun" /\ reader'[r].begun = cred
    BY <1>1, <2>1 DEF NoReader
  <2>3. ReaderOK(r)'
    BY <1>1, <2>2 DEF ReaderOK
  <2> QED BY <2>1, <2>3 DEF TokenInd
<1>4. CASE OpenCredential(r)
  <2> DEFINE t == [reader[r] EXCEPT !.at = "opened", !.opened = cred]
  <2>1. t \in TokenRows /\ reader' = [reader EXCEPT ![r] = t] /\ cache' = cache
    BY <1>1, <1>4 DEF OpenCredential, TokenRows
  <2>2. reader'[r].at = "opened" /\ reader'[r].begun = reader[r].begun /\ reader'[r].opened = cred
    BY <1>1, <2>1 DEF TokenRows
  <2>3. reader[r].begun \in 1 .. cred
    BY <1>1, <1>4 DEF OpenCredential, ReaderOK
  <2>4. ReaderOK(r)'
    BY <1>1, <2>2, <2>3 DEF ReaderOK
  <2> QED BY <2>1, <2>4 DEF TokenInd
<1>5. CASE Get(r)
  <2> DEFINE v == reader[r].opened
             w == cache'.of
             t == [reader[r] EXCEPT !.at = "got", !.source = w]
  <2>0. /\ reader[r].at = "opened" /\ reader' = [reader EXCEPT ![r] = t]
        /\ \/ cache' = cache /\ cache.of # 0 /\ fingerprint(cache.of) = fingerprint(v)
           \/ cache' = [of |-> v]
    BY <1>1, <1>5 DEF Get, TokenRows
  <2>1. reader[r].begun \in 1 .. cred /\ v \in reader[r].begun .. cred
    BY <1>1, <2>0 DEF ReaderOK
  <2>2. cache' \in [of : 0 .. cred] /\ w \in 1 .. cred /\ fingerprint(w) = fingerprint(v)
    BY <1>1, <2>0, <2>1 DEF TokenInd, fingerprint
  <2>3. t \in TokenRows
    <3>1. w \in Nat /\ reader[r] \in TokenRows
      BY <1>1, <2>2
    <3> HIDE DEF w
    <3> QED BY <3>1 DEF TokenRows
  <2>4. /\ reader'[r].at = "got" /\ reader'[r].begun = reader[r].begun
        /\ reader'[r].opened = v /\ reader'[r].source = w
    BY <1>1, <2>0 DEF TokenRows
  <2>5. ReaderOK(r)'
    BY <1>1, <2>1, <2>2, <2>4 DEF ReaderOK, fingerprint
  <2> QED BY <2>0, <2>2, <2>3, <2>5
<1>6. CASE EndCall(r)
  <2>1. NoReader \in TokenRows /\ NoReader.at = "idle"
    BY DEF NoReader, TokenRows
  <2>2. reader' = [reader EXCEPT ![r] = NoReader] /\ cache' = cache
    BY <1>6 DEF EndCall
  <2>3. ReaderOK(r)'
    BY <1>1, <2>1, <2>2 DEF ReaderOK
  <2> QED BY <2>1, <2>2, <2>3 DEF TokenInd
<1> QED BY <1>3, <1>4, <1>5, <1>6

\* The tools, whichever of the three things they do.
SheetStep == ScanStep \/ readRange \/ TokenStep
SpecSheets == InitSheets /\ [][SheetStep]_sheetVars

\* The inductive invariant.
LEMMA TokenInvariant == SpecSheets => []TokenInd
<1>1. InitSheets => TokenInd
  <2> SUFFICES ASSUME InitSheets PROVE TokenInd
    OBVIOUS
  <2>1. cred = 1 /\ cache = [of |-> 0] /\ reader = [r \in Readers |-> NoReader]
    BY DEF InitSheets
  <2>2. NoReader \in TokenRows /\ NoReader.at = "idle"
    BY DEF NoReader, TokenRows
  <2>3. \A r \in Readers : ReaderOK(r)
    BY <2>1, <2>2 DEF ReaderOK
  <2> QED BY <2>1, <2>2, <2>3, CredentialsDef DEF TokenInd
<1>2. TokenInd /\ [SheetStep]_sheetVars => TokenInd'
  <2> SUFFICES ASSUME TokenInd, [SheetStep]_sheetVars PROVE TokenInd'
    OBVIOUS
  <2>1. CASE UNCHANGED tokenVars
    <3>1. cred' = cred /\ cache' = cache /\ reader' = reader
      BY <2>1 DEF tokenVars
    <3> QED BY <3>1 DEF TokenInd, ReaderOK, fingerprint
  <2>2. CASE Rotate
    <3>1. /\ cred \in Nat /\ cred' = cred + 1 /\ cred < Len(Credentials)
          /\ cache' = cache /\ reader' = reader
      BY <2>2, CredentialsDef DEF Rotate, TokenInd
    <3>2. \A r \in Readers : ReaderOK(r)'
      BY <3>1, ReaderKept
    <3>3. cred' \in 1 .. Len(Credentials) /\ cache' \in [of : 0 .. cred']
      BY <3>1, CredentialsDef DEF TokenInd
    <3> QED BY <3>1, <3>2, <3>3 DEF TokenInd
  <2>3. CASE Restart
    <3>1. cred' = cred /\ cache' = [of |-> 0] /\ reader' = [r \in Readers |-> NoReader]
      BY <2>3 DEF Restart
    <3>2. NoReader \in TokenRows /\ NoReader.at = "idle" /\ cred \in Nat
      BY CredentialsDef DEF NoReader, TokenRows, TokenInd
    <3>3. \A r \in Readers : ReaderOK(r)'
      BY <3>1, <3>2 DEF ReaderOK
    <3> QED BY <3>1, <3>2, <3>3 DEF TokenInd
  <2>4. CASE \E r \in Readers : Begin(r) \/ OpenCredential(r) \/ Get(r) \/ EndCall(r)
    BY <2>4, ReaderStep
  <2> QED BY <2>1, <2>2, <2>3, <2>4 DEF SheetStep, ScanStep, readRange, TokenStep, sheetVars
<1> QED BY <1>1, <1>2, PTL DEF SpecSheets

\* However many credentials a connector is given, however many calls use the
\* cache and whatever the order they reach it in, what a call authenticates
\* with was stored when it began or later (oauth.go: Get, fingerprint).
THEOREM RotationHolds == SpecSheets => []RotationTakesEffect
<1>1. TokenInd => RotationTakesEffect
  <2> SUFFICES ASSUME TokenInd, NEW r \in Readers, reader[r].at = "got"
               PROVE  \E v \in reader[r].begun .. cred : Credentials[v] = Credentials[reader[r].source]
    BY DEF RotationTakesEffect
  <2>1. /\ reader[r].begun \in 1 .. cred /\ reader[r].opened \in reader[r].begun .. cred
        /\ reader[r].source \in 1 .. cred /\ cred \in 1 .. Len(Credentials)
        /\ fingerprint(reader[r].source) = fingerprint(reader[r].opened)
    BY DEF TokenInd, ReaderOK
  <2>2. reader[r].opened \in 1 .. Len(Credentials) /\ reader[r].source \in 1 .. Len(Credentials)
    BY <2>1, CredentialsDef
  <2>3. Credentials[reader[r].opened] = Credentials[reader[r].source]
    BY <2>1, <2>2, FingerprintFaithful
  <2> QED BY <2>1, <2>3
<1> QED BY <1>1, TokenInvariant, PTL

-----------------------------------------------------------------------------
(* Numbers, and functions defined by a step *)

\* A set of numbers that has a member has a least one.
LEMMA LeastNat ==
    ASSUME NEW T, T \subseteq Nat, T # {}
    PROVE  \E m \in T : \A n \in T : m <= n
<1>1. IsWellFoundedOn(OpToRel(<, Nat), Nat)
  BY NatLessThanWellFounded
<1>2. PICK x \in T : \A y \in T : ~ (<<y, x>> \in OpToRel(<, Nat))
  BY <1>1, WFMin
<1>3. ASSUME NEW n \in T PROVE x <= n
  <2>1. ~ (<<n, x>> \in {ss \in Nat \X Nat : ss[1] < ss[2]})
    BY <1>2 DEF OpToRel
  <2>2. x \in Nat /\ n \in Nat
    OBVIOUS
  <2> QED BY <2>1, <2>2
<1> QED BY <1>3

\* Induction, with a set for the formula: the least number outside is not 0
\* and does not follow one inside.
LEMMA NatSet ==
    ASSUME NEW S, 0 \in S, \A n \in Nat : n \in S => n + 1 \in S
    PROVE  Nat \subseteq S
<1> SUFFICES ASSUME Nat \ S # {} PROVE FALSE
  OBVIOUS
<1>1. PICK m \in Nat \ S : \A n \in Nat \ S : m <= n
  <2>1. Nat \ S \subseteq Nat
    OBVIOUS
  <2> QED BY <2>1, LeastNat
<1>2. m \in Nat /\ m # 0 /\ m \notin S
  OBVIOUS
<1>3. m - 1 \in Nat /\ m - 1 \in S
  BY <1>1, <1>2
<1>4. m - 1 + 1 \in S
  BY <1>3
<1> QED BY <1>2, <1>4

\* The same up to a bound.
LEMMA UpTo ==
    ASSUME NEW N \in Nat, NEW S, 0 \in S, \A n \in 1 .. N : n - 1 \in S => n \in S
    PROVE  \A n \in 0 .. N : n \in S
<1> DEFINE T == {n \in Nat : n <= N => n \in S}
<1>1. 0 \in T
  OBVIOUS
<1>2. ASSUME NEW n \in Nat, n \in T PROVE n + 1 \in T
  <2>1. CASE n + 1 <= N
    <3>1. n + 1 \in 1 .. N /\ n + 1 - 1 = n /\ n \in S
      BY <1>2, <2>1
    <3> QED BY <3>1
  <2>2. CASE ~ (n + 1 <= N)
    BY <2>2
  <2> QED BY <2>1, <2>2
<1>3. Nat \subseteq T
  <2> HIDE DEF T
  <2> QED BY <1>1, <1>2, NatSet
<1> QED BY <1>3

\* A set of numbers below a bound that has a member has a greatest one.
LEMMA GreatestNat ==
    ASSUME NEW b \in Nat, NEW T, T \subseteq 0 .. b, T # {}
    PROVE  \E m \in T : \A n \in T : n <= m
<1> DEFINE U == {k \in Nat : \A n \in T : n <= k}
<1>1. b \in U
  OBVIOUS
<1>2. PICK k \in U : \A n \in U : k <= n
  BY <1>1, LeastNat
<1>3. k \in T
  <2> SUFFICES ASSUME k \notin T PROVE FALSE
    OBVIOUS
  <2>1. \A n \in T : n \in Nat /\ n <= k /\ n # k
    OBVIOUS
  <2>2. k \in Nat /\ k # 0
    <3>1. k \in Nat
      BY <1>2
    <3>2. PICK n \in T : TRUE
      OBVIOUS
    <3> QED BY <2>1, <3>1, <3>2
  <2>3. k - 1 \in U
    BY <2>1, <2>2
  <2> QED BY <2>3, <2>2, <1>2
<1> QED BY <1>3

\* f is defined by its value at 0 and by a step.
UnfoldsTo(f, V, G, v, N) ==
    /\ f \in [0 .. N -> V]
    /\ \A n \in 0 .. N : f[n] = IF n = 0 THEN v ELSE G[<<n, f[n - 1]>>]

\* A function over 0 .. N is defined by its value at 0 and by a step.
LEMMA Unfolds ==
    ASSUME NEW V, NEW G, NEW v, NEW N, G \in [Nat \X V -> V], v \in V, N \in Nat
    PROVE  \E f : UnfoldsTo(f, V, G, v, N)
<1> DEFINE Good(k, f) == \A n \in 0 .. k : f[n] = IF n = 0 THEN v ELSE G[<<n, f[n - 1]>>]
           S == {k \in Nat : \E f \in [0 .. k -> V] : Good(k, f)}
<1>1. 0 \in S
  <2>1. [n \in 0 .. 0 |-> v] \in [0 .. 0 -> V] /\ Good(0, [n \in 0 .. 0 |-> v])
    OBVIOUS
  <2> QED BY <2>1
<1>2. ASSUME NEW k \in Nat, k \in S PROVE k + 1 \in S
  <2>1. PICK f \in [0 .. k -> V] : Good(k, f)
    BY <1>2
  <2> DEFINE g == [n \in 0 .. k + 1 |-> IF n = k + 1 THEN G[<<k + 1, f[k]>>] ELSE f[n]]
  <2>2. G[<<k + 1, f[k]>>] \in V
    OBVIOUS
  <2>3. g \in [0 .. k + 1 -> V]
    BY <2>2
  <2>4. ASSUME NEW n \in 0 .. k + 1 PROVE g[n] = IF n = 0 THEN v ELSE G[<<n, g[n - 1]>>]
    <3>1. CASE n = k + 1
      <4>1. g[n] = G[<<k + 1, f[k]>>] /\ g[n - 1] = f[k] /\ n # 0
        BY <3>1
      <4> QED BY <4>1, <3>1
    <3>2. CASE n # k + 1
      <4>1. n \in 0 .. k /\ g[n] = f[n]
        BY <3>2
      <4>2. n # 0 => n - 1 \in 0 .. k /\ g[n - 1] = f[n - 1]
        BY <4>1
      <4> HIDE DEF g
      <4> QED BY <4>1, <4>2, <2>1
    <3> QED BY <3>1, <3>2
  <2> HIDE DEF g
  <2>5. Good(k + 1, g)
    BY <2>4
  <2> QED BY <2>3, <2>5
<1>3. N \in S
  <2> HIDE DEF S
  <2> QED BY <1>1, <1>2, NatSet
<1> QED BY <1>3 DEF UnfoldsTo

-----------------------------------------------------------------------------
(* Scans *)

\* MatchesUpTo satisfies its own equation, row by row.
LEMMA FoundDef ==
    ASSUME NEW w, sheet \in Seq(Cells)
    PROVE  /\ MatchesUpTo(w) \in [0 .. Len(sheet) -> Seq(Nat)]
           /\ MatchesUpTo(w)[0] = <<>>
           /\ \A n \in 1 .. Len(sheet) :
                 MatchesUpTo(w)[n] = IF sheet[n] \in w THEN Append(MatchesUpTo(w)[n - 1], n)
                                     ELSE MatchesUpTo(w)[n - 1]
<1> DEFINE V == Seq(Nat)
           G == [x \in Nat \X Seq(Nat) |-> IF sheet[x[1]] \in w THEN Append(x[2], x[1]) ELSE x[2]]
           N == Len(sheet)
           Eq(f) == f = [n \in 0 .. N |->
                            IF n = 0 THEN <<>>
                            ELSE IF sheet[n] \in w THEN Append(f[n - 1], n) ELSE f[n - 1]]
<1>1. G \in [Nat \X V -> V] /\ N \in Nat /\ <<>> \in V
  OBVIOUS
<1>2. \E f \in [0 .. N -> V] :
         \A n \in 0 .. N : f[n] = IF n = 0 THEN <<>> ELSE G[<<n, f[n - 1]>>]
  <2> DEFINE e == <<>>
  <2>1. e \in V
    BY <1>1
  <2> HIDE DEF G, N, V, e
  <2>2. \E f : UnfoldsTo(f, V, G, e, N)
    BY <1>1, <2>1, Unfolds
  <2> QED BY <2>2 DEF e, UnfoldsTo
<1>3. PICK f \in [0 .. N -> V] :
         \A n \in 0 .. N : f[n] = IF n = 0 THEN <<>> ELSE G[<<n, f[n - 1]>>]
  BY <1>2
<1>4. ASSUME NEW n \in 0 .. N, n # 0
      PROVE  G[<<n, f[n - 1]>>] = IF sheet[n] \in w THEN Append(f[n - 1], n) ELSE f[n - 1]
  <2> HIDE DEF N
  <2>1. f[n - 1] \in Seq(Nat) /\ n \in Nat
    BY <1>1, <1>3, <1>4
  <2> QED BY <2>1
<1>5. Eq(f)
  <2> HIDE DEF G, N
  <2> QED BY <1>3, <1>4
<1>6. \E g : Eq(g)
  BY <1>5
<1>7. MatchesUpTo(w) = CHOOSE g : Eq(g)
  BY DEF MatchesUpTo
<1>8. Eq(MatchesUpTo(w))
  <2> HIDE DEF Eq
  <2> QED BY <1>6, <1>7
<1>9. \A n \in 0 .. N : MatchesUpTo(w)[n] =
         IF n = 0 THEN <<>>
         ELSE IF sheet[n] \in w THEN Append(MatchesUpTo(w)[n - 1], n) ELSE MatchesUpTo(w)[n - 1]
  <2> DEFINE m == MatchesUpTo(w)
  <2>1. m = [n \in 0 .. N |->
                IF n = 0 THEN <<>>
                ELSE IF sheet[n] \in w THEN Append(m[n - 1], n) ELSE m[n - 1]]
    BY <1>8
  <2> HIDE DEF m, N
  <2>2. \A n \in 0 .. N : m[n] =
                IF n = 0 THEN <<>>
                ELSE IF sheet[n] \in w THEN Append(m[n - 1], n) ELSE m[n - 1]
    BY <2>1
  <2> QED BY <2>2 DEF m
<1> HIDE DEF Eq, G, N, V
<1>10. MatchesUpTo(w)[0] = <<>>
  <2>1. 0 \in 0 .. N
    BY <1>1
  <2> QED BY <1>9, <2>1
<1>11. \A n \in 1 .. N : MatchesUpTo(w)[n] =
           IF sheet[n] \in w THEN Append(MatchesUpTo(w)[n - 1], n) ELSE MatchesUpTo(w)[n - 1]
  <2>1. \A n \in 1 .. N : n \in 0 .. N /\ n # 0
    BY <1>1
  <2> QED BY <1>9, <2>1
<1>12. \A n \in 0 .. N : MatchesUpTo(w)[n] \in V
  <2> DEFINE T == {n \in 0 .. N : MatchesUpTo(w)[n] \in V}
  <2>1. 0 \in T
    <3>1. 0 \in 0 .. N
      BY <1>1
    <3> QED BY <1>10, <1>1, <3>1
  <2>2. ASSUME NEW n \in 1 .. N, n - 1 \in T PROVE n \in T
    <3>1. MatchesUpTo(w)[n - 1] \in V /\ n \in Nat /\ n \in 0 .. N
      BY <2>2, <1>1
    <3>2. Append(MatchesUpTo(w)[n - 1], n) \in V
      BY <3>1 DEF V
    <3> QED BY <3>1, <3>2, <1>11
  <2>3. \A n \in 0 .. N : n \in T
    <3> HIDE DEF T
    <3> QED BY <2>1, <2>2, <1>1, UpTo
  <2> QED BY <2>3
<1>13. MatchesUpTo(w) = [n \in 0 .. N |-> MatchesUpTo(w)[n]]
  <2> DEFINE m == MatchesUpTo(w)
  <2>1. m = [n \in 0 .. N |->
                IF n = 0 THEN <<>>
                ELSE IF sheet[n] \in w THEN Append(m[n - 1], n) ELSE m[n - 1]]
    BY <1>8 DEF Eq
  <2> HIDE DEF m
  <2>2. m = [n \in 0 .. N |-> m[n]]
    BY <2>1
  <2> QED BY <2>2 DEF m
<1>14. MatchesUpTo(w) \in [0 .. N -> V]
  BY <1>12, <1>13
<1> QED BY <1>10, <1>11, <1>14 DEF N, V

\* What a page leaves retained is the last of a sequence of buffers, one for
\* each row of the page.
LEMMA RetainDef ==
    ASSUME NEW q, NEW page, page \in Seq(Cells), q.row \in Nat \ {0}, q.retained \in Seq(Nat)
    PROVE  \E k :
              /\ k \in [0 .. Len(page) -> Seq(Nat)] /\ k[0] = q.retained
              /\ \A n \in 1 .. Len(page) :
                    k[n] = IF page[n] \in q.wanted /\ Len(k[n - 1]) < retainCap(q)
                           THEN Append(k[n - 1], q.row + n - 1) ELSE k[n - 1]
              /\ Retain(q, page) = k[Len(page)]
<1> DEFINE V == Seq(Nat)
           N == Len(page)
           v == q.retained
           at == q.row
           Takes(n, s) == page[n] \in q.wanted /\ Len(s) < retainCap(q)
           G == [x \in Nat \X V |-> IF Takes(x[1], x[2]) THEN Append(x[2], at + x[1] - 1) ELSE x[2]]
           Eq(f) == f = [n \in 0 .. N |->
                            IF n = 0 THEN v
                            ELSE IF page[n] \in q.wanted /\ Len(f[n - 1]) < retainCap(q)
                                 THEN Append(f[n - 1], at + n - 1) ELSE f[n - 1]]
           k == CHOOSE f : Eq(f)
<1>1. G \in [Nat \X V -> V] /\ N \in Nat /\ v \in V /\ at \in Nat \ {0}
  <2>1. at \in Nat \ {0} /\ N \in Nat /\ v \in V
    OBVIOUS
  <2> HIDE DEF at, N, v, Takes
  <2>2. \A n \in Nat, s \in V : Append(s, at + n - 1) \in V
    BY <2>1
  <2> QED BY <2>1, <2>2
<1> HIDE DEF Takes
<1>2. PICK f : UnfoldsTo(f, V, G, v, N)
  <2> HIDE DEF G, N, V, v
  <2> QED BY <1>1, Unfolds
<1>3. ASSUME NEW n \in 0 .. N, n # 0
      PROVE  G[<<n, f[n - 1]>>] = IF Takes(n, f[n - 1]) THEN Append(f[n - 1], at + n - 1) ELSE f[n - 1]
  <2> HIDE DEF N, V, v, at
  <2>1. f[n - 1] \in V /\ n \in Nat
    BY <1>1, <1>2, <1>3 DEF UnfoldsTo
  <2> QED BY <2>1
<1>4. \E g : Eq(g)
  <2>1. f = [n \in 0 .. N |->
                IF n = 0 THEN v
                ELSE IF Takes(n, f[n - 1]) THEN Append(f[n - 1], at + n - 1) ELSE f[n - 1]]
    <3> HIDE DEF G, N, V, v, at
    <3> QED BY <1>2, <1>3 DEF UnfoldsTo
  <2>2. Eq(f)
    BY <2>1 DEF Takes
  <2> QED BY <2>2
<1>5. Retain(q, page) = k[N]
  BY DEF Retain
<1>6. Eq(k)
  <2> HIDE DEF Eq
  <2> QED BY <1>4
<1>7. k = [n \in 0 .. N |->
              IF n = 0 THEN v
              ELSE IF Takes(n, k[n - 1]) THEN Append(k[n - 1], at + n - 1) ELSE k[n - 1]]
  BY <1>6 DEF Takes
<1> HIDE DEF k, Eq, G, N, V, v, at
<1>8. k = [n \in 0 .. N |-> k[n]] /\ k[0] = v
  BY <1>1, <1>7
<1>9. \A n \in 1 .. N : k[n] = IF Takes(n, k[n - 1]) THEN Append(k[n - 1], at + n - 1) ELSE k[n - 1]
  <2> SUFFICES ASSUME NEW n \in 1 .. N
               PROVE  k[n] = IF Takes(n, k[n - 1]) THEN Append(k[n - 1], at + n - 1) ELSE k[n - 1]
    OBVIOUS
  <2>1. n \in 0 .. N /\ n # 0
    BY <1>1
  <2> QED BY <2>1, <1>7
<1>10. \A n \in 0 .. N : k[n] \in V
  <2> DEFINE T == {n \in 0 .. N : k[n] \in V}
  <2>1. 0 \in T
    BY <1>8, <1>1
  <2>2. ASSUME NEW n \in 1 .. N, n - 1 \in T PROVE n \in T
    <3>1. k[n - 1] \in V /\ n \in Nat /\ n \in 0 .. N /\ at + n - 1 \in Nat
      BY <2>2, <1>1
    <3>2. Append(k[n - 1], at + n - 1) \in V
      BY <3>1 DEF V
    <3> QED BY <3>1, <3>2, <1>9
  <2>3. \A n \in 0 .. N : n \in T
    <3> HIDE DEF T
    <3> QED BY <2>1, <2>2, <1>1, UpTo
  <2> QED BY <2>3
<1>11. k \in [0 .. N -> V]
  BY <1>8, <1>10
<1> QED BY <1>5, <1>8, <1>9, <1>11 DEF N, V, v, at, Takes

\* s is the beginning of t.
Begins(s, t) == Len(s) <= Len(t) /\ \A i \in 1 .. Len(s) : s[i] = t[i]

\* The beginning of a beginning.
LEMMA BeginsMore ==
    ASSUME NEW a, NEW b, NEW c, a \in Seq(Nat), b \in Seq(Nat), c \in Seq(Nat),
           Begins(a, b), Begins(b, c)
    PROVE  Begins(a, c)
<1>1. Len(a) \in Nat /\ Len(b) \in Nat /\ Len(c) \in Nat
  OBVIOUS
<1>2. Len(a) <= Len(b) /\ Len(b) <= Len(c) /\ Len(a) <= Len(c)
  BY <1>1 DEF Begins
<1>3. ASSUME NEW i \in 1 .. Len(a) PROVE a[i] = c[i]
  <2>1. i \in 1 .. Len(b)
    BY <1>1, <1>2
  <2> QED BY <2>1 DEF Begins
<1> QED BY <1>2, <1>3 DEF Begins

\* The matches of fewer rows begin those of more.
LEMMA FoundGrows ==
    ASSUME NEW w, NEW m, NEW n, sheet \in Seq(Cells), m \in 0 .. n, n \in 0 .. Len(sheet)
    PROVE  Begins(MatchesUpTo(w)[m], MatchesUpTo(w)[n])
<1> DEFINE M == MatchesUpTo(w)
           N == Len(sheet)
           T == {i \in 0 .. N : m <= i => Begins(M[m], M[i])}
<1>1. N \in Nat /\ m \in Nat /\ n \in Nat /\ m <= n
  OBVIOUS
<1>2. \A i \in 0 .. N : M[i] \in Seq(Nat)
  BY FoundDef
<1>3. ASSUME NEW i \in 1 .. N PROVE Begins(M[i - 1], M[i])
  <2>1. M[i] = IF sheet[i] \in w THEN Append(M[i - 1], i) ELSE M[i - 1]
    BY FoundDef
  <2>2. M[i - 1] \in Seq(Nat) /\ i \in Nat
    BY <1>1, <1>2
  <2> HIDE DEF M, N
  <2> QED BY <2>1, <2>2 DEF Begins
<1> HIDE DEF M, N
<1>4. 0 \in T
  <2>1. m <= 0 => m = 0
    BY <1>1
  <2>2. 0 \in 0 .. N /\ M[0] \in Seq(Nat)
    BY <1>1, <1>2
  <2> QED BY <2>1, <2>2 DEF Begins
<1>5. ASSUME NEW i \in 1 .. N, i - 1 \in T PROVE i \in T
  <2>1. i \in 0 .. N /\ i \in Nat /\ M[i] \in Seq(Nat) /\ M[i - 1] \in Seq(Nat)
    BY <1>1, <1>2
  <2> SUFFICES ASSUME m <= i PROVE Begins(M[m], M[i])
    BY <2>1
  <2>2. CASE m = i
    BY <2>1, <2>2 DEF Begins
  <2>3. CASE m # i
    <3>0. m <= i - 1
      BY <1>1, <2>1, <2>3
    <3>1. Begins(M[m], M[i - 1])
      BY <1>5, <3>0
    <3>2. Begins(M[i - 1], M[i])
      BY <1>3
    <3>3. M[m] \in Seq(Nat)
      BY <1>1, <1>2, <2>1
    <3> QED BY <3>1, <3>2, <3>3, <2>1, BeginsMore
  <2> QED BY <2>2, <2>3
<1>6. \A i \in 0 .. N : i \in T
  <2> HIDE DEF T
  <2> QED BY <1>4, <1>5, <1>1, UpTo
<1>7. n \in T
  BY <1>6 DEF N
<1> QED BY <1>7, <1>1 DEF M

\* s is the list m of matches, or as much of it as there is room for.
Gathered(s, m, cap, at, last) ==
    /\ s \in Seq(Nat) /\ Len(s) <= cap /\ Begins(s, m)
    /\ Len(s) < cap => s = m
    /\ Len(s) = cap => s[Len(s)] \in at .. last

\* m collects the matching rows of a page, row by row.
Collects(m, N, page, w, at) ==
    /\ m \in [0 .. N -> Seq(Nat)]
    /\ \A n \in 1 .. N : m[n] = IF page[n] \in w THEN Append(m[n - 1], at + n - 1) ELSE m[n - 1]

\* k collects them while there is room.
CollectsUpTo(k, N, page, w, at, cap) ==
    /\ k \in [0 .. N -> Seq(Nat)]
    /\ \A n \in 1 .. N : k[n] = IF page[n] \in w /\ Len(k[n - 1]) < cap
                                THEN Append(k[n - 1], at + n - 1) ELSE k[n - 1]

\* A matching row keeps the buffer what it should be, full or not.
LEMMA OneMore ==
    ASSUME NEW a, NEW ma, NEW x, NEW cap, NEW at, ma \in Seq(Nat), x \in Nat, cap \in Nat,
           at \in Nat, at <= x, Gathered(a, ma, cap, at, x - 1)
    PROVE  Gathered(IF Len(a) < cap THEN Append(a, x) ELSE a, Append(ma, x), cap, at, x)
<1> DEFINE b == IF Len(a) < cap THEN Append(a, x) ELSE a
           mb == Append(ma, x)
<1>1. mb \in Seq(Nat) /\ Len(mb) = Len(ma) + 1 /\ \A i \in 1 .. Len(ma) : mb[i] = ma[i]
  OBVIOUS
<1>2. a \in Seq(Nat) /\ Len(a) <= cap /\ Begins(a, ma) /\ Len(a) \in Nat
  BY DEF Gathered
<1>3. CASE Len(a) < cap
  <2>1. a = ma /\ b = mb /\ Len(b) = Len(a) + 1 /\ b[Len(b)] = x
    BY <1>2, <1>3 DEF Gathered
  <2> HIDE DEF b, mb
  <2> QED BY <2>1, <1>1, <1>2, <1>3 DEF Begins, Gathered, b, mb
<1>4. CASE Len(a) = cap
  <2>1. b = a
    BY <1>4
  <2>2. Begins(a, mb)
    BY <1>1, <1>2 DEF Begins
  <2>3. a[Len(a)] \in at .. x
    BY <1>4 DEF Gathered
  <2> HIDE DEF b, mb
  <2>4. Gathered(b, mb, cap, at, x)
    BY <2>1, <2>2, <2>3, <1>2, <1>4 DEF Gathered
  <2> QED BY <2>4 DEF b, mb
<1> QED BY <1>2, <1>3, <1>4

\* A buffer that starts as the list of matches, and takes those of the page
\* while there is room, ends as the list or as its beginning.
LEMMA Gathers ==
    ASSUME NEW page, NEW w, NEW at, NEW cap, NEW N, NEW k, NEW m,
           at \in Nat \ {0}, cap \in Nat, N \in Nat, k[0] = m[0], Len(k[0]) < cap,
           CollectsUpTo(k, N, page, w, at, cap), Collects(m, N, page, w, at)
    PROVE  Gathered(k[N], m[N], cap, at, at + N - 1)
<1> DEFINE T == {n \in 0 .. N : Gathered(k[n], m[n], cap, at, at + n - 1)}
<1>1. 0 \in T
  <2>1. 0 \in 0 .. N /\ k[0] \in Seq(Nat) /\ Len(k[0]) < cap /\ k[0] = m[0]
    BY DEF CollectsUpTo
  <2> QED BY <2>1 DEF Begins, Gathered
<1>2. ASSUME NEW n \in 1 .. N, n - 1 \in T PROVE n \in T
  <2> DEFINE a == k[n - 1]
             ma == m[n - 1]
             x == at + n - 1
  <2>1. n \in Nat \ {0} /\ n \in 0 .. N /\ n - 1 \in 0 .. N
    OBVIOUS
  <2>2. a \in Seq(Nat) /\ ma \in Seq(Nat)
    BY <2>1 DEF Collects, CollectsUpTo
  <2>3. x \in Nat /\ at \in Nat /\ at <= x /\ x - 1 = at + (n - 1) - 1
    BY <2>1
  <2>4. Gathered(a, ma, cap, at, x - 1)
    BY <1>2, <2>3
  <2>5. k[n] = IF page[n] \in w /\ Len(a) < cap THEN Append(a, x) ELSE a
    BY <2>1 DEF CollectsUpTo
  <2>6. m[n] = IF page[n] \in w THEN Append(ma, x) ELSE ma
    BY <2>1 DEF Collects
  <2> HIDE DEF a, ma, x
  <2>7. CASE page[n] \in w
    <3>1. k[n] = IF Len(a) < cap THEN Append(a, x) ELSE a
      BY <2>5, <2>7
    <3>2. m[n] = Append(ma, x)
      BY <2>6, <2>7
    <3>3. Gathered(IF Len(a) < cap THEN Append(a, x) ELSE a, Append(ma, x), cap, at, x)
      BY <2>2, <2>3, <2>4, OneMore
    <3>4. Gathered(k[n], m[n], cap, at, x)
      BY <3>1, <3>2, <3>3
    <3> QED BY <3>4, <2>1 DEF x
  <2>8. CASE page[n] \notin w
    <3>1. k[n] = a /\ m[n] = ma
      BY <2>5, <2>6, <2>8
    <3>2. Gathered(a, ma, cap, at, x)
      BY <2>2, <2>3, <2>4 DEF Gathered
    <3> QED BY <3>1, <3>2, <2>1 DEF x
  <2> QED BY <2>7, <2>8
<1>3. \A n \in 0 .. N : n \in T
  <2> HIDE DEF T
  <2> QED BY <1>1, <1>2, UpTo
<1>4. N \in T
  <2> HIDE DEF T
  <2> QED BY <1>3
<1> QED BY <1>4

\* The same of a page of the sheet.
LEMMA RetainGathers ==
    ASSUME NEW q, NEW page, sheet \in Seq(Cells), page \in Seq(Cells),
           q.row \in Nat \ {0}, retainCap(q) \in Nat,
           q.row - 1 + Len(page) <= Len(sheet),
           \A n \in 1 .. Len(page) : page[n] = sheet[q.row + n - 1],
           q.retained = MatchesUpTo(q.wanted)[q.row - 1], Len(q.retained) < retainCap(q)
    PROVE  Gathered(Retain(q, page), MatchesUpTo(q.wanted)[q.row - 1 + Len(page)],
                    retainCap(q), q.row, q.row + Len(page) - 1)
<1> DEFINE M == MatchesUpTo(q.wanted)
           N == Len(page)
           S == Len(sheet)
           at == q.row
           w == q.wanted
           cap == retainCap(q)
           m == [n \in 0 .. N |-> M[at - 1 + n]]
<1>1. /\ at \in Nat \ {0} /\ N \in Nat /\ cap \in Nat /\ S \in Nat /\ at - 1 + N <= S
  OBVIOUS
<1>2. M \in [0 .. S -> Seq(Nat)]
  BY FoundDef
<1>3. \A n \in 1 .. S : M[n] = IF sheet[n] \in w THEN Append(M[n - 1], n) ELSE M[n - 1]
  BY FoundDef
<1>4. q.retained = M[at - 1] /\ Len(q.retained) < cap
  OBVIOUS
<1>5. q.retained \in Seq(Nat)
  <2> HIDE DEF M, S, at
  <2> QED BY <1>1, <1>2, <1>4
<1>6. PICK k : CollectsUpTo(k, N, page, w, at, cap) /\ k[0] = q.retained /\ Retain(q, page) = k[N]
  BY <1>5, RetainDef DEF CollectsUpTo
<1>7. \A n \in 1 .. N : page[n] = sheet[at + n - 1]
  OBVIOUS
<1> HIDE DEF M, N, S, at, w, cap
<1>8. k[0] = m[0] /\ Len(k[0]) < cap
  <2>1. at - 1 + 0 = at - 1 /\ 0 \in 0 .. N
    BY <1>1
  <2> QED BY <2>1, <1>4, <1>6
<1>9. ASSUME NEW n \in 0 .. N PROVE M[at - 1 + n] \in Seq(Nat)
  <2>1. at - 1 + n \in 0 .. S
    BY <1>1
  <2> QED BY <2>1, <1>2
<1>10. ASSUME NEW n \in 1 .. N
       PROVE  m[n] = IF page[n] \in w THEN Append(m[n - 1], at + n - 1) ELSE m[n - 1]
  <2> DEFINE i == at + n - 1
  <2>1. /\ n \in 0 .. N /\ n - 1 \in 0 .. N /\ i \in 1 .. S
        /\ at - 1 + n = i /\ at - 1 + (n - 1) = i - 1
    BY <1>1
  <2>2. page[n] = sheet[i]
    BY <1>7
  <2> HIDE DEF i
  <2>3. m[n] = M[i] /\ m[n - 1] = M[i - 1]
    BY <2>1
  <2> HIDE DEF m
  <2>4. M[i] = IF sheet[i] \in w THEN Append(M[i - 1], i) ELSE M[i - 1]
    BY <2>1, <1>3
  <2>5. m[n] = IF page[n] \in w THEN Append(m[n - 1], i) ELSE m[n - 1]
    BY <2>2, <2>3, <2>4
  <2> QED BY <2>5 DEF i
<1>11. Collects(m, N, page, w, at)
  BY <1>9, <1>10 DEF Collects
<1>12. m[N] = M[at - 1 + N]
  BY <1>1
<1> HIDE DEF m
<1>13. Gathered(k[N], m[N], cap, at, at + N - 1)
  BY <1>1, <1>6, <1>8, <1>11, Gathers
<1>14. Gathered(Retain(q, page), M[at - 1 + N], cap, at, at + N - 1)
  BY <1>6, <1>12, <1>13
<1> QED BY <1>14 DEF M, N, at, w, cap

\* A page of rows: it is short unless its last row is not blank.
PageOf(page, from, to) ==
    LET last == from - 1 + Len(page)
    IN /\ page \in Seq(Cells) /\ last <= Len(sheet) /\ last <= to
       /\ \A n \in 1 .. Len(page) : page[n] = sheet[from + n - 1]
       /\ Len(page) > 0 => sheet[last] # Blank
       /\ \A i \in last + 1 .. Least(to, Len(sheet)) : sheet[i] = Blank

\* What Google's answer to a range of rows is.
LEMMA PageOfRows ==
    ASSUME NEW from, NEW to, sheet \in Seq(Cells), from \in Nat \ {0}, to \in Nat,
           from - 1 <= Len(sheet), from <= to
    PROVE  PageOf(Values(sheet, from, to), from, to)
<1> DEFINE b == Least(to, Len(sheet))
           full == {i \in from .. b : sheet[i] # Blank}
           page == Values(sheet, from, to)
<1>1. b \in Nat /\ b <= to /\ b <= Len(sheet) /\ Len(sheet) \in Nat
  BY DEF Least
<1>2. CASE full = {}
  <2>1. page = <<>>
    BY <1>2 DEF Values
  <2>2. \A i \in from - 1 + 0 + 1 .. b : sheet[i] = Blank
    BY <1>2, <1>1
  <2>3. Len(page) = 0 /\ page \in Seq(Cells)
    BY <2>1
  <2> HIDE DEF page
  <2> QED BY <2>3, <2>2, <1>1 DEF page, PageOf
<1>3. CASE full # {}
  <2> DEFINE m == CHOOSE i \in full : \A j \in full : j <= i
  <2>1. full \subseteq 0 .. b
    BY <1>1
  <2>2. \E i \in full : \A j \in full : j <= i
    BY <2>1, <1>1, <1>3, GreatestNat
  <2>3. m \in full /\ \A j \in full : j <= m
    BY <2>2
  <2>4. page = SubSeq(sheet, from, m)
    BY <1>3 DEF Values
  <2> HIDE DEF m
  <2>5. m \in from .. b /\ sheet[m] # Blank
    BY <2>3
  <2>6. /\ page \in Seq(Cells) /\ Len(page) = m - from + 1
        /\ \A n \in 1 .. Len(page) : page[n] = sheet[from + n - 1]
    BY <2>4, <2>5, <1>1
  <2>7. from - 1 + Len(page) = m
    BY <2>6, <2>5, <1>1
  <2>8. \A i \in m + 1 .. b : sheet[i] = Blank
    BY <2>3, <2>5, <1>1
  <2> HIDE DEF page
  <2> QED BY <2>5, <2>6, <2>7, <2>8, <1>1 DEF page, PageOf
<1> QED BY <1>2, <1>3

\* The next multiple.
LEMMA NextMultiple ==
    ASSUME NEW n, NEW b, n \in Nat, b \in Nat \ {0}, n % b = 0
    PROVE  (n + b) % b = 0
<1>1. n = b * (n \div b) /\ n \div b \in Int
  OBVIOUS
<1>2. n + b = b * ((n + b) \div b) + ((n + b) % b) /\ (n + b) % b \in 0 .. b - 1 /\ (n + b) \div b \in Int
  OBVIOUS
<1> DEFINE d == (n \div b) + 1 - ((n + b) \div b)
<1>3. d \in Int /\ b * d = (n + b) % b
  BY <1>1, <1>2
<1> HIDE DEF d
<1>4. d = 0
  BY <1>2, <1>3
<1> QED BY <1>3, <1>4

\* LastRow is a row of the sheet, and only blank ones follow.
LEMMA LastRowDef ==
    ASSUME sheet \in Seq(Cells)
    PROVE  /\ LastRow \in 0 .. Len(sheet)
           /\ LastRow > 0 => sheet[LastRow] # Blank
           /\ \A i \in LastRow + 1 .. Len(sheet) : sheet[i] = Blank
<1> DEFINE N == Len(sheet)
           T == {m \in 0 .. N : \A i \in m + 1 .. N : sheet[i] = Blank}
           Is(m) == /\ m > 0 => sheet[m] # Blank
                    /\ \A i \in m + 1 .. N : sheet[i] = Blank
<1>1. N \in Nat /\ T \subseteq Nat /\ N \in T
  OBVIOUS
<1>2. PICK m \in T : \A n \in T : m <= n
  <2> HIDE DEF T, N
  <2> QED BY <1>1, LeastNat
<1>3. m \in 0 .. N /\ Is(m)
  <2>1. m \in 0 .. N /\ \A i \in m + 1 .. N : sheet[i] = Blank
    BY <1>2
  <2>2. ASSUME m > 0, sheet[m] = Blank PROVE FALSE
    <3>1. m - 1 \in 0 .. N /\ \A i \in m - 1 + 1 .. N : i = m \/ i \in m + 1 .. N
      BY <2>1, <2>2, <1>1
    <3>2. m - 1 \in T
      BY <3>1, <2>1, <2>2
    <3> HIDE DEF T
    <3> QED BY <3>2, <1>2, <2>1, <1>1
  <2> QED BY <2>1, <2>2
<1>4. LastRow = CHOOSE n \in 0 .. N : Is(n)
  BY DEF LastRow
<1>5. LastRow \in 0 .. N /\ Is(LastRow)
  <2> HIDE DEF Is, N
  <2> QED BY <1>3, <1>4
<1> QED BY <1>5

\* h is all that was given so far.
Shown(h, s, all, end) ==
    /\ h \in Seq(Nat) /\ Begins(h, all)
    /\ Len(s) > end => Len(h) = end /\ end < Len(all)
    /\ Len(s) <= end /\ s = all => h = all

\* The window of a buffer, put after the rows that were given before it.
LEMMA Window ==
    ASSUME NEW s, NEW all, NEW g, NEW off, NEW end, s \in Seq(Nat), all \in Seq(Nat), g \in Seq(Nat),
           off \in Nat, end \in Nat, off < end, Begins(s, all), Begins(g, all), Len(g) = off
    PROVE  Shown(g \o SubSeq(s, off + 1, Least(end, Len(s))), s, all, end)
<1> DEFINE to == Least(end, Len(s))
           r == SubSeq(s, off + 1, to)
           h == g \o r
<1>1. to \in Nat /\ to <= end /\ to <= Len(s) /\ (Len(s) > end => to = end) /\ (Len(s) <= end => to = Len(s))
  BY DEF Least
<1> HIDE DEF to
<1>2. /\ r \in Seq(Nat) /\ Len(r) = IF off < to THEN to - off ELSE 0
      /\ \A i \in 1 .. Len(r) : r[i] = s[off + i]
  BY <1>1
<1> HIDE DEF r
<1>3. /\ h \in Seq(Nat) /\ Len(h) = off + Len(r)
      /\ \A i \in 1 .. off : h[i] = g[i]
      /\ \A i \in off + 1 .. off + Len(r) : h[i] = r[i - off]
  <2>1. Len(r) \in Nat /\ Len(g) = off
    BY <1>2
  <2>2. h \in Seq(Nat) /\ Len(h) = off + Len(r)
    BY <1>2, ConcatProperties
  <2>3. \A i \in 1 .. Len(g) + Len(r) : h[i] = IF i <= Len(g) THEN g[i] ELSE r[i - Len(g)]
    BY <1>2, ConcatProperties
  <2> HIDE DEF h
  <2>4. ASSUME NEW i \in 1 .. off PROVE h[i] = g[i]
    <3>1. i \in 1 .. Len(g) + Len(r) /\ i <= Len(g)
      BY <2>1
    <3> QED BY <3>1, <2>3
  <2>5. ASSUME NEW i \in off + 1 .. off + Len(r) PROVE h[i] = r[i - off]
    <3>1. i \in 1 .. Len(g) + Len(r) /\ ~ (i <= Len(g)) /\ Len(g) = off
      BY <2>1
    <3> QED BY <3>1, <2>3
  <2> QED BY <2>2, <2>4, <2>5
<1> HIDE DEF h
<1>4. Len(s) \in Nat /\ Len(all) \in Nat /\ Len(s) <= Len(all) /\ off <= Len(all)
      /\ (\A i \in 1 .. Len(s) : s[i] = all[i]) /\ \A i \in 1 .. off : g[i] = all[i]
  BY DEF Begins
<1>5. Len(h) = (IF off < to THEN to ELSE off) /\ Len(h) <= Len(all) /\ Len(h) \in Nat
  BY <1>1, <1>2, <1>3, <1>4
<1>6. ASSUME NEW i \in 1 .. Len(h) PROVE h[i] = all[i]
  <2>1. CASE i <= off
    <3>1. i \in 1 .. off
      BY <2>1, <1>5
    <3> QED BY <3>1, <1>3, <1>4
  <2>2. CASE ~ (i <= off)
    <3>1. i - off \in 1 .. Len(r) /\ off + (i - off) = i /\ i \in 1 .. Len(s) /\ i \in off + 1 .. off + Len(r)
      BY <2>2, <1>1, <1>2, <1>3, <1>5
    <3>2. h[i] = r[i - off] /\ r[i - off] = s[off + (i - off)] /\ s[i] = all[i]
      BY <3>1, <1>2, <1>3, <1>4
    <3> QED BY <3>1, <3>2
  <2> QED BY <2>1, <2>2
<1>7. Begins(h, all)
  BY <1>5, <1>6 DEF Begins
<1>8. Len(s) > end => Len(h) = end /\ end < Len(all)
  BY <1>1, <1>4, <1>5
<1>9. ASSUME Len(s) <= end, s = all PROVE h = all
  <2>1. Len(h) = Len(all)
    BY <1>1, <1>4, <1>5, <1>9
  <2>2. \A i \in 1 .. Len(h) : h[i] = all[i]
    BY <1>6
  <2>3. h \in Seq(Nat) /\ all \in Seq(Nat)
    BY <1>3
  <2> HIDE DEF h
  <2> QED BY <2>1, <2>2, <2>3, SeqEqual
<1>10. Shown(h, s, all, end)
  BY <1>3, <1>7, <1>8, <1>9 DEF Shown
<1> QED BY <1>10 DEF h, r, to

\* A query that scans.
QueryRows == [at : {"scan"}, wanted : SUBSET Cells, offset : Nat, limit : Nat \ {0},
              row : Nat \ {0}, retained : Seq(Nat), scanned : Nat]

\* A scan stands at the end of a whole page and holds every match before it.
QueryOK ==
    \/ query = NoQuery
    \/ /\ query \in QueryRows
       /\ query.row - 1 <= LastRow /\ (query.row - 1) % PageSize = 0
       /\ query.scanned = query.row - 1 /\ query.scanned < ScanBudget
       /\ query.retained = MatchesUpTo(query.wanted)[query.row - 1]
       /\ Len(query.retained) <= query.offset + query.limit
       /\ query.offset > 0 => /\ answer.more /\ answer.next = query.offset
                              /\ answer.wanted = query.wanted

\* What an answer says is so.
AnswerOK ==
    /\ answer.stop = "none" => ~answer.more
    /\ answer.stop # "none" =>
          LET all == AllMatches(answer.wanted)
          IN /\ got \in Seq(Nat) /\ Begins(got, all) /\ answer.next \in Nat \ {0}
             /\ answer.wanted \in SUBSET Cells
             /\ answer.scanned < ScanBudget + PageSize
             /\ answer.more => Len(got) = answer.next /\ answer.next < Len(all)
             /\ (~answer.more /\ answer.stop \in {"cap", "end"} /\ ~BlankPageEnd) => got = all
             /\ (answer.total >= 0 /\ ~BlankPageEnd) => answer.total = Len(all)

\* The inductive invariant of a scan.
ScanInd == sheet \in Seq(Cells) /\ QueryOK /\ AnswerOK

\* The matches are a sequence of row numbers.
LEMMA AllTyped == sheet \in Seq(Cells) => \A w : AllMatches(w) \in Seq(Nat)
<1> SUFFICES ASSUME sheet \in Seq(Cells), NEW w PROVE AllMatches(w) \in Seq(Nat)
  OBVIOUS
<1>1. MatchesUpTo(w) \in [0 .. Len(sheet) -> Seq(Nat)] /\ LastRow \in 0 .. Len(sheet)
  BY FoundDef, LastRowDef
<1> QED BY <1>1 DEF AllMatches

\* The invariant is what ScanHonest says, and more.
LEMMA HonestFromInd == ScanInd => ScanHonest
<1> SUFFICES ASSUME ScanInd PROVE ScanHonest
  OBVIOUS
<1>1. Len(query.retained) <= query.offset + query.limit + 1 /\ query.scanned < ScanBudget
  <2>1. CASE query = NoQuery
    BY <2>1, SheetToolsAssumption DEF NoQuery
  <2>2. CASE query # NoQuery
    <3>1. query \in QueryRows
      BY <2>2 DEF ScanInd, QueryOK
    <3>2. query.retained \in Seq(Nat) /\ query.offset \in Nat /\ query.limit \in Nat
      BY <3>1 DEF QueryRows
    <3> QED BY <3>2, <2>2 DEF ScanInd, QueryOK
  <2> QED BY <2>1, <2>2
<1>2. answer.stop # "none" => IsPrefix(got, AllMatches(answer.wanted))
  <2> SUFFICES ASSUME answer.stop # "none" PROVE IsPrefix(got, AllMatches(answer.wanted))
    OBVIOUS
  <2> DEFINE all == AllMatches(answer.wanted)
  <2>1. got \in Seq(Nat) /\ all \in Seq(Nat) /\ Begins(got, all)
    BY AllTyped DEF ScanInd, AnswerOK
  <2> HIDE DEF all
  <2>2. SubSeq(got, 1, Len(got)) = SubSeq(all, 1, Len(got))
    BY <2>1 DEF Begins
  <2> QED BY <2>1, <2>2 DEF IsPrefix, Begins, all
<1> QED BY <1>1, <1>2 DEF ScanInd, AnswerOK, ScanHonest

\* The matches of a sheet that has not changed.
LEMMA SheetStill ==
    sheet' = sheet => /\ LastRow' = LastRow /\ BlankPageEnd' = BlankPageEnd
                      /\ \A w : MatchesUpTo(w)' = MatchesUpTo(w)
                      /\ \A w : AllMatches(w)' = AllMatches(w)
<1> SUFFICES ASSUME sheet' = sheet
             PROVE  /\ LastRow' = LastRow /\ BlankPageEnd' = BlankPageEnd
                    /\ \A w : MatchesUpTo(w)' = MatchesUpTo(w)
                    /\ \A w : AllMatches(w)' = AllMatches(w)
  OBVIOUS
<1>1. LastRow' = LastRow
  BY DEF LastRow
<1>2. \A w : MatchesUpTo(w)' = MatchesUpTo(w)
  BY DEF MatchesUpTo
<1>3. \A w : AllMatches(w)' = AllMatches(w)
  BY <1>1, <1>2 DEF AllMatches
<1>4. BlankPageEnd' = BlankPageEnd
  BY <1>1 DEF BlankPageEnd
<1> QED BY <1>1, <1>2, <1>3, <1>4

\* A scan that answers leaves the truth of what it found.
LEMMA Answers ==
    ASSUME NEW q, NEW stop, ScanInd, Respond(q, stop),
           stop \in {"bucket", "cap", "end", "budget"},
           q.offset \in Nat, q.limit \in Nat \ {0}, q.scanned < ScanBudget + PageSize,
           q.wanted \in SUBSET Cells,
           q.retained \in Seq(Nat), Begins(q.retained, AllMatches(q.wanted)),
           stop = "cap" => Len(q.retained) > q.offset + q.limit,
           stop = "end" /\ ~BlankPageEnd => q.retained = AllMatches(q.wanted),
           q.offset > 0 => answer.more /\ answer.next = q.offset /\ answer.wanted = q.wanted
    PROVE  ScanInd'
<1> DEFINE all == AllMatches(q.wanted)
           s == q.retained
           off == q.offset
           end == off + q.limit
           g == IF off = 0 THEN <<>> ELSE got
           r == SubSeq(s, off + 1, Least(end, Len(s)))
           h == g \o r
           a == Answer(q, stop)
<1>1. sheet' = sheet /\ query' = NoQuery /\ answer' = a /\ sheet \in Seq(Cells)
  BY DEF Respond, ScanInd
<1>2. /\ a.rows = r /\ a.more = (Len(s) > end) /\ a.next = end /\ a.scanned = q.scanned
      /\ a.stop = stop /\ a.wanted = q.wanted
      /\ a.total = IF stop = "end" THEN Len(s) ELSE -1
  BY DEF Answer
<1>3. got' = IF off = 0 THEN r ELSE got \o r
  BY <1>2 DEF Respond
<1>4. all \in Seq(Nat) /\ s \in Seq(Nat) /\ off \in Nat /\ end \in Nat /\ off < end /\ Begins(s, all)
  BY <1>1, AllTyped
<1>5. g \in Seq(Nat) /\ Len(g) = off /\ Begins(g, all)
  <2>1. CASE off = 0
    BY <2>1, <1>4 DEF Begins
  <2>2. CASE off # 0
    <3>1. answer.more /\ answer.next = off /\ answer.wanted = q.wanted
      BY <1>4, <2>2
    <3>2. answer.stop # "none"
      BY <3>1 DEF ScanInd, AnswerOK
    <3> QED BY <2>2, <3>1, <3>2 DEF ScanInd, AnswerOK
  <2> QED BY <2>1, <2>2
<1> HIDE DEF a
<1>6. r \in Seq(Nat)
  <2>1. Least(end, Len(s)) \in Int /\ Least(end, Len(s)) <= Len(s) /\ Len(s) \in Nat
    BY <1>4 DEF Least
  <2>2. \A i \in off + 1 .. Least(end, Len(s)) : s[i] \in Nat
    <3> SUFFICES ASSUME NEW i \in off + 1 .. Least(end, Len(s)) PROVE s[i] \in Nat
      OBVIOUS
    <3>1. i \in 1 .. Len(s)
      BY <2>1, <1>4
    <3> HIDE DEF s
    <3> QED BY <3>1, <1>4, ElementOfSeq
  <2> HIDE DEF s, off, end
  <2> QED BY <2>1, <2>2, <1>4, SubSeqProperties
<1>7. got' = h
  <2>1. CASE off = 0
    <3>1. g = <<>> /\ got' = r
      BY <1>3, <2>1
    <3> HIDE DEF g, r
    <3> QED BY <3>1, <1>6, ConcatEmptySeq
  <2>2. CASE off # 0
    BY <1>3, <2>2
  <2> QED BY <2>1, <2>2
<1> HIDE DEF all, s, off, end, g
<1>8. /\ h \in Seq(Nat) /\ Begins(h, all)
      /\ Len(s) > end => Len(h) = end /\ end < Len(all)
      /\ Len(s) <= end /\ s = all => h = all
  <2>1. Shown(h, s, all, end)
    BY <1>4, <1>5, Window
  <2> HIDE DEF h
  <2> QED BY <2>1 DEF Shown
<1> HIDE DEF h, r
<1>9. /\ stop = "cap" => Len(s) > end
      /\ stop = "end" /\ ~BlankPageEnd => s = all
  BY DEF s, end, off, all
<1>10. AllMatches(answer.wanted)' = all /\ BlankPageEnd' = BlankPageEnd
  <2>1. answer'.wanted = q.wanted
    BY <1>1, <1>2
  <2>3. MatchesUpTo(answer.wanted)' = MatchesUpTo(q.wanted)
    BY <1>1, <2>1 DEF MatchesUpTo
  <2>4. LastRow' = LastRow /\ BlankPageEnd' = BlankPageEnd
    BY <1>1, SheetStill
  <2> QED BY <2>3, <2>4 DEF AllMatches, all
<1>11. /\ answer'.stop = stop /\ answer'.next = end /\ answer'.more = (Len(s) > end)
       /\ answer'.scanned = q.scanned /\ answer'.total = IF stop = "end" THEN Len(s) ELSE -1
  BY <1>1, <1>2
<1>12. AnswerOK'
  <2>1. stop # "none" /\ end \in Nat \ {0} /\ Len(s) \in Nat
    BY <1>4
  <2>2. answer'.more => Len(got') = answer'.next /\ answer'.next < Len(all)
    BY <1>7, <1>8, <1>11
  <2>3. (~answer'.more /\ answer'.stop \in {"cap", "end"} /\ ~BlankPageEnd) => got' = all
    <3> SUFFICES ASSUME ~answer'.more, answer'.stop \in {"cap", "end"}, ~BlankPageEnd
                 PROVE  got' = all
      OBVIOUS
    <3>1. ~ (Len(s) > end) /\ stop \in {"cap", "end"}
      BY <1>11
    <3>2. stop = "end"
      BY <3>1, <1>9
    <3>3. s = all
      BY <3>2, <1>9
    <3>4. Len(s) <= end
      BY <3>1, <2>1, <1>4
    <3> QED BY <3>3, <3>4, <1>7, <1>8
  <2>4. (answer'.total >= 0 /\ ~BlankPageEnd) => answer'.total = Len(all)
    BY <1>9, <1>11
  <2>5. got' \in Seq(Nat) /\ Begins(got', all) /\ answer'.next \in Nat \ {0}
        /\ answer'.scanned < ScanBudget + PageSize /\ answer'.wanted \in SUBSET Cells
    BY <1>1, <1>2, <1>7, <1>8, <1>11, <2>1
  <2>6. Begins(got, AllMatches(answer.wanted))'
    BY <2>5, <1>10 DEF Begins
  <2> QED BY <2>1, <2>2, <2>3, <2>4, <2>5, <2>6, <1>10, <1>11 DEF AnswerOK
<1>13. QueryOK'
  BY <1>1 DEF QueryOK
<1> QED BY <1>1, <1>12, <1>13 DEF ScanInd

\* q is the query z with what a page changes.
Moved(q, z, a, b, c) ==
    /\ q.at = "scan" /\ q.wanted = z.wanted /\ q.offset = z.offset /\ q.limit = z.limit
    /\ q.retained = a /\ q.scanned = b /\ q.row = c
    /\ a \in Seq(Nat) /\ b \in Nat /\ c \in Nat \ {0} => q \in QueryRows

\* The fields of a query that has read a page, and the others as they were.
LEMMA QueryMoves ==
    ASSUME NEW z, NEW a, NEW b, NEW c, z \in QueryRows
    PROVE  Moved([z EXCEPT !.retained = a, !.scanned = b, !.row = c], z, a, b, c)
<1> DEFINE q == [z EXCEPT !.retained = a, !.scanned = b, !.row = c]
<1>1. /\ q.at = "scan" /\ q.wanted = z.wanted /\ q.offset = z.offset /\ q.limit = z.limit
      /\ q.retained = a /\ q.scanned = b /\ q.row = c
  BY DEF QueryRows
<1>2. a \in Seq(Nat) /\ b \in Nat /\ c \in Nat \ {0} => q \in QueryRows
  BY DEF QueryRows
<1> HIDE DEF q
<1>3. Moved(q, z, a, b, c)
  BY <1>1, <1>2 DEF Moved
<1> QED BY <1>3 DEF q

\* A page: it may answer because the buffer, the sheet or the budget is at its
\* end, or go on.
LEMMA PageStep == ScanInd /\ queryRows => ScanInd'
<1> SUFFICES ASSUME ScanInd, queryRows PROVE ScanInd'
  OBVIOUS
<1> DEFINE at == query.row
           w == query.wanted
           cap == retainCap(query)
           page == Values(sheet, at, at + PageSize - 1)
           N == Len(page)
           last == at - 1 + N
           kept == Retain(query, page)
           full == Len(kept) = cap
           more == IF full THEN Last(kept) - at + 1 ELSE N
           q == [query EXCEPT !.retained = kept, !.scanned = @ + more, !.row = @ + PageSize]
           M == MatchesUpTo(w)
           P == PageSize
<1>1. /\ query.at = "scan" /\ query.offset \in Nat /\ query.limit \in Nat \ {0}
      /\ at \in Nat \ {0} /\ at - 1 <= LastRow /\ (at - 1) % P = 0
      /\ query.scanned = at - 1 /\ query.scanned < ScanBudget
      /\ query.retained = M[at - 1] /\ Len(query.retained) <= query.offset + query.limit
      /\ query.offset > 0 => answer.more /\ answer.next = query.offset /\ answer.wanted = w
  BY DEF queryRows, ScanInd, QueryOK, QueryRows, NoQuery
<1>2. P \in Nat \ {0} /\ ScanBudget \in Nat /\ sheet \in Seq(Cells)
  BY SheetToolsAssumption DEF ScanInd
<1>3. /\ LastRow \in 0 .. Len(sheet) /\ Len(sheet) \in Nat
      /\ \A i \in LastRow + 1 .. Len(sheet) : sheet[i] = Blank
      /\ LastRow > 0 => sheet[LastRow] # Blank
  BY <1>2, LastRowDef
<1>4. M \in [0 .. Len(sheet) -> Seq(Nat)]
  BY <1>2, FoundDef
<1>5. cap = query.offset + query.limit + 1 /\ cap \in Nat
  BY <1>1 DEF retainCap
<1>6. query \in QueryRows /\ query.retained \in Seq(Nat) /\ Len(query.retained) < cap
  <2>1. query \in QueryRows
    BY DEF queryRows, ScanInd, QueryOK, NoQuery
  <2>2. query.retained \in Seq(Nat)
    BY <2>1 DEF QueryRows
  <2> QED BY <2>1, <2>2, <1>1, <1>5
<1>7. /\ IF full THEN Respond(q, "cap")
         ELSE IF N < P THEN Respond(q, "end")
         ELSE IF q.scanned >= ScanBudget THEN Respond(q, "budget")
         ELSE query' = q /\ UNCHANGED <<sheet, answer, got>>
  BY DEF queryRows
<1> DEFINE to == at + P - 1
<1>8. /\ page \in Seq(Cells) /\ last <= Len(sheet) /\ last <= to
      /\ \A n \in 1 .. N : page[n] = sheet[at + n - 1]
      /\ N > 0 => sheet[last] # Blank
      /\ \A i \in last + 1 .. Least(to, Len(sheet)) : sheet[i] = Blank
  <2>0. /\ at \in Nat \ {0} /\ at - 1 <= LastRow /\ P \in Nat \ {0} /\ sheet \in Seq(Cells)
        /\ LastRow \in 0 .. Len(sheet) /\ Len(sheet) \in Nat
    BY <1>1, <1>2, <1>3
  <2>1. to \in Nat /\ at <= to /\ at - 1 <= Len(sheet)
    <3> HIDE DEF at, P
    <3> QED BY <2>0
  <2>2. at \in Nat \ {0} /\ sheet \in Seq(Cells)
    BY <2>0
  <2> HIDE DEF at, to
  <2>3. PageOf(Values(sheet, at, to), at, to)
    BY <2>1, <2>2, PageOfRows
  <2>4. PageOf(page, at, to)
    BY <2>3 DEF to
  <2> HIDE DEF page
  <2> QED BY <2>4 DEF PageOf
<1> HIDE DEF page
<1>9. N \in Nat /\ N <= P /\ last \in 0 .. Len(sheet)
  <2>1. N \in Nat /\ at \in Nat \ {0}
    BY <1>1, <1>8
  <2>2. P \in Nat /\ Len(sheet) \in Nat
    BY <1>2, <1>3
  <2>3. last <= Len(sheet) /\ last <= to
    BY <1>8
  <2> HIDE DEF N, at, P
  <2> QED BY <2>1, <2>2, <2>3
<1>10. Gathered(kept, M[last], cap, at, at + N - 1)
  <2>1. /\ query.row - 1 + Len(page) <= Len(sheet)
        /\ \A n \in 1 .. Len(page) : page[n] = sheet[query.row + n - 1]
        /\ query.retained = MatchesUpTo(query.wanted)[query.row - 1]
        /\ Len(query.retained) < retainCap(query)
        /\ query.row \in Nat \ {0} /\ retainCap(query) \in Nat
    BY <1>1, <1>5, <1>6, <1>8
  <2> QED BY <2>1, <1>2, <1>8, RetainGathers
<1> HIDE DEF kept, more
<1>11. /\ q.at = "scan" /\ q.wanted = w /\ q.offset = query.offset /\ q.limit = query.limit
       /\ q.row = at + P /\ q.retained = kept /\ q.scanned = query.scanned + more
       /\ kept \in Seq(Nat) /\ query.scanned + more \in Nat /\ at + P \in Nat \ {0} => q \in QueryRows
  <2>1. q = [query EXCEPT !.retained = kept, !.scanned = query.scanned + more, !.row = at + P]
    OBVIOUS
  <2> DEFINE b == query.scanned + more
             c == at + P
  <2> HIDE DEF b, c
  <2>2. Moved(q, query, kept, b, c)
    <3>1. q = [query EXCEPT !.retained = kept, !.scanned = b, !.row = c]
      BY <2>1 DEF b, c
    <3>2. Moved([query EXCEPT !.retained = kept, !.scanned = b, !.row = c], query, kept, b, c)
      BY <1>6, QueryMoves
    <3> HIDE DEF q
    <3> QED BY <3>1, <3>2
  <2> HIDE DEF q
  <2> QED BY <2>2 DEF Moved, b, c
<1>12. w \in SUBSET Cells
  BY <1>6 DEF QueryRows
<1> HIDE DEF at, w, cap, N, last, q, M, P, to
<1>13. kept \in Seq(Nat) /\ Len(kept) <= cap /\ Begins(kept, M[last])
       /\ (Len(kept) < cap => kept = M[last])
       /\ (Len(kept) = cap => kept[Len(kept)] \in at .. at + N - 1)
  BY <1>10 DEF Gathered
<1>14. more \in 0 .. P /\ (~full => more = N)
  <2>1. CASE full
    <3>1. more = kept[Len(kept)] - at + 1
      BY <2>1 DEF more, Last
    <3> DEFINE x == kept[Len(kept)]
    <3>2. x \in at .. at + N - 1 /\ more = x - at + 1
      BY <3>1, <2>1, <1>13
    <3> HIDE DEF x
    <3>3. more \in 0 .. P
      BY <3>2, <1>1, <1>2, <1>9
    <3> QED BY <3>3, <2>1
  <2>2. CASE ~full
    BY <2>2, <1>9, <1>2 DEF more
  <2> QED BY <2>1, <2>2
<1>15. last <= LastRow
  <2>1. CASE N = 0
    BY <2>1, <1>1 DEF last
  <2>2. CASE N > 0
    <3>1. ~ (last \in LastRow + 1 .. Len(sheet))
      BY <2>2, <1>3, <1>8
    <3> QED BY <3>1, <1>9, <1>3
  <2> QED BY <2>1, <2>2, <1>9
<1>16. Begins(kept, M[LastRow]) /\ M[LastRow] \in Seq(Nat) /\ AllMatches(w) = M[LastRow]
  <2>1. Begins(M[last], M[LastRow])
    <3>1. last \in 0 .. LastRow /\ LastRow \in 0 .. Len(sheet)
      BY <1>3, <1>9, <1>15
    <3> QED BY <3>1, <1>2, FoundGrows DEF M
  <2>2. M[last] \in Seq(Nat) /\ M[LastRow] \in Seq(Nat)
    BY <1>3, <1>4, <1>9
  <2>3. Begins(kept, M[LastRow])
    BY <2>1, <2>2, <1>13 DEF Begins
  <2> QED BY <2>2, <2>3 DEF AllMatches, M
<1>17. ~full => Len(kept) < cap
  BY <1>5, <1>13
<1>18. ASSUME ~full, N < P, ~BlankPageEnd PROVE last = LastRow
  <2>1. CASE LastRow > to
    <3>1. last < to /\ to \in 1 .. LastRow - 1 /\ Least(to, Len(sheet)) = to
      BY <2>1, <1>18, <1>1, <1>2, <1>3, <1>9 DEF last, to, Least
    <3>2. sheet[to] = Blank
      BY <3>1, <1>8, <1>9
    <3>3. to % P = 0
      <4>1. at - 1 \in Nat /\ to = (at - 1) + P
        BY <1>1, <1>2 DEF to
      <4> QED BY <4>1, <1>1, <1>2, NextMultiple
    <3> QED BY <3>1, <3>2, <3>3, <1>18 DEF BlankPageEnd, P
  <2>2. CASE LastRow <= to
    <3> SUFFICES ASSUME last < LastRow PROVE FALSE
      BY <1>15, <1>3, <1>9
    <3>1. LastRow \in last + 1 .. Least(to, Len(sheet)) /\ LastRow > 0
      BY <2>2, <1>3, <1>9 DEF Least
    <3> QED BY <3>1, <1>3, <1>8
  <2>3. to \in Int
    BY <1>1, <1>2 DEF to
  <2> QED BY <2>1, <2>2, <2>3, <1>3
<1>19. q.scanned < ScanBudget + PageSize /\ query.scanned \in Nat
  BY <1>1, <1>2, <1>11, <1>14 DEF P
<1>20. ASSUME NEW stop, Respond(q, stop), stop \in {"cap", "end", "budget"},
              stop = "cap" => full, stop = "end" => ~full /\ N < P
       PROVE  ScanInd'
  <2>1. stop = "cap" => Len(q.retained) > q.offset + q.limit
    BY <1>1, <1>5, <1>11, <1>20
  <2>2. stop = "end" /\ ~BlankPageEnd => q.retained = AllMatches(q.wanted)
    BY <1>11, <1>13, <1>16, <1>17, <1>18, <1>20
  <2>3. q.retained \in Seq(Nat) /\ Begins(q.retained, AllMatches(q.wanted))
    BY <1>11, <1>13, <1>16
  <2>4. q.offset > 0 => answer.more /\ answer.next = q.offset /\ answer.wanted = q.wanted
    BY <1>1, <1>11
  <2>5. q.offset \in Nat /\ q.limit \in Nat \ {0} /\ q.wanted \in SUBSET Cells
    BY <1>1, <1>11, <1>12
  <2> QED BY <2>1, <2>2, <2>3, <2>4, <2>5, <1>19, <1>20, Answers
<1>21. CASE full
  BY <1>7, <1>20, <1>21
<1>22. CASE ~full /\ N < P
  BY <1>7, <1>20, <1>22
<1>23. CASE ~full /\ ~ (N < P) /\ q.scanned >= ScanBudget
  BY <1>7, <1>20, <1>23
<1>24. CASE ~full /\ ~ (N < P) /\ ~ (q.scanned >= ScanBudget)
  <2>1. query' = q /\ sheet' = sheet /\ answer' = answer /\ got' = got
    BY <1>7, <1>24
  <2>2. N = P /\ more = P /\ last = at + P - 1
    BY <1>2, <1>9, <1>14, <1>24, <1>1 DEF last
  <2>3. q.row - 1 = last /\ q.row - 1 <= LastRow /\ q.scanned = q.row - 1 /\ q.scanned < ScanBudget
    BY <2>2, <1>1, <1>2, <1>11, <1>15, <1>24
  <2>4. (q.row - 1) % P = 0
    <3>1. at - 1 \in Nat /\ q.row - 1 = (at - 1) + P
      BY <1>1, <1>2, <1>11
    <3> QED BY <3>1, <1>1, <1>2, NextMultiple
  <2>5. q.retained = M[q.row - 1] /\ Len(q.retained) <= q.offset + q.limit
    BY <2>3, <1>1, <1>5, <1>11, <1>13, <1>17, <1>24
  <2>6. q \in QueryRows
    <3>1. at + P \in Nat \ {0} /\ query.scanned + more \in Nat
      BY <1>1, <1>2, <1>19, <1>14
    <3> QED BY <3>1, <1>11, <1>13
  <2>7. q.offset > 0 => answer.more /\ answer.next = q.offset /\ answer.wanted = q.wanted
    BY <1>1, <1>11
  <2>8. LastRow' = LastRow /\ MatchesUpTo(query.wanted)' = M
    <3>1. query'.wanted = w
      BY <2>1, <1>11
    <3>2. MatchesUpTo(query.wanted)' = MatchesUpTo(w)
      BY <2>1, <3>1 DEF MatchesUpTo
    <3> QED BY <2>1, <3>2, SheetStill DEF M
  <2>9. QueryOK'
    BY <2>1, <2>3, <2>4, <2>5, <2>6, <2>7, <2>8 DEF QueryOK, P
  <2>10. AnswerOK'
    <3>1. AllMatches(answer.wanted)' = AllMatches(answer.wanted) /\ BlankPageEnd' = BlankPageEnd
      BY <2>1, SheetStill DEF AllMatches, MatchesUpTo, LastRow
    <3>2. AnswerOK
      BY DEF ScanInd
    <3>3. Begins(got, AllMatches(answer.wanted))' = Begins(got, AllMatches(answer.wanted))
      BY <2>1, <3>1 DEF Begins
    <3> QED BY <2>1, <3>1, <3>2, <3>3 DEF AnswerOK
  <2> QED BY <2>1, <2>9, <2>10, <1>2 DEF ScanInd
<1> QED BY <1>21, <1>22, <1>23, <1>24

\* A step that leaves the sheet, the query and the answer alone.
LEMMA ScanKept == ScanInd /\ UNCHANGED scanVars => ScanInd'
<1> SUFFICES ASSUME ScanInd, sheet' = sheet, query' = query, answer' = answer, got' = got
             PROVE  ScanInd'
  BY DEF scanVars
<1>1. LastRow' = LastRow /\ BlankPageEnd' = BlankPageEnd
  BY SheetStill
<1>2. MatchesUpTo(query.wanted)' = MatchesUpTo(query.wanted)
  BY DEF MatchesUpTo
<1>3. AllMatches(answer.wanted)' = AllMatches(answer.wanted)
  BY <1>1 DEF AllMatches, MatchesUpTo
<1>4. Begins(got, AllMatches(answer.wanted))' = Begins(got, AllMatches(answer.wanted))
  BY <1>3 DEF Begins
<1>5. QueryOK'
  BY <1>1, <1>2 DEF ScanInd, QueryOK
<1>6. AnswerOK'
  BY <1>1, <1>3, <1>4 DEF ScanInd, AnswerOK
<1> QED BY <1>5, <1>6 DEF ScanInd

\* b is a new query.
Started(b, w, o, l) ==
    /\ b \in QueryRows /\ b.row - 1 = 0 /\ b.scanned = 0 /\ b.retained = <<>> /\ b.offset = o
    /\ b.limit = l /\ b.wanted = w

\* The fields of a new query.
LEMMA BeginsTyped ==
    ASSUME NEW w, NEW o, NEW l, l \in Nat \ {0}, o \in Nat, w \in SUBSET Cells
    PROVE  Started([NoQuery EXCEPT !.at = "scan", !.limit = l, !.offset = o, !.wanted = w], w, o, l)
<1> DEFINE b == [NoQuery EXCEPT !.at = "scan", !.limit = l, !.offset = o, !.wanted = w]
<1>1. b \in QueryRows
  <2>1. NoQuery \in [at : {"idle"}, wanted : SUBSET Cells, offset : Nat, limit : Nat \ {0},
                     row : Nat \ {0}, retained : Seq(Nat), scanned : Nat]
    <3>1. <<>> \in Seq(Nat) /\ {} \in SUBSET Cells
      OBVIOUS
    <3> QED BY <3>1 DEF NoQuery
  <2> QED BY <2>1 DEF QueryRows
<1>2. /\ b.row - 1 = 0 /\ b.scanned = 0 /\ b.retained = <<>> /\ b.offset = o
      /\ b.limit = l /\ b.wanted = w
  BY DEF NoQuery
<1> HIDE DEF b
<1>3. Started(b, w, o, l)
  BY <1>1, <1>2 DEF Started
<1> QED BY <1>3 DEF b

\* A query that starts: at the first row, with nothing retained.
LEMMA QueryBegins ==
    ASSUME NEW l, NEW o, NEW w, ScanInd, l \in 1 .. MaxLimit, o \in Nat, w \in SUBSET Cells,
           query' = [NoQuery EXCEPT !.at = "scan", !.limit = l, !.offset = o, !.wanted = w],
           UNCHANGED <<sheet, answer, got>>,
           o > 0 => answer.more /\ answer.next = o /\ answer.wanted = w
    PROVE  ScanInd'
<1>1. Started(query', w, o, l)
  <2>1. MaxLimit \in Nat
    BY SheetToolsAssumption
  <2>2. l \in Nat \ {0}
    BY <2>1
  <2> QED BY <2>2, BeginsTyped
<1>2. LastRow \in Nat /\ MatchesUpTo(w)[0] = <<>> /\ PageSize \in Nat \ {0} /\ ScanBudget \in Nat \ {0}
  BY LastRowDef, FoundDef, SheetToolsAssumption DEF ScanInd
<1>3. 0 % PageSize = 0
  BY <1>2
<1>4. query' \in QueryRows
  BY <1>1 DEF Started
<1>5. LastRow' = LastRow
  BY SheetStill
<1>6. MatchesUpTo(query.wanted)' = MatchesUpTo(w)
  <2>1. query'.wanted = w
    BY <1>1 DEF Started
  <2> QED BY <2>1 DEF MatchesUpTo
<1>7. /\ query'.row - 1 = 0 /\ query'.scanned = 0 /\ query'.retained = <<>> /\ query'.offset = o
      /\ query'.limit = l /\ query'.wanted = w
  BY <1>1 DEF Started
<1>8. Len(query'.retained) <= query'.offset + query'.limit
  <2>1. Len(query'.retained) = 0
    BY <1>7
  <2>2. o \in Nat /\ l \in Nat
    BY SheetToolsAssumption
  <2>3. 0 <= o + l
    BY <2>2
  <2> QED BY <1>7, <2>1, <2>3
<1>9. QueryOK'
  <2>1. (query.row - 1 <= LastRow)' /\ ((query.row - 1) % PageSize = 0)'
    BY <1>2, <1>3, <1>5, <1>7
  <2>2. (query.scanned = query.row - 1)' /\ (query.scanned < ScanBudget)'
    BY <1>2, <1>7
  <2>3. (query.retained = MatchesUpTo(query.wanted)[query.row - 1])'
    BY <1>2, <1>6, <1>7
  <2>4. (Len(query.retained) <= query.offset + query.limit)'
    BY <1>8
  <2>5. answer' = answer
    OBVIOUS
  <2>6. (query.offset > 0 => answer.more /\ answer.next = query.offset /\ answer.wanted = query.wanted)'
    BY <1>7, <2>5
  <2> QED BY <1>4, <2>1, <2>2, <2>3, <2>4, <2>6 DEF QueryOK
<1>10. AnswerOK'
  <2>1. AllMatches(answer.wanted)' = AllMatches(answer.wanted) /\ BlankPageEnd' = BlankPageEnd
    BY SheetStill, <1>5 DEF AllMatches, MatchesUpTo
  <2>2. Begins(got, AllMatches(answer.wanted))' = Begins(got, AllMatches(answer.wanted))
    BY <2>1 DEF Begins
  <2> QED BY <2>1, <2>2 DEF ScanInd, AnswerOK
<1> QED BY <1>9, <1>10 DEF ScanInd

\* The bucket is empty: what was found so far.
LEMMA BucketStep == ScanInd /\ BucketEmpty => ScanInd'
<1> SUFFICES ASSUME ScanInd, BucketEmpty PROVE ScanInd'
  OBVIOUS
<1>1. /\ query \in QueryRows /\ query.row - 1 <= LastRow /\ query.scanned < ScanBudget
      /\ query.retained = MatchesUpTo(query.wanted)[query.row - 1]
      /\ query.offset > 0 => /\ answer.more /\ answer.next = query.offset
                             /\ answer.wanted = query.wanted
  BY DEF BucketEmpty, ScanInd, QueryOK, NoQuery
<1>2. /\ query.offset \in Nat /\ query.limit \in Nat \ {0} /\ query.row \in Nat \ {0}
      /\ query.retained \in Seq(Nat) /\ query.scanned \in Nat /\ query.wanted \in SUBSET Cells
  BY <1>1 DEF QueryRows
<1>3. LastRow \in 0 .. Len(sheet) /\ sheet \in Seq(Cells)
  BY LastRowDef DEF ScanInd
<1>4. Begins(query.retained, AllMatches(query.wanted))
  <2>1. query.row - 1 \in 0 .. LastRow
    BY <1>1, <1>2, <1>3
  <2> QED BY <2>1, <1>1, <1>3, FoundGrows DEF AllMatches
<1>5. query.scanned < ScanBudget + PageSize
  BY <1>1, <1>2, SheetToolsAssumption
<1>6. Respond(query, "bucket")
  BY DEF BucketEmpty
<1> QED BY <1>1, <1>2, <1>4, <1>5, <1>6, Answers

\* Nothing was asked yet.
LEMMA ScanInit == InitSheets => ScanInd
<1> SUFFICES ASSUME InitSheets PROVE ScanInd
  OBVIOUS
<1>1. PICK n \in 0 .. MaxRowsOfSheet : sheet \in [1 .. n -> Cells]
  BY DEF InitSheets
<1>2. sheet \in Seq(Cells)
  BY <1>1, SheetToolsAssumption
<1> QED BY <1>2 DEF InitSheets, ScanInd, QueryOK, AnswerOK, NoAnswer

\* One step for each thing that can happen to a query.
LEMMA ScanStepKeeps == ScanInd /\ ScanStep => ScanInd'
<1> SUFFICES ASSUME ScanInd, ScanStep PROVE ScanInd'
  OBVIOUS
<1>1. ASSUME NEW fs \in Filters, NEW l \in 1 .. MaxLimit, ValidateQueryRowsInput(fs, l, 0)
      PROVE  ScanInd'
  <2> DEFINE w == {c \in Cells : matchRow(fs, c)}
  <2>1. /\ query' = [NoQuery EXCEPT !.at = "scan", !.limit = l, !.offset = 0, !.wanted = w]
        /\ UNCHANGED <<sheet, answer, got>> /\ w \in SUBSET Cells
    BY <1>1 DEF ValidateQueryRowsInput
  <2> DEFINE o == 0
  <2>2. /\ query' = [NoQuery EXCEPT !.at = "scan", !.limit = l, !.offset = o, !.wanted = w]
        /\ o \in Nat /\ ~ (o > 0)
    BY <2>1
  <2> HIDE DEF w, o
  <2> QED BY <2>1, <2>2, QueryBegins
<1>2. ASSUME NEW l \in 1 .. MaxLimit, Continue(l) PROVE ScanInd'
  <2> DEFINE o == answer.next
             w == answer.wanted
  <2>1. /\ query' = [NoQuery EXCEPT !.at = "scan", !.limit = l, !.offset = o, !.wanted = w]
        /\ UNCHANGED <<sheet, answer, got>> /\ answer.more
    BY <1>2 DEF Continue
  <2>2. o \in Nat
    BY <2>1 DEF ScanInd, AnswerOK
  <2>3. w \in SUBSET Cells
    BY <2>1 DEF ScanInd, AnswerOK
  <2> HIDE DEF w, o
  <2> QED BY <2>1, <2>2, <2>3, QueryBegins DEF w, o
<1>3. ASSUME QueryFails PROVE ScanInd'
  <2>1. sheet' = sheet /\ query' = NoQuery /\ answer' = NoAnswer
    BY <1>3 DEF QueryFails
  <2> QED BY <2>1 DEF ScanInd, QueryOK, AnswerOK, NoAnswer
<1> QED BY <1>1, <1>2, <1>3, BucketStep, PageStep DEF ScanStep

-----------------------------------------------------------------------------
(* Ranges *)

\* The letters.
Digits == 0 .. Base - 1

\* columnIndex + 1, letter by letter.
IndexDef(ls, k) ==
    /\ k \in [0 .. Len(ls) -> Nat] /\ k[0] = 0
    /\ \A i \in 1 .. Len(ls) : k[i] = k[i - 1] * Base + ls[i] + 1
    /\ columnIndex(ls) = k[Len(ls)] - 1

\* The number of letters is the last of a sequence, one for each letter.
LEMMA ColumnIndexDef == ASSUME NEW ls, ls \in Seq(Digits) PROVE \E k : IndexDef(ls, k)
<1> DEFINE N == Len(ls)
           G == [x \in Nat \X Nat |-> IF x[1] \in 1 .. N THEN x[2] * Base + ls[x[1]] + 1 ELSE 0]
           Eq(f) == f = [i \in 0 .. N |-> IF i = 0 THEN 0 ELSE f[i - 1] * Base + ls[i] + 1]
           k == CHOOSE f : Eq(f)
<1>1. /\ N \in Nat /\ Base \in Nat /\ 0 \in Nat
      /\ \A i \in 1 .. N : ls[i] \in Nat
  BY SheetToolsAssumption DEF Digits
<1> HIDE DEF N
<1>2. G \in [Nat \X Nat -> Nat]
  <2> SUFFICES ASSUME NEW x \in Nat \X Nat
               PROVE  (IF x[1] \in 1 .. N THEN x[2] * Base + ls[x[1]] + 1 ELSE 0) \in Nat
    OBVIOUS
  <2> DEFINE a == x[1]
             b == x[2]
             d == ls[a]
             p == b * Base
  <2>1. a \in Nat /\ b \in Nat
    OBVIOUS
  <2> HIDE DEF a, b
  <2>2. p \in Nat /\ (a \in 1 .. N => d \in Nat)
    BY <2>1, <1>1
  <2> HIDE DEF d, p
  <2>3. (IF a \in 1 .. N THEN p + d + 1 ELSE 0) \in Nat
    BY <2>2
  <2> QED BY <2>3 DEF a, b, d, p
<1>3. PICK f : UnfoldsTo(f, Nat, G, 0, N)
  <2> DEFINE z == 0
  <2>1. z \in Nat
    OBVIOUS
  <2> HIDE DEF G, z
  <2>2. \E f : UnfoldsTo(f, Nat, G, z, N)
    BY <1>1, <1>2, <2>1, Unfolds
  <2> QED BY <2>2 DEF z
<1>4. ASSUME NEW i \in 0 .. N, i # 0 PROVE G[<<i, f[i - 1]>>] = f[i - 1] * Base + ls[i] + 1
  <2>1. i \in Nat /\ i \in 1 .. N /\ f[i - 1] \in Nat
    BY <1>1, <1>3, <1>4 DEF UnfoldsTo
  <2> QED BY <2>1
<1>5. Eq(f)
  <2> HIDE DEF G
  <2>1. f = [i \in 0 .. N |-> f[i]]
    BY <1>3 DEF UnfoldsTo
  <2>2. \A i \in 0 .. N : f[i] = IF i = 0 THEN 0 ELSE f[i - 1] * Base + ls[i] + 1
    BY <1>3, <1>4 DEF UnfoldsTo
  <2> QED BY <2>1, <2>2
<1>6. \E g : Eq(g)
  BY <1>5
<1>7. columnIndex(ls) = k[N] - 1
  BY DEF columnIndex, N
<1>8. Eq(k)
  <2> HIDE DEF Eq
  <2> QED BY <1>6
<1>9. k = [i \in 0 .. N |-> IF i = 0 THEN 0 ELSE k[i - 1] * Base + ls[i] + 1]
  BY <1>8
<1> HIDE DEF k, Eq, G
<1>10. k = [i \in 0 .. N |-> k[i]] /\ k[0] = 0
  BY <1>1, <1>9
<1>11. ASSUME NEW i \in 1 .. N PROVE k[i] = k[i - 1] * Base + ls[i] + 1
  <2>1. i \in 0 .. N /\ i # 0
    BY <1>1
  <2> QED BY <2>1, <1>9
<1>12. \A i \in 0 .. N : k[i] \in Nat
  <2> DEFINE T == {i \in 0 .. N : k[i] \in Nat}
  <2>1. 0 \in T
    BY <1>10, <1>1
  <2>2. ASSUME NEW i \in 1 .. N, i - 1 \in T PROVE i \in T
    <3> DEFINE p == k[i - 1] * Base
    <3>1. k[i - 1] \in Nat /\ i \in 0 .. N /\ ls[i] \in Nat
      BY <2>2, <1>1
    <3>2. p \in Nat
      BY <3>1, <1>1
    <3>3. k[i] = p + ls[i] + 1
      BY <1>11
    <3> HIDE DEF p
    <3> QED BY <3>1, <3>2, <3>3
  <2>3. \A i \in 0 .. N : i \in T
    <3> HIDE DEF T
    <3> QED BY <2>1, <2>2, <1>1, UpTo
  <2> QED BY <2>3
<1>13. k \in [0 .. N -> Nat]
  BY <1>10, <1>12
<1> QED BY <1>7, <1>10, <1>11, <1>13 DEF N, IndexDef

\* Google's reading of a letter more.
LEMMA IndexAppends ==
    ASSUME NEW ls, ls \in Seq(Digits), ls # <<>>
    PROVE  /\ Front(ls) \in Seq(Digits) /\ Len(Front(ls)) = Len(ls) - 1
           /\ columnIndex(ls) + 1 = (columnIndex(Front(ls)) + 1) * Base + Last(ls) + 1
<1> DEFINE fr == Front(ls)
           N == Len(ls)
<1>1. N \in Nat \ {0}
  BY EmptySeq
<1>2. fr \in Seq(Digits) /\ Len(fr) = N - 1 /\ \A i \in 1 .. N - 1 : fr[i] = ls[i]
  <2>1. \A i \in 1 .. N - 1 : ls[i] \in Digits
    <3> SUFFICES ASSUME NEW i \in 1 .. N - 1 PROVE ls[i] \in Digits
      OBVIOUS
    <3>1. i \in 1 .. Len(ls)
      BY <1>1
    <3> QED BY <3>1, ElementOfSeq
  <2>2. fr = SubSeq(ls, 1, N - 1)
    BY DEF Front
  <2> DEFINE n == N - 1
  <2>3. n \in Nat /\ n \in Int /\ 1 \in Int
    BY <1>1
  <2> HIDE DEF N, fr, n
  <2>4. /\ SubSeq(ls, 1, n) \in Seq(Digits)
        /\ Len(SubSeq(ls, 1, n)) = IF 1 <= n THEN n - 1 + 1 ELSE 0
        /\ \A i \in 1 .. n - 1 + 1 : SubSeq(ls, 1, n)[i] = ls[1 + i - 1]
    BY <2>1, <2>3, SubSeqProperties DEF n
  <2>5. Len(SubSeq(ls, 1, n)) = n /\ \A i \in 1 .. n : SubSeq(ls, 1, n)[i] = ls[i]
    <3>1. n - 1 + 1 = n /\ \A i \in 1 .. n : 1 + i - 1 = i
      BY <2>3
    <3> QED BY <2>3, <2>4, <3>1
  <2> QED BY <2>2, <2>4, <2>5 DEF n
<1>3. PICK k : IndexDef(ls, k)
  BY ColumnIndexDef
<1>4. PICK m : IndexDef(fr, m)
  BY <1>2, ColumnIndexDef
<1> HIDE DEF fr, N
<1>5. /\ k \in [0 .. N -> Nat] /\ k[0] = 0 /\ \A i \in 1 .. N : k[i] = k[i - 1] * Base + ls[i] + 1
      /\ columnIndex(ls) = k[N] - 1
  BY <1>3 DEF IndexDef, N
<1>6. /\ m \in [0 .. N - 1 -> Nat] /\ m[0] = 0
      /\ \A i \in 1 .. N - 1 : m[i] = m[i - 1] * Base + fr[i] + 1
      /\ columnIndex(fr) = m[N - 1] - 1
  BY <1>2, <1>4 DEF IndexDef
<1>7. \A i \in 0 .. N - 1 : m[i] = k[i]
  <2> DEFINE T == {i \in 0 .. N - 1 : m[i] = k[i]}
             n == N - 1
  <2>1. 0 \in T
    BY <1>1, <1>5, <1>6
  <2>2. ASSUME NEW i \in 1 .. n, i - 1 \in T PROVE i \in T
    <3>1. i \in 1 .. N /\ i \in 0 .. N - 1 /\ i \in 1 .. N - 1
      BY <1>1
    <3>2. m[i - 1] = k[i - 1] /\ fr[i] = ls[i]
      BY <2>2, <3>1, <1>2
    <3>3. m[i] = m[i - 1] * Base + fr[i] + 1 /\ k[i] = k[i - 1] * Base + ls[i] + 1
      BY <3>1, <1>5, <1>6
    <3> QED BY <3>1, <3>2, <3>3
  <2>3. n \in Nat
    BY <1>1
  <2>4. \A i \in 0 .. n : i \in T
    <3> HIDE DEF T, n
    <3> QED BY <2>1, <2>2, <2>3, UpTo
  <2> QED BY <2>4
<1>8. m[N - 1] = k[N - 1] /\ N \in 1 .. N
  BY <1>1, <1>7
<1>9. k[N] = k[N - 1] * Base + ls[N] + 1
  BY <1>5, <1>8
<1>10. k[N] \in Nat /\ m[N - 1] \in Nat
  BY <1>1, <1>5, <1>6
<1>11. columnIndex(ls) + 1 = k[N] /\ columnIndex(fr) + 1 = m[N - 1]
  BY <1>5, <1>6, <1>10
<1>12. columnIndex(ls) + 1 = (columnIndex(fr) + 1) * Base + ls[N] + 1
  BY <1>8, <1>9, <1>11
<1> QED BY <1>2, <1>12 DEF Last, fr, N

\* Without letters.
LEMMA NoLetters == <<>> \in Seq(Digits) /\ columnIndex(<<>>) + 1 = 0
<1> DEFINE e == <<>>
<1>1. e \in Seq(Digits) /\ Len(e) = 0
  OBVIOUS
<1> HIDE DEF e
<1>2. PICK k : IndexDef(e, k)
  BY <1>1, ColumnIndexDef
<1>3. columnIndex(e) = 0 - 1
  BY <1>1, <1>2 DEF IndexDef
<1>4. columnIndex(e) + 1 = 0
  BY <1>3
<1> QED BY <1>1, <1>4 DEF e

\* The code's index is one less than the numeral.
LEMMA ColumnNumberDef ==
    \A ls \in Seq(Digits) : ColumnNumber[ls] = columnIndex(ls) + 1
<1> DEFINE Eq(f) == f = [ls \in Seq(Digits) |->
                            IF ls = <<>> THEN 0 ELSE f[Front(ls)] * Base + Last(ls) + 1]
           g == [ls \in Seq(Digits) |-> columnIndex(ls) + 1]
           c == CHOOSE f : Eq(f)
<1>1. columnIndex(<<>>) + 1 = 0
  BY NoLetters
<1>2. Eq(g)
  <2>1. ASSUME NEW ls \in Seq(Digits)
        PROVE  g[ls] = IF ls = <<>> THEN 0 ELSE g[Front(ls)] * Base + Last(ls) + 1
    <3>1. CASE ls = <<>>
      BY <3>1, <1>1
    <3>2. CASE ls # <<>>
      <4>1. Front(ls) \in Seq(Digits) /\ columnIndex(ls) + 1 = (columnIndex(Front(ls)) + 1) * Base + Last(ls) + 1
        BY <3>2, IndexAppends
      <4>2. g[ls] = columnIndex(ls) + 1 /\ g[Front(ls)] = columnIndex(Front(ls)) + 1
        BY <4>1
      <4> QED BY <3>2, <4>1, <4>2
    <3> QED BY <3>1, <3>2
  <2>2. g = [ls \in Seq(Digits) |-> g[ls]]
    OBVIOUS
  <2> HIDE DEF g
  <2> QED BY <2>1, <2>2
<1>3. \E f : Eq(f)
  BY <1>2
<1>4. ColumnNumber = c
  BY DEF ColumnNumber, Digits
<1>5. Eq(c)
  <2> HIDE DEF Eq
  <2> QED BY <1>3
<1> HIDE DEF c
<1>6. ASSUME NEW ls \in Seq(Digits)
      PROVE  c[ls] = IF ls = <<>> THEN 0 ELSE c[Front(ls)] * Base + Last(ls) + 1
  <2>1. c = [t \in Seq(Digits) |-> IF t = <<>> THEN 0 ELSE c[Front(t)] * Base + Last(t) + 1]
    BY <1>5
  <2> QED BY <2>1
<1> HIDE DEF Eq, g
<1> DEFINE T == {n \in Nat : \A ls \in Seq(Digits) : Len(ls) = n => c[ls] = columnIndex(ls) + 1}
<1>7. 0 \in T
  <2>1. ASSUME NEW ls \in Seq(Digits), Len(ls) = 0 PROVE c[ls] = columnIndex(ls) + 1
    <3>1. ls = <<>>
      BY <2>1, EmptySeq
    <3> QED BY <3>1, <1>1, <1>6
  <2> QED BY <2>1
<1>8. ASSUME NEW n \in Nat, n \in T PROVE n + 1 \in T
  <2>1. ASSUME NEW ls \in Seq(Digits), Len(ls) = n + 1 PROVE c[ls] = columnIndex(ls) + 1
    <3>1. ls # <<>>
      BY <2>1, EmptySeq
    <3>2. Front(ls) \in Seq(Digits) /\ Len(Front(ls)) = n
      BY <2>1, <3>1, IndexAppends
    <3>3. c[Front(ls)] = columnIndex(Front(ls)) + 1
      BY <3>2, <1>8
    <3>4. columnIndex(ls) + 1 = (columnIndex(Front(ls)) + 1) * Base + Last(ls) + 1
      BY <3>1, IndexAppends
    <3>5. c[ls] = c[Front(ls)] * Base + Last(ls) + 1
      BY <3>1, <1>6
    <3> QED BY <3>3, <3>4, <3>5
  <2> QED BY <2>1
<1>9. Nat \subseteq T
  <2> HIDE DEF T
  <2> QED BY <1>7, <1>8, NatSet
<1>10. ASSUME NEW ls \in Seq(Digits) PROVE c[ls] = columnIndex(ls) + 1
  <2>1. Len(ls) \in Nat
    OBVIOUS
  <2>2. Len(ls) \in T
    <3> HIDE DEF T
    <3> QED BY <2>1, <1>9
  <2> QED BY <2>2
<1> QED BY <1>4, <1>10

\* A letter appended to a numeral, and no letters at all.
LEMMA ColumnNumberSteps ==
    /\ ColumnNumber[<<>>] = 0
    /\ \A ls \in Seq(Digits) : ColumnNumber[ls] \in Nat /\ (ls # <<>> => ColumnNumber[ls] >= 1)
    /\ \A ls \in Seq(Digits), d \in Digits :
          Append(ls, d) \in Seq(Digits) /\ ColumnNumber[Append(ls, d)] = ColumnNumber[ls] * Base + d + 1
<1>1. \A ls \in Seq(Digits) : ColumnNumber[ls] \in Nat
  <2> SUFFICES ASSUME NEW ls \in Seq(Digits) PROVE columnIndex(ls) + 1 \in Nat
    BY ColumnNumberDef
  <2>1. PICK k : IndexDef(ls, k)
    BY ColumnIndexDef
  <2>2. k[Len(ls)] \in Nat /\ columnIndex(ls) = k[Len(ls)] - 1
    BY <2>1 DEF IndexDef
  <2> QED BY <2>2
<1>2. ASSUME NEW ls \in Seq(Digits), ls # <<>>
      PROVE  /\ Front(ls) \in Seq(Digits)
             /\ ColumnNumber[ls] = ColumnNumber[Front(ls)] * Base + Last(ls) + 1
  BY <1>2, ColumnNumberDef, IndexAppends
<1>3. ColumnNumber[<<>>] = 0
  <2> DEFINE e == <<>>
  <2>1. e \in Seq(Digits) /\ columnIndex(e) + 1 = 0
    BY NoLetters
  <2> HIDE DEF e
  <2>2. ColumnNumber[e] = 0
    BY <2>1, ColumnNumberDef
  <2> QED BY <2>2 DEF e
<1>4. ASSUME NEW ls \in Seq(Digits), ls # <<>> PROVE ColumnNumber[ls] >= 1
  <2> DEFINE a == ColumnNumber[Front(ls)]
             p == a * Base
             d == Last(ls)
  <2>1. ColumnNumber[ls] = p + d + 1 /\ a \in Nat
    BY <1>1, <1>2, <1>4
  <2>2. d \in Nat
    <3>1. Len(ls) \in 1 .. Len(ls)
      BY <1>4, EmptySeq
    <3>2. ls[Len(ls)] \in Digits
      BY <3>1, ElementOfSeq
    <3> QED BY <3>2 DEF Last, Digits
  <2> HIDE DEF a, d
  <2>3. p \in Nat
    BY <2>1, SheetToolsAssumption
  <2> HIDE DEF p
  <2> QED BY <2>1, <2>2, <2>3
<1>5. ASSUME NEW ls \in Seq(Digits), NEW d \in Digits
      PROVE  Append(ls, d) \in Seq(Digits) /\ ColumnNumber[Append(ls, d)] = ColumnNumber[ls] * Base + d + 1
  <2> DEFINE t == Append(ls, d)
  <2>1. t \in Seq(Digits) /\ t # <<>> /\ Last(t) = d /\ Len(t) = Len(ls) + 1
    BY DEF Last
  <2>2. Front(t) = ls
    <3>1. Front(t) \in Seq(Digits) /\ Len(Front(t)) = Len(ls)
      <4>1. Len(ls) \in Nat /\ Len(ls) + 1 - 1 = Len(ls)
        OBVIOUS
      <4> HIDE DEF t
      <4>2. Front(t) \in Seq(Digits) /\ Len(Front(t)) = Len(t) - 1
        BY <2>1, IndexAppends
      <4> QED BY <2>1, <4>1, <4>2
    <3>2. \A i \in 1 .. Len(ls) : Front(t)[i] = ls[i]
      BY <2>1 DEF Front
    <3> HIDE DEF t
    <3> QED BY <3>1, <3>2, SeqEqual
  <2> HIDE DEF t
  <2>3. ColumnNumber[t] = ColumnNumber[Front(t)] * Base + Last(t) + 1
    BY <1>2, <2>1
  <2> QED BY <2>1, <2>2, <2>3 DEF t
<1> QED BY <1>1, <1>3, <1>4, <1>5

\* What is left to write after the last letter.
Carry(n) == (n \div Base) - 1
\* n is its last letter m and a smaller column j.
Split(n, j, m) == m \in Digits /\ j \in 0 .. n - 1 /\ (j + 1) * Base + m + 1 = n + 1

\* The next digit and what is left to write, which is a smaller column.
LEMMA Splits ==
    ASSUME NEW n, n \in Nat, n >= Base
    PROVE  Split(n, Carry(n), n % Base)
<1>1. Base \in Nat /\ Base >= 2
  BY SheetToolsAssumption
<1> DEFINE d == n \div Base
           m == n % Base
<1>2. m \in 0 .. Base - 1 /\ n = Base * d + m /\ d \in Int
  BY <1>1
<1>0. Carry(n) = d - 1
  BY DEF Carry
<1> HIDE DEF d, m
<1>3. d >= 1
  BY <1>1, <1>2
<1>4. d <= n
  BY <1>1, <1>2, <1>3
<1>5. (d - 1 + 1) * Base = Base * d
  BY <1>1, <1>2
<1>6. Split(n, d - 1, m)
  BY <1>2, <1>3, <1>4, <1>5 DEF Digits, Split
<1> QED BY <1>6, <1>0 DEF m

\* The equation of columnLetter, and a function that satisfies it.
Letter(f, n) == IF n < Base THEN <<n>> ELSE Append(f[Carry(n)], n % Base)
\* f does up to k.
Lettered(f, k) == f \in [0 .. k -> Seq(Digits)] /\ \A n \in 0 .. k : f[n] = Letter(f, n)

\* One letter.
LEMMA OneDigit == ASSUME NEW n, n \in Nat, n < Base PROVE <<n>> \in Seq(Digits)
<1>1. n \in Digits
  BY SheetToolsAssumption DEF Digits
<1> QED BY <1>1

\* The letters of one column more.
LEMMA LetterMore ==
    ASSUME NEW k, NEW f, k \in Nat, Lettered(f, k)
    PROVE  \E h : Lettered(h, k + 1)
<1> DEFINE n1 == k + 1
           v == Letter(f, n1)
           h == [n \in 0 .. n1 |-> IF n = n1 THEN v ELSE f[n]]
<1>0. n1 \in Nat /\ \A n \in 0 .. n1 : n = n1 \/ n \in 0 .. k
  OBVIOUS
<1>1. Base \in Nat /\ f \in [0 .. k -> Seq(Digits)] /\ 0 .. n1 - 1 = 0 .. k
  BY SheetToolsAssumption DEF Lettered
<1> HIDE DEF n1
<1>2. v \in Seq(Digits)
  <2>1. CASE n1 < Base
    BY <2>1, <1>0, OneDigit DEF Letter
  <2>2. CASE ~ (n1 < Base)
    <3>1. n1 >= Base
      BY <2>2, <1>0, <1>1
    <3>2. Split(n1, Carry(n1), n1 % Base)
      BY <3>1, <1>0, Splits
    <3> DEFINE j == Carry(n1)
               m == n1 % Base
    <3>3. v = Append(f[j], m)
      BY <2>2 DEF Letter
    <3>4. j \in 0 .. k /\ m \in Digits
      BY <3>2, <1>1 DEF Split
    <3> HIDE DEF j, m, v
    <3>5. f[j] \in Seq(Digits)
      BY <3>4, <1>1
    <3> QED BY <3>3, <3>4, <3>5
  <2> QED BY <2>1, <2>2
<1>3. v = Letter(f, n1)
  OBVIOUS
<1> HIDE DEF v
<1>4. h \in [0 .. n1 -> Seq(Digits)]
  BY <1>0, <1>1, <1>2
<1>5. h[n1] = v /\ \A n \in 0 .. k : h[n] = f[n]
  BY <1>0 DEF n1
<1> HIDE DEF h
<1>6. ASSUME NEW n \in 0 .. n1 PROVE h[n] = Letter(h, n)
  <2>0. n \in Nat /\ 0 .. n - 1 \subseteq 0 .. k
    BY <1>0 DEF n1
  <2>1. Letter(h, n) = Letter(f, n)
    <3>1. CASE n < Base
      BY <3>1 DEF Letter
    <3>2. CASE ~ (n < Base)
      <4>1. n >= Base
        BY <3>2, <2>0, <1>1
      <4>2. Split(n, Carry(n), n % Base)
        BY <4>1, <2>0, Splits
      <4>3. Carry(n) \in 0 .. k
        BY <4>2, <2>0 DEF Split
      <4>4. h[Carry(n)] = f[Carry(n)]
        BY <4>3, <1>5
      <4> QED BY <3>2, <4>4 DEF Letter
    <3> QED BY <3>1, <3>2
  <2>2. CASE n = n1
    BY <2>1, <2>2, <1>3, <1>5
  <2>3. CASE n # n1
    <3>1. n \in 0 .. k
      BY <1>0, <2>3
    <3>2. h[n] = f[n] /\ f[n] = Letter(f, n)
      BY <3>1, <1>5 DEF Lettered
    <3> QED BY <2>1, <3>2
  <2> QED BY <2>2, <2>3
<1>7. Lettered(h, n1)
  BY <1>4, <1>6 DEF Lettered
<1> QED BY <1>7 DEF n1

\* columnLetter satisfies its own equation.
LEMMA ColumnLettered == Lettered(columnLetter, MaxColumn)
<1> DEFINE S == {k \in Nat : \E f : Lettered(f, k)}
           Eq(f) == f = [n \in 0 .. MaxColumn |->
                            IF n < Base THEN <<n>> ELSE Append(f[(n \div Base) - 1], n % Base)]
           c == CHOOSE f : Eq(f)
<1>1. Base \in Nat /\ Base >= 2 /\ MaxColumn \in Nat
  BY SheetToolsAssumption
<1>3. 0 \in S
  <2> DEFINE f == [n \in 0 .. 0 |-> <<0>>]
  <2>0. <<0>> \in Seq(Digits)
    BY <1>1, OneDigit
  <2>1. f \in [0 .. 0 -> Seq(Digits)]
    BY <2>0
  <2>2. ASSUME NEW n \in 0 .. 0 PROVE f[n] = Letter(f, n)
    <3>1. n = 0 /\ n < Base
      BY <1>1
    <3> QED BY <3>1 DEF Letter
  <2> HIDE DEF f
  <2>3. Lettered(f, 0)
    BY <2>1, <2>2 DEF Lettered
  <2> QED BY <2>3
<1>4. ASSUME NEW k \in Nat, k \in S PROVE k + 1 \in S
  <2>1. PICK f : Lettered(f, k)
    BY <1>4
  <2>2. PICK h : Lettered(h, k + 1)
    BY <2>1, LetterMore
  <2> QED BY <2>2
<1>5. MaxColumn \in S
  <2> HIDE DEF S
  <2> QED BY <1>1, <1>3, <1>4, NatSet
<1>6. PICK f : Lettered(f, MaxColumn)
  BY <1>5
<1>7. Eq(f)
  <2>1. f = [n \in 0 .. MaxColumn |-> f[n]] /\ \A n \in 0 .. MaxColumn : f[n] = Letter(f, n)
    BY <1>6 DEF Lettered
  <2>2. f = [n \in 0 .. MaxColumn |-> Letter(f, n)]
    BY <2>1
  <2> QED BY <2>2 DEF Letter, Carry
<1>8. columnLetter = c
  BY DEF columnLetter
<1>9. Eq(c)
  <2> HIDE DEF Eq
  <2> QED BY <1>7
<1>10. c = [n \in 0 .. MaxColumn |-> Letter(c, n)]
  BY <1>9 DEF Letter, Carry
<1> HIDE DEF c, Eq, S
<1>11. ASSUME NEW n \in 0 .. MaxColumn PROVE c[n] = Letter(c, n)
  <2> DEFINE d == [i \in 0 .. MaxColumn |-> Letter(c, i)]
  <2>1. d[n] = Letter(c, n)
    OBVIOUS
  <2>2. c = d
    BY <1>10
  <2> HIDE DEF d
  <2> QED BY <2>1, <2>2
<1>12. \A n \in 0 .. MaxColumn : c[n] = f[n]
  <2> DEFINE T == {n \in Nat : \A i \in 0 .. MaxColumn : i < n => c[i] = f[i]}
  <2>1. 0 \in T
    OBVIOUS
  <2>2. ASSUME NEW n \in Nat, n \in T PROVE n + 1 \in T
    <3>1. ASSUME NEW i \in 0 .. MaxColumn, i < n + 1 PROVE c[i] = f[i]
      <4>0. i \in Nat /\ \A j \in 0 .. i - 1 : j \in 0 .. MaxColumn /\ j < n
        BY <3>1, <1>1
      <4>1. c[i] = Letter(c, i) /\ f[i] = Letter(f, i)
        BY <1>6, <1>11 DEF Lettered
      <4>2. CASE i < Base
        BY <4>1, <4>2 DEF Letter
      <4>3. CASE ~ (i < Base)
        <5>1. i >= Base
          BY <4>3, <4>0, <1>1
        <5>2. Split(i, Carry(i), i % Base)
          BY <5>1, <4>0, Splits
        <5>3. Carry(i) \in 0 .. MaxColumn /\ Carry(i) < n
          BY <5>2, <4>0 DEF Split
        <5>4. c[Carry(i)] = f[Carry(i)]
          BY <5>3, <2>2
        <5> QED BY <4>1, <4>3, <5>4 DEF Letter
      <4> QED BY <4>2, <4>3
    <3> QED BY <3>1
  <2>3. Nat \subseteq T
    <3> HIDE DEF T
    <3> QED BY <2>1, <2>2, NatSet
  <2>4. MaxColumn + 1 \in T /\ \A i \in 0 .. MaxColumn : i < MaxColumn + 1
    <3>1. MaxColumn + 1 \in Nat
      BY <1>1
    <3> HIDE DEF T
    <3> QED BY <2>3, <3>1, <1>1
  <2> QED BY <2>4
<1>13. c = [n \in 0 .. MaxColumn |-> c[n]] /\ f \in [0 .. MaxColumn -> Seq(Digits)]
  <2>1. DOMAIN c = 0 .. MaxColumn
    BY <1>10
  <2>2. c = [n \in DOMAIN c |-> c[n]]
    BY <1>10
  <2> QED BY <2>1, <2>2, <1>6 DEF Lettered
<1>14. c \in [0 .. MaxColumn -> Seq(Digits)]
  BY <1>12, <1>13
<1>15. Lettered(c, MaxColumn)
  BY <1>11, <1>14 DEF Lettered
<1> QED BY <1>8, <1>15

\* The letters of a column are a numeral for its number.
LEMMA ColumnLetterDef ==
    \A n \in 0 .. MaxColumn :
        /\ columnLetter[n] \in Seq(Digits) /\ columnLetter[n] # <<>>
        /\ ColumnNumber[columnLetter[n]] = n + 1
<1> DEFINE c == columnLetter
           Fine(n) == c[n] # <<>> /\ ColumnNumber[c[n]] = n + 1
           T == {n \in Nat : \A i \in 0 .. MaxColumn : i < n => Fine(i)}
<1>1. Base \in Nat /\ Base >= 2 /\ MaxColumn \in Nat
  BY SheetToolsAssumption
<1>2. c \in [0 .. MaxColumn -> Seq(Digits)] /\ \A n \in 0 .. MaxColumn : c[n] = Letter(c, n)
  BY ColumnLettered DEF Lettered
<1> HIDE DEF c
<1>3. 0 \in T
  OBVIOUS
<1>4. ASSUME NEW n \in Nat, n \in T PROVE n + 1 \in T
  <2>1. ASSUME NEW i \in 0 .. MaxColumn, i < n + 1 PROVE Fine(i)
    <3>0. i \in Nat /\ \A j \in 0 .. i - 1 : j \in 0 .. MaxColumn /\ j < n
      BY <2>1, <1>1
    <3>1. c[i] = Letter(c, i)
      BY <1>2
    <3>2. CASE i < Base
      <4> DEFINE e == <<>>
                 t == Append(e, i)
      <4>1. c[i] = t /\ t # <<>>
        BY <3>1, <3>2 DEF Letter
      <4>2. i \in Digits /\ e \in Seq(Digits)
        BY <3>0, <3>2, <1>1 DEF Digits
      <4>3. ColumnNumber[e] = 0
        BY ColumnNumberSteps
      <4> HIDE DEF e
      <4>4. ColumnNumber[t] = ColumnNumber[e] * Base + i + 1
        BY <4>2, ColumnNumberSteps
      <4> HIDE DEF t
      <4>5. ColumnNumber[t] = i + 1
        BY <4>3, <4>4, <1>1, <3>0
      <4> QED BY <4>1, <4>5
    <3>3. CASE ~ (i < Base)
      <4> DEFINE j == Carry(i)
                 m == i % Base
                 u == c[j]
                 t == Append(u, m)
      <4>1. i >= Base
        BY <3>3, <3>0, <1>1
      <4>2. Split(i, j, m)
        BY <4>1, <3>0, Splits
      <4>3. c[i] = t
        BY <3>1, <3>3 DEF Letter
      <4> HIDE DEF j, m
      <4>4. j \in 0 .. MaxColumn /\ j < n /\ m \in Digits
        BY <4>2, <3>0 DEF Split
      <4>5. Fine(j) /\ u \in Seq(Digits)
        BY <4>4, <1>4, <1>2
      <4>6. ColumnNumber[u] = j + 1
        BY <4>5
      <4> HIDE DEF u
      <4>7. ColumnNumber[t] = ColumnNumber[u] * Base + m + 1
        BY <4>4, <4>5, ColumnNumberSteps
      <4>8. t # <<>>
        BY <4>4, <4>5
      <4> HIDE DEF t
      <4>9. ColumnNumber[t] = i + 1
        BY <4>2, <4>6, <4>7 DEF Split
      <4> QED BY <4>3, <4>8, <4>9
    <3> QED BY <3>2, <3>3
  <2> HIDE DEF Fine
  <2> QED BY <2>1
<1>5. Nat \subseteq T
  <2> HIDE DEF T
  <2> QED BY <1>3, <1>4, NatSet
<1>6. MaxColumn + 1 \in T /\ \A i \in 0 .. MaxColumn : i < MaxColumn + 1
  <2>1. MaxColumn + 1 \in Nat
    BY <1>1
  <2> HIDE DEF T
  <2> QED BY <1>5, <2>1, <1>1
<1>7. \A n \in 0 .. MaxColumn : Fine(n)
  <2> HIDE DEF Fine
  <2> QED BY <1>6
<1> QED BY <1>2, <1>7 DEF c

\* What a half of a range is, in terms of the number of its column.
Half(h, a) ==
    /\ a \in Nat /\ h.row \in Int /\ columnIndex(h.letters) = a - 1
    /\ (h.letters = <<>>) = (a = 0)
    /\ (classifyA1Ref(h) = "row") = (h.row >= 1 /\ a = 0)
    /\ (classifyA1Ref(h) = "full") = (h.row >= 1 /\ a >= 1 /\ a <= MaxColumn + 1)

\* classifyA1Ref, in terms of the numeral.
LEMMA HalfKind ==
    ASSUME NEW h, h \in Halves
    PROVE  Half(h, ColumnNumber[h.letters])
<1> DEFINE ls == h.letters
           a == ColumnNumber[ls]
           e == <<>>
           n == h.row
<1>1. Letters \subseteq Seq(Digits)
  <2>1. \A k \in 0 .. MaxLetters : [1 .. k -> Digits] \subseteq Seq(Digits)
    <3>1. \A k \in 0 .. MaxLetters : k \in Nat
      BY SheetToolsAssumption
    <3> QED BY <3>1, SeqDef
  <2> QED BY <2>1 DEF Letters, Digits
<1>2. ls \in Seq(Digits) /\ n \in Int
  <2>1. ls \in Letters /\ n \in RangeRows \cup {NoRows}
    BY DEF Halves
  <2>2. RangeRows \subseteq Nat /\ NoRows \in Int
    BY SheetToolsAssumption DEF NoRows
  <2> HIDE DEF ls, n
  <2> QED BY <1>1, <2>1, <2>2
<1>3. ColumnNumber[e] = 0
  BY ColumnNumberSteps
<1> HIDE DEF e, ls, n
<1>4. /\ a \in Nat
      /\ ls # <<>> => a >= 1
      /\ columnIndex(ls) + 1 = a
  BY <1>2, ColumnNumberSteps, ColumnNumberDef
<1>5. ls = <<>> => a = 0
  <2>1. ls = e => a = 0
    BY <1>3
  <2> QED BY <2>1 DEF e
<1>6. columnIndex(ls) = a - 1
  <2>1. columnIndex(ls) \in Int
    <3>1. PICK k : IndexDef(ls, k)
      BY <1>2, ColumnIndexDef
    <3>2. k[Len(ls)] \in Nat /\ columnIndex(ls) = k[Len(ls)] - 1
      BY <3>1, <1>2 DEF IndexDef
    <3> QED BY <3>2
  <2> QED BY <2>1, <1>4
<1> DEFINE x == columnIndex(ls)
           none == ls = <<>>
           cl == IF ~ none /\ n = -1 THEN "column"
                 ELSE IF n < 1 THEN "invalid"
                 ELSE IF none THEN "row"
                 ELSE IF x > MaxColumn THEN "invalid" ELSE "full"
<1>7. classifyA1Ref(h) = cl
  BY DEF classifyA1Ref, NoRows, ls, n
<1>8. none \in BOOLEAN /\ none = (a = 0) /\ x = a - 1 /\ MaxColumn \in Nat
  BY <1>4, <1>5, <1>6, SheetToolsAssumption
<1> HIDE DEF x, none, a
<1>9. /\ (cl = "row") = (n >= 1 /\ a = 0)
      /\ (cl = "full") = (n >= 1 /\ a >= 1 /\ a <= MaxColumn + 1)
  <2>1. CASE n < 1
    <3>1. cl \in {"column", "invalid"} /\ ~ (n >= 1)
      BY <2>1, <1>2
    <3> HIDE DEF cl
    <3> QED BY <3>1
  <2>2. CASE n >= 1 /\ none
    <3>1. ~ (n < 1)
      BY <2>2, <1>2
    <3>2. cl = "row"
      BY <3>1, <2>2
    <3>3. a = 0
      BY <2>2, <1>8
    <3> HIDE DEF cl
    <3> QED BY <3>2, <3>3, <2>2
  <2>3. CASE n >= 1 /\ ~ none /\ x > MaxColumn
    <3>1. cl = "invalid" /\ a # 0 /\ ~ (a <= MaxColumn + 1)
      BY <2>3, <1>2, <1>4, <1>8
    <3> HIDE DEF cl
    <3> QED BY <3>1
  <2>4. CASE n >= 1 /\ ~ none /\ ~ (x > MaxColumn)
    <3>1. ~ (n < 1) /\ n # -1
      BY <2>4, <1>2
    <3>2. cl = "full"
      BY <3>1, <2>4
    <3>3. a # 0
      BY <2>4, <1>8
    <3>4. a >= 1 /\ a <= MaxColumn + 1
      <4>1. a \in Nat /\ MaxColumn \in Nat /\ ~ (a - 1 > MaxColumn)
        BY <2>4, <1>4, <1>8
      <4> QED BY <4>1, <3>3
    <3> HIDE DEF cl
    <3> QED BY <3>2, <3>3, <3>4, <2>4
  <2> QED BY <2>1, <2>2, <2>3, <2>4, <1>2, <1>8
<1> QED BY <1>2, <1>4, <1>6, <1>7, <1>8, <1>9 DEF Half, ls, n, x, none, a

\* A block of cells: the range as parsed, as resolved, and the cells asked for.
Block(p, q, ask, c1, c2, r1, r2) ==
    /\ c1 \in 0 .. MaxColumn /\ c2 \in c1 .. MaxColumn
    /\ r1 \in Nat /\ r1 >= 1 /\ r2 \in Nat /\ r1 <= r2
    /\ q = Rect(c1, c2, r1, r2)
    /\ p = q \/ p = Rect(-1, -1, r1, r2)
    /\ ask = (c1 + 1 .. c2 + 1) \X (r1 .. r2)

\* The cells asked for, of the corners and the width.
AskedOf(l, r, w) ==
    LET rows == Least(l.row, r.row) .. Most(l.row, r.row)
        a == ColumnNumber[l.letters]  b == ColumnNumber[r.letters]
    IN IF l.letters = <<>> THEN (1 .. Most(w, 1)) \X rows
       ELSE (Least(a, b) .. Most(a, b)) \X rows

\* Whether the corners are a bounded block.
BoundedOf(l, r) ==
    /\ l.row >= 1 /\ r.row >= 1 /\ (l.letters = <<>>) = (r.letters = <<>>)
    /\ ColumnNumber[l.letters] <= MaxColumn + 1 /\ ColumnNumber[r.letters] <= MaxColumn + 1

\* Corners that name no bounded block are refused.
LEMMA Unbounded ==
    ASSUME NEW l, NEW r, l \in Halves, r \in Halves, ~ BoundedOf(l, r)
    PROVE  ParseA1Range(l, r) = Refused
<1> DEFINE a == ColumnNumber[l.letters]
           b == ColumnNumber[r.letters]
           k == classifyA1Ref(l)
           j == classifyA1Ref(r)
           m == l.row
           n == r.row
<1>1. Half(l, a) /\ Half(r, b)
  BY HalfKind
<1>2. ~ (m >= 1 /\ n >= 1 /\ (a = 0) = (b = 0) /\ a <= MaxColumn + 1 /\ b <= MaxColumn + 1)
  BY <1>1 DEF Half, BoundedOf
<1>3. /\ a \in Nat /\ b \in Nat /\ m \in Int /\ n \in Int /\ MaxColumn \in Nat
      /\ (k = "row") = (m >= 1 /\ a = 0)
      /\ (k = "full") = (m >= 1 /\ a >= 1 /\ a <= MaxColumn + 1)
      /\ (j = "row") = (n >= 1 /\ b = 0)
      /\ (j = "full") = (n >= 1 /\ b >= 1 /\ b <= MaxColumn + 1)
  BY <1>1, SheetToolsAssumption DEF Half
<1> HIDE DEF a, b, k, j, m, n
<1>4. k # j \/ (k # "row" /\ k # "full")
  BY <1>2, <1>3
<1>5. k # j \/ k \notin {"row", "full"}
  BY <1>4
<1> QED BY <1>5 DEF ParseA1Range, k, j

\* Corners that do are parsed and resolved to it.
LEMMA BoundedBlock ==
    ASSUME NEW l, NEW r, NEW w, l \in Halves, r \in Halves, w \in Widths, BoundedOf(l, r)
    PROVE  \E c1, c2 : Block(ParseA1Range(l, r), Resolve(ParseA1Range(l, r), w), AskedOf(l, r, w),
                             c1, c2, Least(l.row, r.row), Most(l.row, r.row))
<1> DEFINE a == ColumnNumber[l.letters]
           b == ColumnNumber[r.letters]
           k == classifyA1Ref(l)
           j == classifyA1Ref(r)
           m == l.row
           n == r.row
           r1 == Least(m, n)
           r2 == Most(m, n)
           p == ParseA1Range(l, r)
           q == Resolve(p, w)
           ask == AskedOf(l, r, w)
<1>1. Half(l, a) /\ Half(r, b)
  BY HalfKind
<1>2. m >= 1 /\ n >= 1 /\ (a = 0) = (b = 0) /\ a <= MaxColumn + 1 /\ b <= MaxColumn + 1
  BY <1>1 DEF Half, BoundedOf
<1>3. /\ a \in Nat /\ b \in Nat /\ m \in Int /\ n \in Int /\ MaxColumn \in Nat
      /\ (k = "row") = (m >= 1 /\ a = 0)
      /\ (k = "full") = (m >= 1 /\ a >= 1 /\ a <= MaxColumn + 1)
      /\ (j = "row") = (n >= 1 /\ b = 0)
      /\ (j = "full") = (n >= 1 /\ b >= 1 /\ b <= MaxColumn + 1)
      /\ (l.letters = <<>>) = (a = 0)
      /\ columnIndex(l.letters) = a - 1 /\ columnIndex(r.letters) = b - 1
      /\ w \in 0 .. MaxColumn + 1
  BY <1>1, SheetToolsAssumption DEF Half
<1>4. ask = IF a = 0 THEN (1 .. Most(w, 1)) \X (r1 .. r2) ELSE (Least(a, b) .. Most(a, b)) \X (r1 .. r2)
  BY <1>3 DEF AskedOf
<1>5. k = j /\ k \in {"row", "full"} =>
        p = LET c1 == IF k = "row" THEN -1 ELSE a - 1
                c2 == IF k = "row" THEN -1 ELSE b - 1
            IN Rect(Least(c1, c2), Most(c1, c2), r1, r2)
  BY <1>3 DEF ParseA1Range
<1> HIDE DEF a, b, k, j, m, n, p, ask
<1>6. r1 \in Nat /\ r1 >= 1 /\ r2 \in Nat /\ r1 <= r2
  BY <1>2, <1>3 DEF Least, Most
<1> HIDE DEF r1, r2
<1>7. CASE a = 0
  <2>1. k = "row" /\ j = "row"
    BY <1>2, <1>3, <1>7
  <2>2. p = Rect(-1, -1, r1, r2)
    BY <1>5, <2>1 DEF Least, Most
  <2> DEFINE c2 == Most(w - 1, 0)
  <2>3. c2 \in 0 .. MaxColumn /\ Most(w, 1) = c2 + 1
    BY <1>3 DEF Most
  <2>4. q = Rect(0, c2, r1, r2)
    <3>1. p.cols[1] < 0
      BY <2>2 DEF Rect
    <3> HIDE DEF c2
    <3>2. [p EXCEPT !.cols = <<0, c2>>] = Rect(0, c2, r1, r2)
      BY <2>2 DEF Rect
    <3> QED BY <3>1, <3>2 DEF Resolve, c2
  <2>5. ask = (0 + 1 .. c2 + 1) \X (r1 .. r2)
    BY <1>4, <1>7, <2>3
  <2> HIDE DEF c2, q
  <2>6. Block(p, q, ask, 0, c2, r1, r2)
    BY <2>2, <2>3, <2>4, <2>5, <1>3, <1>6 DEF Block
  <2> QED BY <2>6 DEF p, q, ask, r1, r2, m, n
<1>8. CASE a # 0
  <2>1. k = "full" /\ j = "full"
    BY <1>2, <1>3, <1>8
  <2> DEFINE c1 == Least(a - 1, b - 1)
             c2 == Most(a - 1, b - 1)
  <2>2. p = Rect(c1, c2, r1, r2)
    BY <1>5, <2>1
  <2>3. /\ c1 \in 0 .. MaxColumn /\ c2 \in c1 .. MaxColumn
        /\ Least(a, b) = c1 + 1 /\ Most(a, b) = c2 + 1
    BY <1>2, <1>3, <1>8 DEF Least, Most
  <2> HIDE DEF c1, c2
  <2>4. q = p
    <3>1. p.cols[1] = c1
      BY <2>2 DEF Rect
    <3>2. ~ (c1 < 0)
      BY <2>3, <1>3
    <3> QED BY <3>1, <3>2 DEF Resolve
  <2>5. ask = (c1 + 1 .. c2 + 1) \X (r1 .. r2)
    BY <1>4, <1>8, <2>3
  <2> HIDE DEF q
  <2>6. Block(p, q, ask, c1, c2, r1, r2)
    BY <2>2, <2>3, <2>4, <2>5, <1>3, <1>6 DEF Block
  <2> QED BY <2>6 DEF p, q, ask, r1, r2, m, n
<1> QED BY <1>7, <1>8

\* The two checks of the size count the cells of the block.
LEMMA BlockSize ==
    ASSUME NEW p, NEW q, NEW ask, NEW c1, NEW c2, NEW r1, NEW r2, Block(p, q, ask, c1, c2, r1, r2)
    PROVE  /\ p # Refused
           /\ (checkRangeSize(p) /\ checkRangeSize(q))
                = (r2 - r1 < MaxReadRangeRows /\ Cardinality(ask) <= MaxReadRangeCells)
<1>1. /\ c1 \in Nat /\ c2 \in Nat /\ c1 <= c2 /\ r1 \in Nat /\ r1 >= 1 /\ r2 \in Nat /\ r1 <= r2
      /\ MaxReadRangeRows \in Nat /\ MaxReadRangeCells \in Nat
  BY SheetToolsAssumption DEF Block
<1>2. /\ q = Rect(c1, c2, r1, r2)
      /\ p = q \/ p = Rect(-1, -1, r1, r2)
      /\ ask = (c1 + 1 .. c2 + 1) \X (r1 .. r2)
  BY DEF Block
<1> DEFINE rows == r2 - r1 + 1
           cols == c2 - c1 + 1
           small == rows <= MaxReadRangeRows
           few == rows * cols <= MaxReadRangeCells
<1>3. p # Refused
  <2>1. p.rows[1] = r1
    BY <1>2 DEF Rect
  <2>2. Refused.rows[1] = 0
    BY DEF Refused, Rect
  <2> QED BY <1>1, <2>1, <2>2
<1>4. Cardinality(ask) = rows * cols
  <2> DEFINE C == c1 + 1 .. c2 + 1
             R == r1 .. r2
  <2>1. IsFiniteSet(C) /\ Cardinality(C) = cols
    <3> DEFINE x == c1 + 1
               y == c2 + 1
    <3>1. x \in Int /\ y \in Int /\ ~ (x > y) /\ y - x + 1 = cols /\ C = x .. y
      BY <1>1
    <3> HIDE DEF x, y, C, cols
    <3>2. x \in Int /\ y \in Int => Cardinality(x .. y) = IF x > y THEN 0 ELSE y - x + 1
      BY FS_Interval
    <3>3. x \in Int /\ y \in Int => IsFiniteSet(x .. y)
      BY FS_Interval
    <3> QED BY <3>1, <3>2, <3>3
  <2>2. IsFiniteSet(R) /\ Cardinality(R) = rows
    <3>1. r1 \in Int /\ r2 \in Int /\ ~ (r1 > r2)
      BY <1>1
    <3> QED BY <3>1, FS_Interval
  <2> HIDE DEF C, R
  <2>3. Cardinality(C \X R) = Cardinality(C) * Cardinality(R)
    BY <2>1, <2>2, FS_Product
  <2>4. cols * rows = rows * cols
    BY <1>1
  <2>5. ask = C \X R
    BY <1>2 DEF C, R
  <2> QED BY <2>1, <2>2, <2>3, <2>4, <2>5
<1>5. small = (r2 - r1 < MaxReadRangeRows)
  BY <1>1
<1>6. checkRangeSize(q) = (small /\ few)
  <2>1. q.rows[1] = r1 /\ q.rows[2] = r2 /\ q.cols[1] = c1 /\ q.cols[2] = c2
    BY <1>2 DEF Rect
  <2>2. c1 >= 0
    BY <1>1
  <2> QED BY <2>1, <2>2 DEF checkRangeSize, RowSpan, ColSpan
<1>7. (small /\ few) => checkRangeSize(p)
  <2>1. CASE p = q
    BY <2>1, <1>6
  <2>2. CASE p = Rect(-1, -1, r1, r2)
    <3>1. p.rows[1] = r1 /\ p.rows[2] = r2 /\ p.cols[1] = -1
      BY <2>2 DEF Rect
    <3>2. ~ (-1 >= 0)
      OBVIOUS
    <3> QED BY <3>1, <3>2 DEF checkRangeSize, RowSpan
  <2> QED BY <1>2, <2>1, <2>2
<1> HIDE DEF small
<1>8. few = (Cardinality(ask) <= MaxReadRangeCells)
  BY <1>4
<1> HIDE DEF few
<1> QED BY <1>3, <1>5, <1>6, <1>7, <1>8

\* The block that is sent is written in the letters of its columns.
LEMMA BlockSent ==
    ASSUME NEW p, NEW q, NEW ask, NEW c1, NEW c2, NEW r1, NEW r2, Block(p, q, ask, c1, c2, r1, r2),
           NEW s, s = formatA1Range(q)
    PROVE  /\ s # NotSent
           /\ (ColumnNumber[s.from.letters] .. ColumnNumber[s.to.letters]) \X (s.from.row .. s.to.row) = ask
           /\ \A i \in 1 .. Len(s.columns) :
                 ColumnNumber[s.columns[i]] = ColumnNumber[s.from.letters] + i - 1
<1>1. /\ c1 \in 0 .. MaxColumn /\ c2 \in 0 .. MaxColumn /\ c1 <= c2 /\ r1 \in Nat /\ r1 >= 1
      /\ MaxColumn \in Nat /\ q = Rect(c1, c2, r1, r2) /\ ask = (c1 + 1 .. c2 + 1) \X (r1 .. r2)
  BY SheetToolsAssumption DEF Block
<1>2. q.rows[1] = r1 /\ q.rows[2] = r2 /\ q.cols[1] = c1 /\ q.cols[2] = c2
  BY <1>1 DEF Rect
<1> DEFINE n == c2 - c1 + 1
<1>3. /\ s.from.letters = columnLetter[c1] /\ s.from.row = r1
      /\ s.to.letters = columnLetter[c2] /\ s.to.row = r2
      /\ s.columns = [i \in 1 .. n |-> columnLetter[c1 + i - 1]]
  BY <1>2 DEF formatA1Range, ColSpan
<1>4. ColumnNumber[s.from.letters] = c1 + 1 /\ ColumnNumber[s.to.letters] = c2 + 1
  BY <1>1, <1>3, ColumnLetterDef
<1>5. s # NotSent
  <2>1. NotSent.from.row = 0
    BY DEF NotSent
  <2> QED BY <1>1, <1>3, <2>1
<1>6. n \in Nat /\ \A i \in 1 .. n : c1 + i - 1 \in 0 .. MaxColumn /\ c1 + i - 1 + 1 = c1 + 1 + i - 1
  BY <1>1
<1> HIDE DEF n
<1>7. Len(s.columns) = n
  <2>1. \A i \in 1 .. n : columnLetter[c1 + i - 1] \in Seq(Digits)
    BY <1>6, ColumnLetterDef
  <2> QED BY <1>3, <1>6, <2>1
<1>8. ASSUME NEW i \in 1 .. n PROVE ColumnNumber[s.columns[i]] = c1 + 1 + i - 1
  <2>1. s.columns[i] = columnLetter[c1 + i - 1]
    BY <1>3
  <2> QED BY <2>1, <1>6, ColumnLetterDef
<1>9. (ColumnNumber[s.from.letters] .. ColumnNumber[s.to.letters]) \X (s.from.row .. s.to.row) = ask
  BY <1>1, <1>3, <1>4
<1>10. \A i \in 1 .. Len(s.columns) :
          ColumnNumber[s.columns[i]] = ColumnNumber[s.from.letters] + i - 1
  BY <1>4, <1>7, <1>8
<1> QED BY <1>5, <1>9, <1>10

\* What readRange sends.
Outcome(l, r, w) ==
    LET parsed == ParseA1Range(l, r)
        whole == Resolve(parsed, w)
    IN IF parsed # Refused /\ checkRangeSize(parsed) /\ checkRangeSize(whole)
       THEN formatA1Range(whole) ELSE NotSent

\* Every answer to a range is the outcome of its corners and of the tab's width.
RangeInd ==
    \/ range = NoRange
    \/ \E l, r \in Halves, w \in Widths :
          range = [left |-> l, right |-> r, width |-> w, sent |-> Outcome(l, r, w)]

\* The invariant is what RangeFaithful says, and more.
LEMMA FaithfulFromInd == RangeInd => RangeFaithful
<1> SUFFICES ASSUME RangeInd, range # NoRange PROVE RangeFaithful
  BY DEF RangeFaithful
<1>1. PICK l \in Halves, r \in Halves, w \in Widths :
          range = [left |-> l, right |-> r, width |-> w, sent |-> Outcome(l, r, w)]
  BY DEF RangeInd
<1> DEFINE s == range.sent
           p == ParseA1Range(l, r)
           q == Resolve(p, w)
           ask == AskedOf(l, r, w)
           r1 == Least(l.row, r.row)
           r2 == Most(l.row, r.row)
           fits == BoundedOf(l, r) /\ r2 - r1 < MaxReadRangeRows /\ Cardinality(ask) <= MaxReadRangeCells
<1>2. range.left = l /\ range.right = r /\ range.width = w /\ s = Outcome(l, r, w)
  BY <1>1
<1>3. Asked = ask /\ Bounded = BoundedOf(l, r)
  BY <1>2 DEF Asked, Bounded, AskedOf, BoundedOf
<1>4. s = IF p # Refused /\ checkRangeSize(p) /\ checkRangeSize(q) THEN formatA1Range(q) ELSE NotSent
  BY <1>2 DEF Outcome
<1> HIDE DEF s, p, q, ask, r1, r2
<1>5. CASE ~ BoundedOf(l, r)
  <2>1. p = Refused
    BY <1>5, Unbounded DEF p
  <2>2. s = NotSent
    BY <1>4, <2>1
  <2> QED BY <1>2, <1>3, <1>5, <2>2 DEF RangeFaithful, s
<1>6. CASE BoundedOf(l, r)
  <2>1. PICK c1, c2 : Block(p, q, ask, c1, c2, r1, r2)
    BY <1>6, BoundedBlock DEF p, q, ask, r1, r2
  <2>2. p # Refused /\ (checkRangeSize(p) /\ checkRangeSize(q)) = (r2 - r1 < MaxReadRangeRows /\ Cardinality(ask) <= MaxReadRangeCells)
    BY <2>1, BlockSize
  <2>3. fits = (checkRangeSize(p) /\ checkRangeSize(q))
    BY <1>6, <2>2
  <2>4. s = IF fits THEN formatA1Range(q) ELSE NotSent
    BY <1>4, <2>2, <2>3
  <2> DEFINE faithful ==
        /\ (ColumnNumber[s.from.letters] .. ColumnNumber[s.to.letters]) \X (s.from.row .. s.to.row) = ask
        /\ \A i \in 1 .. Len(s.columns) :
              ColumnNumber[s.columns[i]] = ColumnNumber[s.from.letters] + i - 1
  <2>0. fits \in BOOLEAN
    OBVIOUS
  <2> HIDE DEF fits, faithful
  <2>5. fits => s = formatA1Range(q)
    BY <2>4
  <2>6. fits => s # NotSent /\ faithful
    BY <2>1, <2>5, BlockSent DEF faithful
  <2>7. (s # NotSent) = fits
    BY <2>0, <2>4, <2>6
  <2>8. fits = /\ Bounded
               /\ Most(range.left.row, range.right.row)
                     - Least(range.left.row, range.right.row) < MaxReadRangeRows
               /\ Cardinality(Asked) <= MaxReadRangeCells
    BY <1>2, <1>3 DEF fits, r1, r2
  <2> QED BY <2>6, <2>7, <2>8, <1>3 DEF RangeFaithful, s, faithful
<1> QED BY <1>5, <1>6

\* A range is set once, to its outcome.
LEMMA RangeStepKeeps ==
    ASSUME RangeInd, readRange \/ UNCHANGED range
    PROVE  RangeInd'
<1>1. CASE readRange
  BY <1>1 DEF readRange, RangeInd, Outcome
<1>2. CASE UNCHANGED range
  BY <1>2 DEF RangeInd, Outcome, ParseA1Range
<1> QED BY <1>1, <1>2

-----------------------------------------------------------------------------
(* What the scans and the ranges of the tools promise *)

\* Of a sheet of any length, any filter, any page size, budget and limit: an
\* agent that follows has_more is given the matches in order, none twice and
\* none left out, and is told the truth about what is left, unless a page of
\* the sheet ends in blank rows (query.go: queryRows).
THEOREM ScanHolds == SpecSheets => []ScanHonest
<1>1. InitSheets => ScanInd
  BY ScanInit
<1>2. ScanInd /\ [SheetStep]_sheetVars => ScanInd'
  BY ScanStepKeeps, ScanKept DEF SheetStep, readRange, TokenStep, sheetVars
<1>3. ScanInd => ScanHonest
  BY HonestFromInd
<1> QED BY <1>1, <1>2, <1>3, PTL DEF SpecSheets

\* Of letters of any length, any alphabet of at least two and any caps: what is
\* sent to Google is the block of cells between the corners that were given,
\* within the caps, and every such block is sent (readrange.go: ParseA1Range,
\* checkRangeSize, formatA1Range).
THEOREM RangeHolds == SpecSheets => []RangeFaithful
<1>1. InitSheets => RangeInd
  BY DEF InitSheets, RangeInd
<1>2. RangeInd /\ [SheetStep]_sheetVars => RangeInd'
  BY RangeStepKeeps DEF SheetStep, ScanStep, TokenStep, sheetVars
<1>3. RangeInd => RangeFaithful
  BY FaithfulFromInd
<1> QED BY <1>1, <1>2, <1>3, PTL DEF SpecSheets

=============================================================================
