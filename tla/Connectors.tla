----------------------------- MODULE Connectors -----------------------------
(***************************************************************************)
(* The connectors of all organizations: the requests that create, update,  *)
(* delete and probe one, and the connector-health job that sweeps a batch  *)
(* of them and mails the owner when one breaks.                            *)
(*                                                                         *)
(* Sweeps overlap: the lock of a job expires before a run has to end, so a *)
(* slow sweep, or a short CONNECTOR_HEALTH_INTERVAL, has another one begin *)
(* beside it, in this replica or another.                                  *)
(*                                                                         *)
(* Every step is one statement of the database; a probe of the upstream    *)
(* happens in the step that reads the row.  An id is used once, as the     *)
(* database draws it.  Names (unique in an organization, and otherwise     *)
(* only displayed) are not kept: a name that is taken ends a request, as   *)
(* any error does.  A configuration is the allowlist it carries; it is Lost *)
(* when it was sealed under a key that is gone.                            *)
(***************************************************************************)
EXTENDS Naturals, Sequences, FiniteSets, SequencesExt

CONSTANTS
    Conns,            \* connector ids
    Orgs, OrgOf(_),   \* the organization an id will belong to
    Configs,          \* configurations a customer may store
    Requests,         \* API requests that can be in progress at one time
    Sweeps,           \* runs of the job that can be in progress at one time
    MaxConnectors,    \* the plan's max_connectors
    BatchSize,        \* HEALTH_CHECK_BATCH_SIZE
    Patches,          \* bodies of an update: fields of a row, or a new name
    MaxChanges        \* bound: updates, probes, deletions, failures and interruptions

ASSUME ConnectorAssumption ==
    /\ IsFiniteSet(Conns) /\ \A c \in Conns : OrgOf(c) \in Orgs
    /\ IsFiniteSet(Requests)
    /\ MaxConnectors \in Nat /\ BatchSize \in Nat \ {0} /\ MaxChanges \in Nat

\* UpdateRequest: a name, a config and a status may be given, and are checked;
\* a type may not.
ASSUME PatchAssumption ==
    \A fields \in Patches :
        /\ "type" \notin DOMAIN fields
        /\ "config" \in DOMAIN fields => fields.config \in Configs
        /\ "status" \in DOMAIN fields => fields.status \in {"active", "inactive", "error"}

VARIABLES
    row,        \* the table: Absent, or type, config and status
    drawn,      \* ids that were handed out
    stamped,    \* ids by last_health_check_at, oldest first; the others are NULL
    pend,       \* what a request has read and is about to write
    sweep,      \* runs of the job: step, rows still to do, status to write;
                \* and, as history, what others told of while it was under way
    changes,    \* how many of those there were
    clobbered,  \* history: an update wrote back what had changed since it read
    told,       \* history: an alert was raised and no probe succeeded since
    dup         \* history: a later sweep raised one again; neither is kept once clobbered

tables == <<row, drawn, stamped, pend, sweep, told, dup, clobbered>>
connVars == <<tables, changes>>

Types == {"generic", "google_sheets"}
Registry == {"google_sheets"}
Statuses == {"active", "inactive", "error"}
Lost == {"lost"}
Absent == [type |-> "none", config |-> Lost, status |-> "inactive"]
Rows == [type : Types \cup {"none"}, config : Configs \cup {Lost}, status : Statuses]
Idle == [op |-> "idle"]
Asleep == [at |-> "idle", todo |-> <<>>, status |-> "inactive", late |-> {}]

Present == {c \in Conns : row[c].type # "none"}

CountConnectorsByOrg(o) == Cardinality({c \in Present : OrgOf(c) = o})

InitConnectors ==
    /\ row = [c \in Conns |-> Absent] /\ drawn = {} /\ stamped = <<>>
    /\ pend = [r \in Requests |-> Idle]
    /\ sweep = [s \in Sweeps |-> Asleep] /\ changes = 0
    /\ told = {} /\ dup = FALSE /\ clobbered = FALSE

Change == changes < MaxChanges /\ changes' = changes + 1

-----------------------------------------------------------------------------
(* Requests of the API *)

IsValidType(t) == t \in Types

\* Mutant: the limit itself is let through.
EnforceLimitLate(o) == CountConnectorsByOrg(o) <= MaxConnectors

\* subscription.EnforceLimit with max_connectors
EnforceLimit(o) == CountConnectorsByOrg(o) < MaxConnectors

\* The checks of Create, up to the insert.
Create(r, c, t, cfg) ==
    /\ pend[r] = Idle /\ IsValidType(t)
    /\ c \notin drawn /\ EnforceLimit(OrgOf(c))
    /\ drawn' = drawn \cup {c}
    /\ pend' = [pend EXCEPT ![r] = [op |-> "create", conn |-> c,
                   new |-> [type |-> t, config |-> cfg, status |-> "inactive"]]]
    /\ UNCHANGED <<row, stamped, sweep, changes, told, dup, clobbered>>

CreateConnector(r) ==
    /\ pend[r].op = "create"
    /\ row' = [row EXCEPT ![pend[r].conn] = pend[r].new]
    /\ pend' = [pend EXCEPT ![r] = Idle]
    /\ UNCHANGED <<drawn, stamped, sweep, changes, told, dup, clobbered>>

\* GetConnector and the merge of the fields that were given.
Update(r, c, fields) ==
    /\ Change /\ pend[r] = Idle /\ c \in Present
    /\ pend' = [pend EXCEPT ![r] = [op |-> "update", conn |-> c, old |-> row[c],
                   new |-> [f \in DOMAIN row[c] |->
                               IF f \in DOMAIN fields THEN fields[f] ELSE row[c][f]]]]
    /\ UNCHANGED <<row, drawn, stamped, sweep, told, dup, clobbered>>

UpdateConnector(r) ==
    /\ pend[r].op = "update" /\ pend[r].conn \in Present
    /\ LET p == pend[r] IN
       /\ row' = [row EXCEPT ![p.conn] = p.new]
       /\ clobbered' = (clobbered \/ \E f \in DOMAIN p.new :
                            p.new[f] = p.old[f] /\ row[p.conn][f] # p.old[f])
       /\ told' = IF clobbered' THEN {}
                  ELSE IF p.new.status # p.old.status THEN told \ {p.conn} ELSE told
    /\ pend' = [pend EXCEPT ![r] = Idle]
    /\ UNCHANGED <<drawn, stamped, sweep, changes, dup>>

DeleteConnector(c) ==
    /\ Change /\ c \in Present
    /\ row' = [row EXCEPT ![c] = Absent]
    /\ stamped' = RemoveFirst(stamped, c)
    /\ UNCHANGED <<drawn, pend, sweep, told, dup, clobbered>>

\* An error, a row that is gone, or a client that left ends a request.
Abandon(r) ==
    /\ pend[r] # Idle /\ pend' = [pend EXCEPT ![r] = Idle]
    /\ UNCHANGED <<row, drawn, stamped, sweep, changes, told, dup, clobbered>>

\* CONNECTOR_MASTER_KEY was replaced: the row no longer opens.
KeyLost(c) ==
    /\ Change /\ c \in Present /\ row[c].config # Lost
    /\ row' = [row EXCEPT ![c].config = Lost]
    /\ UNCHANGED <<drawn, stamped, pend, sweep, told, dup, clobbered>>

-----------------------------------------------------------------------------
(* The probe *)

\* What a probe of the upstream says.
Check == {"active", "error"}

\* CheckHealth reaches the upstream.
Probed(c) == c \in Present /\ row[c].type \in Registry /\ row[c].config # Lost

\* The row takes the probe's outcome and moves to the back of the order.
UpdateConnectorHealth(c, status) ==
    /\ row' = [row EXCEPT ![c].status = status]
    /\ stamped' = Append(RemoveFirst(stamped, c), c)

CheckHealth(r, c) ==
    /\ Change /\ pend[r] = Idle /\ Probed(c)
    /\ \E status \in Check :
          pend' = [pend EXCEPT ![r] = [op |-> "check", conn |-> c, status |-> status]]
    /\ UNCHANGED <<row, drawn, stamped, sweep, told, dup, clobbered>>

CheckHealthWrite(r) ==
    /\ pend[r].op = "check" /\ pend[r].conn \in Present
    /\ UpdateConnectorHealth(pend[r].conn, pend[r].status)
    /\ told' = IF pend[r].status = "active" THEN told \ {pend[r].conn} ELSE told
    /\ pend' = [pend EXCEPT ![r] = Idle]
    /\ UNCHANGED <<drawn, sweep, changes, dup, clobbered>>

-----------------------------------------------------------------------------
(* The connector-health job *)

\* Mutant: most recently checked first.
ListConnectorsForHealthCheckNewest(never) ==
    LET all == never \o Reverse(stamped)
    IN  SubSeq(all, 1, IF Len(all) < BatchSize THEN Len(all) ELSE BatchSize)

\* Ordered by last_health_check_at, NULL first (those in any order), cut off
\* at the batch size.
ListConnectorsForHealthCheck(never) ==
    LET all == never \o stamped
    IN  SubSeq(all, 1, IF Len(all) < BatchSize THEN Len(all) ELSE BatchSize)

\* A sweep of ids, with the status each row has now.
Batch(ids) ==
    [at |-> "next", status |-> "inactive", late |-> {},
     todo |-> [i \in DOMAIN ids |-> [conn |-> ids[i], was |-> row[ids[i]].status]]]

Run(s) ==
    /\ sweep[s].at = "idle"
    /\ \E never \in SetToSeqs(Present \ Range(stamped)) :
          LET batch == ListConnectorsForHealthCheck(never)
          IN  /\ batch # <<>>
              /\ sweep' = [sweep EXCEPT ![s] = Batch(batch)]
    /\ UNCHANGED <<row, drawn, stamped, pend, changes, told, dup, clobbered>>

Done(w) == IF Len(w.todo) = 1 THEN Asleep
           ELSE [at |-> "next", todo |-> Tail(w.todo), status |-> "inactive", late |-> w.late]

MoveOn(s) == sweep' = [sweep EXCEPT ![s] = Done(@)]

\* No checker for the type, or the probe cannot run: on to the next row,
\* without a stamp.
Skip(s) ==
    /\ sweep[s].at = "next" /\ ~Probed(Head(sweep[s].todo).conn)
    /\ MoveOn(s)
    /\ UNCHANGED <<row, drawn, stamped, pend, changes, told, dup, clobbered>>

Answered(w, status) == [w EXCEPT !.at = "write", !.status = status]

SweepCheck(s) ==
    /\ sweep[s].at = "next" /\ Probed(Head(sweep[s].todo).conn)
    /\ \E status \in Check :
          sweep' = [sweep EXCEPT ![s] = Answered(sweep[s], status)]
    /\ UNCHANGED <<row, drawn, stamped, pend, changes, told, dup, clobbered>>

\* CheckHealth could not read the row, or not write what the probe said: on
\* to the next row, without a stamp or an alert.
SweepFails(s) ==
    /\ sweep[s].at \in {"next", "write"} /\ Change
    /\ MoveOn(s)
    /\ UNCHANGED <<row, drawn, stamped, pend, told, dup, clobbered>>

\* Mutant: an alert for every failed probe.
AlertAlways(item, status) == status = "error"

\* Transition-triggered: the batch saw it active and the probe failed.
Alert(item, status) == item.was = "active" /\ status = "error"

\* Another sweep told of c while w had it to do.
Overtaken(w, c) ==
    IF \E i \in DOMAIN w.todo : w.todo[i].conn = c
    THEN [w EXCEPT !.late = @ \cup {c}] ELSE w

SweepWrite(s) ==
    /\ sweep[s].at = "write"
    /\ LET w == sweep[s]
           item == Head(w.todo)
           alert == Alert(item, w.status)
       IN IF item.conn \in Present
          THEN /\ UpdateConnectorHealth(item.conn, w.status)
               /\ IF alert
                  THEN sweep' = [u \in Sweeps |-> IF u = s THEN [w EXCEPT !.at = "notify"]
                                                  ELSE Overtaken(sweep[u], item.conn)]
                  ELSE MoveOn(s)
               /\ dup' = (dup \/ (alert /\ item.conn \in told \ w.late))
               /\ told' = IF w.status = "active" THEN told \ {item.conn}
                          ELSE IF alert /\ ~clobbered THEN told \cup {item.conn} ELSE told
          ELSE MoveOn(s) /\ UNCHANGED <<row, stamped, told, dup>>
    /\ UNCHANGED <<drawn, pend, changes, clobbered>>

\* The mail to the owner is queued, or it is not: the sweep goes on.
notify(s) ==
    /\ sweep[s].at = "notify"
    /\ MoveOn(s)
    /\ UNCHANGED <<row, drawn, stamped, pend, changes, told, dup, clobbered>>

\* The context is cancelled between two rows, or the worker dies anywhere.
Stop(s) ==
    /\ sweep[s].at # "idle" /\ Change
    /\ sweep' = [sweep EXCEPT ![s] = Asleep]
    /\ UNCHANGED <<row, drawn, stamped, pend, told, dup, clobbered>>

RequestStep(r) ==
    \/ \E c \in Conns, t \in Types, cfg \in Configs : Create(r, c, t, cfg)
    \/ CreateConnector(r)
    \/ \E c \in Conns, f \in Patches : Update(r, c, f)
    \/ UpdateConnector(r)
    \/ \E c \in Conns : CheckHealth(r, c)
    \/ CheckHealthWrite(r)
    \/ Abandon(r)

\* A sweep under way goes on.
SweepStep(s) == Skip(s) \/ SweepCheck(s) \/ SweepWrite(s) \/ notify(s)

NextConnectors ==
    \/ \E r \in Requests : RequestStep(r)
    \/ \E c \in Conns : DeleteConnector(c) \/ KeyLost(c)
    \/ \E s \in Sweeps : Run(s) \/ SweepStep(s) \/ SweepFails(s) \/ Stop(s)

SpecConnectors == InitConnectors /\ [][NextConnectors]_connVars

\* The worker runs the job again and again, and a run goes on until it ends.
Fairness ==
    /\ WF_connVars(\E s \in Sweeps : Run(s))
    /\ \A s \in Sweeps : WF_connVars(SweepStep(s))

FairConnectors == SpecConnectors /\ Fairness

-----------------------------------------------------------------------------
(* Properties *)

ConnTypeOK ==
    /\ row \in [Conns -> Rows] /\ drawn \subseteq Conns /\ Present \subseteq drawn
    /\ Range(stamped) \subseteq Present
    /\ \A s \in Sweeps : sweep[s].at \in {"idle", "next", "write", "notify"}

\* The variables have their types, and max_connectors, which Create counts
\* and then inserts without a lock, is exceeded by the other requests in
\* progress at most.
ConnectorInv ==
    /\ ConnTypeOK
    /\ \A o \in Orgs :
          CountConnectorsByOrg(o)
            + Cardinality({r \in Requests : pend[r].op = "create" /\ OrgOf(pend[r].conn) = o})
          <= (IF MaxConnectors = 0 THEN 0 ELSE MaxConnectors - 1 + Cardinality(Requests))

\* "A credential broken for a week produces one email, not one per
\* interval": an owner who was told is told again, before a probe succeeds or
\* the status is set, only by a sweep that had the connector to do when he was
\* told.  No sweep that lists it later tells him, however sweeps, probes and
\* updates interleave, until an update writes back a status that was changed
\* since it read (Run, Update, Alert).
OneMailPerOutage == ~dup

\* Rows that keep their place at the front of every batch.
Unprobed == {c \in Present : ~Probed(c)}

Stamped(c) ==
    \/ \E s \in Sweeps : SweepWrite(s) /\ Head(sweep[s].todo).conn = c
    \/ \E r \in Requests : CheckHealthWrite(r) /\ pend[r].conn = c

Room(c) == Probed(c) /\ Cardinality(Unprobed) < BatchSize

\* A connector that can be probed is stamped again and again, as long as the
\* ones that cannot (no checker, or a configuration that does not open) do
\* not fill the batch (ListConnectorsForHealthCheck, CheckHealth).
SweepReaches ==
    \A c \in Conns :
        <>[]Room(c) => []<><<Stamped(c)>>_connVars

=============================================================================
