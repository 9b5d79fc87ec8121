---------------------------- MODULE ConsoleReads ----------------------------
(***************************************************************************)
(* The paged lists and the statistics of the admin console: a page is read *)
(* with the filters of the request, then its total comes from a cache in   *)
(* Redis under a key made of the same filters, or is counted and cached    *)
(* for countCacheTTL, while rows come, go and change.                      *)
(*                                                                         *)
(* A row has the fields its lists filter by.  A search text is one of a    *)
(* small set, and a row has those it contains; texts which hold a          *)
(* separator of a key are left out.  Of the statistics, which have a fixed *)
(* key each, the list is one that counts a whole table.  The count and     *)
(* what follows it end within one unit of time of the miss before.         *)
(***************************************************************************)
EXTENDS Integers, Sequences, FiniteSets

CONSTANTS
    Lists,                    \* the lists of the console, and "stats"
    Rows(_),                  \* the rows the table of a list may hold
    Asked(_),                 \* filters a request for a list may carry
    Pages,                    \* requests that can be in progress at one time
    countCacheTTL,
    MaxRows, MaxClock, MaxWrites  \* bounds

Nil == "nil"
EmptyText == ""

\* Of the texts a filter may be, only a connector's type is not validated:
\* the others are absent rather than empty.
ASSUME ReadsAssumption ==
    /\ Lists \subseteq {"organizations", "users", "connectors", "mcpkeys", "auditlogs", "stats"}
    /\ \A l \in Lists : IsFiniteSet(Rows(l)) /\ Cardinality(Rows(l)) <= MaxRows
    /\ \A l \in Lists : \A f \in Asked(l) :
          /\ l \in {"organizations", "users", "connectors", "mcpkeys"} => f.search # EmptyText
          /\ l = "users" => f.role # EmptyText
          /\ l = "connectors" => f.status # EmptyText
          /\ l \in {"connectors", "mcpkeys", "auditlogs"} => f.org # EmptyText
          /\ l \in {"mcpkeys", "auditlogs"} => f.user # EmptyText
    /\ countCacheTTL \in Nat \ {0} /\ MaxRows \in Nat /\ MaxClock \in Nat

VARIABLES
    list,      \* the list this behaviour is about
    table,     \* its rows
    cache,     \* Redis: totals by key, with the time they expire
    page,      \* a request: its filters and the total it has
    clock,
    writes,    \* writes so far, a bound
    watched,   \* the filters whose totals are watched
    last,      \* history: when a number was last the true total of those
    blurred,   \* history: an empty ?type= was asked for
    stale      \* history: an answer held a total that was true too long ago

readVars == <<list, table, cache, page, clock, writes, watched, last, blurred, stale>>

NoEntry == [count |-> 0, until |-> 0]
NoPage == [at |-> "idle", begun |-> 0, f |-> <<>>, total |-> 0]

-----------------------------------------------------------------------------
(* The filters, as the WHERE clauses that list and count have in common *)

Search(f, x) == f.search = Nil \/ f.search \in x.texts
Same(v, field) == v = Nil \/ v = field

OrganizationsWhere(f, x) == Search(f, x)

\* Role "none" asks for tenants.
UsersWhere(f, x) ==
    /\ Search(f, x)
    /\ f.role = Nil \/ x.role = (IF f.role = "none" THEN Nil ELSE f.role)
    /\ Same(f.banned, x.banned)

ConnectorsWhere(f, x) ==
    Search(f, x) /\ Same(f.org, x.org) /\ Same(f.type, x.type) /\ Same(f.status, x.status)

MCPKeysWhere(f, x) == Search(f, x) /\ Same(f.org, x.org) /\ Same(f.user, x.user)

\* No pattern at all asks for everything; so does no time (0).
AuditLogsWhere(f, x) ==
    /\ Same(f.org, x.org) /\ Same(f.user, x.user)
    /\ f.patterns = {} \/ x.action \in f.patterns
    /\ f.from = 0 \/ x.at >= f.from
    /\ f.to = 0 \/ x.at <= f.to

Where(f, x) ==
    CASE list = "organizations" -> OrganizationsWhere(f, x)
      [] list = "users" -> UsersWhere(f, x)
      [] list = "connectors" -> ConnectorsWhere(f, x)
      [] list = "mcpkeys" -> MCPKeysWhere(f, x)
      [] list = "auditlogs" -> AuditLogsWhere(f, x)
      [] list = "stats" -> TRUE

Matching(f) == {x \in table : Where(f, x)}

-----------------------------------------------------------------------------
(* The keys *)

\* An absent text is written as an empty one.
derefStr(s) == IF s = Nil THEN EmptyText ELSE s

\* Mutant: banned is not in the key.
usersFilterKeyShort(f) == <<derefStr(f.search), derefStr(f.role)>>

usersFilterKey(f) == <<derefStr(f.search), derefStr(f.role), f.banned>>

connectorsFilterKey(f) ==
    <<derefStr(f.org), derefStr(f.type), derefStr(f.status), derefStr(f.search)>>

mcpKeysFilterKey(f) == <<derefStr(f.org), derefStr(f.user), derefStr(f.search)>>

auditLogsFilterKey(f) == <<derefStr(f.org), derefStr(f.user), f.patterns, f.from, f.to>>

filterKey(f) ==
    CASE list = "organizations" -> <<derefStr(f.search)>>
      [] list = "users" -> usersFilterKey(f)
      [] list = "connectors" -> connectorsFilterKey(f)
      [] list = "mcpkeys" -> mcpKeysFilterKey(f)
      [] list = "auditlogs" -> auditLogsFilterKey(f)
      [] list = "stats" -> <<>>

Keys == {filterKey(f) : f \in Asked(list)}

-----------------------------------------------------------------------------
(* A request *)

Step(r, changed) == page' = [page EXCEPT ![r] = changed] /\ UNCHANGED stale
Answer(r, f, n) ==
    /\ page' = [page EXCEPT ![r] = NoPage]
    /\ stale' = (stale \/ (/\ f = watched /\ ~blurred'
                           /\ last[n] < clock - countCacheTTL))
KeepTables == UNCHANGED <<table, clock, writes>>

\* The rows of the page are read and answered as they are.  Then Get: a live
\* entry is the total; a miss, and a failure of Redis, are counted.
Begin(r, f) ==
    /\ page[r].at = "idle"
    /\ blurred' = (blurred \/ (list = "connectors" /\ f.type = EmptyText))
    /\ LET e == cache[filterKey(f)]
       IN \/ e # NoEntry /\ Answer(r, f, e.count)
          \/ Step(r, [NoPage EXCEPT !.at = "count", !.begun = clock, !.f = f])
    /\ KeepTables /\ UNCHANGED cache

ListOrganizations(r) == list = "organizations" /\ \E f \in Asked(list) : Begin(r, f)
ListUsers(r) == list = "users" /\ \E f \in Asked(list) : Begin(r, f)
ListConnectors(r) == list = "connectors" /\ \E f \in Asked(list) : Begin(r, f)
ListMCPKeys(r) == list = "mcpkeys" /\ \E f \in Asked(list) : Begin(r, f)
QueryAuditLogs(r) == list = "auditlogs" /\ \E f \in Asked(list) : Begin(r, f)
SystemStats(r) == list = "stats" /\ \E f \in Asked(list) : Begin(r, f)

compute(r) ==
    /\ page[r].at = "count"
    /\ Step(r, [page[r] EXCEPT !.at = "set", !.total = Cardinality(Matching(page[r].f))])
    /\ KeepTables /\ UNCHANGED <<cache, blurred>>

\* Set, whose failure is ignored.
Set(r) ==
    /\ page[r].at = "set" /\ KeepTables /\ UNCHANGED blurred
    /\ \/ cache' = [cache EXCEPT ![filterKey(page[r].f)] =
                       [count |-> page[r].total, until |-> clock + countCacheTTL]]
       \/ UNCHANGED cache
    /\ Answer(r, page[r].f, page[r].total)

\* A statement fails: no answer.
Fail(r) ==
    /\ page[r].at # "idle" /\ Step(r, NoPage)
    /\ KeepTables /\ UNCHANGED <<cache, blurred>>

-----------------------------------------------------------------------------
(* Around the requests *)

\* A row is written, deleted, or replaced by its updated self.
Write(gone, new) ==
    /\ writes < MaxWrites /\ writes' = writes + 1
    /\ table' = (table \ gone) \cup new /\ table' # table
    /\ UNCHANGED <<cache, page, clock, blurred, stale>>

\* Time, at which entries expire; a request does not outlive the next unit.
Advance ==
    /\ clock < MaxClock /\ \A r \in Pages : page[r].at # "idle" => page[r].begun = clock
    /\ clock' = clock + 1
    /\ cache' = [k \in Keys |-> IF cache[k].until > clock + 1 THEN cache[k] ELSE NoEntry]
    /\ UNCHANGED <<table, page, writes, blurred, stale>>

Remember ==
    /\ UNCHANGED <<list, watched>>
    /\ last' = [last EXCEPT ![Cardinality(Matching(watched))'] = clock']

InitReads ==
    /\ list \in Lists /\ table = {} /\ clock = 0 /\ writes = 0
    /\ blurred = FALSE /\ stale = FALSE /\ watched \in Asked(list)
    /\ cache = [k \in Keys |-> NoEntry]
    /\ page = [r \in Pages |-> NoPage]
    /\ last = [n \in 0 .. MaxRows |-> IF n = 0 THEN 0 ELSE -MaxClock]

NextReads ==
    /\ \/ \E r \in Pages :
             \/ ListOrganizations(r) \/ ListUsers(r) \/ ListConnectors(r)
             \/ ListMCPKeys(r) \/ QueryAuditLogs(r) \/ SystemStats(r)
             \/ compute(r) \/ Set(r) \/ Fail(r)
       \/ \E x \in Rows(list) : Write({}, {x}) \/ Write({x}, {}) \/ Write(table, {x})
       \/ Advance
    /\ Remember

-----------------------------------------------------------------------------
(* Properties *)

\* The total under a page is what the filters of that page counted at a moment
\* not longer than the lifetime of an entry, and the length of a request, ago:
\* entries expire, a slow count does not prolong them, and no two filters share
\* a key (service.go: cachedCount and the filter-key builders).  An empty ?type=
\* is counted as a type and cached as no type: after it, connectors are exempt.
TotalFresh == ~stale

=============================================================================
