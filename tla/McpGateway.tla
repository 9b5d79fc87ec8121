----------------------------- MODULE McpGateway -----------------------------
(***************************************************************************)
(* POST /mcp/:connectorId and GET /mcp/files/...: a call authenticates a   *)
(* key, resolves its owner's live grant narrowed by the key's scopes,      *)
(* fetches the connector within the key's organization, is checked,        *)
(* charged to the connector's token bucket and run; drive_get_file mints a *)
(* signed link, which a later request without any key redeems.             *)
(*                                                                         *)
(* A call keeps what it has read - principal and connector row - until it  *)
(* ends, while keys are revoked, owners banned, members removed, grants    *)
(* changed and connectors updated or deleted around it.  The connectors    *)
(* and their updates are those of Connectors; the monthly quota is the     *)
(* subject of UsageLedger and is here a refusal that may happen.  A        *)
(* resource (spreadsheet or file) is on the allowlist of a configuration   *)
(* or not; the catalog is represented by one tool of each shape.           *)
(*                                                                         *)
(* Time is counted in the time one token takes to come back, 60/capacity   *)
(* seconds.                                                                *)
(***************************************************************************)
EXTENDS Connectors, Permissions

CONSTANTS
    Calls,                     \* requests that can be in progress at one time
    Keys, KeyUser(_), KeyOrg(_), Users,
    Scopes,                    \* scope lists a key may be minted with
    Grants,                    \* action sets an owner's roles may amount to
    Resources,                 \* spreadsheets and files
    Capacity,                  \* MCP_RATE_LIMIT_PER_MIN
    IdleTTL,                   \* bucketIdleTTL
    LinkTTL,                   \* fileLinkTTL
    MaxTime, MaxLinks          \* bounds

ASSUME GatewayAssumption ==
    /\ None \notin Keys /\ \A k \in Keys : KeyUser(k) \in Users /\ KeyOrg(k) \in Orgs
    /\ Capacity \in Nat \ {0} /\ IdleTTL \in Nat /\ Capacity <= IdleTTL
    /\ LinkTTL \in Nat /\ MaxTime \in Nat /\ MaxLinks \in Nat

VARIABLES
    key,       \* mcp_api_keys: state, scopes and expiry (0 for never)
    member,    \* role in the key's organization, "none" without a membership
    grant,     \* actions the roles of the key's owner grant there
    banned,    \* users.banned_at
    call,      \* a request and what it has read
    links,     \* signed links that were handed out
    bucket,    \* tokens and timestamp of a connector's bucket
    now,
    taken,     \* history: tokens taken from a bucket
    seen,      \* history: what held at some moment since a call began
    lastOK     \* history: last moment a key worked, or a call it began ran

authVars == <<key, member, grant, banned>>
gateVars == <<authVars, call, links, bucket, now, taken>>
vars == <<connVars, gateVars, seen, lastOK>>

Catalog ==
    [describe |-> [permission |-> <<"connector", "read">>, sheets |-> FALSE],
     query    |-> [permission |-> <<"sheets", "read">>, sheets |-> TRUE],
     get_file |-> [permission |-> <<"drive", "read">>, sheets |-> TRUE]]

Tools == DOMAIN Catalog

appliesTo(t, r) == Catalog[t].sheets => r.type = "google_sheets"

Nobody == [role |-> None, actions |-> {}]
NoRes == "none"
NoCall == [at |-> "idle", key |-> None, conn |-> None, org |-> None, p |-> Nobody,
           row |-> Absent, tool |-> None, res |-> NoRes]
NoSeen == [key |-> FALSE, tools |-> {}, res |-> {}]

-----------------------------------------------------------------------------
(* What holds now *)

\* The key with the ban of its user, in one statement.
GetMCPKeyByHash(k) == [key |-> key[k], banned |-> KeyUser(k) \in banned]

\* The checks of RequireMCPKey on the row it got.
KeyWorks(got) ==
    /\ got.key.state = "live"
    /\ got.key.exp = 0 \/ now <= got.key.exp
    /\ ~got.banned

KeyValid(k) ==
    key[k].state = "live" /\ (key[k].exp = 0 \/ now <= key[k].exp) /\ KeyUser(k) \notin banned

\* The key's owner, by the tables as they are.
Live(k) == [role |-> member[k], actions |-> IF member[k] = "none" THEN {} ELSE grant[k]]

ToolsNow(k) == {t \in Tools : Allows(Live(k), Catalog[t].permission)
                              /\ (key[k].scopes = NoScopes
                                  \/ ActionMatches(key[k].scopes, Catalog[t].permission))}

\* The connectors, each with a resource on its allowlist.
Readable == {a \in Conns \X Resources :
                a[1] \in Present /\ row[a[1]].config # Lost /\ a[2] \in row[a[1]].config}

CallKeyValid(r) == call[r].key \in Keys /\ KeyValid(call[r].key)

CallTools(r) == IF call[r].key \in Keys THEN ToolsNow(call[r].key) ELSE {}

\* What each call has had a right to since it began, and the last moment at
\* which a key's authority was in use.
Watch ==
    /\ seen' = [r \in Calls |->
                   IF call'[r].at = "idle" THEN NoSeen
                   ELSE [key |-> seen[r].key \/ CallKeyValid(r)',
                         tools |-> seen[r].tools \cup CallTools(r)',
                         res |-> seen[r].res \cup Readable']]
    /\ lastOK' = [k \in Keys |->
                   IF KeyValid(k)' \/ \E r \in Calls : call'[r].key = k THEN now'
                   ELSE lastOK[k]]

InitGateway ==
    /\ key = [k \in Keys |-> [state |-> "none", scopes |-> NoScopes, exp |-> 0]]
    /\ member \in [Keys -> {"member", "owner"}]
    /\ grant \in [Keys -> Grants] /\ banned = {}
    /\ call = [r \in Calls |-> NoCall] /\ links = {}
    /\ bucket = [c \in Conns |-> [tokens |-> Capacity, ts |-> 0]]
    /\ taken = [c \in Conns |-> 0]
    /\ now = 0
    /\ seen = [r \in Calls |-> NoSeen] /\ lastOK = [k \in Keys |-> 0]

-----------------------------------------------------------------------------
(* The token bucket *)

Min2(a, b) == IF a < b THEN a ELSE b

\* Refill by the time since the bucket was touched, up to the capacity.
Available(c) == Min2(Capacity, bucket[c].tokens + (now - bucket[c].ts))

\* Mutant: the timestamp is not moved, so the same time refills twice.
TakeUntimed(c, allowed) ==
    /\ allowed = (Available(c) >= 1)
    /\ bucket' = [bucket EXCEPT ![c] =
                     [tokens |-> Available(c) - (IF allowed THEN 1 ELSE 0), ts |-> @.ts]]
    /\ taken' = [taken EXCEPT ![c] = @ + (IF allowed THEN 1 ELSE 0)]

\* tokenBucketScript for one token: allowed, or the bucket is only touched.
Take(c, allowed) ==
    /\ allowed = (Available(c) >= 1)
    /\ bucket' = [bucket EXCEPT ![c] =
                     [tokens |-> Available(c) - (IF allowed THEN 1 ELSE 0), ts |-> now]]
    /\ taken' = [taken EXCEPT ![c] = @ + (IF allowed THEN 1 ELSE 0)]

BucketExpires(c) ==
    /\ now >= bucket[c].ts + IdleTTL /\ bucket[c].tokens < Capacity
    /\ bucket' = [bucket EXCEPT ![c] = [tokens |-> Capacity, ts |-> now]]
    /\ UNCHANGED <<connVars, authVars, call, links, now, taken>>

-----------------------------------------------------------------------------
(* A call *)

KeepRest == UNCHANGED <<connVars, authVars, links, now>>
NoCharge == UNCHANGED <<bucket, taken>>

End(r) == call' = [call EXCEPT ![r] = NoCall]

RequireMCPKey(r, k) ==
    /\ call[r].at = "idle" /\ KeyWorks(GetMCPKeyByHash(k))
    /\ call' = [call EXCEPT ![r] = [NoCall EXCEPT !.at = "key", !.key = k, !.org = KeyOrg(k)]]
    /\ KeepRest /\ NoCharge

\* GetMembership: an owner is resolved at once; without a row, nothing is
\* granted and the scopes are applied to that.
Authorize(r) ==
    /\ call[r].at = "key"
    /\ LET k == call[r].key
           p == [role |-> member[k], actions |-> {}]
       IN call' = [call EXCEPT
              ![r].at = IF member[k] = "member" THEN "actions" ELSE "principal",
              ![r].p = IF member[k] = "member" THEN p ELSE Narrow(p, key[k].scopes)]
    /\ KeepRest /\ NoCharge

\* The second query joins the membership again; the row's scopes narrow it.
ListPermissionActionsByUserOrg(r) ==
    /\ call[r].at = "actions"
    /\ LET k == call[r].key
       IN call' = [call EXCEPT ![r].at = "principal",
              ![r].p = Narrow([role |-> "member", actions |-> Live(k).actions], key[k].scopes)]
    /\ KeepRest /\ NoCharge

\* GetConnector by id and organization: another's is as good as missing.
ResolveConnector(r, c) ==
    /\ call[r].at = "principal"
    /\ IF c \in Present /\ OrgOf(c) = call[r].org
       THEN call' = [call EXCEPT ![r].at = "server", ![r].conn = c, ![r].row = row[c]]
       ELSE End(r)
    /\ KeepRest /\ NoCharge

\* BuildServer registers a tool that applies and is allowed; enforce asks
\* again, and then the quota and the bucket, before anything runs.  A tool
\* that is allowed but does not apply is charged and then unknown.
enforce(r, t) ==
    /\ call[r].at = "server"
    /\ \/ ~Allows(call[r].p, Catalog[t].permission) /\ End(r) /\ NoCharge
       \/ Allows(call[r].p, Catalog[t].permission) /\ End(r) /\ NoCharge  \* quota, Redis
       \/ /\ Allows(call[r].p, Catalog[t].permission)
          /\ \/ Take(call[r].conn, FALSE) /\ End(r)
             \/ /\ Take(call[r].conn, TRUE)
                /\ IF appliesTo(t, call[r].row)
                   THEN call' = [call EXCEPT ![r].at = "run", ![r].tool = t]
                   ELSE End(r)
    /\ KeepRest

\* The tool opens the configuration of the row the call holds.  A sheet must
\* be on its allowlist before Google is asked; a file is looked up first.
openGoogleSheetsConfig(r) ==
    /\ call[r].at = "run"
    /\ \E f \in Resources :
          /\ call[r].row.config # Lost
          /\ \/ /\ call[r].tool = "query" /\ f \in call[r].row.config
                /\ call' = [call EXCEPT ![r].at = "read", ![r].res = f]
             \/ /\ call[r].tool = "get_file"
                /\ call' = [call EXCEPT ![r].at = "meta", ![r].res = f]
    /\ KeepRest /\ NoCharge

\* One page of a scan, or the block of a range, charged first: a refusal
\* ends the call.  The metadata and the header row a query or a read asks for,
\* and all that describing and listing spreadsheets ask for, go upstream on
\* the charge of the call itself (enforce): they touch no bucket.
ChargeRateLimit(r) ==
    /\ call[r].at = "read"
    /\ \/ Take(call[r].conn, FALSE) /\ End(r)
       \/ /\ Take(call[r].conn, TRUE)
          /\ End(r) \/ UNCHANGED call
    /\ KeepRest

\* Mutant: a link proves that the file was allowed.
IsFileAllowedByLink(r) == call[r].key = None \/ call[r].res \in call[r].row.config

\* A direct parent of the file, as fetched, is on the row's allowlist.
IsFileAllowed(r) == call[r].res \in call[r].row.config

\* Charged and fetched, then checked, for the tool and for the download.
GetFile(r) ==
    /\ call[r].at = "meta"
    /\ \/ Take(call[r].conn, FALSE) /\ End(r)
       \/ /\ Take(call[r].conn, TRUE)
          /\ IF IsFileAllowed(r)
             THEN call' = [call EXCEPT ![r].at = IF call[r].key = None THEN "body" ELSE "sign"]
             ELSE End(r)
    /\ KeepRest

\* A link for the file, unless it is Google-native.
SignFileLink(r) ==
    /\ call[r].at = "sign"
    /\ \/ UNCHANGED links
       \/ /\ Cardinality(links) < MaxLinks
          /\ links' = links \cup {[org |-> call[r].org, conn |-> call[r].conn,
                                   res |-> call[r].res, exp |-> now + LinkTTL,
                                   by |-> call[r].key]}
    /\ End(r)
    /\ UNCHANGED <<connVars, authVars, now>> /\ NoCharge

-----------------------------------------------------------------------------
(* A download *)

\* Mutant: a link works in the second it expires.
VerifyFileLinkLate(l) == now <= l.exp /\ l.exp <= now + LinkTTL

\* Neither expired nor valid for longer than the ceiling; the signature
\* binds every field.
VerifyFileLink(l) == now < l.exp /\ l.exp <= now + LinkTTL

downloadFile(r, l) ==
    /\ call[r].at = "idle" /\ VerifyFileLink(l)
    /\ call' = [call EXCEPT ![r] = [NoCall EXCEPT !.at = "link", !.conn = l.conn,
                                                  !.org = l.org, !.res = l.res]]
    /\ KeepRest /\ NoCharge

\* The connector is read again, and its configuration opened, before GetFile.
DownloadRow(r) ==
    /\ call[r].at = "link"
    /\ LET c == call[r].conn IN
       IF /\ c \in Present /\ OrgOf(c) = call[r].org
          /\ row[c].type = "google_sheets" /\ row[c].config # Lost
       THEN call' = [call EXCEPT ![r].at = "meta", ![r].row = row[c]]
       ELSE End(r)
    /\ KeepRest /\ NoCharge

\* A native or oversized file ends here; the bytes are charged on their own.
DownloadFile(r) ==
    /\ call[r].at = "body"
    /\ \/ End(r) /\ NoCharge
       \/ Take(call[r].conn, FALSE) /\ End(r)
       \/ Take(call[r].conn, TRUE) /\ call' = [call EXCEPT ![r].at = "serve"]
    /\ KeepRest

\* The stream ends, whole, cut off at maxDownloadBytes or broken.
Serve(r) ==
    /\ call[r].at = "serve" /\ End(r)
    /\ KeepRest /\ NoCharge

\* A statement fails or the client hangs up.
Fail(r) ==
    /\ call[r].at # "idle" /\ End(r)
    /\ KeepRest /\ NoCharge

-----------------------------------------------------------------------------
(* Around the calls *)

KeepCalls == UNCHANGED <<call, links, bucket, now, taken>>

CreateMCPKey(k) ==
    /\ key[k].state = "none" /\ member[k] # "none"
    /\ \E s \in Scopes, e \in {0, now + 1} :
          key' = [key EXCEPT ![k] = [state |-> "live", scopes |-> s, exp |-> e]]
    /\ UNCHANGED <<connVars, member, grant, banned>> /\ KeepCalls

RevokeMCPKey(k) ==
    /\ Change /\ key[k].state = "live"
    /\ key' = [key EXCEPT ![k].state = "revoked"]
    /\ UNCHANGED <<tables, member, grant, banned>> /\ KeepCalls

SetUserBan(u) ==
    /\ Change
    /\ banned' = IF u \in banned THEN banned \ {u} ELSE banned \cup {u}
    /\ UNCHANGED <<tables, key, member, grant>> /\ KeepCalls

\* Removal, and an invitation after it.
SetMembership(k) ==
    /\ Change
    /\ member' = [member EXCEPT ![k] = IF @ = "none" THEN "member" ELSE "none"]
    /\ UNCHANGED <<tables, key, grant, banned>> /\ KeepCalls

SetPermissions(k) ==
    /\ Change
    /\ \E g \in Grants \ {grant[k]} : grant' = [grant EXCEPT ![k] = g]
    /\ UNCHANGED <<tables, key, member, banned>> /\ KeepCalls

\* Requests that change a connector, as Connectors has them; its name and
\* status mean nothing to a call.
ConnectorStep ==
    /\ \/ \E r \in Requests, c \in Conns, f \in Patches : Update(r, c, f)
       \/ \E c \in Conns : DeleteConnector(c) \/ KeyLost(c)
       \/ \E r \in Requests : UpdateConnector(r) \/ Abandon(r)
    /\ UNCHANGED authVars /\ KeepCalls

Tick ==
    /\ now < MaxTime /\ now' = now + 1
    /\ UNCHANGED <<connVars, authVars, call, links, bucket, taken>>

CallStep(r) ==
    \/ \E k \in Keys : RequireMCPKey(r, k)
    \/ Authorize(r) \/ ListPermissionActionsByUserOrg(r)
    \/ \E c \in Conns : ResolveConnector(r, c)
    \/ \E t \in Tools : enforce(r, t)
    \/ openGoogleSheetsConfig(r) \/ ChargeRateLimit(r) \/ GetFile(r) \/ SignFileLink(r)
    \/ \E l \in links : downloadFile(r, l)
    \/ DownloadRow(r) \/ DownloadFile(r) \/ Serve(r) \/ Fail(r)

GatewayStep ==
    \/ \E r \in Calls : CallStep(r)
    \/ \E k \in Keys : CreateMCPKey(k) \/ RevokeMCPKey(k) \/ SetMembership(k) \/ SetPermissions(k)
    \/ \E u \in Users : SetUserBan(u)
    \/ \E c \in Conns : BucketExpires(c)
    \/ ConnectorStep
    \/ Tick

\* The connectors have been created already.
Init ==
    /\ InitGateway
    /\ row \in [Conns -> {[type |-> t, config |-> cfg, status |-> "active"] :
                             t \in Types, cfg \in Configs}]
    /\ drawn = Conns /\ stamped = <<>>
    /\ pend = [r \in Requests |-> Idle] /\ sweep = [s \in Sweeps |-> Asleep] /\ changes = 0
    /\ told = {} /\ dup = FALSE /\ clobbered = FALSE

Next == GatewayStep /\ Watch

Spec == Init /\ [][Next]_vars

-----------------------------------------------------------------------------
(* Properties *)

\* A call that runs was authenticated by a key that worked, and allowed by
\* the live grant and the key's scopes, at a moment since the call began; it
\* runs on a connector of the key's organization, and what it or a download
\* reads was on the connector's allowlist at a moment since it began.  So a
\* revocation, a ban, a removal or a narrowed scope holds for every later
\* call (RequireMCPKey, Authorize, Narrow, ResolveConnector, downloadFile).
NoStaleAuthority ==
    \A r \in Calls :
        /\ call[r].key # None /\ call[r].at \in {"run", "read", "meta", "sign"} =>
              /\ seen[r].key /\ call[r].tool \in seen[r].tools
              /\ OrgOf(call[r].conn) = KeyOrg(call[r].key)
        /\ call[r].at \in {"read", "sign", "body", "serve"} =>
              <<call[r].conn, call[r].res>> \in seen[r].res

\* A link outlives the authority behind it by less than its lifetime: it
\* works only within LinkTTL of a moment at which the key worked or a call
\* it had begun was running (SignFileLink, VerifyFileLink).
LinksEnd == \A l \in links : VerifyFileLink(l) => now < lastOK[l.by] + LinkTTL

\* What is charged to a connector's bucket - calls, pages, files, downloads -
\* and is let through was, since the start, no more than the bucket began with
\* and what time added, less what is left in it: however the calls, scans and
\* downloads that share it interleave and whenever the idle bucket is
\* forgotten (tokenBucketScript).  It bounds what is charged, not what is
\* asked of the upstream: a call asks for more than it is charged
\* (ChargeRateLimit).
RateBounded ==
    \A c \in Conns :
        /\ bucket[c].tokens \in 0 .. Capacity /\ bucket[c].ts \in 0 .. now
        /\ bucket[c].tokens + taken[c] <= Capacity + bucket[c].ts

=============================================================================
