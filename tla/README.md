# Verification of the Sapanjai backend

Sapanjai is a multi-tenant gateway: organizations connect data sources (Google
Sheets, for now), and their members give an assistant access to them over MCP
with scoped API keys. The Go backend (`src/apps/backend`) is an API server and a
background worker over Postgres and Redis, run in several replicas. This
directory holds TLA+ models of the backend, the TLC configurations that check
them on small instances, and TLAPS proofs of the properties that matter most for
every value of the constants.

`PROJECT.json` is the index: components, runs, the lines every definition
models, the hazards of the code with the properties that cover them, the finding
and the theorems.

## The system

| Component | State | Operations | Hard behaviour |
|---|---|---|---|
| Refresh-token sessions (`module/auth`, `sessions.sql`, `job/sessioncleanup`) | `sessions` rows in families; `users.password_hash`, `banned_at` | register, login (with a best-effort rehash), refresh by rotation, reuse detection, logout, reset, ban, role change, cleanup | handlers are several statements; what was read is stale when written |
| Access gate (`middleware/auth.go`, `infra/redis/auth.go`) | JWT lifetimes, Redis blacklist, Redis ban cache in front of Postgres | verify, logout, ban, unban, impersonate | two stores without a common transaction, Redis failing or losing its data, TTLs |
| Attempt limiters and the second factor of staff (`infra/redis/auth.go`, `module/admin/totp.go`) | three counters in Redis, `user_totp` | check, increment, expire, reset; enrol, confirm, verify, spend a recovery code | counters compared before they are incremented, INCR and EXPIRE in two commands, codes read, changed and written back |
| Mail tokens (`module/auth/verification.go`, `password_reset.go`, `infra/redis/email.go`) | one-time keys and cooldowns in Redis, `users.is_verified` | register, resend, ask for a reset, redeem | consumed in one store, applied in another |
| Job scheduler (`worker`) | one Redis key per job, tickers of the replicas | acquire, run, release | runs longer than the key, crashes, lost answers |
| Mail outbox (`job/emaildispatch`, `email_outbox.sql`) | rows with attempts, lease and status | enqueue, claim, send, record, back off, prune | overlapping runs, crash between send and record |
| Stripe reconciliation (`module/billing/webhook.go`, `subscriptions.sql`, `billing.sql`) | `org_subscriptions`, `stripe_events` | webhook, plan assignment, customer claim | redelivered and reordered events in concurrent transactions |
| Checkout and portal (`module/billing/service.go`) | the row's customer, Stripe's customers and sessions | open a session, open the portal | read, call Stripe, write; a retry must not make a second customer |
| Plans, prices and limits (`module/plan`, the console's plan routes) | `plans`, `plan_prices`, `org_subscriptions.plan_id`, custom limits | create, change, publish, price, retire, delete, assign, resolve a limit | a plan retired while someone is about to subscribe to it |
| Usage metering (`module/mcp`, `job/usagerollup`, `usage.sql`) | `usage_events`, `usage_rollups` | cap check, record, roll up, prune | the count lags behind what it admits; recount against prune |
| Organizations, memberships, roles (`module/organization`, `module/rbac`) | `organizations`, `memberships`, `roles`, `member_roles` | create, invite, remove, create and assign roles | limits counted before the insert; a member leaves between two statements |
| Connectors and their health job (`module/connector`, `job/connectorhealth`) | `connectors` with sealed config and status | create, update, delete, probe, sweep, alert | a sweep in batches beside updates, alerts on transitions |
| MCP gateway, keys, rate limiter (`module/mcp`, `module/mcpkey`, `middleware/mcpkey.go`, `infra/redis/ratelimit.go`) | keys and scopes, live grants, a token bucket per connector, signed links | authenticate, narrow, enforce, dispatch, download | credentials and grants revoked during a call |
| Sheets tools (`module/mcp/tools_sheets.go`, `adapter/googlesheets`) | the token-source cache | query, read a range | paged scans under a window, a cap and a budget; range arithmetic |
| Staff console (`module/admin`, `middleware/platform.go`, `cmd/grantadmin`) | platform roles, bans, impersonation tokens, cached counts | promote, demote, ban, impersonate, list | counts read before they are written; two superadmins at once |

They meet where they share state. A ban or a reset changes `users` and revokes
`sessions` in one transaction (AuthSessions) and then writes the Redis ban cache
the gate reads (AccessGate). Every job of the worker runs under the lock of
JobLock, which is a debounce and not mutual exclusion, so EmailOutbox, UsageLedger
and Connectors have runs that overlap; they let a run begin at any time, and do
not rely on the debounce either. The plan that
StripeSync and Checkout move decides the limits of Tenancy and UsageLedger.
McpGateway works on the rows of Connectors and the rules of Permissions.
Verification links, reset links and connector alerts are rows in the outbox of
EmailOutbox.

What makes the parts correct, in a line each: a family has one live token and a
dead one stays dead; a banned or logged-out user stays out; guesses are bounded;
a mailed link works once and for its own account; a job never stops and never
starts twice within its key's life; no mail is lost or recorded twice; a
subscription never goes back to an older event and an event acts once; Stripe
and the database agree on who pays; a month is never billed more than was
recorded; limits are exceeded by the overlapping requests at most; no call runs
on authority that had ended before it began; an answer about a sheet says what
it left out.

## Modules

Definitions keep the names of the Go functions and SQL queries. A handler that
issues several statements is one action per statement that reads or writes
shared state, with what it has read in the locals of the request; a transaction
is one action, or, in StripeSync, one action per statement whose lock or read
others can see. Mutants stand beside the definition they vary and are no part of
the model.

| Module | Extends | What it models |
|---|---|---|
| AuthSessions | | sessions, families and credentials |
| AccessGate | | access tokens, blacklist, ban cache |
| StepUp | | limiters and the second factor of one staff account |
| MailTokens, OneTimeLink | | mailed links over two stores, and what they promise |
| JobLock | | the Redis lock and the tickers of the replicas |
| EmailOutbox | | the mail job and its table |
| StripeSync | | webhook transactions |
| UsageLedger | | the monthly cap, the usage rows, rollup and prune |
| Connectors | | connectors, requests on them, the health sweep |
| Permissions | | what a granted action allows, narrowing by scopes |
| McpGateway | Connectors, Permissions | a call and a download, from the key to the upstream request |
| SheetTools | | scan, range, token-source cache |
| PlanCatalogue | | plans, prices, custom limits |
| Tenancy | PlanCatalogue | organizations, memberships and roles within the limits |
| Checkout | PlanCatalogue | checkout, portal, and what a subscription's events do |
| StaffConsole | | platform roles, bans, impersonation |
| ConsoleReads | | lists and statistics with cached totals |

`MC...` modules give the constants values and, where one run explores several
things that share no state, a variable `focus` that is chosen at the start:
MCGateway (calls, scan, range, tokens) and MCTenancy (members, catalogue, staff,
reads, checkout). `...Proofs` modules hold the theorems.

### AuthSessions

`rows`, `revoked`, `expired`, `aged`, `owner`, `family` and `cred` are the
sessions table; `accounts`, `password`, `legacy` and `banned` the columns of
users that decide about a login; `req` the locals of the requests. Login is
`LoginRead`, `LoginRehash`, `LoginRefuse`, `IssueTokenPair`; a refresh is
`RotateRead` and then `RotateReuse` or `RotateCommit`. `burned` and `forked` are
history: families reuse detection has revoked, and families in which a rotation
committed on a row that was no longer live.

### AccessGate

Tokens carry remaining life, blacklist keys theirs, and `Tick` ages both. `cache`
is the Redis ban cache, `banned` the column; `BanCommit`/`BanPrime` and
`UnbanCommit`/`UnbanClear` are the two steps of `SetBan`, `RedisFlush` a loss of
Redis' data. Sessions are abstracted to the set of users that have one.

### StepUp

Requests go `check`, `compare` or `row`, `incr`, `expire`, `reset`, `mark`,
`spend`, `store`: a statement each, and `Fail` ends one anywhere, keeping what it
wrote. The three limiters have one shape and share nothing, so a behaviour
follows one of them. A secret is numbered by its enrolment and a recovery code by
the confirmation that made it.

### MailTokens and OneTimeLink

A request for a link is cooldown, lookup, key, mail; following one is GETDEL and
then the write to Postgres; a registration puts its key in Redis before its transaction
commits the account and the mail together. `Fail` ends a request
between any two steps, with what it has done so far. OneTimeLink knows neither
Redis nor requests: a link is unused, usable or redeemed, belongs to one account,
and an account changes by redeeming a link of its own. The refinement mapping is
`PhaseOf` and `OwnerOf`: a token that a request has spent and not yet acted on is
redeemed, one in Redis is usable.

### JobLock

`holder` and `left` are the key and its TTL; `timer` and `due` a Go ticker, which
keeps its period and buffers one tick; `Start`, `Skip` and `LockError` are the
outcomes of `tryRun`, `Succeed`, `Fail` and `Crash` the ends of a run. `Orphan` is
the owner of a key nobody will release: a dead process, or an `Acquire` whose
answer was lost.

### EmailOutbox

The claim moves `left` (next_attempt_at) forward by the lease and counts the
attempt; `Send`, `MarkEmailSent`, `RecordFailure` and `OutcomeLost` are the loop
of a run, `Finish`, `Stop` and `Crash` its ends. `accepted` is history: the mails
the provider took.

### StripeSync and Checkout

A delivery goes through `HandleWebhook`, `ClaimStripeEvent`, `Resolve`, `Check`
(the row locked FOR UPDATE and its watermark compared), `Apply`, or ends in `Drop`,
`Unmapped`, `Stale`, `NothingToUpdate` or `Rollback`. `CheckNoRow` is the case in
which there is no row, and so nothing to lock. `AssignPlan` is the console's,
`ClaimOrgStripeCustomer` the checkout's write.

Checkout is what comes before: the plan and its active price are read, the
customer is found or created under the organization's idempotency key and claimed,
a session is opened. Stripe is external: it answers with the same customer for
the same key until it forgets the key, and a session may be paid whenever it is
open. What an event does to the row is one step there, since StripeSync has the
interleavings: `Pay` is `customer.subscription.created`, `Refresh` the invoices,
`checkout.session.completed` and `customer.subscription.updated` of a subscription
that is alive, `Cancel` its deletion, and `Straggle` an event of one that has
ended, which the watermark does not stop when it is of the second of the deletion
or later. All but a deletion write their subscription's id.

### UsageLedger

`events` is `usage_events`, `rollup` `usage_rollups`; `PassQuota`, `RefuseQuota`,
`FailOpen`, `Dispatch`, `RefuseRate`, `recordUsage` and `DropUsage` are the quota
branch of `enforce` and the deferred insert; `Run`, `RollupUsageEvents`,
`PruneUsageEvents` and `Abort` the job, whose window `rollupSince` computes when
the run begins. Months are given by their first instants and have different
lengths. `ledger` is history: every row ever written.

### Connectors, McpGateway, Permissions

A request reads a row, then writes what it made of it; the job takes a batch by
`last_health_check_at`, probes one row after the other, writes the status it found
and mails the owner on a transition to error. Several sweeps may be under way, in
one replica or two (`Sweeps`); a row that cannot be read or written is passed over
(`SweepFails`), an interruption ends the sweep (`Stop`). `told` and a sweep's `late`
are history: whose owner was told since a probe last succeeded, and which of them
was told by another sweep while this one already had the connector to do. A call keeps the principal and the
row it has read until it ends, while `Connectors`' actions and those on keys,
owners, memberships and grants go on around it. The token bucket is the Lua
script in one step. An action is a pair of a resource and a verb; `Allows` and
`Narrow` are those of `permission.go`.

### SheetTools

A query is a scan page by page: each step charges the bucket or is refused,
fetches a page, filters it and stops at the end, the window, or the budget; the
answer has its rows, `has_more` and what was left unscanned. A range is corners
and a tab's width, bounded to what will be sent, or refused. The cache is keyed
by connector and by a fingerprint of the credential.

### PlanCatalogue, Tenancy, StaffConsole, ConsoleReads

PlanCatalogue has the console's routes on plans and prices with the statements of
each, `ResolveLimit` with the overlay of custom limits, and the seed. Tenancy's
requests pass `RequireOrg`, which reads the caller's membership, and then count
and insert. StaffConsole reads the caller's role at the guard and the number of
superadmins before a promotion; a token minted to impersonate has a user and an
actor. ConsoleReads takes a page and its total, from the count cache or counted,
for each list with its own filters and cache key.

## Runs

| Run | Checks | Shows |
|---|---|---|
| `sessions` | LinearFamilies, DeadFamilyStaysDead, LoggedOutStaysOut | one live token per family unless a rotation committed on a consumed row; dead families and logged-out users stay so |
| `reuse_containment` | BurnedFamilyIsDead, violated | a rotation in flight survives reuse detection |
| `access_gate` | LoggedOutTokenRefused, BanBound, SealedUntilUnban | a logged-out token is refused; a ban ends all access within a token's life even if Redis forgets it |
| `step_up` | AttemptsBounded, SequentialStepUp, LockoutEnds | a limit is passed by less than the requests in progress; a lock ends; codes work once while requests do not overlap |
| `mail_tokens` | OneTime, VerifiedInTheEnd | two stores implement one-time links; failures spend tokens and delay, but do not prevent, verification |
| `job_lock` | StartsApart, Overlap, StartsAgain | runs start a lock TTL apart, overlap only past it, and never stop for good |
| `email_outbox` | OneHolder, NoSilentLoss, EveryMailSettles | the lease keeps runs apart; no mail is lost; every mail settles |
| `stripe_sync` | NewestWinsUnlessRaced, EntitlementFollowsBilling, EffectOnce, TenantIsolation | out-of-order and repeated deliveries are harmless where there is a row to lock |
| `usage_ledger` | NeverOvercounts, QuotaOvershootBounded, PrunedIsCounted | the cap's overshoot, and that nothing is pruned uncounted |
| `connectors` | ConnectorInv, OneMailPerOutage, SweepReaches | the limit's overshoot, that an outage is told again only by a sweep that overlapped the one that told of it, and that the sweep reaches every connector it can probe |
| `gateway` | NoStaleAuthority, LinksEnd, RateBounded, ScanHonest, RangeFaithful, RotationTakesEffect | what a revocation still lets happen and for how long; the bucket's bound on what is charged; honest scans, faithful ranges, and rotated credentials that take effect |
| `tenancy` | TenancyInv, RolesFollowMembership, SomeoneStays, StaffInv, StaysPurchasable, TotalFresh, BillingAgrees | limits under concurrent requests, roles that end with a membership, the catalogue under open subscriptions, the console's totals, and agreement with Stripe on who pays |

The violated property is a statement of the repository's README, quoted in
`findings`.

### Bounds, and why they are enough

- `sessions`: two requests, three tokens, two families, two passwords, one user.
  Every race in the code is between two handlers; two families distinguish a
  revocation by family from one by user, two passwords a reset from none. A token
  is issued once, so a behaviour has three sessions: a login and two rotations of
  its row, which leave two live successors in one family (`forked`), or a login,
  its rotation, and one more of either, with everything that can revoke or delete
  them meanwhile. At most one row of the table is expired and one past the
  retention (`FewRowsAge`). The theorems cover longer chains.
- `access_gate`: two tokens, two requests, TTLs of 3, 2 and 3 ticks: one that
  ends before, one with, and one after the others.
- `step_up`: two requests, a limit of one, so that it is passed by the other
  request; two codes, two enrolments and two confirmations, so that codes of two
  generations meet. The theorems cover any number of each.
- `mail_tokens`: one account, two links, two requests, two failures; a
  verification token lives two ticks, a reset token one, and so do the cooldowns,
  so that a link outlives a cooldown and another does not.
- `job_lock`: two replicas, an interval of 5 with a lock of 4 (the fraction left
  free is a fifth, in place of a tenth, so that both are integers), runs up to 7
  ticks: longer than the key and than the interval.
- `email_outbox`: two runs, two mails, two attempts, batches of one: a backlog
  remains after every claim, and the last attempt is reached.
- `stripe_sync`: two deliveries over five events of two tenants: a subscription
  that starts and is cancelled, an event of it that names the other tenant and a
  price outside the catalogue, an invoice of it, and one of an unknown customer.
- `usage_ledger`: three calls, two in flight, a cap of one, so that one too many
  is possible; months of 2 and 3 instants and a retention of 4, so that a cutoff
  crosses month starts at different offsets; two runs, prune batches of one, at
  most two a run.
- `connectors`: three connectors of both types, a limit of one, two requests beside
  one sweep, or two sweeps that overlap beside one request and start from two
  connectors (`focus`). Batches are of one, so that a sweep takes several rounds and
  a full batch of connectors without a checker can occur; the theorem OneMail covers
  longer batches and any number of sweeps. `MaxChanges` bounds updates, probes,
  deletions, failures and interruptions at two, beside overlapping sweeps at one
  (`MaxOverlapChanges`).
- `gateway`: one call and one download at a time with one key and one link, the
  connector of another organization beside, a bucket of two; for the tools, every
  sheet of up to five rows with pages of two, a budget of four and windows of two;
  an alphabet of two letters with three-letter columns, so that every carry of the
  column arithmetic occurs; three credentials in turn.
- `tenancy`: one organization with three people and two memberships each, two
  requests, a limit of one or two; two plans, three prices in two groups and four
  console requests; three accounts, a cap of two, and one impersonation token or
  one run of `cmd/grantadmin`; six lists of two rows; two
  carts, two customers and two subscriptions, with one session open at a time, and
  one checkout in progress at a time once both subscriptions were started
  (`FewCarts`).

Symmetry is used where no liveness is checked. Deadlock is not checked where a
bound ends the behaviours: connectors, gateway, tenancy and usage_ledger.

### Assumptions of the models

- SheetTools: a sheet stands still while it is paged through.
- ConsoleReads: a count and what follows it end within one unit of time of the
  cache miss before, so a total may be older than its TTL by that unit.
- Checkout: a request with the same idempotency key has the same parameters.
- MailTokens: a tick is hours, so no request outlives the token it is about to
  mail; nobody presents a token that was not mailed.
- Postgres READ COMMITTED and its row locks as documented, a Redis command and
  script atomic, signatures sound, no clock difference between hosts. In
  UsageLedger a worker whose clock is behind the database's could compute a
  window the prune has touched.

### Fairness

- JobLock (`StartsAgain`): time passes; a run ends when its context does; a
  dead process is restarted, as the deployment does; an idle replica takes its
  tick. `Start` is strongly fair: Redis may fail any `Acquire`, but not all of a
  replica's. The property is conditional on crashes stopping eventually.
- EmailOutbox (`EveryMailSettles`): time passes and a run moves on, its steps
  being plain sequential code under a context that ends; sends and records of a
  row are strongly fair, because crashes and failing writes that hit a row every
  single time would keep it pending for ever, in the code too.
- StepUp (`LockoutEnds`): a request ends, by itself or by failing, and Redis
  expires keys.
- Connectors (`SweepReaches`): sweeps begin again and again, as the ticker has it,
  and one that is under way goes on, being sequential code; failures and
  interruptions are bounded.
- MailTokens (`VerifiedInTheEnd`): the server goes on with a request and time
  passes. That users ask again and follow a link that has arrived is an
  assumption about people: without it nobody is verified.
- The other modules check safety only.

## Proofs

Each proof is by an inductive invariant that TLC has checked on the run's
instance. The runs do not repeat it: what it implies is what they check. It is
called `IndInv`, `StepUpInd` or `LockInd` in the component's module, and in
GatewayProofs and ConsoleProofs, where it speaks about the locals of requests and
is of no use outside the proof, `ConnInd`, `GateInd`, `TokenInd`, `ScanInd`, `RangeInd`, `StaffInd`,
`CatInd`, `TenInd`, `ShopInd` and `ReadInd`, beside the theorems. The
specifications of those two modules (`SpecConnectors`, `Spec`, `SpecSheets`,
`SpecStaff`, `SpecCatalogue`, `SpecTenancy`, `SpecShop`, `SpecReads`) are the
disjuncts of the runs' next-state relations, without the runs' bounds.

| Module | About | Theorems | Assumes |
|---|---|---|---|
| AuthSessionsProofs | AuthSessions | Invariance, Linearity, DeadForGood, LoggedOutForGood | nothing about the sizes |
| AccessProofs | AccessGate | Invariance, BanIsBounded, SealHolds, LogoutIsFinal | for LogoutIsFinal, no token outlives a blacklist key |
| | StepUp | StepUpInvariance, GuessesBounded, SequentialHolds | requests are finitely many |
| MailTokensProofs | MailTokens | Invariance, Implements | times to live are positive |
| EmailOutboxProofs | EmailOutbox | Invariance, SingleHolder, Final, NoLoss | for SingleHolder and Final, a cancelled run returns within an interval (`Grace < Interval`) |
| StripeSyncProofs | StripeSync | Invariance, NoRegression, ExactlyOnce, Entitlement, Isolation | nothing about events or deliveries |
| JobsProofs | JobLock | LockInvariance, Debounce, OverlapBound, ShortRunsAreSerialised | for the last, the longest run is shorter than the key |
| | UsageLedger | Invariance, Overshoot, NoOvercount, Durable, CountedBeforePruned | Overshoot's property carries its condition: no failed count and a retention of at least a month. CountedBeforePruned assumes `WindowPremise`: a lookback of at least two months (the code's is three) and months that last at least one rollup interval (15 minutes by default) |
| GatewayProofs | Connectors | CapHolds, OneMail | a patch changes no type and holds values the request validation lets through |
| | McpGateway | RateHolds, LinksHold, KeyAndRowLive, AuthorityLive | AuthorityLive, `PlainGrants`: no stored permission is the text `*:*` |
| | SheetTools | RotationHolds, ScanHolds, RangeHolds | there is a credential to begin with; pages, budgets and limits are positive, an alphabet has two letters at least; a tab is no wider than the last column (18278, Google's own ceiling) |
| ConsoleProofs | StaffConsole | CapAndGuardHold, SomeoneAlwaysStays | accounts and requests are finitely many |
| | PlanCatalogue | OnSaleHolds | a limit is a whole number |
| | Tenancy | OneOwnerAndRoomHold, RolesFollow | people and requests are finitely many |
| | Checkout | BillingHolds | the catalogue's |
| | ConsoleReads | TotalsHold | `ReadsAssumption`: of the filters only a connector's type may be an empty text, as `dto.go` validates them |

Why the properties need strengthening:

- *AuthSessions.* That a family has one live token is preserved by a rotation
  only because the row it read still names that family; `LocalsOK` says what the
  locals of a request refer to, and that a token without a row history has no
  family yet.
- *AccessGate.* The bound on a banned user's access is `life + since <= MaxTTL`,
  a sum that stays constant while both clocks run; `ClockOK` says the second runs
  only while the user is sealed. A logged-out token is refused because its
  blacklist key has at least the token's life left.
- *StepUp.* `Budget`: the counter plus the requests already let past it stays
  below the limit plus the requests; whoever is let past sees the counter below
  the limit, and whoever counts is let past no more. `Alone`: without overlap a
  request's copy of the codes is the stored one, and the secret it is about to
  confirm is the one it checked.
- *MailTokens.* `SpentOnce`: a token is with one request, and then in no key. So
  the choice in `OwnerOf` is unique, GETDEL maps to the abstract redemption, the
  write after it to its effect, and a failure between them to the loss of the
  link. That a token is fresh when a request makes it needs `RequestsOK`: a
  request holds no token before it made or spent one.
- *JobLock.* `GapOK` (age of the last start plus what is left of the key is at
  least the TTL) gives `StartsApart`; `KeyOK` (a run younger than the TTL holds
  the key) gives `Overlap`.
- *EmailOutbox.* `LeaseOK`: the lease left on a row plus the age of the run that
  holds it is at least the lease, so a row cannot be due while it is held.
- *StripeSync.* The transaction that passed the watermark check holds the row's
  lock until it commits, so what it compared is still true when it writes; a
  claim is visible only with the commit of what it stands for. For Entitlement
  the event that writes is then the newest witness of the plan it writes.
  Isolation rests on the unique indexes alone; a cancellation writes no
  subscription id, so there the customer's index is what protects.
- *UsageLedger.* `WindowIsWhole`: a pruned row is older than the cutoff and than
  the window of a run that has yet to roll up, so a recounted month still has all
  its rows. `Headroom`: what has landed this month plus what is in flight is
  below the cap plus the calls that may be in flight; a new month starts with
  nothing landed. The lemma `CountIsExact` ties the gateway's count to the ledger.
  For CountedBeforePruned, `Settled` (a month that was over at the last rollup is
  counted in full) is kept by a rollup because `LeftOutIsOld`: a month that a
  run's window leaves out ended an interval before.

- *Connectors.* A creation holds an id nobody else has, so it counts once, as a
  request and then as a row (`ConnIds`); whoever was let past the limit saw fewer
  rows than the limit, so rows and creations in progress together stay below it
  and the requests (`WithinCap`). `AlertOnce`: a connector whose owner was told
  has a row in error, unless an update has written an old status back; and what a
  sweep still has to write of it (`NewsOnly`) it saw in error too, or the owner was
  told while the sweep was under way. A batch holds each id once, since the order it
  is taken from does.
- *McpGateway.* `CallOK` goes with a call from step to step: what it holds was
  read from the key, the row or the links at a moment since it began, which
  `seen`, the history, remembers. The tool is apart (`ToolsOK`), since only there
  the hypothesis about `*:*` is needed: `Narrow` then gives a principal that is
  allowed nothing the role was not. A link's expiry is at most its lifetime
  after its key was last good (`LinkInd`). The bucket is by arithmetic: what was
  charged plus what would be there now is at most the capacity plus the refill so
  far. The connectors' invariant is used again, the gateway's steps leaving their
  variables alone.
- *SheetTools.* A cached source has the fingerprint of a credential, and equal
  fingerprints are equal credentials; what a call has opened lies between what was
  stored when it began and what is stored now (`ReaderOK`). A scan stands at the end
  of a whole page, before the last row that is not blank, with every match before it
  retained (`QueryOK`), and an answer keeps what the next query starts from
  (`AnswerOK`). A range is the outcome of its corners (`RangeInd`). These two are
  about what loops over rows and letters compute; the induction is the least-number
  principle (`LeastNat`, from WellFoundedInduction) on a set (`NatSet`, `UpTo`), not
  on an operator. From it come the equations of the recursive functions (`FoundDef`,
  `RetainDef`, `ColumnNumberDef`, `ColumnLettered`), then that a page adds to the
  buffer the page's matches while there is room (`RetainGathers`) and that
  `columnLetter` writes a numeral for its column (`ColumnLetterDef`).
- *StaffConsole.* `Alone`: with one request at a time and nobody suspended among
  the callers, the caller itself is the superadmin who stays, because nobody may
  target himself. The cap is as in Connectors: superadmins and promotions let past
  the count.
- *PlanCatalogue.* `EditOK`: a request that is about to take a price off sale has
  another price of the group in the table, unless a second request was let in on
  the same plan.
- *Tenancy.* `RequestsOK` says what of a request's reads is still true when it
  inserts, and `RoomOK` counts members together with the requests already let
  past the limit. A grant names the row of a membership, and rows are never used
  again, so a grant whose membership ended matches no later one.
- *Checkout.* `Main(o)`, the recorded customer or else the one the organization's
  idempotency key stands for, is the same for every request, session and subscription,
  alive or ended, of the organization (`CartOK`, `LinkOK`), until the key lapses with
  nothing recorded. An organization that is not `doubled` pays for one subscription
  at most, so whichever event of it is applied writes the right id; `WebhookStep` is
  that argument, once for all kinds of events.
- *ConsoleReads.* `last`, the history, is when each total was last true;
  `PageOK` and `EntryOK` bound by how much a page's or an entry's total can be
  older than now. `KeysFaithful`: two filters with one key are equal, but for the
  empty connector type.

Only model-checked: the liveness properties, since fairness and ENABLED are out of
the prover's reach. No module uses a RECURSIVE operator: the loops of SheetTools are
recursive functions.

## What the code does not promise

Behaviours met while modelling that no property claims, and that the models have.

- A login's rehash writes the hash of the password it verified, unconditionally
  by id: a reset that commits in between is undone (`LoginRehash`).
- A ban's cache entry has no TTL and is written after the commit: an overtaken
  ban, or a banned user's login that primes it while an unban runs, leaves an
  entry behind until the next unban. `blacklistTTL` is 15 minutes whatever
  `JWT_ACCESS_EXPIRES_IN` is, so `LoggedOutTokenRefused` depends on the
  configuration.
- The job lock is free in the last tenth of an interval, so two runs may start
  within one, against `worker.go:17`; and `docs/10-transactional-email.md` takes it to
  serialise runs, which holds only where a run is shorter than the key (13.5 s
  against a timeout of 5 min for the mail job). The lease is what protects rows.
- Two first deliveries for one organization have no row to lock, so the older may
  win (`raced`), against `docs/02-api-contract.md:172`.
- With a retention below a month and an interval, the prune removes rows no rollup
  has counted, against `docs/12-billing-and-metering.md:238-240`; configuration does not prevent it.
- Two requests with one recovery code both pass; a code read before a new
  enrolment is written over the new codes (`overlap`).
- `SetBan` and `ChangePlatformRole` decide on rows read before they write: two at
  once can leave a suspended superadmin, or none. `ChangePlatformRole` does not
  look at `banned_at` either: a suspended account may be promoted, and where its
  entry in the ban cache is lost it may demote the last superadmin who is not
  suspended (`loose`). A cap of one had hidden this from TLC; the attempt to prove
  SomeoneStays showed it.
- A role's permission strings are unrestricted, so the text `*:*` lets a key's
  scope `*` through, though `permission.go:51` says narrowing can "never widen".
- `max_roles` is required of a plan and enforced by nobody (`CreateRole`).
  Deleting a plan deletes its prices; a plan deleted under an open checkout
  session is paid for and assigned to nobody (`unnamed`); a plan may be published
  with no active price.
- Checkout does not ask whether the organization already pays, and
  `customer.subscription.deleted` clears the linkage whichever subscription it
  names: cancelling the older of two leaves a paying organization on the free
  plan, against `migrations/00013` 36-40 (`doubled`).
- Every event but a deletion writes its subscription's id back, whether or not that
  subscription has ended (`webhook.go:300-303`). The watermark stops only what is
  strictly older than the deletion, to the second: an update or an invoice of the same
  second, or a last invoice paid later, leaves an organization that does not pay with
  an id, against the same comment, until the next event of its customer (`relinked`).
- Two sweeps that overlap may both have seen a connector active and both mail its
  owner, against `connectorhealth/service.go:133` ("one email, not one per
  interval"). A sweep that cannot write what a probe found neither stamps the row nor
  tells anyone.
- The OAuth token source is cached with the context of the request that built it,
  so once that request has ended and the token has expired, refreshes fail until
  the credential changes or the process restarts. `TokenSourceCache.Delete` has
  no caller.
- The bucket is charged for a tool call's dispatch, and then for each page of a scan,
  the values of a range, the page of a folder, a file. Describing and listing
  spreadsheets make several upstream calls on the first charge, and the metadata and header requests of a query or a range (`query.go:166,182`,
  `readrange.go:402`) are not charged, though `config.go:106` says that
  `MCPRateLimitPerMin` caps upstream requests per connector. `RateBounded` speaks of
  what is charged, not of what reaches Google.
- A short page is taken for the end of the sheet (`query.go:266-270`), which is
  wrong when blank rows fall at the end of a page (`BlankPageEnd`); rows beyond
  the scan budget are out of reach of any offset, and the partial-scan warning
  advises a `next_offset` also after the bucket stopped the scan. The text "NaN" reads as a number that `eq` finds equal to nothing and `gte` and
  `lte` to everything; SheetTools has no such cell.
- The console's connector list counts `?type=` as the type `""` and caches it as
  no type, against `countcache.go:26-28` (`blurred`); search texts that hold a
  separator may share a key.

## Not modelled

Envelope encryption and hashing (what they promise is cryptographic), the HTTP
server and error envelope, configuration parsing, migrations, the wiring of the
commands, the rendering of mails and answers, and the frontend: none has state
the properties speak about. Describing a spreadsheet and listing a folder are one
bounded read each. Audit rows are written best-effort and decide nothing; their
listing is in ConsoleReads. Queries that only list rows for a tenant's page are
left out. `PROJECT.json` gives the reason for every part left out.

## What could come next

1. An abstract ban (a user is in or out) implemented by AuthSessions and
   AccessGate together, and an abstract mail queue implemented by EmailOutbox.
2. Sheets that change while they are paged through, and clocks that differ.
