----------------------------- MODULE AccessGate -----------------------------
(***************************************************************************)
(* What the guard of every authenticated route lets through: access tokens *)
(* with their expiry, the Redis blacklist that logout fills, and the Redis *)
(* ban cache in front of users.banned_at.                                  *)
(*                                                                         *)
(* Time is counted in ticks: a token or a key with a TTL of n lives n      *)
(* ticks.  The refresh sessions of AuthSessions appear here only as the    *)
(* set of users that have one, since all that matters to the guard is      *)
(* whether a user can still obtain an access token.  The login limiter,    *)
(* the password, the staff check of a ban and of an impersonation, and the *)
(* audit rows are left out: each only makes a request end early, which     *)
(* Abort does at any point.                                                *)
(***************************************************************************)
EXTENDS Naturals

CONSTANTS
    Users,
    Access,        \* access tokens that may exist at one time
    Requests,      \* request goroutines
    AccessTTL,     \* JWT_ACCESS_EXPIRES_IN
    ImpTTL,        \* impersonationTTL
    BlacklistTTL,  \* blacklistTTL
    None

ASSUME NoneAssumption == None \notin Users

ASSUME TTLAssumption ==
    /\ AccessTTL \in Nat \ {0}
    /\ ImpTTL \in Nat \ {0}
    /\ BlacklistTTL \in Nat \ {0}

VARIABLES
    banned,     \* users with banned_at set
    cache,      \* users with a banned:<userId> key
    live,       \* users with a live refresh session
    sub,        \* subject of an access token
    life,       \* ticks until an access token expires
    bl,         \* ticks until its blacklist key expires; 0 if there is none
    req,        \* locals of the request goroutines
    \* history
    presented,  \* tokens presented at a logout, their key not lost since
    since       \* ticks a user has been sealed, up to MaxTTL

tokenVars == <<sub, life>>
vars == <<banned, cache, live, tokenVars, bl, req, presented, since>>

MaxTTL == IF AccessTTL < ImpTTL THEN ImpTTL ELSE AccessTTL

-----------------------------------------------------------------------------
Stages == {"idle", "admit", "reprime", "refresh", "imp", "prime", "clear"}

\* Requests that hold a positive verdict on u and may mint a token for it.
Admitting == {"admit", "refresh", "imp"}

Local == [st : Stages, user : Users \cup {None}]

Idle == [st |-> "idle", user |-> None]

Goto(r, st, u) == req' = [req EXCEPT ![r] = [st |-> st, user |-> u]]

Done(r) == req' = [req EXCEPT ![r] = Idle]

At(r, st) == req[r].st = st

\* A banned user with no session and no request in flight that could still
\* mint a token.
Sealed(u) ==
    /\ u \in banned
    /\ u \notin live
    /\ \A r \in Requests : req[r].st \in Admitting => req[r].user # u

\* Guards.verify for a method that an impersonation token may use: not on
\* the blacklist, not expired, and its subject not in the ban cache.
Passes(a) ==
    /\ bl[a] = 0
    /\ life[a] > 0
    /\ sub[a] \notin cache

-----------------------------------------------------------------------------
Free(a) == life[a] = 0 /\ bl[a] = 0

\* jwt.NewWithClaims: subject and ExpiresAt = now + ttl.
Sign(a, u, ttl) ==
    /\ Free(a)
    /\ sub' = [sub EXCEPT ![a] = u]
    /\ life' = [life EXCEPT ![a] = ttl]
    /\ presented' = presented \ {a}

Init ==
    /\ banned = {} /\ cache = {} /\ live = {}
    /\ sub = [a \in Access |-> None]
    /\ life = [a \in Access |-> 0] /\ bl = [a \in Access |-> 0]
    /\ req = [r \in Requests |-> Idle]
    /\ presented = {}
    /\ since = [u \in Users |-> 0]

-----------------------------------------------------------------------------
\* Mutant: the ban is checked on Redis alone.
LoginReadCacheOnly(r, u) ==
    /\ At(r, "idle")
    /\ Goto(r, IF u \in cache THEN "reprime" ELSE "admit", u)
    /\ UNCHANGED <<banned, cache, live, tokenVars, bl, presented, since>>

\* Login up to the point where the row of the user has been read: a banned
\* one goes on to re-prime the ban cache, any other to its tokens.  Register
\* enters here too, with a row that is not banned.
LoginRead(r, u) ==
    /\ At(r, "idle")
    /\ Goto(r, IF u \in banned THEN "reprime" ELSE "admit", u)
    /\ UNCHANGED <<banned, cache, live, tokenVars, bl, presented, since>>

\* s.limiter.Ban of the user the login read as banned, then 403.
LoginReprime(r) ==
    /\ At(r, "reprime")
    /\ cache' = cache \cup {req[r].user}
    /\ Done(r)
    /\ UNCHANGED <<banned, live, tokenVars, bl, presented, since>>

\* issueTokenPair: a token is signed and a session opened for it.
IssueTokenPair(r, a) ==
    /\ At(r, "admit")
    /\ Sign(a, req[r].user, AccessTTL)
    /\ live' = live \cup {req[r].user}
    /\ Done(r)
    /\ UNCHANGED <<banned, cache, bl, since>>

\* RotateSession reads a live row.
RefreshRead(r, u) ==
    /\ At(r, "idle")
    /\ u \in live
    /\ Goto(r, "refresh", u)
    /\ UNCHANGED <<banned, cache, live, tokenVars, bl, presented, since>>

\* Its transaction inserts the next row, and the handler signs a token.
RefreshCommit(r, a) ==
    /\ At(r, "refresh")
    /\ Sign(a, req[r].user, AccessTTL)
    /\ live' = live \cup {req[r].user}
    /\ Done(r)
    /\ UNCHANGED <<banned, cache, bl, since>>

-----------------------------------------------------------------------------
\* Mutant: a banned target is not refused.
ImpersonateReadIgnoresBan(r, u) ==
    /\ At(r, "idle")
    /\ Goto(r, "imp", u)
    /\ UNCHANGED <<banned, cache, live, tokenVars, bl, presented, since>>

\* Impersonate reads the target's row and refuses a banned one.
ImpersonateRead(r, u) ==
    /\ At(r, "idle")
    /\ u \notin banned
    /\ Goto(r, "imp", u)
    /\ UNCHANGED <<banned, cache, live, tokenVars, bl, presented, since>>

ImpersonateMint(r, a) ==
    /\ At(r, "imp")
    /\ Sign(a, req[r].user, ImpTTL)
    /\ Done(r)
    /\ UNCHANGED <<banned, cache, live, bl, since>>

-----------------------------------------------------------------------------
\* The transaction of SetBan in the banning direction.
BanCommit(r, u) ==
    /\ At(r, "idle")
    /\ banned' = banned \cup {u}
    /\ live' = live \ {u}
    /\ Goto(r, "prime", u)
    /\ UNCHANGED <<cache, tokenVars, bl, presented, since>>

\* Priming the cache, best effort: Abort is the failure.
BanPrime(r) ==
    /\ At(r, "prime")
    /\ cache' = cache \cup {req[r].user}
    /\ Done(r)
    /\ UNCHANGED <<banned, live, tokenVars, bl, presented, since>>

\* The transaction of SetBan in the other direction; it revokes the sessions
\* as well.
UnbanCommit(r, u) ==
    /\ At(r, "idle")
    /\ banned' = banned \ {u}
    /\ live' = live \ {u}
    /\ since' = [since EXCEPT ![u] = 0]
    /\ Goto(r, "clear", u)
    /\ UNCHANGED <<cache, tokenVars, bl, presented>>

\* Unban on Redis.
UnbanClear(r) ==
    /\ At(r, "clear")
    /\ cache' = cache \ {req[r].user}
    /\ Done(r)
    /\ UNCHANGED <<banned, live, tokenVars, bl, presented, since>>

\* A reset, a role change, reuse detection, the cleanup job or the expiry of
\* the last row: a user has no live session left.
SessionsEnd(u) ==
    /\ u \in live
    /\ live' = live \ {u}
    /\ UNCHANGED <<banned, cache, tokenVars, bl, req, presented, since>>

-----------------------------------------------------------------------------
\* Mutant: only the session is revoked.
LogoutKeepsAccess(a) ==
    /\ life[a] > 0
    /\ presented' = presented \cup {a}
    /\ live' = live \ {sub[a]}
    /\ UNCHANGED <<banned, cache, tokenVars, bl, req, since>>

\* logout: the presented access token is blacklisted, and the sessions of the
\* refresh token's owner are revoked if the refresh token is known.
Logout(a) ==
    /\ life[a] > 0
    /\ bl' = [bl EXCEPT ![a] = BlacklistTTL]
    /\ presented' = presented \cup {a}
    /\ \/ live' = live \ {sub[a]}
       \/ UNCHANGED live
    /\ UNCHANGED <<banned, cache, tokenVars, req, since>>

-----------------------------------------------------------------------------
\* Redis loses its data set.
RedisFlush ==
    /\ cache' = {}
    /\ bl' = [a \in Access |-> 0]
    /\ presented' = {}
    /\ UNCHANGED <<banned, live, tokenVars, req, since>>

\* A statement fails, the client goes away or the process dies.  An unban
\* that stops before its Redis call is the failure SetBan reports.
Abort(r) ==
    /\ ~At(r, "idle")
    /\ Done(r)
    /\ UNCHANGED <<banned, cache, live, tokenVars, bl, presented, since>>

Minus1(n) == IF n > 0 THEN n - 1 ELSE 0

Tick ==
    /\ life' = [a \in Access |-> Minus1(life[a])]
    /\ bl' = [a \in Access |-> Minus1(bl[a])]
    /\ since' = [u \in Users |->
                    IF Sealed(u) /\ since[u] < MaxTTL THEN since[u] + 1
                    ELSE since[u]]
    /\ UNCHANGED <<banned, cache, live, sub, req, presented>>

-----------------------------------------------------------------------------
Next ==
    \/ \E r \in Requests, u \in Users :
        \/ LoginRead(r, u)
        \/ RefreshRead(r, u)
        \/ ImpersonateRead(r, u)
        \/ BanCommit(r, u)
        \/ UnbanCommit(r, u)
    \/ \E r \in Requests, a \in Access :
        \/ IssueTokenPair(r, a)
        \/ RefreshCommit(r, a)
        \/ ImpersonateMint(r, a)
    \/ \E r \in Requests :
        \/ LoginReprime(r)
        \/ BanPrime(r)
        \/ UnbanClear(r)
        \/ Abort(r)
    \/ \E u \in Users : SessionsEnd(u)
    \/ \E a \in Access : Logout(a)
    \/ RedisFlush
    \/ Tick

Spec == Init /\ [][Next]_vars

-----------------------------------------------------------------------------
(* Properties *)

\* Every variable has the type of the column, key or local it stands for.
TypeOK ==
    /\ banned \subseteq Users /\ cache \subseteq Users
    /\ live \subseteq Users
    /\ sub \in [Access -> Users \cup {None}]
    /\ presented \subseteq Access
    /\ life \in [Access -> 0..MaxTTL]
    /\ bl \in [Access -> 0..BlacklistTTL]
    /\ req \in [Requests -> Local]
    /\ since \in [Users -> 0..MaxTTL]

\* An access token presented at a logout is refused by the guard for as long
\* as it has not expired, unless Redis lost the blacklist.  It holds only
\* where MaxTTL <= BlacklistTTL: the code fixes blacklistTTL at 15 minutes
\* whatever JWT_ACCESS_EXPIRES_IN is.
LoggedOutTokenRefused == \A a \in presented : ~Passes(a)

\* The bound that Guards.verify and SetBan rest on: whatever Redis has lost,
\* an access token of a banned user that was signed before the user was
\* sealed dies within MaxTTL ticks, and no other can be signed.
BanBound ==
    \A u \in Users, a \in Access :
        sub[a] = u => life[a] + since[u] <= MaxTTL

\* The clock of a sealed user runs only while the user is sealed, and a
\* request at work knows its user.
ClockOK ==
    /\ \A u \in Users : since[u] > 0 => Sealed(u)
    /\ \A r \in Requests : req[r].st # "idle" => req[r].user \in Users

\* With the code's TTLs a blacklist key outlives the token it names.
BlacklistOutlives ==
    MaxTTL <= BlacklistTTL => \A a \in presented : life[a] <= bl[a]

\* The inductive invariant behind BanBound and LoggedOutTokenRefused.
IndInv == TypeOK /\ ClockOK /\ BanBound /\ BlacklistOutlives

\* A sealed user stays sealed until unbanned.
SealedUntilUnban ==
    [][\A u \in Users : Sealed(u) => Sealed(u)' \/ u \notin banned']_vars

=============================================================================
