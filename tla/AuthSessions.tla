---------------------------- MODULE AuthSessions ----------------------------
(***************************************************************************)
(* The refresh-token session store of the backend: the rows of the         *)
(* sessions table, the columns of the users table that decide whether a    *)
(* session may be opened, and every handler that inserts, revokes or       *)
(* deletes a session.                                                      *)
(*                                                                         *)
(* A handler is several statements.  Between two of them another request   *)
(* may run, so a handler is one action per statement that reads or writes  *)
(* shared state; what it read is kept in req[r], the locals of the         *)
(* request.  A transaction (Store.WithTx) is one action.  Postgres runs    *)
(* at READ COMMITTED: an UPDATE that revokes a set of sessions does not    *)
(* see a row inserted by a transaction that has not committed, so it is    *)
(* ordered before that insert, which the interleaving of atomic steps      *)
(* already includes.                                                       *)
(*                                                                         *)
(* Left out here: the login limiter, the Redis ban cache, access tokens    *)
(* and their blacklist, the reset key a reset redeems, users.is_verified,  *)
(* users.platform_role and audit rows; nothing below reads them to decide  *)
(* about a session, except that a reset needs a live key and a ban a       *)
(* target that is not staff, which may hold or not at any time.  A refresh *)
(* token that passes its signature check is one that was issued.           *)
(***************************************************************************)
EXTENDS Naturals, FiniteSets

CONSTANTS
    Users,       \* accounts, named by their e-mail address
    Tokens,      \* refresh tokens; one per sessions row
    Families,    \* token families
    Passwords,   \* the passwords a user may choose
    Requests,    \* request goroutines
    BatchSize,   \* rows one DeleteExpiredSessions statement may delete
    None         \* SQL NULL, and an unset local

ASSUME NoneAssumption ==
    None \notin Users \cup Tokens \cup Families \cup Passwords

ASSUME BatchAssumption == BatchSize \in Nat \ {0}

VARIABLES
    \* table sessions
    rows,       \* refresh tokens that have a row
    revoked,    \* rows with is_revoked = true
    expired,    \* rows with expires_at < now()
    aged,       \* rows with created_at < now() - retention
    owner,      \* user_id of a token; kept after its row is deleted
    family,     \* family of a token; kept after its row is deleted
    \* table users
    accounts,   \* users that have a row
    password,   \* the password that password_hash verifies
    legacy,     \* users whose password_hash needs a rehash
    banned,     \* users with banned_at set
    \* request goroutines
    req,
    \* history
    cred,       \* the password a token's family was opened with
    burned,     \* families revoked by reuse detection
    forked      \* families in which a rotation consumed a row no longer live

sessionVars == <<rows, revoked, expired, aged, owner, family, cred, forked>>
userVars    == <<accounts, password, legacy, banned>>
vars        == <<sessionVars, userVars, req, burned>>

-----------------------------------------------------------------------------
(* Locals of a request.  st is the statement the handler executes next.   *)

Stages == {"idle", "rotate", "reuse", "rehash", "admit"}

Local == [st : Stages, user : Users \cup {None}, tok : Tokens \cup {None},
          pw : Passwords \cup {None}, saw : {"clear", "banned"}]

Idle == [st |-> "idle", user |-> None, tok |-> None, pw |-> None,
         saw |-> "clear"]

Goto(r, local) == req' = [req EXCEPT ![r] = local]

Done(r) == Goto(r, Idle)

At(r, st) == req[r].st = st

-----------------------------------------------------------------------------
(* The SQL statements on sessions. *)

Live == rows \ revoked

LiveIn(f) == {t \in Live : family[t] = f}

LiveOf(u) == {t \in Live : owner[t] = u}

Issued == {t \in Tokens : owner[t] # None}

\* SignRefreshToken puts a random jti in every token.
FreshToken(t) == owner[t] = None

\* uuid.New() in issueTokenPair.
FreshFamily(f) == \A t \in Tokens : family[t] # f

Insert(t, u, f, p) ==
    /\ rows'   = rows \cup {t}
    /\ owner'  = [owner EXCEPT ![t] = u]
    /\ family' = [family EXCEPT ![t] = f]
    /\ cred'   = [cred EXCEPT ![t] = p]
    /\ UNCHANGED <<expired, aged>>

RevokeWhere(S) ==
    /\ revoked' = revoked \cup S
    /\ UNCHANGED <<rows, expired, aged, owner, family, cred, forked>>

RevokeSessionFamily(f) == RevokeWhere({t \in rows : family[t] = f})

RevokeAllUserSessions(u) == RevokeWhere({t \in rows : owner[t] = u})

Stale == expired \cup (revoked \cap aged)

\* A new hash is made with the current parameters.
UpdateUserPassword(u, p) ==
    /\ password' = [password EXCEPT ![u] = p]
    /\ legacy' = legacy \ {u}

-----------------------------------------------------------------------------
Init ==
    /\ rows = {} /\ revoked = {} /\ expired = {} /\ aged = {}
    /\ owner = [t \in Tokens |-> None]
    /\ family = [t \in Tokens |-> None]
    /\ cred = [t \in Tokens |-> None]
    \* Some users registered under an older hash profile.
    /\ accounts \in SUBSET Users
    /\ password \in [Users -> Passwords]
    /\ legacy \in SUBSET accounts
    /\ banned = {}
    /\ req = [r \in Requests |-> Idle]
    /\ burned = {} /\ forked = {}

-----------------------------------------------------------------------------
(* POST /auth/register *)

\* GetUserByEmail finds no row, and the transaction creates the user and
\* queues its verification mail.  Another registration in between makes the
\* unique e-mail constraint fail the transaction, so the two statements may
\* be taken as one.
Register(r, u, p) ==
    /\ At(r, "idle")
    /\ u \notin accounts
    /\ accounts' = accounts \cup {u}
    /\ UpdateUserPassword(u, p)
    /\ Goto(r, [Idle EXCEPT !.st = "admit", !.user = u, !.pw = p])
    /\ UNCHANGED <<sessionVars, banned, burned>>

-----------------------------------------------------------------------------
(* POST /auth/login *)

\* Mutant: the ban is not looked at when the credentials are checked.
LoginReadIgnoresBan(r, u, p) ==
    /\ At(r, "idle") /\ u \in accounts /\ password[u] = p
    /\ Goto(r, [Idle EXCEPT !.st = "admit", !.user = u, !.pw = p])
    /\ UNCHANGED <<sessionVars, userVars, burned>>

\* GetUserByEmail and password.Verify against the row it returned.  A wrong
\* password ends the request and changes nothing here.
LoginRead(r, u, p) ==
    /\ At(r, "idle")
    /\ u \in accounts
    /\ password[u] = p
    /\ Goto(r, [Idle EXCEPT !.st = IF u \in legacy THEN "rehash" ELSE "admit",
                            !.user = u, !.pw = p,
                            !.saw = IF u \in banned THEN "banned" ELSE "clear"])
    /\ UNCHANGED <<sessionVars, userVars, burned>>

\* rehashPassword: UpdateUserPassword by id, unconditionally, best effort.
LoginRehash(r) ==
    LET l == req[r] IN
    /\ At(r, "rehash")
    /\ \/ UpdateUserPassword(l.user, l.pw)
       \/ UNCHANGED <<password, legacy>>
    /\ Goto(r, [l EXCEPT !.st = "admit"])
    /\ UNCHANGED <<sessionVars, accounts, banned, burned>>

\* user.BannedAt.Valid, as read at the start of the login.
LoginRefuse(r) ==
    /\ At(r, "admit")
    /\ req[r].saw = "banned"
    /\ Done(r)
    /\ UNCHANGED <<sessionVars, userVars, burned>>

\* issueTokenPair, shared by register and login.
IssueTokenPair(r, n, f) ==
    LET l == req[r] IN
    /\ At(r, "admit")
    /\ l.saw = "clear"
    /\ FreshToken(n) /\ FreshFamily(f)
    /\ Insert(n, l.user, f, l.pw)
    /\ Done(r)
    /\ UNCHANGED <<revoked, forked, userVars, burned>>

-----------------------------------------------------------------------------
(* POST /auth/refresh *)

\* Mutant: a revoked row is not recognised as reuse.
RotateReadNoReuse(r, t) ==
    /\ At(r, "idle") /\ t \in rows \ expired
    /\ Goto(r, [Idle EXCEPT !.st = "rotate", !.tok = t])
    /\ UNCHANGED <<sessionVars, userVars, burned>>

\* GetSessionByRefreshToken and the checks made on the row: no row and an
\* expired row end the request, a revoked one is reuse.
RotateRead(r, t) ==
    /\ At(r, "idle")
    /\ t \in rows
    /\ t \in revoked \/ t \notin expired
    /\ Goto(r, [Idle EXCEPT !.st = IF t \in revoked THEN "reuse" ELSE "rotate",
                            !.tok = t])
    /\ UNCHANGED <<sessionVars, userVars, burned>>

RotateReuse(r) ==
    LET f == family[req[r].tok] IN
    /\ At(r, "reuse")
    /\ RevokeSessionFamily(f)
    /\ burned' = burned \cup {f}
    /\ Done(r)
    /\ UNCHANGED <<userVars>>

\* Mutant: the old row is left unrevoked.
RotateCommitKeepsOld(r, n) ==
    LET t == req[r].tok IN
    /\ At(r, "rotate") /\ FreshToken(n)
    /\ Insert(n, owner[t], family[t], cred[t])
    /\ forked' = IF t \in Live THEN forked ELSE forked \cup {family[t]}
    /\ Done(r)
    /\ UNCHANGED <<revoked, userVars, burned>>

\* The transaction: RevokeSessionByID of the row read earlier, whatever it
\* has become, and CreateSession of the new token in the same family.
RotateCommit(r, n) ==
    LET t == req[r].tok IN
    /\ At(r, "rotate")
    /\ FreshToken(n)
    /\ revoked' = revoked \cup ({t} \cap rows)
    /\ Insert(n, owner[t], family[t], cred[t])
    /\ forked' = IF t \in Live THEN forked ELSE forked \cup {family[t]}
    /\ Done(r)
    /\ UNCHANGED <<userVars, burned>>

-----------------------------------------------------------------------------
(* POST /auth/logout *)

\* GetSessionByRefreshToken, then RevokeAllUserSessions of the row's user,
\* which no statement changes: the two may be taken as one.
Logout(t) ==
    /\ t \in rows
    /\ RevokeAllUserSessions(owner[t])
    /\ UNCHANGED <<userVars, req, burned>>

-----------------------------------------------------------------------------
(* POST /auth/reset-password *)

\* The transaction that stores the new hash and revokes every session.  The
\* redemption before it (GETDEL of the key, GetUserByID) reads nothing a
\* session handler writes, so the two may be taken as one.
ResetPassword(u, p) ==
    /\ u \in accounts
    /\ UpdateUserPassword(u, p)
    /\ RevokeAllUserSessions(u)
    /\ UNCHANGED <<accounts, banned, req, burned>>

-----------------------------------------------------------------------------
(* The admin console's mutations of a user. *)

\* The transaction of SetBan: banned_at and the revocation, in both
\* directions.
SetBan(u, ban) ==
    /\ u \in accounts
    /\ banned' = IF ban THEN banned \cup {u} ELSE banned \ {u}
    /\ RevokeAllUserSessions(u)
    /\ UNCHANGED <<accounts, password, legacy, req, burned>>

\* The transaction of ChangePlatformRole: the role and the revocation.
ChangePlatformRole(u) ==
    /\ u \in accounts
    /\ RevokeAllUserSessions(u)
    /\ UNCHANGED <<userVars, req, burned>>

-----------------------------------------------------------------------------
(* The session-cleanup job, the clock, and requests that stop. *)

\* One DeleteExpiredSessions statement.
DeleteExpiredSessions ==
    /\ \E S \in SUBSET Stale :
        /\ S # {}
        /\ Cardinality(S) <= BatchSize
        /\ Cardinality(S) < BatchSize => S = Stale
        /\ rows' = rows \ S
        /\ revoked' = revoked \ S
        /\ expired' = expired \ S
        /\ aged' = aged \ S
    /\ UNCHANGED <<owner, family, cred, forked, userVars, req, burned>>

\* The refresh TTL and the retention are settings a deployment may change,
\* so rows may pass either limit in any order.
SessionExpires(t) ==
    /\ t \in rows \ expired
    /\ expired' = expired \cup {t}
    /\ UNCHANGED <<rows, revoked, aged, owner, family, cred, forked,
                   userVars, req, burned>>

SessionAges(t) ==
    /\ t \in rows \ aged
    /\ aged' = aged \cup {t}
    /\ UNCHANGED <<rows, revoked, expired, owner, family, cred, forked,
                   userVars, req, burned>>

\* A statement fails, the client disconnects, or the process dies.
Abort(r) ==
    /\ ~At(r, "idle")
    /\ Done(r)
    /\ UNCHANGED <<sessionVars, userVars, burned>>

-----------------------------------------------------------------------------
Next ==
    \/ \E r \in Requests :
        \/ \E u \in Users, p \in Passwords :
            \/ Register(r, u, p)
            \/ LoginRead(r, u, p)
        \/ LoginRehash(r)
        \/ LoginRefuse(r)
        \/ \E n \in Tokens, f \in Families : IssueTokenPair(r, n, f)
        \/ \E t \in Tokens : RotateRead(r, t)
        \/ RotateReuse(r)
        \/ \E n \in Tokens : RotateCommit(r, n)
        \/ Abort(r)
    \/ \E t \in Tokens :
        \/ Logout(t)
        \/ SessionExpires(t)
        \/ SessionAges(t)
    \/ \E u \in Users :
        \/ \E p \in Passwords : ResetPassword(u, p)
        \/ \E ban \in BOOLEAN : SetBan(u, ban)
        \/ ChangePlatformRole(u)
    \/ DeleteExpiredSessions

Spec == Init /\ [][Next]_vars

-----------------------------------------------------------------------------
(* Properties *)

\* Every variable has the type of the column, key or local it stands for,
\* and the row sets describe rows that exist.
TypeOK ==
    /\ rows \subseteq Tokens
    /\ revoked \subseteq rows /\ expired \subseteq rows /\ aged \subseteq rows
    /\ owner \in [Tokens -> Users \cup {None}]
    /\ family \in [Tokens -> Families \cup {None}]
    /\ cred \in [Tokens -> Passwords \cup {None}]
    /\ accounts \subseteq Users
    /\ password \in [Users -> Passwords]
    /\ legacy \subseteq Users
    /\ banned \subseteq Users
    /\ req \in [Requests -> Local]
    /\ burned \subseteq Families /\ forked \subseteq Families

\* What a request remembers names things that exist, and so does a row.
LocalsOK ==
    /\ banned \subseteq accounts
    /\ rows \subseteq Issued
    /\ \A t \in Issued : family[t] \in Families /\ cred[t] \in Passwords
    /\ \A t \in Tokens \ Issued : family[t] = None
    /\ \A r \in Requests :
        /\ req[r].st \in {"rotate", "reuse"} => req[r].tok \in Issued
        /\ req[r].st \in {"rehash", "admit"} =>
                req[r].user \in accounts /\ req[r].pw \in Passwords

\* RotateSession keeps a family linear: unless a rotation commits on a row
\* another request revoked or deleted after it was read, a family never
\* holds two live sessions.
LinearFamilies ==
    \A f \in Families \ forked :
        \A s, t \in LiveIn(f) : s = t

\* The inductive invariant behind LinearFamilies and the action properties.
IndInv == TypeOK /\ LocalsOK /\ LinearFamilies

\* A family whose sessions are all revoked or deleted, and that no rotation
\* is still working on.
DeadFamily(f) ==
    /\ \E t \in Issued : family[t] = f
    /\ LiveIn(f) = {}
    /\ \A r \in Requests : At(r, "rotate") => family[req[r].tok] # f

\* A dead family is dead for good: neither a replay of any of its tokens nor
\* a new login brings it back.
DeadFamilyStaysDead ==
    [][\A f \in Families : DeadFamily(f) => DeadFamily(f)']_vars

\* Credentials of u that a request has already checked, and may turn into a
\* session.
Admitted(r, u) ==
    \/ req[r].st \in {"rehash", "admit"} /\ req[r].user = u /\ req[r].saw = "clear"
    \/ At(r, "rotate") /\ owner[req[r].tok] = u

\* u has no session and no request that can still open one.
LoggedOut(u) ==
    /\ LiveOf(u) = {}
    /\ \A r \in Requests : ~Admitted(r, u)

\* A request checks the current password of an account that is not banned.
FreshLogin(u) ==
    /\ u \notin banned
    /\ \E r \in Requests :
        /\ ~Admitted(r, u) /\ Admitted(r, u)'
        /\ req'[r].pw = password'[u]

\* Once a logout, a reset, a ban or a role change has left a user logged out,
\* only a login or registration with the current password of an account that
\* is not banned lets the user back in.
LoggedOutStaysOut ==
    [][\A u \in Users : LoggedOut(u) => LoggedOut(u)' \/ FreshLogin(u)]_vars

\* README.md: replaying a rotated or revoked refresh token revokes the
\* entire token family.
BurnedFamilyIsDead == \A f \in burned : LiveIn(f) = {}

=============================================================================
