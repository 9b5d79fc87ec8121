---------------------------- MODULE StaffConsole ----------------------------
(***************************************************************************)
(* Who is platform staff and what the console lets them do to accounts: the *)
(* guard that reads platform_role on every request, the role change with    *)
(* its cap, bans, impersonation, and cmd/grantadmin, which asks nobody.     *)
(*                                                                          *)
(* A token names a user and, when it was minted to impersonate, the staff   *)
(* member who holds it.  The address allowlist, the password and the second *)
(* factor (StepUp) may refuse any request; refusals that leave no trace are *)
(* steps a request need not take.                                           *)
(***************************************************************************)
EXTENDS Naturals, FiniteSets

CONSTANTS
    Accounts,
    Tabs,          \* console requests that can be in progress at one time
    Cap,           \* superadminCap
    MaxGrants,     \* bound: runs of cmd/grantadmin
    MaxMinted      \* bound: impersonation tokens

ASSUME StaffAssumption ==
    /\ IsFiniteSet(Accounts) /\ IsFiniteSet(Tabs) /\ Tabs # {}
    /\ Cap \in Nat \ {0} /\ MaxGrants \in Nat /\ MaxMinted \in Nat

VARIABLES
    role,       \* users.platform_role
    suspended,  \* users.banned_at
    minted,     \* impersonation tokens: user and actor
    tab,        \* a console request: holder, user, target and what it decided
    grants,     \* runs of cmd/grantadmin
    loose,      \* history: two writes were in progress at one time, or a
                \* suspended account's request was let in
    usurped     \* history: a write was let through for someone not entitled

staffHistory == <<loose, usurped>>
staffVars == <<role, suspended, minted, tab, grants, staffHistory>>

PlatformRoles == {"none", "support", "superadmin"}
NoTab == [op |-> "idle"]

CountSuperadmins == Cardinality({u \in Accounts : role[u] = "superadmin"})

\* The first superadmin came from cmd/grantadmin.
InitStaff ==
    /\ role \in {[v \in Accounts |-> IF v = u THEN "superadmin" ELSE "none"] : u \in Accounts}
    /\ suspended = {} /\ minted = {}
    /\ tab = [t \in Tabs |-> NoTab]
    /\ grants = 0 /\ loose = FALSE /\ usurped = FALSE

\* A user's own token, or one of those that were minted.
Tokens == [user : Accounts, actor : {"self"}] \cup minted

Holder(k) == IF k.actor = "self" THEN k.user ELSE k.actor

\* The refusal of an impersonation token and the role as it is now.  A ban is
\* refused by verify before that if its cache knows (AccessGate).
requirePlatformRole(k, allowed) == k.actor = "self" /\ role[k.user] \in allowed

Writers == {"superadmin"}
Readers == {"superadmin", "support"}

\* A superadmin's request passes the guard; reauth follows.
Enter(t, k, op, v, to) ==
    /\ tab[t] = NoTab /\ requirePlatformRole(k, Writers)
    /\ tab' = [tab EXCEPT ![t] = [op |-> op, user |-> k.user, target |-> v, to |-> to]]
    /\ usurped' = (usurped \/ role[Holder(k)] # "superadmin")
    /\ loose' = (loose \/ k.user \in suspended \/ \E s \in Tabs : tab[s] # NoTab)
    /\ UNCHANGED <<role, suspended, minted, grants>>

\* Mutant: the cap itself is let through.
BelowCapLate == CountSuperadmins <= Cap

\* SUPERADMIN_LIMIT otherwise.
BelowCap == CountSuperadmins < Cap

\* Mutant: one's own role can be given away.
MayChangeRoleOwn(q) == q.to = "superadmin" => BelowCap

\* Not one's own, and within the cap when promoting.
MayChangeRole(q) == q.target # q.user /\ (q.to = "superadmin" => BelowCap)

ChangePlatformRole(t) ==
    /\ tab[t].op = "role"
    /\ tab' = [tab EXCEPT ![t] = IF MayChangeRole(tab[t]) THEN [@ EXCEPT !.op = "write"] ELSE NoTab]
    /\ UNCHANGED <<role, suspended, minted, grants, staffHistory>>

\* The sessions that are revoked with it are AuthSessions'.
SetUserPlatformRole(t) ==
    /\ tab[t].op = "write"
    /\ role' = [role EXCEPT ![tab[t].target] = tab[t].to]
    /\ tab' = [tab EXCEPT ![t] = NoTab]
    /\ UNCHANGED <<suspended, minted, grants, staffHistory>>

\* Not oneself and not staff, in either direction.
SetBan(t) ==
    /\ tab[t].op \in {"ban", "unban"}
    /\ LET q == tab[t] IN
       tab' = [tab EXCEPT ![t] = IF q.target # q.user /\ role[q.target] = "none"
                                 THEN [q EXCEPT !.to = q.op, !.op = "writeban"] ELSE NoTab]
    /\ UNCHANGED <<role, suspended, minted, grants, staffHistory>>

SetUserBan(t) ==
    /\ tab[t].op = "writeban"
    /\ suspended' = IF tab[t].to = "ban" THEN suspended \cup {tab[t].target}
                    ELSE suspended \ {tab[t].target}
    /\ tab' = [tab EXCEPT ![t] = NoTab]
    /\ UNCHANGED <<role, minted, grants, staffHistory>>

\* On the read guard: neither staff nor a suspended account is a target.
Impersonate(k, v) ==
    /\ requirePlatformRole(k, Readers) /\ Cardinality(minted) < MaxMinted
    /\ role[v] = "none" /\ v \notin suspended
    /\ minted' = minted \cup {[user |-> v, actor |-> k.user]}
    /\ UNCHANGED <<role, suspended, tab, grants, staffHistory>>

\* impersonationTTL passes.
TokenExpires(k) ==
    /\ k \in minted /\ minted' = minted \ {k}
    /\ UNCHANGED <<role, suspended, tab, grants, staffHistory>>

\* cmd/grantadmin: any role for any account, without a cap.
grantPlatformRole(u, to) ==
    /\ grants < MaxGrants /\ grants' = grants + 1
    /\ role' = [role EXCEPT ![u] = to]
    /\ UNCHANGED <<suspended, minted, tab, staffHistory>>

Leave(t) ==
    /\ tab[t] # NoTab /\ tab' = [tab EXCEPT ![t] = NoTab]
    /\ UNCHANGED <<role, suspended, minted, grants, staffHistory>>

NextStaff ==
    \/ \E t \in Tabs, k \in Tokens, v \in Accounts :
          \/ \E to \in PlatformRoles : Enter(t, k, "role", v, to)
          \/ Enter(t, k, "ban", v, "none") \/ Enter(t, k, "unban", v, "none")
    \/ \E t \in Tabs : \/ ChangePlatformRole(t) \/ SetUserPlatformRole(t)
                       \/ SetBan(t) \/ SetUserBan(t) \/ Leave(t)
    \/ \E k \in Tokens, v \in Accounts : Impersonate(k, v)
    \/ \E k \in minted : TokenExpires(k)
    \/ \E u \in Accounts, to \in PlatformRoles : grantPlatformRole(u, to)

-----------------------------------------------------------------------------
(* Properties *)

Promoting == {t \in Tabs : tab[t].op = "write" /\ tab[t].to = "superadmin"}

\* The variables have their types, and promotions, which count and then
\* write without a lock, take the superadmins past the cap by the other
\* requests in progress at most, not counting those of cmd/grantadmin; and
\* whoever held the credential of a console write was superadmin when it was
\* let in: an impersonation token is no way there, also when its user is
\* promoted while it lives (ChangePlatformRole, requirePlatformRole, Impersonate).
StaffInv ==
    /\ role \in [Accounts -> PlatformRoles] /\ suspended \subseteq Accounts
    /\ CountSuperadmins + Cardinality(Promoting) <= Cap - 1 + Cardinality(Tabs) + grants
    /\ ~usurped

\* As long as console writes do not overlap, cmd/grantadmin is not run and no
\* suspended account gets past the ban cache, there is a superadmin who is not
\* suspended: who demotes stays, and staff is not suspended, though who is
\* suspended may become staff (ChangePlatformRole, SetBan).
SomeoneStays ==
    loose \/ grants > 0 \/ \E u \in Accounts \ suspended : role[u] = "superadmin"

=============================================================================
