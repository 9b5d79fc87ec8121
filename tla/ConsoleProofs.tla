--------------------------- MODULE ConsoleProofs ----------------------------
(***************************************************************************)
(* Proofs about what the console and the organizations write to the same   *)
(* database: StaffConsole, PlanCatalogue, Tenancy, Checkout and            *)
(* ConsoleReads, for any number of accounts, plans, prices,                *)
(* organizations, users and requests. Every request is a sequence of       *)
(* statements with others between them, so each invariant says what of a   *)
(* request's reads is still true when it writes.                           *)
(***************************************************************************)
EXTENDS Tenancy, StaffConsole, ConsoleReads, Checkout, FiniteSetTheorems, TLAPS

-----------------------------------------------------------------------------
(* The platform staff *)

SpecStaff == InitStaff /\ [][NextStaff]_staffVars

TabRows == [op : {"role", "write", "ban", "unban", "writeban"}, user : Accounts,
            target : Accounts, to : PlatformRoles \cup {"ban", "unban"}]

StaffTypes ==
    /\ role \in [Accounts -> PlatformRoles] /\ suspended \subseteq Accounts
    /\ tab \in [Tabs -> TabRows \cup {NoTab}]
    /\ \A t \in Tabs : tab[t] # NoTab => (tab[t].op = "write" => tab[t].to \in PlatformRoles)
                                         /\ (tab[t].op = "role" => tab[t].to \in PlatformRoles)
    /\ grants \in Nat /\ minted \subseteq [user : Accounts, actor : Accounts]

\* While no two requests run together, a request's own superadmin is one who
\* stays: nobody else writes, and the request does not write to its own.
Alone ==
    ~loose /\ grants = 0 =>
        /\ \A s, t \in Tabs : tab[s] # NoTab /\ tab[t] # NoTab => s = t
        /\ \A t \in Tabs : tab[t] # NoTab =>
              /\ role[tab[t].user] = "superadmin" /\ tab[t].user \notin suspended
              /\ tab[t].op \in {"write", "writeban"} => tab[t].target # tab[t].user
        /\ \E u \in Accounts \ suspended : role[u] = "superadmin"

StaffInd == StaffTypes /\ StaffInv /\ Alone

\* A request in progress is not the empty one.
LEMMA TabOps == NoTab \notin TabRows /\ NoTab.op = "idle"
BY DEF NoTab, TabRows

\* One account's role changes the number of superadmins by one at most, and
\* not upwards when it is another role (SetUserPlatformRole, cmd/grantadmin).
LEMMA SuperadminCount ==
    ASSUME role \in [Accounts -> PlatformRoles], NEW v \in Accounts, NEW to,
           role' = [role EXCEPT ![v] = to]
    PROVE  /\ CountSuperadmins \in Nat /\ CountSuperadmins' \in Nat
           /\ CountSuperadmins' <= CountSuperadmins + 1
           /\ to # "superadmin" => CountSuperadmins' <= CountSuperadmins
<1> DEFINE S == {u \in Accounts : role[u] = "superadmin"}
           T == {u \in Accounts : role'[u] = "superadmin"}
<1>1. IsFiniteSet(Accounts)
  BY StaffAssumption
<1>2. IsFiniteSet(S) /\ IsFiniteSet(T)
  BY <1>1, FS_Subset
<1>3. T \subseteq S \cup {v} /\ (to # "superadmin" => T \subseteq S)
  OBVIOUS
<1>4. /\ Cardinality(S) \in Nat /\ Cardinality(T) \in Nat
      /\ IsFiniteSet(S \cup {v}) /\ Cardinality(S \cup {v}) <= Cardinality(S) + 1
  <2>1. Cardinality(S \cup {v}) = IF v \in S THEN Cardinality(S) ELSE Cardinality(S) + 1
    BY <1>2, FS_AddElement
  <2>2. Cardinality(S) \in Nat /\ Cardinality(T) \in Nat /\ IsFiniteSet(S \cup {v})
    BY <1>2, FS_CardinalityType, FS_AddElement
  <2> QED BY <2>1, <2>2
<1>5. Cardinality(T) <= Cardinality(S \cup {v})
  BY <1>3, <1>4, FS_Subset
<1>6. to # "superadmin" => Cardinality(T) <= Cardinality(S)
  BY <1>2, <1>3, FS_Subset
<1>7. CountSuperadmins = Cardinality(S) /\ CountSuperadmins' = Cardinality(T)
  BY DEF CountSuperadmins
<1>8. Cardinality(S \cup {v}) \in Nat
  BY <1>4, FS_CardinalityType
<1> QED
  <2> HIDE DEF S, T
  <2> QED BY <1>4, <1>5, <1>6, <1>7, <1>8

\* A promotion in progress is one of the requests; when one ends there is one
\* less.
LEMMA PromotingCount ==
    /\ IsFiniteSet(Promoting) /\ IsFiniteSet(Promoting')
    /\ Cardinality(Promoting) \in Nat /\ Cardinality(Promoting') \in Nat /\ Cardinality(Tabs) \in Nat
    /\ Cardinality(Promoting') <= Cardinality(Tabs)
    /\ Promoting' \subseteq Promoting => Cardinality(Promoting') <= Cardinality(Promoting)
    /\ \A t \in Promoting : Promoting' \subseteq Promoting \ {t}
                            => Cardinality(Promoting') + 1 <= Cardinality(Promoting)
<1>1. IsFiniteSet(Tabs) /\ Promoting \subseteq Tabs /\ Promoting' \subseteq Tabs
  BY StaffAssumption DEF Promoting
<1>2. IsFiniteSet(Promoting) /\ IsFiniteSet(Promoting')
  BY <1>1, FS_Subset
<1>3. ASSUME NEW t \in Promoting, Promoting' \subseteq Promoting \ {t}
      PROVE  Cardinality(Promoting') + 1 <= Cardinality(Promoting)
  <2>1. IsFiniteSet(Promoting \ {t}) /\ Cardinality(Promoting \ {t}) = Cardinality(Promoting) - 1
    BY <1>2, FS_RemoveElement
  <2>2. Cardinality(Promoting') <= Cardinality(Promoting \ {t})
    BY <1>3, <2>1, FS_Subset
  <2> QED BY <1>2, <2>1, <2>2, FS_CardinalityType
<1> QED BY <1>1, <1>2, <1>3, FS_Subset, FS_CardinalityType

\* The invariant holds at the start.
LEMMA StaffInit == InitStaff => StaffInd
<1> SUFFICES ASSUME InitStaff PROVE StaffInd
  OBVIOUS
<1>0. PICK u \in Accounts : role = [v \in Accounts |-> IF v = u THEN "superadmin" ELSE "none"]
  BY DEF InitStaff
<1>1. /\ suspended = {} /\ minted = {} /\ tab = [t \in Tabs |-> NoTab]
      /\ grants = 0 /\ usurped = FALSE
  BY DEF InitStaff
<1>2. role \in [Accounts -> PlatformRoles]
  BY <1>0 DEF PlatformRoles
<1>3. StaffTypes
  BY <1>1, <1>2 DEF StaffTypes
<1>4. Alone
  BY <1>0, <1>1 DEF Alone
<1>5. CountSuperadmins = 1
  <2>1. {v \in Accounts : role[v] = "superadmin"} = {u}
    BY <1>0
  <2> QED BY <2>1, FS_Singleton DEF CountSuperadmins
<1>6. Promoting = {} /\ Cardinality(Promoting) = 0
  BY <1>1, TabOps, FS_EmptySet DEF Promoting
<1>7. Cardinality(Tabs) \in Nat /\ Cardinality(Tabs) >= 1
  <2>1. Cardinality(Tabs) \in Nat /\ Cardinality(Tabs) # 0
    BY StaffAssumption, FS_CardinalityType, FS_EmptySet
  <2> QED BY <2>1
<1>8. CountSuperadmins + Cardinality(Promoting) <= Cap - 1 + Cardinality(Tabs) + grants
  BY <1>1, <1>5, <1>6, <1>7, StaffAssumption
<1> QED BY <1>1, <1>2, <1>3, <1>4, <1>8 DEF StaffInd, StaffInv

\* A step of a request, apart from the write of a role, changes neither the
\* roles nor the number of runs of cmd/grantadmin.
LEMMA BoundKept ==
    ASSUME StaffTypes, StaffInv, UNCHANGED <<role, grants>>, ~usurped', suspended' \subseteq Accounts,
           Promoting' \subseteq Promoting
    PROVE  StaffInv'
<1>1. CountSuperadmins' = CountSuperadmins /\ CountSuperadmins \in Nat
  <2>1. IsFiniteSet({u \in Accounts : role[u] = "superadmin"})
    BY StaffAssumption, FS_Subset
  <2> QED BY <2>1, FS_CardinalityType DEF CountSuperadmins
<1>2. CountSuperadmins + Cardinality(Promoting') <= Cap - 1 + Cardinality(Tabs) + grants
  BY <1>1, PromotingCount, StaffAssumption DEF StaffInv, StaffTypes
<1> QED BY <1>1, <1>2 DEF StaffInv

\* A request passes requirePlatformRole.
LEMMA EnterStep ==
    ASSUME StaffInd, NEW t \in Tabs, NEW k \in Tokens, NEW v \in Accounts, NEW op, NEW to,
           Enter(t, k, op, v, to),
           \/ op = "role" /\ to \in PlatformRoles
           \/ op \in {"ban", "unban"} /\ to = "none"
    PROVE  StaffInd'
<1> DEFINE q == [op |-> op, user |-> k.user, target |-> v, to |-> to]
<1>1. /\ tab[t] = NoTab /\ k.actor = "self" /\ role[k.user] = "superadmin"
      /\ tab' = [tab EXCEPT ![t] = q] /\ usurped' = (usurped \/ role[Holder(k)] # "superadmin")
      /\ loose' = (loose \/ k.user \in suspended \/ \E s \in Tabs : tab[s] # NoTab)
      /\ UNCHANGED <<role, suspended, minted, grants>>
  BY DEF Enter, requirePlatformRole, Writers
<1>2. k.user \in Accounts /\ StaffTypes
  BY DEF Tokens, StaffInd, StaffTypes
<1>3. q \in TabRows /\ q # NoTab
  BY <1>2, TabOps DEF TabRows, PlatformRoles
<1>4. tab'[t] = q /\ \A s \in Tabs \ {t} : tab'[s] = tab[s]
  BY <1>1, <1>2 DEF StaffTypes
<1>5. StaffTypes'
  <2>1. tab' \in [Tabs -> TabRows \cup {NoTab}]
    BY <1>1, <1>2, <1>3 DEF StaffTypes
  <2> QED BY <1>1, <1>2, <1>4, <2>1 DEF StaffTypes
<1>6. StaffInv'
  <2>1. ~usurped'
    BY <1>1 DEF Holder, StaffInd, StaffInv
  <2>2. Promoting' \subseteq Promoting
    BY <1>4 DEF Promoting
  <2> QED BY <1>1, <1>2, <2>1, <2>2, BoundKept DEF StaffInd, StaffTypes
<1>7. Alone'
  <2> SUFFICES ASSUME ~loose', grants = 0 PROVE Alone'
    BY <1>1 DEF Alone
  <2>1. ~loose /\ k.user \notin suspended /\ \A s \in Tabs : tab[s] = NoTab
    BY <1>1
  <2>2. \A s \in Tabs : tab'[s] # NoTab => s = t
    BY <1>4, <2>1
  <2>3. \E u \in Accounts \ suspended : role[u] = "superadmin"
    BY <1>1, <1>2, <2>1
  <2> QED BY <1>1, <1>4, <2>1, <2>2, <2>3 DEF Alone
<1> QED BY <1>5, <1>6, <1>7 DEF StaffInd

\* A request goes on, or ends, without writing.
LEMMA DecideStep ==
    ASSUME StaffInd, NEW t \in Tabs, tab[t] # NoTab, NEW q,
           tab' = [tab EXCEPT ![t] = q], UNCHANGED <<role, suspended, minted, grants, staffHistory>>,
           \/ q = NoTab
           \/ /\ q \in TabRows /\ q.user = tab[t].user /\ q.target = tab[t].target
              /\ q.target # q.user /\ q.op \in {"write", "writeban"}
              /\ q.op = "write" => /\ q.to \in PlatformRoles
                                   /\ q.to = "superadmin" => BelowCap
    PROVE  StaffInd'
<1>1. StaffTypes /\ Alone /\ StaffInv /\ tab'[t] = q /\ \A s \in Tabs \ {t} : tab'[s] = tab[s]
  BY DEF StaffInd, StaffTypes
<1>2. StaffTypes'
  <2>1. tab' \in [Tabs -> TabRows \cup {NoTab}]
    BY <1>1 DEF StaffTypes
  <2> QED BY <1>1, <2>1, TabOps DEF StaffTypes
<1>3. Alone'
  <2> SUFFICES ASSUME ~loose, grants = 0 PROVE Alone'
    BY DEF Alone, staffHistory
  <2>1. \A s \in Tabs : tab[s] # NoTab => s = t
    BY <1>1 DEF Alone
  <2>2. \A s \in Tabs : tab'[s] # NoTab => s = t /\ tab'[s] = q /\ q # NoTab
    BY <1>1, <2>1
  <2> QED BY <1>1, <2>1, <2>2 DEF Alone
<1>4. StaffInv'
  <2>1. ~usurped'
    BY <1>1 DEF staffHistory, StaffInv
  <2>2. CASE q # NoTab /\ q.op = "write" /\ q.to = "superadmin"
    <3>1. CountSuperadmins < Cap /\ CountSuperadmins' = CountSuperadmins /\ CountSuperadmins \in Nat
      <4>1. IsFiniteSet({u \in Accounts : role[u] = "superadmin"})
        BY StaffAssumption, FS_Subset
      <4> QED BY <2>2, <4>1, FS_CardinalityType, TabOps DEF CountSuperadmins, BelowCap
    <3>2. CountSuperadmins' + Cardinality(Promoting') <= Cap - 1 + Cardinality(Tabs) + grants
      BY <1>1, <3>1, PromotingCount, StaffAssumption DEF StaffTypes
    <3> QED BY <1>1, <2>1, <3>2 DEF StaffInv
  <2>3. CASE ~(q # NoTab /\ q.op = "write" /\ q.to = "superadmin")
    <3>1. Promoting' \subseteq Promoting
      BY <1>1, <2>3, TabOps DEF Promoting
    <3> QED BY <1>1, <2>1, <3>1, BoundKept DEF StaffTypes
  <2> QED BY <2>2, <2>3
<1> QED BY <1>2, <1>3, <1>4 DEF StaffInd

\* SetUserPlatformRole: the write of a role.
LEMMA RoleWritten ==
    ASSUME StaffInd, NEW t \in Tabs, SetUserPlatformRole(t)
    PROVE  StaffInd'
<1> DEFINE q == tab[t]
<1>1. /\ StaffTypes /\ StaffInv /\ Alone /\ q \in TabRows /\ q.op = "write" /\ q # NoTab
      /\ q.to \in PlatformRoles /\ q.target \in Accounts /\ q.user \in Accounts
      /\ role' = [role EXCEPT ![q.target] = q.to] /\ tab' = [tab EXCEPT ![t] = NoTab]
      /\ UNCHANGED <<suspended, minted, grants, loose, usurped>>
  BY TabOps DEF SetUserPlatformRole, StaffInd, StaffTypes, TabRows, staffHistory
<1>2. tab'[t] = NoTab /\ \A s \in Tabs \ {t} : tab'[s] = tab[s]
  BY <1>1 DEF StaffTypes
<1>3. StaffTypes'
  <2>1. tab' \in [Tabs -> TabRows \cup {NoTab}] /\ role' \in [Accounts -> PlatformRoles]
    BY <1>1 DEF StaffTypes
  <2> QED BY <1>1, <1>2, <2>1 DEF StaffTypes
<1>4. Alone'
  <2> SUFFICES ASSUME ~loose, grants = 0 PROVE Alone'
    BY <1>1 DEF Alone
  <2>1. \A s \in Tabs : tab'[s] = NoTab
    BY <1>1, <1>2 DEF Alone
  <2>2. q.user \in Accounts \ suspended /\ role'[q.user] = "superadmin"
    BY <1>1 DEF Alone, StaffTypes
  <2> QED BY <1>1, <2>1, <2>2 DEF Alone
<1>5. StaffInv'
  <2>1. /\ CountSuperadmins \in Nat /\ CountSuperadmins' \in Nat
        /\ CountSuperadmins' <= CountSuperadmins + 1
        /\ q.to # "superadmin" => CountSuperadmins' <= CountSuperadmins
    BY <1>1, SuperadminCount DEF StaffTypes
  <2>2. /\ Promoting' \subseteq Promoting
        /\ q.to = "superadmin" => t \in Promoting /\ Promoting' \subseteq Promoting \ {t}
    BY <1>1, <1>2, TabOps DEF Promoting
  <2>3. CountSuperadmins' + Cardinality(Promoting') <= CountSuperadmins + Cardinality(Promoting)
    BY <2>1, <2>2, PromotingCount
  <2>4. CountSuperadmins' + Cardinality(Promoting') <= Cap - 1 + Cardinality(Tabs) + grants
    BY <1>1, <2>1, <2>3, PromotingCount, StaffAssumption DEF StaffInv, StaffTypes
  <2> QED BY <1>1, <1>3, <2>4 DEF StaffInv, StaffTypes
<1> QED BY <1>3, <1>4, <1>5 DEF StaffInd

\* BanUser and UnbanUser: the write of a ban.
LEMMA BanWritten ==
    ASSUME StaffInd, NEW t \in Tabs, SetUserBan(t)
    PROVE  StaffInd'
<1> DEFINE q == tab[t]
<1>1. /\ StaffTypes /\ StaffInv /\ Alone /\ q \in TabRows /\ q.op = "writeban" /\ q # NoTab
      /\ q.target \in Accounts /\ q.user \in Accounts
      /\ suspended' \subseteq suspended \cup {q.target} /\ tab' = [tab EXCEPT ![t] = NoTab]
      /\ UNCHANGED <<role, minted, grants, loose, usurped>>
  BY TabOps DEF SetUserBan, StaffInd, StaffTypes, TabRows, staffHistory
<1>2. tab'[t] = NoTab /\ \A s \in Tabs \ {t} : tab'[s] = tab[s]
  BY <1>1 DEF StaffTypes
<1>3. StaffTypes'
  <2>1. tab' \in [Tabs -> TabRows \cup {NoTab}] /\ suspended' \subseteq Accounts
    BY <1>1 DEF StaffTypes
  <2> QED BY <1>1, <1>2, <2>1 DEF StaffTypes
<1>4. Alone'
  <2> SUFFICES ASSUME ~loose, grants = 0 PROVE Alone'
    BY <1>1 DEF Alone
  <2>1. \A s \in Tabs : tab'[s] = NoTab
    BY <1>1, <1>2 DEF Alone
  <2>2. q.user \in Accounts \ suspended' /\ role'[q.user] = "superadmin"
    BY <1>1 DEF Alone
  <2> QED BY <1>1, <2>1, <2>2 DEF Alone
<1>5. StaffInv'
  <2>1. Promoting' \subseteq Promoting
    BY <1>1, <1>2, TabOps DEF Promoting
  <2>2. ~usurped'
    BY <1>1 DEF StaffInv
  <2> QED BY <1>1, <1>3, <2>1, <2>2, BoundKept DEF StaffTypes
<1> QED BY <1>3, <1>4, <1>5 DEF StaffInd

\* Every step keeps the invariant.
LEMMA StaffStep == StaffInd /\ [NextStaff]_staffVars => StaffInd'
<1> SUFFICES ASSUME StaffInd, [NextStaff]_staffVars PROVE StaffInd'
  OBVIOUS
<1>0. StaffTypes /\ StaffInv /\ Alone
  BY DEF StaffInd
<1>1. ASSUME NEW t \in Tabs, NEW k \in Tokens, NEW v \in Accounts,
             \/ \E to \in PlatformRoles : Enter(t, k, "role", v, to)
             \/ Enter(t, k, "ban", v, "none") \/ Enter(t, k, "unban", v, "none")
      PROVE  StaffInd'
  BY <1>1, EnterStep
<1>2. ASSUME NEW t \in Tabs, ChangePlatformRole(t) PROVE StaffInd'
  <2> DEFINE q == IF MayChangeRole(tab[t]) THEN [tab[t] EXCEPT !.op = "write"] ELSE NoTab
  <2>1. /\ tab[t].op = "role" /\ tab[t] # NoTab /\ tab[t] \in TabRows /\ tab[t].to \in PlatformRoles
        /\ tab' = [tab EXCEPT ![t] = q] /\ UNCHANGED <<role, suspended, minted, grants, staffHistory>>
    BY <1>0, <1>2, TabOps DEF ChangePlatformRole, StaffTypes
  <2>2. \/ q = NoTab
        \/ /\ q \in TabRows /\ q.user = tab[t].user /\ q.target = tab[t].target
           /\ q.target # q.user /\ q.op = "write"
           /\ q.to \in PlatformRoles /\ (q.to = "superadmin" => BelowCap)
    BY <2>1 DEF TabRows, MayChangeRole
  <2> HIDE DEF q
  <2> QED BY <2>1, <2>2, DecideStep
<1>3. ASSUME NEW t \in Tabs, SetBan(t) PROVE StaffInd'
  <2> DEFINE q == IF tab[t].target # tab[t].user /\ role[tab[t].target] = "none"
                  THEN [tab[t] EXCEPT !.to = tab[t].op, !.op = "writeban"] ELSE NoTab
  <2>1. /\ tab[t].op \in {"ban", "unban"} /\ tab[t] # NoTab /\ tab[t] \in TabRows
        /\ tab' = [tab EXCEPT ![t] = q] /\ UNCHANGED <<role, suspended, minted, grants, staffHistory>>
    BY <1>0, <1>3, TabOps DEF SetBan, StaffTypes
  <2>2. \/ q = NoTab
        \/ /\ q \in TabRows /\ q.user = tab[t].user /\ q.target = tab[t].target
           /\ q.target # q.user /\ q.op = "writeban"
    BY <2>1 DEF TabRows
  <2> HIDE DEF q
  <2> QED BY <2>1, <2>2, DecideStep
<1>4. ASSUME NEW t \in Tabs, Leave(t) PROVE StaffInd'
  BY <1>4, DecideStep DEF Leave
<1>5. ASSUME UNCHANGED <<role, suspended, tab, grants, staffHistory>>,
             minted' \subseteq [user : Accounts, actor : Accounts]
      PROVE  StaffInd'
  <2>1. StaffTypes' /\ Alone'
    BY <1>0, <1>5 DEF StaffTypes, Alone, staffHistory
  <2>2. Promoting' = Promoting
    BY <1>5 DEF Promoting
  <2>3. ~usurped'
    BY <1>0, <1>5 DEF StaffInv, staffHistory
  <2> QED BY <1>0, <1>5, <2>1, <2>2, <2>3, BoundKept DEF StaffInd, StaffTypes, staffHistory
<1>6. ASSUME NEW k \in Tokens, NEW v \in Accounts, Impersonate(k, v) PROVE StaffInd'
  <2>1. k.user \in Accounts
    BY <1>0 DEF Tokens, StaffTypes
  <2>2. minted' \subseteq [user : Accounts, actor : Accounts]
    BY <1>0, <1>6, <2>1 DEF Impersonate, StaffTypes
  <2> QED BY <1>5, <1>6, <2>2 DEF Impersonate
<1>7. ASSUME NEW k \in minted, TokenExpires(k) PROVE StaffInd'
  BY <1>0, <1>5, <1>7 DEF TokenExpires, StaffTypes
<1>8. ASSUME NEW u \in Accounts, NEW to \in PlatformRoles, grantPlatformRole(u, to) PROVE StaffInd'
  <2>1. /\ role' = [role EXCEPT ![u] = to] /\ grants' = grants + 1
        /\ UNCHANGED <<suspended, minted, tab, loose, usurped>>
    BY <1>8 DEF grantPlatformRole, staffHistory
  <2>2. role' \in [Accounts -> PlatformRoles] /\ grants \in Nat /\ grants' \in Nat /\ grants' # 0
    BY <1>0, <2>1 DEF StaffTypes
  <2>3. StaffTypes' /\ Alone'
    BY <1>0, <2>1, <2>2 DEF StaffTypes, Alone
  <2>4. Promoting' = Promoting /\ CountSuperadmins' <= CountSuperadmins + 1
        /\ CountSuperadmins \in Nat /\ CountSuperadmins' \in Nat
    BY <1>0, <2>1, SuperadminCount DEF Promoting, StaffTypes
  <2>5. CountSuperadmins' + Cardinality(Promoting') <= Cap - 1 + Cardinality(Tabs) + grants'
    BY <1>0, <2>1, <2>2, <2>4, PromotingCount, StaffAssumption DEF StaffInv
  <2> QED BY <1>0, <2>1, <2>2, <2>3, <2>5 DEF StaffInd, StaffInv
<1>9. CASE UNCHANGED staffVars
  BY <1>0, <1>5, <1>9 DEF staffVars, StaffTypes
<1> QED BY <1>1, <1>2, <1>3, <1>4, <1>6, <1>7, <1>8, <1>9, RoleWritten, BanWritten DEF NextStaff

\* The inductive invariant.
LEMMA StaffInvariant == SpecStaff => []StaffInd
BY StaffInit, StaffStep, PTL DEF SpecStaff

\* However many requests of the console run together, they take the superadmins
\* past the cap by no more than themselves, and whoever an impersonation token
\* belongs to, it lets nobody write (ChangePlatformRole, requirePlatformRole).
THEOREM CapAndGuardHold == SpecStaff => []StaffInv
<1>1. StaffInd => StaffInv
  BY DEF StaffInd
<1> QED BY <1>1, StaffInvariant, PTL

\* Nothing the console does, one write at a time, takes the last superadmin
\* away (CANNOT_TARGET_SELF, TARGET_IS_PLATFORM_STAFF).
THEOREM SomeoneAlwaysStays == SpecStaff => []SomeoneStays
<1>1. StaffInd => SomeoneStays
  BY DEF StaffInd, StaffTypes, Alone, SomeoneStays
<1> QED BY <1>1, StaffInvariant, PTL

-----------------------------------------------------------------------------
(* The plans and their prices *)

SpecCatalogue == InitCatalogue /\ [][NextCatalogue]_catVars

LimitMaps == UNION {[K -> Int] : K \in SUBSET LimitKeys}
PlanRows == [live : BOOLEAN, limits : LimitMaps, public : BOOLEAN]
PriceRows == [plan : Plans \cup {NoPlan}, active : BOOLEAN]
PriceEdits == [op : {"count", "price"}, plan : Plans, price : Prices, active : BOOLEAN]
DeleteEdits == [op : {"delete"}, plan : Plans]

CatTypes ==
    /\ plan \in [Plans -> PlanRows] /\ price \in [Prices -> PriceRows]
    /\ sub \in [Orgs -> Plans \cup {NoPlan}] /\ custom \in [Orgs -> LimitMaps]
    /\ edit \in [Staff -> {NoEdit} \cup PriceEdits \cup DeleteEdits]
    /\ edits \in Nat /\ raced \in BOOLEAN

PriceEdit(s) == edit[s].op \in {"count", "price"}

\* A price that is being edited is of the plan it was found with, which no new
\* plan replaces; and while requests on a plan do not overlap, each has the
\* plan for itself, and the price that one is about to take off sale leaves
\* another of its group, if the plan is public.
LeavesAnother(x, p) ==
    price[x].active /\ price[x].plan = p /\ plan[p].public
    => \E y \in Prices : y # x /\ price[y].plan = p /\ price[y].active /\ GroupOf(y) = GroupOf(x)

EditOK(s) ==
    PriceEdit(s) =>
        /\ price[edit[s].price].plan = edit[s].plan \/ ~plan[edit[s].plan].live
        /\ ~raced /\ edit[s].op = "price" /\ ~edit[s].active
           => LeavesAnother(edit[s].price, edit[s].plan)

Apart == ~raced => \A s, t \in Staff : PriceEdit(s) /\ PriceEdit(t) /\ edit[s].plan = edit[t].plan => s = t

CatInd == CatTypes /\ CatalogueInv /\ Apart /\ \A s \in Staff : EditOK(s)

\* What an edit holds follows from what it is.
LEMMA EditKinds ==
    /\ NoEdit \notin PriceEdits \cup DeleteEdits /\ NoEdit.op = "idle"
    /\ \A e \in PriceEdits : e \notin DeleteEdits
    /\ NoLimits \in LimitMaps /\ NoPlan \notin Plans
<1>1. NoLimits \in [{} -> Int]
  BY DEF NoLimits
<1>2. NoLimits \in LimitMaps
  BY <1>1 DEF LimitMaps
<1> QED BY <1>2, CatalogueAssumption DEF NoEdit, PriceEdits, DeleteEdits, NoPlan

\* A request body makes a plan row.
LEMMA BodyTyped ==
    ASSUME NEW b \in PlanBody
    PROVE  b \in PlanRows /\ b.live /\ validatePlanLimits(b.limits)
<1>1. PICK l \in PartialLimits, pub \in BOOLEAN :
          b = [live |-> TRUE, limits |-> l, public |-> pub] /\ validatePlanLimits(l)
  BY DEF PlanBody
<1>2. PICK K \in SUBSET LimitKeys : l \in [K -> LimitValues]
  BY DEF PartialLimits
<1>3. l \in [K -> Int]
  BY <1>2, CatalogueAssumption
<1>4. l \in LimitMaps
  BY <1>3 DEF LimitMaps
<1> QED BY <1>1, <1>4 DEF PlanRows

\* Overrides are limits.
LEMMA PartialTyped == PartialLimits \subseteq LimitMaps
<1> SUFFICES ASSUME NEW l \in PartialLimits PROVE l \in LimitMaps
  OBVIOUS
<1>1. PICK K \in SUBSET LimitKeys : l \in [K -> LimitValues]
  BY DEF PartialLimits
<1>2. l \in [K -> Int]
  BY <1>1, CatalogueAssumption
<1> QED BY <1>2 DEF LimitMaps

\* The invariant holds at the start.
LEMMA CatInit == InitCatalogue => CatInd
<1> SUFFICES ASSUME InitCatalogue PROVE CatInd
  OBVIOUS
<1>1. SeedLimits \in LimitMaps /\ DOMAIN SeedLimits = LimitKeys
  BY CatalogueAssumption DEF LimitMaps
<1>2. \A p \in Plans : /\ UpsertPlan(p) \in PlanRows
                       /\ UpsertPlan(p).live => validatePlanLimits(UpsertPlan(p).limits)
  BY <1>1, EditKinds DEF UpsertPlan, GonePlan, PlanRows, validatePlanLimits
<1>3. /\ plan \in [Plans -> PlanRows] /\ price \in [Prices -> PriceRows]
      /\ \A x \in Prices : price[x].plan = NoPlan
      /\ sub \in [Orgs -> Plans \cup {NoPlan}] /\ custom \in [Orgs -> LimitMaps]
      /\ \A o \in Orgs : sub[o] = NoPlan /\ custom[o] = NoLimits
      /\ \A p \in Plans : plan[p].live => validatePlanLimits(plan[p].limits)
  BY <1>2, EditKinds DEF InitCatalogue, PriceRows
<1>4. /\ edit \in [Staff -> {NoEdit} \cup PriceEdits \cup DeleteEdits]
      /\ \A s \in Staff : edit[s] = NoEdit
      /\ edits \in Nat /\ raced \in BOOLEAN
  BY DEF InitCatalogue
<1>5. CatTypes /\ CatalogueInv
  BY <1>3, <1>4 DEF CatTypes, CatalogueInv
<1>6. \A s \in Staff : ~PriceEdit(s)
  BY <1>4, EditKinds DEF PriceEdit
<1> QED BY <1>5, <1>6 DEF CatInd, Apart, EditOK, LeavesAnother

\* A request of the console that is one statement on a plan, a price or a
\* subscription.
LEMMA PlanWritten ==
    ASSUME CatInd, NEW p \in Plans, NEW b \in PlanRows, plan' = [plan EXCEPT ![p] = b],
           UNCHANGED <<price, sub, custom, edit>>, edits' \in Nat, raced' \in BOOLEAN,
           b.live /\ validatePlanLimits(b.limits), raced => raced',
           \/ plan[p].live /\ (b.public /\ Pending(p) # {} => raced')
           \/ Pending(p) = {}
    PROVE  CatInd'
<1>1. /\ CatTypes /\ CatalogueInv /\ Apart /\ plan'[p] = b
      /\ \A q \in Plans \ {p} : plan'[q] = plan[q]
  BY DEF CatInd, CatTypes
<1>2. CatTypes'
  <2>1. plan' \in [Plans -> PlanRows]
    BY <1>1 DEF CatTypes
  <2> QED BY <1>1, <2>1 DEF CatTypes
<1>3. CatalogueInv'
  <2>1. \A q \in Plans : plan[q].live => plan'[q].live
    BY <1>1
  <2>2. \A x \in Prices : price[x].plan \in Plans \cup {NoPlan}
    BY <1>1 DEF CatTypes, PriceRows
  <2>3. \A o \in Orgs : sub[o] \in Plans \cup {NoPlan}
    BY <1>1 DEF CatTypes
  <2> QED BY <1>1, <2>1, <2>2, <2>3 DEF CatalogueInv
<1>4. Apart'
  BY <1>1 DEF Apart, PriceEdit
<1>5. ASSUME NEW s \in Staff PROVE EditOK(s)'
  <2>1. SUFFICES ASSUME PriceEdit(s) PROVE EditOK(s)'
    BY DEF EditOK, LeavesAnother, PriceEdit
  <2>2. EditOK(s) /\ edit[s].plan \in Plans /\ edit[s] # NoEdit
    BY <1>1, <2>1, EditKinds DEF CatInd, CatTypes, PriceEdit, PriceEdits, DeleteEdits
  <2>3. CASE edit[s].plan # p
    BY <1>1, <2>1, <2>2, <2>3 DEF EditOK, LeavesAnother, PriceEdit
  <2>4. CASE edit[s].plan = p
    <3>1. s \in Pending(p)
      BY <2>2, <2>4 DEF Pending
    <3>2. plan[p].live /\ (b.public => raced')
      BY <3>1
    <3> QED BY <1>1, <2>1, <2>2, <2>4, <3>2 DEF EditOK, LeavesAnother, PriceEdit
  <2> QED BY <2>3, <2>4
<1> QED BY <1>2, <1>3, <1>4, <1>5 DEF CatInd

\* A price that is inserted.
LEMMA PriceRecorded ==
    ASSUME CatInd, NEW x \in Prices, NEW p \in Plans, NEW a \in BOOLEAN, CreatePlanPrice(x, p, a)
    PROVE  CatInd'
<1>1. /\ CatTypes /\ CatalogueInv /\ Apart /\ plan[p].live /\ price[x].plan = NoPlan
      /\ price'[x] = [plan |-> p, active |-> a] /\ \A y \in Prices \ {x} : price'[y] = price[y]
      /\ price' \in [Prices -> PriceRows]
      /\ UNCHANGED <<plan, sub, custom, edit, raced>> /\ edits' \in Nat
  BY DEF CatInd, CatTypes, CreatePlanPrice, Edit, PriceRows
<1>2. CatTypes' /\ CatalogueInv' /\ Apart'
  BY <1>1 DEF CatTypes, CatalogueInv, Apart, PriceEdit
<1>3. ASSUME NEW s \in Staff PROVE EditOK(s)'
  <2>1. SUFFICES ASSUME PriceEdit(s) PROVE EditOK(s)'
    BY <1>1 DEF EditOK, LeavesAnother, PriceEdit
  <2>2. EditOK(s) /\ edit[s].plan \in Plans /\ edit[s].price \in Prices
    BY <1>1, <2>1, EditKinds DEF CatInd, CatTypes, PriceEdit, PriceEdits, DeleteEdits, NoEdit
  <2>3. edit[s].price = x => ~plan[edit[s].plan].live /\ edit[s].plan # p
    BY <1>1, <2>1, <2>2, EditKinds DEF EditOK, LeavesAnother
  <2>4. CASE edit[s].price = x
    BY <1>1, <2>3, <2>4 DEF EditOK, LeavesAnother, PriceEdit
  <2>5. CASE edit[s].price # x
    <3>1. \A y \in Prices : price[y].plan = edit[s].plan => price'[y] = price[y]
      BY <1>1, <2>2, EditKinds
    <3> QED BY <1>1, <2>1, <2>2, <2>5, <3>1 DEF EditOK, LeavesAnother, PriceEdit
  <2> QED BY <2>4, <2>5
<1> QED BY <1>2, <1>3 DEF CatInd

\* A step that writes subscriptions or overrides only.
LEMMA SubsWritten ==
    ASSUME CatInd, UNCHANGED <<plan, price, edit, raced>>, edits' \in Nat,
           sub' \in [Orgs -> Plans \cup {NoPlan}], custom' \in [Orgs -> LimitMaps],
           \A o \in Orgs : IF sub'[o] = NoPlan THEN custom'[o] = NoLimits ELSE plan[sub'[o]].live
    PROVE  CatInd'
<1>1. CatTypes' /\ CatalogueInv' /\ Apart'
  BY DEF CatInd, CatTypes, CatalogueInv, Apart, PriceEdit
<1>2. \A s \in Staff : EditOK(s)'
  BY DEF CatInd, EditOK, LeavesAnother, PriceEdit
<1> QED BY <1>1, <1>2 DEF CatInd

\* A plan is assigned (AssignPlan).
LEMMA AssignPlanStep ==
    ASSUME CatInd, NEW o \in Orgs, NEW p \in Plans, AssignPlan(o, p)
    PROVE  CatInd'
<1>1. /\ plan[p].live /\ sub' = [sub EXCEPT ![o] = p] /\ UNCHANGED <<plan, price, custom, edit, raced>>
      /\ CatTypes /\ CatalogueInv /\ edits' \in Nat
  BY DEF AssignPlan, Edit, CatInd, CatTypes
<1>2. sub' \in [Orgs -> Plans \cup {NoPlan}] /\ custom' \in [Orgs -> LimitMaps]
  BY <1>1 DEF CatTypes
<1>3. \A q \in Orgs : IF sub'[q] = NoPlan THEN custom'[q] = NoLimits ELSE plan[sub'[q]].live
  BY <1>1, EditKinds DEF CatTypes, CatalogueInv
<1> QED BY <1>1, <1>2, <1>3, SubsWritten

\* Overrides of an organization are set (SetOrgLimits).
LEMMA SetOrgLimitsStep ==
    ASSUME CatInd, NEW o \in Orgs, NEW l \in PartialLimits, SetOrgLimits(o, l)
    PROVE  CatInd'
<1>1. /\ sub[o] # NoPlan /\ custom' = [custom EXCEPT ![o] = l] /\ UNCHANGED <<plan, price, sub, edit, raced>>
      /\ CatTypes /\ CatalogueInv /\ edits' \in Nat /\ l \in LimitMaps
  BY PartialTyped DEF SetOrgLimits, Edit, CatInd, CatTypes
<1>2. sub' \in [Orgs -> Plans \cup {NoPlan}] /\ custom' \in [Orgs -> LimitMaps]
  BY <1>1 DEF CatTypes
<1>3. \A q \in Orgs : IF sub'[q] = NoPlan THEN custom'[q] = NoLimits ELSE plan[sub'[q]].live
  BY <1>1 DEF CatTypes, CatalogueInv
<1> QED BY <1>1, <1>2, <1>3, SubsWritten

\* A plan is edited (UpdatePlan).
LEMMA UpdatePlanStep ==
    ASSUME CatInd, NEW p \in Plans, NEW b \in PlanRows, b.live, validatePlanLimits(b.limits),
           UpdatePlan(p, b)
    PROVE  CatInd'
<1>1. /\ plan[p].live /\ plan' = [plan EXCEPT ![p] = b] /\ UNCHANGED <<price, sub, custom, edit>>
      /\ edits' \in Nat /\ raced' = (raced \/ (b.public /\ Pending(p) # {}))
  BY DEF UpdatePlan, Edit, CatInd, CatTypes
<1>2. raced' \in BOOLEAN /\ (raced => raced') /\ (b.public /\ Pending(p) # {} => raced')
  BY <1>1
<1> QED BY <1>1, <1>2, PlanWritten

\* A plan is created (CreatePlan).
LEMMA CreatePlanStep ==
    ASSUME CatInd, NEW p \in Plans, NEW b \in PlanBody, CreatePlan(p, b)
    PROVE  CatInd'
<1>1. /\ Pending(p) = {} /\ plan' = [plan EXCEPT ![p] = b] /\ UNCHANGED <<price, sub, custom, edit, raced>>
      /\ edits' \in Nat /\ raced' \in BOOLEAN
  BY DEF CreatePlan, Edit, CatInd, CatTypes
<1> QED BY <1>1, BodyTyped, PlanWritten

\* A request that begins an edit of a price finds the price with its plan, and
\* no other request on the plan unless that is a race.
LEMMA SetPlanPriceActiveStep ==
    ASSUME CatInd, NEW s \in Staff, NEW x \in Prices, NEW a \in BOOLEAN, SetPlanPriceActive(s, x, a)
    PROVE  CatInd'
<1> DEFINE p == price[x].plan
           check == ~a /\ price[x].active /\ plan[p].public
           e == [op |-> IF check THEN "count" ELSE "price", plan |-> p, price |-> x, active |-> a]
<1>1. /\ CatTypes /\ CatalogueInv /\ Apart /\ p \in Plans /\ edit[s] = NoEdit
      /\ edit' = [edit EXCEPT ![s] = e] /\ raced' = (raced \/ Pending(p) # {})
      /\ UNCHANGED <<plan, price, sub, custom>> /\ edits' \in Nat
  BY DEF CatInd, CatTypes, SetPlanPriceActive, Edit, PriceRows
<1>2. e \in PriceEdits /\ e.op \in {"count", "price"}
  BY <1>1 DEF PriceEdits
<1>3. edit'[s] = e /\ \A t \in Staff \ {s} : edit'[t] = edit[t]
  BY <1>1 DEF CatTypes
<1>4. CatTypes' /\ CatalogueInv'
  <2>1. edit' \in [Staff -> {NoEdit} \cup PriceEdits \cup DeleteEdits] /\ raced' \in BOOLEAN
    BY <1>1, <1>2 DEF CatTypes
  <2> QED BY <1>1, <2>1 DEF CatTypes, CatalogueInv
<1>5. Apart'
  <2> SUFFICES ASSUME ~raced' PROVE Apart'
    BY DEF Apart
  <2>1. ~raced /\ Pending(p) = {}
    BY <1>1
  <2>2. \A t \in Staff \ {s} : PriceEdit(t) => edit[t].plan # p
    BY <2>1, EditKinds DEF Pending, PriceEdit
  <2> QED BY <1>1, <1>3, <2>1, <2>2 DEF Apart, PriceEdit
<1>6. EditOK(s)'
  <2>1. /\ edit'[s].plan = p /\ edit'[s].price = x /\ edit'[s].active = a
        /\ edit'[s].op = "price" => ~check
    BY <1>3
  <2>2. price'[edit'[s].price].plan = edit'[s].plan
    BY <1>1, <2>1
  <2>3. edit'[s].op = "price" /\ ~edit'[s].active => ~(price'[x].active /\ plan'[p].public)
    BY <1>1, <2>1
  <2>4. edit'[s].op = "price" /\ ~edit'[s].active => LeavesAnother(edit[s].price, edit[s].plan)'
    BY <2>1, <2>3 DEF LeavesAnother
  <2> HIDE DEF e, p, check
  <2> QED BY <2>2, <2>4 DEF EditOK
<1>7. ASSUME NEW t \in Staff \ {s} PROVE EditOK(t)'
  <2>1. EditOK(t) /\ edit'[t] = edit[t] /\ (~raced' => ~raced) /\ plan' = plan /\ price' = price
    BY <1>1, <1>3 DEF CatInd
  <2> QED BY <2>1 DEF EditOK, LeavesAnother, PriceEdit
<1> QED BY <1>4, <1>5, <1>6, <1>7 DEF CatInd

\* More than one active price of the group: another one than this.
LEMMA AnotherActive ==
    ASSUME NEW x \in Prices, price[x].active, ~(AdminCountActivePlanPricesFor(x) <= 1)
    PROVE  \E y \in Prices : /\ y # x /\ price[y].plan = price[x].plan /\ price[y].active
                             /\ GroupOf(y) = GroupOf(x)
<1> DEFINE S == {y \in Prices : /\ price[y].plan = price[x].plan /\ price[y].active
                                /\ GroupOf(y) = GroupOf(x)}
<1>1. CASE S \subseteq {x}
  <2>1. S = {x}
    BY <1>1
  <2>2. Cardinality(S) = 1
    BY <2>1, FS_Singleton
  <2> QED BY <2>2 DEF AdminCountActivePlanPricesFor
<1> QED BY <1>1

\* The count before a price is taken off sale.
LEMMA CountRemainingStep ==
    ASSUME CatInd, NEW s \in Staff, CountRemaining(s)
    PROVE  CatInd'
<1> DEFINE x == edit[s].price
           e == IF AdminCountActivePlanPricesFor(x) <= 1 THEN NoEdit ELSE [edit[s] EXCEPT !.op = "price"]
<1>1. /\ CatTypes /\ CatalogueInv /\ Apart /\ edit[s].op = "count" /\ edit[s] \in PriceEdits
      /\ edit' = [edit EXCEPT ![s] = e] /\ UNCHANGED <<plan, price, sub, custom, edits, raced>>
  BY EditKinds DEF CatInd, CatTypes, CountRemaining, DeleteEdits
<1>2. /\ e \in {NoEdit} \cup PriceEdits /\ edit'[s] = e /\ \A t \in Staff \ {s} : edit'[t] = edit[t]
      /\ e # NoEdit => /\ e.plan = edit[s].plan /\ e.price = x
                       /\ ~(AdminCountActivePlanPricesFor(x) <= 1)
  BY <1>1 DEF CatTypes, PriceEdits
<1>3. CatTypes' /\ CatalogueInv'
  <2>1. edit' \in [Staff -> {NoEdit} \cup PriceEdits \cup DeleteEdits]
    BY <1>1, <1>2 DEF CatTypes
  <2> QED BY <1>1, <2>1 DEF CatTypes, CatalogueInv
<1>4. PriceEdit(s) /\ (PriceEdit(s)' => e # NoEdit)
  BY <1>1, <1>2, EditKinds DEF PriceEdit
<1>5. Apart'
  <2>1. \A t \in Staff : PriceEdit(t)' => PriceEdit(t) /\ edit'[t].plan = edit[t].plan
    BY <1>2, <1>4 DEF PriceEdit
  <2> QED BY <1>1, <2>1 DEF Apart
<1>6. EditOK(s)'
  <2> SUFFICES ASSUME e # NoEdit PROVE EditOK(s)'
    BY <1>4 DEF EditOK, LeavesAnother
  <2>1. /\ x \in Prices /\ edit'[s].plan = edit[s].plan /\ edit'[s].price = x
        /\ price[x].plan = edit[s].plan \/ ~plan[edit[s].plan].live
    BY <1>1, <1>2, <1>4 DEF CatInd, EditOK, LeavesAnother, PriceEdits
  <2>2. price[x].active => \E y \in Prices : /\ y # x /\ price[y].plan = price[x].plan /\ price[y].active
                                             /\ GroupOf(y) = GroupOf(x)
    BY <1>2, <2>1, AnotherActive
  <2> HIDE DEF e, x
  <2> QED BY <1>1, <2>1, <2>2 DEF EditOK, LeavesAnother
<1>7. \A t \in Staff \ {s} : EditOK(t)'
  BY <1>1, <1>2 DEF CatInd, EditOK, LeavesAnother, PriceEdit
<1> QED BY <1>3, <1>5, <1>6, <1>7 DEF CatInd

\* The write of one request leaves what the others have found, unless two had
\* to do with one plan.
LEMMA AdminSetPlanPriceActiveStep ==
    ASSUME CatInd, NEW s \in Staff, AdminSetPlanPriceActive(s)
    PROVE  CatInd'
<1> DEFINE x == edit[s].price
           e == edit[s]
<1>1. /\ CatTypes /\ CatalogueInv /\ Apart /\ e.op = "price" /\ e \in PriceEdits /\ x \in Prices
      /\ edit' = [edit EXCEPT ![s] = NoEdit] /\ UNCHANGED <<plan, sub, custom, edits, raced>>
      /\ price' = IF price[x].plan = e.plan THEN [price EXCEPT ![x].active = e.active] ELSE price
  BY EditKinds DEF CatInd, CatTypes, AdminSetPlanPriceActive, DeleteEdits, PriceEdits
<1>2. edit'[s] = NoEdit /\ \A t \in Staff \ {s} : edit'[t] = edit[t]
  BY <1>1 DEF CatTypes
<1>3. /\ price' \in [Prices -> PriceRows] /\ \A y \in Prices : price'[y].plan = price[y].plan
      /\ \A y \in Prices : price[y].plan # e.plan => price'[y] = price[y]
  BY <1>1 DEF CatTypes, PriceRows, PriceEdits
<1>4. CatTypes' /\ CatalogueInv'
  <2>1. edit' \in [Staff -> {NoEdit} \cup PriceEdits \cup DeleteEdits]
    BY <1>1 DEF CatTypes
  <2> QED BY <1>1, <1>3, <2>1 DEF CatTypes, CatalogueInv
<1>5. ~PriceEdit(s)' /\ PriceEdit(s) /\ \A t \in Staff \ {s} : PriceEdit(t)' = PriceEdit(t)
  BY <1>1, <1>2, EditKinds DEF PriceEdit
<1>6. Apart'
  BY <1>1, <1>2, <1>5 DEF Apart
<1>7. ASSUME NEW t \in Staff \ {s} PROVE EditOK(t)'
  <2>1. SUFFICES ASSUME PriceEdit(t) PROVE EditOK(t)'
    BY <1>5 DEF EditOK, LeavesAnother
  <2>2. EditOK(t) /\ edit'[t] = edit[t] /\ edit[t].price \in Prices
    BY <1>1, <1>2, <2>1, EditKinds DEF CatInd, CatTypes, PriceEdit, PriceEdits, DeleteEdits, NoEdit
  <2>3. CASE edit[t].plan = e.plan
    <3>1. raced /\ raced'
      BY <1>1, <1>5, <2>1, <2>3 DEF Apart
    <3> QED BY <1>1, <1>3, <2>1, <2>2, <3>1 DEF EditOK, LeavesAnother
  <2>4. CASE edit[t].plan # e.plan
    <3>1. \A y \in Prices : price'[y].plan = edit[t].plan => price'[y] = price[y]
      BY <1>3, <2>4
    <3> PICK f, z : f = edit[t] /\ z = edit[t].price
      OBVIOUS
    <3>2. /\ edit'[t] = f /\ price'[z].plan = price[z].plan /\ (price'[z].plan = f.plan => price'[z] = price[z])
          /\ \A y \in Prices : price[y].plan = f.plan => price'[y] = price[y]
          /\ plan' = plan /\ raced' = raced /\ z = f.price
      BY <1>1, <1>3, <2>2, <3>1
    <3>3. /\ price[z].plan = f.plan \/ ~plan[f.plan].live
          /\ ~raced /\ f.op = "price" /\ ~f.active /\ price[z].active
               /\ price[z].plan = f.plan /\ plan[f.plan].public
             => \E y \in Prices : /\ y # z /\ price[y].plan = f.plan /\ price[y].active
                                  /\ GroupOf(y) = GroupOf(z)
      BY <2>1, <2>2 DEF EditOK, LeavesAnother
    <3> QED BY <3>2, <3>3 DEF EditOK, LeavesAnother
  <2> QED BY <2>3, <2>4
<1>8. EditOK(s)'
  BY <1>5 DEF EditOK, LeavesAnother
<1> QED BY <1>4, <1>6, <1>7, <1>8 DEF CatInd

\* The lookup before a plan is deleted.
LEMMA DeletePlanStep ==
    ASSUME CatInd, NEW s \in Staff, NEW p \in Plans, DeletePlan(s, p)
    PROVE  CatInd'
<1> DEFINE e == [op |-> "delete", plan |-> p]
<1>1. /\ CatTypes /\ CatalogueInv /\ Apart /\ e \in DeleteEdits
      /\ edit' = [edit EXCEPT ![s] = e] /\ UNCHANGED <<plan, price, sub, custom, raced>> /\ edits' \in Nat
  BY DEF CatInd, CatTypes, DeletePlan, Edit, DeleteEdits
<1>2. edit'[s].op = "delete" /\ \A t \in Staff \ {s} : edit'[t] = edit[t]
  BY <1>1 DEF CatTypes
<1>3. CatTypes' /\ CatalogueInv'
  <2>1. edit' \in [Staff -> {NoEdit} \cup PriceEdits \cup DeleteEdits]
    BY <1>1 DEF CatTypes
  <2> QED BY <1>1, <2>1 DEF CatTypes, CatalogueInv
<1>4. ~PriceEdit(s)'
  BY <1>2 DEF PriceEdit
<1>5. Apart' /\ \A t \in Staff : EditOK(t)'
  BY <1>1, <1>2, <1>4 DEF CatInd, Apart, EditOK, LeavesAnother, PriceEdit
<1> QED BY <1>3, <1>5 DEF CatInd

\* No subscription refers to a plan that is deleted, and the plan's prices go
\* with it.
LEMMA AdminDeletePlanStep ==
    ASSUME CatInd, NEW s \in Staff, AdminDeletePlan(s)
    PROVE  CatInd'
<1> DEFINE p == edit[s].plan
<1>1. /\ CatTypes /\ CatalogueInv /\ Apart /\ edit[s].op = "delete" /\ p \in Plans
      /\ edit' = [edit EXCEPT ![s] = NoEdit] /\ UNCHANGED <<sub, custom, edits, raced>>
  BY EditKinds DEF CatInd, CatTypes, AdminDeletePlan, PriceEdits, DeleteEdits
<1>2. edit'[s] = NoEdit /\ \A t \in Staff \ {s} : edit'[t] = edit[t]
  BY <1>1 DEF CatTypes
<1>3. edit' \in [Staff -> {NoEdit} \cup PriceEdits \cup DeleteEdits]
  BY <1>1 DEF CatTypes
<1>4. ~PriceEdit(s)' /\ ~PriceEdit(s) /\ \A t \in Staff \ {s} : PriceEdit(t)' = PriceEdit(t)
  BY <1>1, <1>2, EditKinds DEF PriceEdit
<1>5. Apart'
  BY <1>1, <1>2, <1>4 DEF Apart
<1>6. CASE Referenced(p)
  <2>1. plan' = plan /\ price' = price
    BY <1>6 DEF AdminDeletePlan
  <2>2. CatTypes' /\ CatalogueInv'
    BY <1>1, <1>3, <2>1 DEF CatTypes, CatalogueInv
  <2>3. \A t \in Staff : EditOK(t)'
    BY <1>1, <1>2, <1>4, <2>1 DEF CatInd, EditOK, LeavesAnother
  <2> QED BY <1>5, <2>2, <2>3 DEF CatInd
<1>7. CASE ~Referenced(p)
  <2> DEFINE none == [plan |-> NoPlan, active |-> FALSE]
  <2>1. /\ plan' = [plan EXCEPT ![p] = GonePlan]
        /\ price' = [y \in Prices |-> IF price[y].plan = p THEN none ELSE price[y]]
    BY <1>7 DEF AdminDeletePlan
  <2>2. GonePlan \in PlanRows /\ ~GonePlan.live /\ none \in PriceRows
    BY EditKinds DEF GonePlan, PlanRows, PriceRows
  <2>3. /\ plan' \in [Plans -> PlanRows] /\ plan'[p] = GonePlan
        /\ \A q \in Plans \ {p} : plan'[q] = plan[q]
        /\ price' \in [Prices -> PriceRows]
        /\ \A y \in Prices : IF price[y].plan = p THEN price'[y] = none ELSE price'[y] = price[y]
    BY <1>1, <2>1, <2>2 DEF CatTypes
  <2>4. CatTypes'
    BY <1>1, <1>3, <2>3 DEF CatTypes
  <2>5. CatalogueInv'
    <3>1. \A o \in Orgs : sub[o] # p /\ sub[o] \in Plans \cup {NoPlan}
      BY <1>1, <1>7 DEF Referenced, CatTypes
    <3>2. \A y \in Prices : price[y].plan \in Plans \cup {NoPlan}
      BY <1>1 DEF CatTypes, PriceRows
    <3>3. \A q \in Plans : plan'[q].live => validatePlanLimits(plan'[q].limits)
      BY <1>1, <2>2, <2>3 DEF CatalogueInv
    <3>4. \A y \in Prices : price'[y].plan = NoPlan \/ plan'[price'[y].plan].live
      BY <1>1, <2>3, <3>2 DEF CatalogueInv
    <3>5. \A o \in Orgs : IF sub[o] = NoPlan THEN custom[o] = NoLimits ELSE plan'[sub[o]].live
      BY <1>1, <2>3, <3>1 DEF CatalogueInv
    <3> QED BY <1>1, <3>3, <3>4, <3>5 DEF CatalogueInv
  <2>6. ASSUME NEW t \in Staff PROVE EditOK(t)'
    <3>1. SUFFICES ASSUME PriceEdit(t), t # s PROVE EditOK(t)'
      BY <1>4 DEF EditOK, LeavesAnother
    <3>2. EditOK(t) /\ edit'[t] = edit[t] /\ edit[t].price \in Prices /\ edit[t].plan \in Plans
      BY <1>1, <1>2, <3>1, EditKinds DEF CatInd, CatTypes, PriceEdit, PriceEdits, DeleteEdits, NoEdit
    <3>3. CASE edit[t].plan = p
      <4>1. ~plan'[p].live /\ price'[edit[t].price].plan # p
        BY <2>2, <2>3, <3>2, EditKinds, <1>1
      <4> QED BY <3>2, <3>3, <4>1 DEF EditOK, LeavesAnother
    <3>4. CASE edit[t].plan # p
      <4>1. /\ plan'[edit[t].plan] = plan[edit[t].plan]
            /\ \A y \in Prices : price[y].plan = edit[t].plan => price'[y] = price[y]
            /\ \A y \in Prices : price'[y].plan = edit[t].plan => price'[y] = price[y]
        BY <2>3, <3>2, <3>4, EditKinds
      <4> QED BY <1>1, <3>1, <3>2, <4>1 DEF EditOK, LeavesAnother
    <3> QED BY <3>3, <3>4
  <2> QED BY <1>5, <2>4, <2>5, <2>6 DEF CatInd
<1> QED BY <1>6, <1>7

\* Every step keeps the invariant.
LEMMA CatStep == CatInd /\ [NextCatalogue]_catVars => CatInd'
<1> SUFFICES ASSUME CatInd, [NextCatalogue]_catVars PROVE CatInd'
  OBVIOUS
<1>1. CASE UNCHANGED catVars
  BY <1>1 DEF catVars, CatInd, CatTypes, CatalogueInv, Apart, EditOK, LeavesAnother, PriceEdit
<1>2. ASSUME NEW p \in Plans, NEW b \in PlanBody, UpdatePlan(p, b) PROVE CatInd'
  BY <1>2, BodyTyped, UpdatePlanStep
<1> QED BY <1>1, <1>2, CreatePlanStep, PriceRecorded, SetPlanPriceActiveStep, CountRemainingStep,
           AdminSetPlanPriceActiveStep, AdminDeletePlanStep, DeletePlanStep, AssignPlanStep,
           SetOrgLimitsStep DEF NextCatalogue

\* The inductive invariant.
LEMMA CatalogueInvariant == SpecCatalogue => []CatInd
BY CatInit, CatStep, PTL DEF SpecCatalogue

\* No step of the console takes the last active price of a public plan's group
\* off sale unless two requests on the plan overlapped (SetPlanPriceActive).
LEMMA OnSaleStep ==
    ASSUME CatInd, NextCatalogue, NEW p \in ListPublicPlans \cap ListPublicPlans', NEW g \in Groups,
           Purchasable(p, g), ~raced
    PROVE  Purchasable(p, g)'
<1>1. PICK x \in Prices : price[x].plan = p /\ price[x].active /\ GroupOf(x) = g
  BY DEF Purchasable
<1>2. CatTypes /\ p \in Plans /\ p # NoPlan /\ plan[p].public /\ plan'[p].live
  BY EditKinds DEF CatInd, ListPublicPlans
<1>3. CASE UNCHANGED price
  BY <1>1, <1>3 DEF Purchasable
<1>4. ASSUME NEW y \in Prices, NEW q \in Plans, NEW a \in BOOLEAN, CreatePlanPrice(y, q, a)
      PROVE  Purchasable(p, g)'
  <2>1. price'[x] = price[x]
    BY <1>1, <1>2, <1>4 DEF CreatePlanPrice, CatTypes
  <2> QED BY <1>1, <2>1 DEF Purchasable
<1>5. ASSUME NEW s \in Staff, AdminSetPlanPriceActive(s)
      PROVE  Purchasable(p, g)'
  <2> DEFINE e == edit[s]
             z == edit[s].price
  <2>1. /\ e.op = "price" /\ e \in PriceEdits /\ z \in Prices /\ e.active \in BOOLEAN
        /\ price' = IF price[z].plan = e.plan THEN [price EXCEPT ![z].active = e.active] ELSE price
    BY <1>2, <1>5, EditKinds DEF CatTypes, AdminSetPlanPriceActive, DeleteEdits, PriceEdits
  <2>2. \A y \in Prices : price'[y].plan = price[y].plan /\ (y # z => price'[y] = price[y])
    BY <1>2, <2>1 DEF CatTypes, PriceRows
  <2>3. CASE x # z \/ price'[x].active
    BY <1>1, <2>2, <2>3 DEF Purchasable
  <2>4. CASE x = z /\ ~price'[x].active
    <3>1. price[z].plan = e.plan /\ ~e.active /\ e.plan = p
      BY <1>1, <1>2, <2>1, <2>4 DEF CatTypes, PriceRows
    <3>2. \E y \in Prices : y # z /\ price[y].plan = p /\ price[y].active /\ GroupOf(y) = GroupOf(z)
      BY <1>1, <1>2, <2>1, <2>4, <3>1 DEF CatInd, EditOK, LeavesAnother, PriceEdit
    <3> QED BY <1>1, <2>2, <2>4, <3>2 DEF Purchasable
  <2> QED BY <2>3, <2>4
<1>6. ASSUME NEW s \in Staff, AdminDeletePlan(s)
      PROVE  Purchasable(p, g)'
  <2>1. CASE Referenced(edit[s].plan)
    BY <1>3, <1>6, <2>1 DEF AdminDeletePlan
  <2>2. CASE ~Referenced(edit[s].plan)
    <3>1. edit[s].plan # p
      BY <1>2, <1>6, <2>2 DEF AdminDeletePlan, CatTypes, GonePlan
    <3>2. price'[x] = price[x]
      BY <1>1, <1>6, <2>2, <3>1 DEF AdminDeletePlan
    <3> QED BY <1>1, <3>2 DEF Purchasable
  <2> QED BY <2>1, <2>2
<1> QED BY <1>3, <1>4, <1>5, <1>6 DEF NextCatalogue, CreatePlan, UpdatePlan, SetPlanPriceActive,
           CountRemaining, DeletePlan, AssignPlan, SetOrgLimits

\* A plan that is on offer stays one that can be bought, however many plans,
\* prices and requests there are (SetPlanPriceActive, CountRemaining).
THEOREM OnSaleHolds == SpecCatalogue => StaysPurchasable
<1>1. CatInd /\ [NextCatalogue]_catVars =>
        [\A p \in ListPublicPlans \cap ListPublicPlans', g \in Groups :
            Purchasable(p, g) => Purchasable(p, g)' \/ raced]_catVars
  BY OnSaleStep
<1> QED BY <1>1, CatalogueInvariant, PTL DEF SpecCatalogue, StaysPurchasable

-----------------------------------------------------------------------------
(* Organizations and their members *)

SpecTenancy == InitTenancy /\ InitCatalogue /\ [][NextTenancy]_<<catVars, tenVars>>

ReqRows ==
    {NoReq} \cup [op : {"invite", "remove", "role", "admitted"}, org : Orgs]
            \cup [op : {"counted"}, org : Orgs, count : Nat]
            \cup [op : {"leaving"}, org : Orgs, user : Users]
            \cup [op : {"assign"}, org : Orgs, user : Users, row : Nat, role : Roles]

HeldRows == [org : Orgs, user : Users, row : Nat, role : Roles]

TableTypes ==
    /\ org \in [Orgs -> {"none", "live", "gone"}]
    /\ member \in [Orgs -> [Users -> [rank : Ranks, row : Nat]]]
    /\ roles \subseteq Roles /\ held \subseteq HeldRows
    /\ req \in [Requests -> ReqRows]

\* A live organization has an owner and no other one, and nobody belongs to
\* one that is not live.
OneOwner ==
    \A o \in Orgs :
        /\ org[o] # "live" => \A u \in Users : member[o][u].rank = "none"
        /\ org[o] = "live" => \E u \in Users : /\ member[o][u].rank = "owner"
                                               /\ \A v \in Users \ {u} : member[o][v].rank # "owner"

\* What a request has read stays true as long as it needs it.
RequestsOK ==
    \A r \in Requests : req[r] # NoReq =>
        /\ org[req[r].org] # "none"
        /\ req[r].op = "leaving" => member[req[r].org][req[r].user].rank # "owner"
        /\ req[r].op = "assign" => RoleOrg(req[r].role) = req[r].org

\* Those who are about to be let in while the limit is T.
Waiting(o, T) == {r \in Requests : /\ req[r] # NoReq /\ req[r].org = o
                                   /\ \/ req[r].op = "admitted"
                                      \/ req[r].op = "counted" /\ req[r].count < T}

Load(o, T) == CountMembershipsByOrg(o) + Cardinality(Waiting(o, T))

\* There is room for the members and for those who count as few as some limit
\* allows, whatever the limit: the other requests are its slack.
RoomOK ==
    /\ room \in [Orgs -> Nat \cup {Unlimited}]
    /\ \A o \in Orgs :
        /\ room[o] = Unlimited <=> MaxMembers(o) = Unlimited
        /\ room[o] # Unlimited =>
              /\ room[o] >= MaxMembers(o) - 1 + Cardinality(Requests)
              /\ \A T \in Int : Load(o, T) <= Higher(T - 1 + Cardinality(Requests), room[o])

TenInd == CatInd /\ TableTypes /\ OneOwner /\ RequestsOK /\ RolesFollowMembership /\ RoomOK

-----------------------------------------------------------------------------
(* Counting *)

\* There is a request at least.
LEMMA RequestsCount == Cardinality(Requests) \in Nat /\ Cardinality(Requests) >= 1
<1>1. Cardinality(Requests) \in Nat /\ Cardinality(Requests) # 0
  BY TenancyAssumption, FS_CardinalityType, FS_EmptySet
<1> QED BY <1>1

\* The requests about to let somebody in are finitely many.
LEMMA WaitingCount ==
    ASSUME NEW o, NEW T
    PROVE  /\ IsFiniteSet(Waiting(o, T)) /\ Cardinality(Waiting(o, T)) \in Nat
           /\ Cardinality(Waiting(o, T)) <= Cardinality(Requests)
<1>1. Waiting(o, T) \subseteq Requests
  BY DEF Waiting
<1> QED BY <1>1, TenancyAssumption, FS_Subset, FS_CardinalityType

\* The same after a step.
LEMMA WaitingCountNext ==
    ASSUME NEW o, NEW T
    PROVE  /\ IsFiniteSet(Waiting(o, T)') /\ Cardinality(Waiting(o, T)') \in Nat
           /\ Cardinality(Waiting(o, T)') <= Cardinality(Requests)
<1>1. Waiting(o, T)' \subseteq Requests
  BY DEF Waiting
<1> QED BY <1>1, TenancyAssumption, FS_Subset, FS_CardinalityType

\* The members of an organization are finitely many.
LEMMA MembersCount ==
    ASSUME NEW o
    PROVE  /\ IsFiniteSet(Members(o)) /\ CountMembershipsByOrg(o) \in Nat
           /\ IsFiniteSet(Members(o)') /\ CountMembershipsByOrg(o)' \in Nat
           /\ Members(o)' \subseteq Members(o) => CountMembershipsByOrg(o)' <= CountMembershipsByOrg(o)
           /\ \A u : Members(o)' \subseteq Members(o) \cup {u}
                     => CountMembershipsByOrg(o)' <= CountMembershipsByOrg(o) + 1
<1>1. Members(o) \subseteq Users /\ Members(o)' \subseteq Users
  BY DEF Members
<1>2. /\ IsFiniteSet(Members(o)) /\ Cardinality(Members(o)) \in Nat
      /\ IsFiniteSet(Members(o)') /\ Cardinality(Members(o)') \in Nat
  BY <1>1, TenancyAssumption, FS_Subset, FS_CardinalityType
<1>3. ASSUME NEW u, Members(o)' \subseteq Members(o) \cup {u}
      PROVE  Cardinality(Members(o)') <= Cardinality(Members(o)) + 1
  <2>1. /\ IsFiniteSet(Members(o) \cup {u}) /\ Cardinality(Members(o) \cup {u}) \in Nat
        /\ Cardinality(Members(o) \cup {u}) <= Cardinality(Members(o)) + 1
    <3>1. /\ IsFiniteSet(Members(o) \cup {u})
          /\ Cardinality(Members(o) \cup {u}) = IF u \in Members(o) THEN Cardinality(Members(o))
                                                ELSE Cardinality(Members(o)) + 1
      BY <1>2, FS_AddElement
    <3>2. Cardinality(Members(o) \cup {u}) \in Nat
      BY <3>1, FS_CardinalityType
    <3> QED BY <1>2, <3>1, <3>2
  <2>2. Cardinality(Members(o)') <= Cardinality(Members(o) \cup {u})
    BY <1>3, <2>1, FS_Subset
  <2> QED BY <1>2, <2>1, <2>2
<1>4. Members(o)' \subseteq Members(o) => Cardinality(Members(o)') <= Cardinality(Members(o))
  BY <1>2, FS_Subset
<1> QED BY <1>2, <1>3, <1>4 DEF CountMembershipsByOrg

\* A limit is a whole number, or there is none.
LEMMA MaxMembersTyped == CatTypes => \A o \in Orgs : MaxMembers(o) \in Int
<1> SUFFICES ASSUME CatTypes, NEW o \in Orgs
             PROVE  MaxMembers(o) \in Int
  OBVIOUS
<1>1. /\ custom[o] \in LimitMaps /\ sub[o] \in Plans \cup {NoPlan}
      /\ \A p \in Plans : plan[p].limits \in LimitMaps
  BY DEF CatTypes, PlanRows
<1>2. \A f \in LimitMaps : \A k \in DOMAIN f : f[k] \in Int
  BY DEF LimitMaps
<1>3. CASE sub[o] = NoPlan
  <2>1. EffectiveLimits(o) = NoLimits
    BY <1>3 DEF EffectiveLimits
  <2> QED BY <1>2, <2>1, EditKinds DEF MaxMembers, Unlimited
<1>4. CASE sub[o] # NoPlan
  <2>1. EffectiveLimits(o) = Overlay(custom[o], plan[sub[o]].limits)
    BY <1>4 DEF EffectiveLimits
  <2>2. \A k \in DOMAIN EffectiveLimits(o) : EffectiveLimits(o)[k] \in Int
    BY <1>1, <1>2, <1>4, <2>1 DEF Overlay
  <2> QED BY <2>2 DEF MaxMembers, Unlimited
<1> QED BY <1>3, <1>4

\* The same after a step.
LEMMA MaxMembersTypedNext == (CatTypes => \A o \in Orgs : MaxMembers(o) \in Int)'
BY MaxMembersTyped, PTL

\* What Watch makes of the room.
LEMMA WatchedRoom ==
    ASSUME CatTypes', room \in [Orgs -> Nat \cup {Unlimited}], Watch, NEW o \in Orgs
    PROVE  /\ room' \in [Orgs -> Nat \cup {Unlimited}]
           /\ room'[o] = Unlimited <=> MaxMembers(o)' = Unlimited
           /\ room'[o] # Unlimited =>
                /\ room'[o] >= MaxMembers(o)' - 1 + Cardinality(Requests)
                /\ room[o] # Unlimited => room'[o] >= room[o]
                /\ room[o] = Unlimited => \A T \in Int : room'[o] >= Load(o, T)'
<1> DEFINE new(q) == IF MaxMembers(q)' = Unlimited THEN Unlimited
                     ELSE Higher(MaxMembers(q)' - 1 + Cardinality(Requests),
                                 IF room[q] = Unlimited
                                 THEN CountMembershipsByOrg(q)' + Cardinality(Inviting(q)') ELSE room[q])
<1>0. room' = [q \in Orgs |-> new(q)]
  BY DEF Watch
<1>1. ASSUME NEW q \in Orgs
      PROVE  /\ MaxMembers(q)' \in Int /\ CountMembershipsByOrg(q)' \in Nat
             /\ IsFiniteSet(Inviting(q)') /\ Cardinality(Inviting(q)') \in Nat
             /\ room[q] \in Nat \cup {Unlimited}
  <2>1. MaxMembers(q)' \in Int
    BY MaxMembersTypedNext
  <2>2. Inviting(q)' \subseteq Requests
    BY DEF Inviting
  <2> QED BY <2>1, <2>2, TenancyAssumption, FS_Subset, FS_CardinalityType, MembersCount
<1>2. ASSUME NEW q \in Orgs
      PROVE  /\ new(q) \in Nat \cup {Unlimited}
             /\ new(q) = Unlimited <=> MaxMembers(q)' = Unlimited
             /\ new(q) # Unlimited =>
                  /\ new(q) >= MaxMembers(q)' - 1 + Cardinality(Requests)
                  /\ room[q] # Unlimited => new(q) >= room[q]
                  /\ room[q] = Unlimited =>
                        new(q) >= CountMembershipsByOrg(q)' + Cardinality(Inviting(q)')
  BY <1>1, RequestsCount DEF Higher, Unlimited
<1>3. ASSUME NEW T \in Int
      PROVE  Load(o, T)' <= CountMembershipsByOrg(o)' + Cardinality(Inviting(o)')
  <2>1. Waiting(o, T)' \subseteq Inviting(o)'
    BY DEF Waiting, Inviting
  <2>2. Cardinality(Waiting(o, T)') <= Cardinality(Inviting(o)')
    BY <1>1, <2>1, FS_Subset
  <2> QED BY <1>1, <2>2, WaitingCountNext DEF Load
<1>4. \A T \in Int : Load(o, T)' \in Int
  BY <1>1, WaitingCountNext DEF Load
<1> QED
  <2>1. room'[o] = new(o) /\ room' \in [Orgs -> Nat \cup {Unlimited}]
    BY <1>0, <1>2
  <2>2. room[o] = Unlimited /\ new(o) # Unlimited => \A T \in Int : new(o) >= Load(o, T)'
    <3>1. /\ new(o) # Unlimited => new(o) \in Int
          /\ CountMembershipsByOrg(o)' + Cardinality(Inviting(o)') \in Int
          /\ room[o] = Unlimited /\ new(o) # Unlimited =>
                  new(o) >= CountMembershipsByOrg(o)' + Cardinality(Inviting(o)')
      BY <1>1, <1>2
    <3> HIDE DEF new
    <3> QED BY <1>3, <1>4, <3>1
  <2> HIDE DEF new
  <2> QED BY <1>2, <2>1, <2>2

\* A step lets in nobody for whom there is no room.
Fits(o) ==
    room[o] # Unlimited /\ MaxMembers(o)' # Unlimited =>
        \A T \in Int : Load(o, T)' <= Higher(T - 1 + Cardinality(Requests), room[o])

\* The room is enough after a step if what there was to let in has not grown
\* beyond what there was room for.
LEMMA RoomKept ==
    ASSUME TenInd, CatTypes', Watch,
           \A o \in Orgs : Fits(o)
    PROVE  RoomOK'
<1>1. room \in [Orgs -> Nat \cup {Unlimited}]
  BY DEF TenInd, RoomOK
<1>2. ASSUME NEW o \in Orgs
      PROVE  /\ room'[o] \in Nat \cup {Unlimited}
             /\ room'[o] = Unlimited <=> MaxMembers(o)' = Unlimited
             /\ room'[o] # Unlimited =>
                   /\ room'[o] >= MaxMembers(o)' - 1 + Cardinality(Requests)
                   /\ \A T \in Int : Load(o, T)' <= Higher(T - 1 + Cardinality(Requests), room'[o])
  <2>1. /\ room' \in [Orgs -> Nat \cup {Unlimited}]
        /\ room'[o] = Unlimited <=> MaxMembers(o)' = Unlimited
        /\ room'[o] # Unlimited =>
                /\ room'[o] >= MaxMembers(o)' - 1 + Cardinality(Requests)
                /\ room[o] # Unlimited => room'[o] >= room[o]
                /\ room[o] = Unlimited => \A T \in Int : room'[o] >= Load(o, T)'
    BY <1>1, WatchedRoom
  <2>2. ASSUME room'[o] # Unlimited, NEW T \in Int
        PROVE  Load(o, T)' <= Higher(T - 1 + Cardinality(Requests), room'[o])
    <3>1. room'[o] \in Nat /\ room[o] \in Nat \cup {Unlimited} /\ Load(o, T)' \in Int
      BY <1>1, <2>1, <2>2, WaitingCountNext, MembersCount DEF Load
    <3>2. CASE room[o] = Unlimited
      BY <2>1, <2>2, <3>1, <3>2, RequestsCount DEF Higher
    <3>3. CASE room[o] # Unlimited
      <4>1. Load(o, T)' <= Higher(T - 1 + Cardinality(Requests), room[o]) /\ room'[o] >= room[o]
        BY <2>1, <2>2, <3>3 DEF Fits
      <4> QED BY <3>1, <3>3, <4>1, RequestsCount DEF Higher
    <3> QED BY <3>2, <3>3
  <2> QED BY <2>1, <2>2
<1>3. room' = [o \in Orgs |-> room'[o]]
  <2>1. \E f : room' = [o \in Orgs |-> f[o]]
    <3> DEFINE f == [o \in Orgs |-> room'[o]]
    <3>1. room' = [o \in Orgs |-> f[o]]
      BY DEF Watch
    <3> QED BY <3>1
  <2> QED BY <2>1
<1> QED BY <1>2, <1>3 DEF RoomOK

\* Nobody comes in and nobody is about to who was not before.
LEMMA LoadNotGrown ==
    ASSUME TenInd, NEW o \in Orgs,
           CountMembershipsByOrg(o)' <= CountMembershipsByOrg(o),
           \A T \in Int : Waiting(o, T)' \subseteq Waiting(o, T)
    PROVE  Fits(o)
<1> SUFFICES ASSUME room[o] # Unlimited, NEW T \in Int
             PROVE  Load(o, T)' <= Higher(T - 1 + Cardinality(Requests), room[o])
  BY DEF Fits
<1>1. Cardinality(Waiting(o, T)') <= Cardinality(Waiting(o, T))
  BY WaitingCount, FS_Subset
<1>2. Load(o, T)' <= Load(o, T) /\ Load(o, T) \in Int /\ Load(o, T)' \in Int
  BY <1>1, WaitingCount, WaitingCountNext, MembersCount DEF Load
<1>3. Load(o, T) <= Higher(T - 1 + Cardinality(Requests), room[o]) /\ room[o] \in Nat
  BY DEF TenInd, RoomOK
<1> QED BY <1>2, <1>3, RequestsCount DEF Higher

-----------------------------------------------------------------------------
(* The steps *)

StepOK ==
    /\ CatInd' /\ TableTypes' /\ OneOwner' /\ RequestsOK' /\ RolesFollowMembership'
    /\ \A o \in Orgs : Fits(o)

\* What a request holds follows from what it is.
LEMMA ReqKinds ==
    /\ NoReq.op = "idle"
    /\ \A q \in ReqRows : /\ q # NoReq => q.op # "idle" /\ q.org \in Orgs
                          /\ q.op = "counted" => q.count \in Nat
                          /\ q.op \in {"leaving", "assign"} => q.user \in Users
                          /\ q.op = "assign" => q.row \in Nat /\ q.role \in Roles
BY DEF NoReq, ReqRows

\* The catalogue that is left alone.
LEMMA CatKept == CatInd /\ UNCHANGED catVars => CatInd'
BY CatStep

\* A request goes on, or ends, and nothing else changes.
LEMMA RequestMoves ==
    ASSUME TenInd, NEW r \in Requests, NEW q \in ReqRows,
           req' = [req EXCEPT ![r] = q], UNCHANGED <<catVars, org, member, roles, held>>,
           q # NoReq => /\ org[q.org] # "none"
                        /\ q.op = "leaving" => member[q.org][q.user].rank # "owner"
                        /\ q.op = "assign" => RoleOrg(q.role) = q.org,
           \/ \A o \in Orgs : Fits(o)
           \/ q = NoReq \/ q.op \notin {"admitted", "counted"}
    PROVE  StepOK
<1>1. CatInd' /\ TableTypes'
  BY CatKept DEF TenInd, TableTypes
<1>2. req'[r] = q /\ \A s \in Requests \ {r} : req'[s] = req[s]
  BY DEF TenInd, TableTypes
<1>3. OneOwner' /\ RolesFollowMembership'
  BY DEF TenInd, OneOwner, RolesFollowMembership
<1>4. RequestsOK'
  BY <1>2 DEF TenInd, RequestsOK
<1>5. ASSUME q = NoReq \/ q.op \notin {"admitted", "counted"}, NEW o \in Orgs PROVE Fits(o)
  <2>1. \A T \in Int : Waiting(o, T)' \subseteq Waiting(o, T)
    BY <1>2, <1>5 DEF Waiting
  <2>2. CountMembershipsByOrg(o)' = CountMembershipsByOrg(o)
    BY DEF CountMembershipsByOrg, Members
  <2> QED BY <2>1, <2>2, LoadNotGrown, MembersCount
<1> QED BY <1>1, <1>3, <1>4, <1>5 DEF StepOK

\* RequireOrg: the caller is a member of the rank asked for.
LEMMA RequireOrgStep ==
    ASSUME TenInd, NEW r \in Requests, NEW o \in Orgs, NEW u \in Users,
           NEW op \in {"invite", "remove", "role"}, RequireOrg(r, o, u, op)
    PROVE  StepOK
<1> DEFINE q == [op |-> op, org |-> o]
<1>1. q \in ReqRows /\ q.op \notin {"admitted", "counted", "leaving", "assign"}
  BY DEF ReqRows
<1>2. org[o] # "none"
  BY DEF TenInd, OneOwner, RequireOrg
<1> QED BY <1>1, <1>2, RequestMoves DEF RequireOrg, Keep

\* Whoever counts fewer than a limit counts, with the requests under way, no
\* more than the limit and its slack.
LEMMA InviteCountStep ==
    ASSUME TenInd, NEW r \in Requests, InviteCount(r)
    PROVE  StepOK
<1> DEFINE p == req[r].org
           q == [op |-> "counted", org |-> p, count |-> CountMembershipsByOrg(p)]
<1>1. /\ req[r].op = "invite" /\ req[r] \in ReqRows /\ req[r] # NoReq /\ p \in Orgs
      /\ req' = [req EXCEPT ![r] = q] /\ UNCHANGED <<catVars, org, member, roles, held>>
  BY ReqKinds DEF InviteCount, Keep, TenInd, TableTypes
<1>2. q \in ReqRows /\ q.op = "counted" /\ q.org = p /\ org[p] # "none"
  BY <1>1, MembersCount DEF ReqRows, TenInd, RequestsOK
<1>3. req'[r] = q /\ \A s \in Requests \ {r} : req'[s] = req[s]
  BY <1>1 DEF TenInd, TableTypes
<1>4. \A o \in Orgs : CountMembershipsByOrg(o)' = CountMembershipsByOrg(o)
  BY <1>1 DEF CountMembershipsByOrg, Members
<1>5. ASSUME NEW o \in Orgs PROVE Fits(o)
  <2> SUFFICES ASSUME room[o] # Unlimited, NEW T \in Int
               PROVE  Load(o, T)' <= Higher(T - 1 + Cardinality(Requests), room[o])
    BY DEF Fits
  <2>1. CASE o = p /\ CountMembershipsByOrg(p) < T
    <3>1. Load(o, T)' <= T - 1 + Cardinality(Requests)
      BY <1>4, <2>1, WaitingCountNext, MembersCount, RequestsCount DEF Load
    <3>2. Load(o, T)' \in Int /\ room[o] \in Nat
      BY WaitingCountNext, MembersCount DEF Load, TenInd, RoomOK
    <3> QED BY <3>1, <3>2, RequestsCount DEF Higher
  <2>2. CASE ~(o = p /\ CountMembershipsByOrg(p) < T)
    <3>1. Waiting(o, T)' \subseteq Waiting(o, T)
      BY <1>3, <2>2 DEF Waiting
    <3>2. Cardinality(Waiting(o, T)') <= Cardinality(Waiting(o, T))
      BY <3>1, WaitingCount, FS_Subset
    <3>3. Load(o, T)' <= Load(o, T) /\ Load(o, T) \in Int /\ Load(o, T)' \in Int
      BY <1>4, <3>2, WaitingCount, WaitingCountNext, MembersCount DEF Load
    <3>4. Load(o, T) <= Higher(T - 1 + Cardinality(Requests), room[o]) /\ room[o] \in Nat
      BY DEF TenInd, RoomOK
    <3> QED BY <3>3, <3>4, RequestsCount DEF Higher
  <2> QED BY <2>1, <2>2
<1> HIDE DEF q
<1> QED BY <1>1, <1>2, <1>5, RequestMoves

\* A request that is let in had counted fewer than the limit: it was among
\* those there was room for.
LEMMA InviteLimitStep ==
    ASSUME TenInd, NEW r \in Requests, InviteLimit(r)
    PROVE  StepOK
<1> DEFINE p == req[r].org
           c == req[r].count
           q == IF EnforceLimit(p, "max_members", c) THEN [op |-> "admitted", org |-> p] ELSE NoReq
<1>1. /\ req[r].op = "counted" /\ req[r] \in ReqRows /\ req[r] # NoReq /\ p \in Orgs /\ c \in Nat
      /\ req' = [req EXCEPT ![r] = q] /\ UNCHANGED <<catVars, org, member, roles, held>>
  BY ReqKinds DEF InviteLimit, Keep, TenInd, TableTypes
<1>2. q \in ReqRows /\ (q # NoReq => q.op = "admitted" /\ q.org = p) /\ org[p] # "none"
  BY <1>1 DEF ReqRows, TenInd, RequestsOK
<1>3. req'[r] = q /\ \A s \in Requests \ {r} : req'[s] = req[s]
  BY <1>1 DEF TenInd, TableTypes
<1>4. \A o \in Orgs : CountMembershipsByOrg(o)' = CountMembershipsByOrg(o)
  BY <1>1 DEF CountMembershipsByOrg, Members
<1>5. ASSUME q # NoReq, NEW o \in Orgs PROVE Fits(o)
  <2> SUFFICES ASSUME room[o] # Unlimited, NEW T \in Int
               PROVE  Load(o, T)' <= Higher(T - 1 + Cardinality(Requests), room[o])
    BY DEF Fits
  <2>0. /\ MaxMembers(o) # Unlimited /\ MaxMembers(o) \in Int /\ room[o] \in Nat
        /\ room[o] >= MaxMembers(o) - 1 + Cardinality(Requests)
        /\ \A S \in Int : Load(o, S) <= Higher(S - 1 + Cardinality(Requests), room[o])
    BY MaxMembersTyped DEF TenInd, RoomOK, CatInd
  <2>1. CASE o # p \/ c < T
    <3>1. Waiting(o, T)' \subseteq Waiting(o, T)
      BY <1>1, <1>2, <1>3, <2>1 DEF Waiting
    <3>2. Cardinality(Waiting(o, T)') <= Cardinality(Waiting(o, T))
      BY <3>1, WaitingCount, FS_Subset
    <3>3. Load(o, T)' <= Load(o, T) /\ Load(o, T) \in Int /\ Load(o, T)' \in Int
      BY <1>4, <3>2, WaitingCount, WaitingCountNext, MembersCount DEF Load
    <3> QED BY <2>0, <3>3, RequestsCount DEF Higher
  <2>2. CASE o = p /\ ~(c < T)
    <3> DEFINE L == MaxMembers(o)
    <3>1. c < L
      BY <1>5, <2>0, <2>2 DEF EnforceLimit, MaxMembers
    <3>2. Waiting(o, T)' \subseteq Waiting(o, L)
      <4>1. \A s \in Requests : req[s].op = "counted" => req[s].count \in Nat
        BY ReqKinds DEF TenInd, TableTypes
      <4>2. r \in Waiting(o, L)
        BY <1>1, <2>2, <3>1 DEF Waiting
      <4>3. \A s \in Waiting(o, T) : s \in Waiting(o, L)
        BY <1>1, <2>0, <2>2, <3>1, <4>1 DEF Waiting
      <4>4. \A s \in Waiting(o, T)' : s = r \/ s \in Waiting(o, T)
        BY <1>3 DEF Waiting
      <4> QED BY <4>2, <4>3, <4>4
    <3>3. Cardinality(Waiting(o, T)') <= Cardinality(Waiting(o, L))
      BY <3>2, WaitingCount, FS_Subset
    <3>4. Load(o, T)' <= Load(o, L) /\ Load(o, L) \in Int /\ Load(o, T)' \in Int
      BY <1>4, <3>3, WaitingCount, WaitingCountNext, MembersCount DEF Load
    <3>5. Load(o, L) <= Higher(L - 1 + Cardinality(Requests), room[o])
      BY <2>0
    <3> HIDE DEF L
    <3>6. L \in Int /\ room[o] >= L - 1 + Cardinality(Requests)
      BY <2>0 DEF L
    <3> QED BY <2>0, <3>4, <3>5, <3>6, RequestsCount DEF Higher
  <2> QED BY <2>1, <2>2
<1>6. q # NoReq => q.op \notin {"leaving", "assign"}
  BY <1>2
<1> HIDE DEF q
<1> QED BY <1>1, <1>2, <1>5, <1>6, RequestMoves

\* The lookups of a request, which the later statement relies on.
LEMMA LookupStep ==
    ASSUME TenInd, NEW r \in Requests,
           \/ \E u \in Users : RemoveMember(r, u)
           \/ \E u \in Users, x \in Roles : AssignRole(r, u, x)
           \/ Abandon(r)
    PROVE  StepOK
<1>0. req[r] \in ReqRows /\ (req[r] # NoReq => req[r].org \in Orgs /\ org[req[r].org] # "none")
  BY ReqKinds DEF TenInd, TableTypes, RequestsOK
<1>1. ASSUME NEW u \in Users, RemoveMember(r, u) PROVE StepOK
  <2> DEFINE o == req[r].org
             q == IF MayRemove(o, u) THEN [op |-> "leaving", org |-> o, user |-> u] ELSE NoReq
  <2>1. /\ req' = [req EXCEPT ![r] = q] /\ UNCHANGED <<catVars, org, member, roles, held>>
        /\ o \in Orgs /\ org[o] # "none"
    BY <1>0, <1>1, ReqKinds DEF RemoveMember, Keep
  <2>2. q \in ReqRows /\ (q # NoReq => /\ q.op = "leaving" /\ q.org = o /\ q.user = u
                                       /\ member[o][u].rank # "owner")
    BY <2>1 DEF ReqRows, MayRemove
  <2> HIDE DEF q
  <2> QED BY <2>1, <2>2, RequestMoves
<1>2. ASSUME NEW u \in Users, NEW x \in Roles, AssignRole(r, u, x) PROVE StepOK
  <2> DEFINE o == req[r].org
             q == IF RoleOfOrg(o, x) /\ member[o][u].rank # "none"
                  THEN [op |-> "assign", org |-> o, user |-> u, row |-> member[o][u].row, role |-> x]
                  ELSE NoReq
  <2>1. /\ req' = [req EXCEPT ![r] = q] /\ UNCHANGED <<catVars, org, member, roles, held>>
        /\ o \in Orgs /\ org[o] # "none"
    BY <1>0, <1>2, ReqKinds DEF AssignRole, Keep
  <2>2. member[o][u].row \in Nat
    BY <2>1 DEF TenInd, TableTypes
  <2>3. q \in ReqRows /\ (q # NoReq => q.op = "assign" /\ q.org = o /\ q.role = x /\ RoleOrg(x) = o)
    BY <2>1, <2>2 DEF ReqRows, RoleOfOrg
  <2> HIDE DEF q
  <2> QED BY <2>1, <2>3, RequestMoves
<1>3. ASSUME Abandon(r) PROVE StepOK
  <2>1. NoReq \in ReqRows
    BY DEF ReqRows
  <2> QED BY <1>3, <2>1, RequestMoves DEF Abandon, Keep
<1> QED BY <1>1, <1>2, <1>3

\* The end of a request that was not about to let anybody in.
LEMMA ReqEnds ==
    ASSUME TenInd, NEW r \in Requests, req' = [req EXCEPT ![r] = NoReq]
    PROVE  /\ req' \in [Requests -> ReqRows] /\ req'[r] = NoReq
           /\ \A s \in Requests \ {r} : req'[s] = req[s]
           /\ \A o \in Orgs, T \in Int : Waiting(o, T)' \subseteq Waiting(o, T) \ {r}
<1>1. /\ req' \in [Requests -> ReqRows] /\ req'[r] = NoReq
      /\ \A s \in Requests \ {r} : req'[s] = req[s]
  BY DEF TenInd, TableTypes, ReqRows
<1> QED BY <1>1 DEF Waiting

\* A member is inserted (CreateMembership).
LEMMA CreateMembershipStep ==
    ASSUME TenInd, NEW r \in Requests, NEW u \in Users, NEW rank \in Ranks, CreateMembership(r, u, rank)
    PROVE  StepOK
<1> DEFINE o == req[r].org
<1>1. /\ req[r].op = "admitted" /\ req[r] # NoReq /\ rank \in {"member", "admin"} /\ o \in Orgs
      /\ req' = [req EXCEPT ![r] = NoReq] /\ UNCHANGED <<catVars, org, roles, held>>
      /\ \/ UNCHANGED member
         \/ member' = Join(o, u, rank) /\ org[o] = "live" /\ member[o][u].rank = "none"
  BY ReqKinds DEF CreateMembership, Keep, TenInd, TableTypes
<1>2. /\ req' \in [Requests -> ReqRows] /\ req'[r] = NoReq
      /\ \A s \in Requests \ {r} : req'[s] = req[s]
      /\ \A p \in Orgs, T \in Int : Waiting(p, T)' \subseteq Waiting(p, T) \ {r}
  BY <1>1, ReqEnds
<1>3. CASE UNCHANGED member
  <2>1. CatInd' /\ TableTypes' /\ OneOwner' /\ RequestsOK' /\ RolesFollowMembership'
    BY <1>1, <1>2, <1>3, CatKept DEF TenInd, TableTypes, OneOwner, RequestsOK, RolesFollowMembership
  <2>2. \A p \in Orgs : CountMembershipsByOrg(p)' = CountMembershipsByOrg(p)
    BY <1>3 DEF CountMembershipsByOrg, Members
  <2>3. \A p \in Orgs : Fits(p)
    BY <1>2, <2>2, LoadNotGrown, MembersCount
  <2> QED BY <2>1, <2>3 DEF StepOK
<1>4. CASE member' = Join(o, u, rank) /\ org[o] = "live" /\ member[o][u].rank = "none"
  <2>1. /\ member' \in [Orgs -> [Users -> [rank : Ranks, row : Nat]]]
        /\ member'[o][u].rank = rank
        /\ \A p \in Orgs, v \in Users : p # o \/ v # u => member'[p][v] = member[p][v]
    BY <1>1, <1>4 DEF Join, TenInd, TableTypes
  <2>2. CatInd' /\ TableTypes'
    BY <1>1, <1>2, <2>1, CatKept DEF TenInd, TableTypes
  <2>3. OneOwner'
    <3>1. \A p \in Orgs, v \in Users :
              /\ member'[p][v].rank = "owner" <=> member[p][v].rank = "owner"
              /\ p # o => member'[p][v] = member[p][v]
      BY <1>1, <1>4, <2>1
    <3> QED BY <1>1, <1>4, <3>1 DEF TenInd, OneOwner
  <2>4. RequestsOK'
    <3> SUFFICES ASSUME NEW s \in Requests \ {r}, req[s] # NoReq
                 PROVE  /\ org[req[s].org] # "none"
                        /\ req[s].op = "leaving" => member'[req[s].org][req[s].user].rank # "owner"
                        /\ req[s].op = "assign" => RoleOrg(req[s].role) = req[s].org
      BY <1>1, <1>2 DEF RequestsOK
    <3>1. /\ org[req[s].org] # "none" /\ req[s].org \in Orgs
          /\ req[s].op = "leaving" => req[s].user \in Users
                                      /\ member[req[s].org][req[s].user].rank # "owner"
          /\ req[s].op = "assign" => RoleOrg(req[s].role) = req[s].org
      BY ReqKinds DEF TenInd, TableTypes, RequestsOK
    <3> QED BY <1>1, <2>1, <3>1
  <2>5. RolesFollowMembership'
    <3> SUFFICES ASSUME NEW h \in held PROVE member'[h.org][h.user] = member[h.org][h.user]
      BY <1>1 DEF TenInd, RolesFollowMembership
    <3>1. h.org \in Orgs /\ h.user \in Users /\ member[h.org][h.user].rank # "none"
      BY DEF TenInd, TableTypes, RolesFollowMembership, HeldRows
    <3> QED BY <1>4, <2>1, <3>1
  <2>6. ASSUME NEW p \in Orgs PROVE Fits(p)
    <3>1. CASE p # o
      <4>1. Members(p)' \subseteq Members(p)
        BY <2>1, <3>1 DEF Members
      <4> QED BY <1>2, <4>1, LoadNotGrown, MembersCount
    <3>2. CASE p = o
      <4> SUFFICES ASSUME room[p] # Unlimited, NEW T \in Int
                   PROVE  Load(p, T)' <= Higher(T - 1 + Cardinality(Requests), room[p])
        BY DEF Fits
      <4>1. CountMembershipsByOrg(p)' <= CountMembershipsByOrg(p) + 1
        <5>1. Members(p)' \subseteq Members(p) \cup {u}
          BY <2>1, <3>2 DEF Members
        <5> QED BY <5>1, MembersCount
      <4>2. Cardinality(Waiting(p, T)') + 1 <= Cardinality(Waiting(p, T))
        <5>1. r \in Waiting(p, T) /\ Waiting(p, T)' \subseteq Waiting(p, T) \ {r}
          BY <1>1, <1>2, <3>2 DEF Waiting
        <5>2. /\ IsFiniteSet(Waiting(p, T) \ {r})
              /\ Cardinality(Waiting(p, T) \ {r}) = Cardinality(Waiting(p, T)) - 1
          BY <5>1, WaitingCount, FS_RemoveElement
        <5>3. Cardinality(Waiting(p, T)') <= Cardinality(Waiting(p, T) \ {r})
          BY <5>1, <5>2, FS_Subset
        <5> QED BY <5>2, <5>3, WaitingCount, WaitingCountNext
      <4>3. Load(p, T)' <= Load(p, T) /\ Load(p, T) \in Int /\ Load(p, T)' \in Int
        BY <4>1, <4>2, WaitingCount, WaitingCountNext, MembersCount DEF Load
      <4>4. Load(p, T) <= Higher(T - 1 + Cardinality(Requests), room[p]) /\ room[p] \in Nat
        BY DEF TenInd, RoomOK
      <4> QED BY <4>3, <4>4, RequestsCount DEF Higher
    <3> QED BY <3>1, <3>2
  <2> QED BY <2>2, <2>3, <2>4, <2>5, <2>6 DEF StepOK
<1> QED BY <1>1, <1>3, <1>4

\* Memberships that end, of one member or of a whole organization, end with
\* the roles that were given to them.
LEMMA MembershipsEnd ==
    ASSUME TenInd, member' \in [Orgs -> [Users -> [rank : Ranks, row : Nat]]],
           \A o \in Orgs, u \in Users : \/ member'[o][u] = member[o][u]
                                        \/ member'[o][u].rank = "none",
           held' \subseteq held, roles' \subseteq roles,
           \A h \in held' : /\ member'[h.org][h.user] = member[h.org][h.user]
                            /\ h.role \in roles',
           \A o \in Orgs : \/ org'[o] = org[o] /\ \A u \in Users : member[o][u].rank = "owner"
                                                              => member'[o][u] = member[o][u]
                           \/ org'[o] = "gone" /\ \A u \in Users : member'[o][u].rank = "none",
           org' \in [Orgs -> {"none", "live", "gone"}],
           req' \in [Requests -> ReqRows], \A r \in Requests : req'[r] \in {req[r], NoReq},
           CatInd'
    PROVE  StepOK
<1>1. TableTypes'
  BY DEF TenInd, TableTypes
<1>2. OneOwner'
  <2> SUFFICES ASSUME NEW o \in Orgs
               PROVE  /\ org'[o] # "live" => \A u \in Users : member'[o][u].rank = "none"
                      /\ org'[o] = "live" =>
                            \E u \in Users : /\ member'[o][u].rank = "owner"
                                             /\ \A v \in Users \ {u} : member'[o][v].rank # "owner"
    BY DEF OneOwner
  <2>1. /\ org[o] # "live" => \A u \in Users : member[o][u].rank = "none"
        /\ org[o] = "live" => \E u \in Users : /\ member[o][u].rank = "owner"
                                               /\ \A v \in Users \ {u} : member[o][v].rank # "owner"
    BY DEF TenInd, OneOwner
  <2>2. CASE org'[o] = org[o] /\ \A u \in Users : member[o][u].rank = "owner"
                                                 => member'[o][u] = member[o][u]
    <3>1. \A u \in Users : /\ member[o][u].rank = "owner" <=> member'[o][u].rank = "owner"
                           /\ member[o][u].rank = "none" => member'[o][u].rank = "none"
      BY <2>2
    <3> QED BY <2>1, <2>2, <3>1
  <2>3. CASE org'[o] = "gone" /\ \A u \in Users : member'[o][u].rank = "none"
    BY <2>3
  <2> QED BY <2>2, <2>3
<1>3. RequestsOK'
  <2> SUFFICES ASSUME NEW s \in Requests, req'[s] = req[s], req[s] # NoReq
               PROVE  /\ org'[req[s].org] # "none"
                      /\ req[s].op = "leaving" => member'[req[s].org][req[s].user].rank # "owner"
                      /\ req[s].op = "assign" => RoleOrg(req[s].role) = req[s].org
    BY DEF RequestsOK
  <2>1. /\ org[req[s].org] # "none" /\ req[s].org \in Orgs
        /\ req[s].op = "leaving" => req[s].user \in Users
                                    /\ member[req[s].org][req[s].user].rank # "owner"
        /\ req[s].op = "assign" => RoleOrg(req[s].role) = req[s].org
    BY ReqKinds DEF TenInd, TableTypes, RequestsOK
  <2>2. org'[req[s].org] # "none"
    BY <2>1
  <2>3. req[s].op = "leaving" => member'[req[s].org][req[s].user].rank # "owner"
    BY <2>1
  <2> QED BY <2>1, <2>2, <2>3
<1>4. RolesFollowMembership'
  BY DEF TenInd, RolesFollowMembership
<1>5. ASSUME NEW o \in Orgs PROVE Fits(o)
  <2>1. Members(o)' \subseteq Members(o)
    BY DEF Members
  <2>2. \A T \in Int : Waiting(o, T)' \subseteq Waiting(o, T)
    BY DEF Waiting
  <2> QED BY <2>1, <2>2, LoadNotGrown, MembersCount
<1> QED BY <1>1, <1>2, <1>3, <1>4, <1>5 DEF StepOK, TenInd

\* A member is removed (DeleteMembership).
LEMMA DeleteMembershipStep ==
    ASSUME TenInd, NEW r \in Requests, DeleteMembership(r)
    PROVE  StepOK
<1> DEFINE o == req[r].org
           u == req[r].user
<1>1. /\ req[r].op = "leaving" /\ req[r] # NoReq /\ o \in Orgs /\ u \in Users
      /\ member[o][u].rank # "owner"
      /\ member' = [member EXCEPT ![o][u].rank = "none"]
      /\ held' = {h \in held : h.org # o \/ h.user # u}
      /\ req' = [req EXCEPT ![r] = NoReq] /\ UNCHANGED <<catVars, org, roles>>
  BY ReqKinds DEF DeleteMembership, Keep, TenInd, TableTypes, RequestsOK
<1> HIDE DEF o, u
<1>2. /\ member' \in [Orgs -> [Users -> [rank : Ranks, row : Nat]]]
      /\ member'[o][u].rank = "none"
      /\ \A p \in Orgs, v \in Users : p # o \/ v # u => member'[p][v] = member[p][v]
  <2> DEFINE t == [member[o][u] EXCEPT !.rank = "none"]
  <2>1. member[o][u] \in [rank : Ranks, row : Nat] /\ "none" \in Ranks
    BY <1>1 DEF TenInd, TableTypes, Ranks
  <2>2. t \in [rank : Ranks, row : Nat] /\ t.rank = "none"
    BY <2>1
  <2>3. member' = [member EXCEPT ![o] = [member[o] EXCEPT ![u] = t]]
    BY <1>1 DEF TenInd, TableTypes
  <2> HIDE DEF t
  <2> QED BY <1>1, <2>2, <2>3 DEF TenInd, TableTypes
<1>3. \A h \in held' : /\ h \in held /\ h.org \in Orgs /\ h.user \in Users
                       /\ h.role \in roles /\ (h.org # o \/ h.user # u)
  BY <1>1 DEF TenInd, TableTypes, HeldRows, RolesFollowMembership
<1>4. \A s \in Requests : req'[s] \in {req[s], NoReq}
  BY <1>1, ReqEnds
<1>5. \A p \in Orgs : \/ org'[p] = org[p] /\ \A v \in Users : member[p][v].rank = "owner"
                                                            => member'[p][v] = member[p][v]
                      \/ org'[p] = "gone" /\ \A v \in Users : member'[p][v].rank = "none"
  <2>1. \A p \in Orgs, v \in Users : member[p][v].rank = "owner" => p # o \/ v # u
    BY <1>1
  <2>2. \A p \in Orgs, v \in Users : member[p][v].rank = "owner" => member'[p][v] = member[p][v]
    BY <1>2, <2>1
  <2>3. \A p \in Orgs : org'[p] = org[p]
    BY <1>1
  <2> QED BY <2>2, <2>3
<1>6. CatInd' /\ org' \in [Orgs -> {"none", "live", "gone"}] /\ req' \in [Requests -> ReqRows]
  BY <1>1, CatKept, ReqEnds DEF TenInd, TableTypes
<1>7. \A p \in Orgs, v \in Users : member'[p][v] = member[p][v] \/ member'[p][v].rank = "none"
  BY <1>2
<1>8. held' \subseteq held /\ roles' \subseteq roles
      /\ \A h \in held' : member'[h.org][h.user] = member[h.org][h.user] /\ h.role \in roles'
  BY <1>1, <1>2, <1>3
<1> QED BY <1>2, <1>4, <1>5, <1>6, <1>7, <1>8, MembershipsEnd

\* An organization is deleted.
LEMMA DeleteOrganizationStep ==
    ASSUME TenInd, NEW o \in Orgs, DeleteOrganization(o)
    PROVE  StepOK
<1>1. /\ org[o] = "live" /\ org' = [org EXCEPT ![o] = "gone"]
      /\ member' = [member EXCEPT ![o] = [u \in Users |-> [@[u] EXCEPT !.rank = "none"]]]
      /\ held' = {h \in held : h.org # o} /\ roles' = {x \in roles : RoleOrg(x) # o}
      /\ sub' = [sub EXCEPT ![o] = NoPlan] /\ custom' = [custom EXCEPT ![o] = NoLimits]
      /\ UNCHANGED <<req, plan, price, edit, raced>> /\ edits' = edits + 1
  BY DEF DeleteOrganization, Edit
<1>2. CatInd'
  <2>1. CatTypes /\ CatalogueInv /\ NoLimits \in LimitMaps
    BY EditKinds DEF TenInd, CatInd
  <2>2. sub' \in [Orgs -> Plans \cup {NoPlan}] /\ custom' \in [Orgs -> LimitMaps] /\ edits' \in Nat
    BY <1>1, <2>1 DEF CatTypes
  <2>3. \A p \in Orgs : IF sub'[p] = NoPlan THEN custom'[p] = NoLimits ELSE plan[sub'[p]].live
    BY <1>1, <2>1 DEF CatTypes, CatalogueInv
  <2> QED BY <1>1, <2>2, <2>3, SubsWritten DEF TenInd
<1>3. /\ member' \in [Orgs -> [Users -> [rank : Ranks, row : Nat]]]
      /\ \A u \in Users : member'[o][u].rank = "none"
      /\ \A p \in Orgs \ {o} : member'[p] = member[p]
  <2>1. \A u \in Users : member[o][u] \in [rank : Ranks, row : Nat]
    BY DEF TenInd, TableTypes
  <2>2. [u \in Users |-> [member[o][u] EXCEPT !.rank = "none"]] \in [Users -> [rank : Ranks, row : Nat]]
    BY <2>1 DEF Ranks
  <2>3. member' = [member EXCEPT ![o] = [u \in Users |-> [member[o][u] EXCEPT !.rank = "none"]]]
    BY <1>1 DEF TenInd, TableTypes
  <2>4. /\ member'[o] = [u \in Users |-> [member[o][u] EXCEPT !.rank = "none"]]
        /\ \A p \in Orgs \ {o} : member'[p] = member[p]
    BY <2>3 DEF TenInd, TableTypes
  <2>5. member' \in [Orgs -> [Users -> [rank : Ranks, row : Nat]]]
    BY <2>2, <2>3 DEF TenInd, TableTypes
  <2> QED BY <2>1, <2>4, <2>5
<1>4. /\ org' \in [Orgs -> {"none", "live", "gone"}] /\ org'[o] = "gone"
      /\ \A p \in Orgs \ {o} : org'[p] = org[p]
  BY <1>1 DEF TenInd, TableTypes
<1>5. \A h \in held' : /\ h \in held /\ h.org \in Orgs /\ h.user \in Users
                       /\ h.role \in roles /\ RoleOrg(h.role) = h.org /\ h.org # o
  BY <1>1 DEF TenInd, TableTypes, HeldRows, RolesFollowMembership
<1>6. /\ req' \in [Requests -> ReqRows] /\ \A s \in Requests : req'[s] \in {req[s], NoReq}
      /\ held' \subseteq held /\ roles' \subseteq roles
      /\ \A h \in held' : member'[h.org][h.user] = member[h.org][h.user] /\ h.role \in roles'
  BY <1>1, <1>3, <1>5 DEF TenInd, TableTypes
<1>7. \A p \in Orgs, v \in Users : member'[p][v] = member[p][v] \/ member'[p][v].rank = "none"
  BY <1>3
<1>8. \A p \in Orgs : \/ org'[p] = org[p] /\ \A v \in Users : member[p][v].rank = "owner"
                                                            => member'[p][v] = member[p][v]
                      \/ org'[p] = "gone" /\ \A v \in Users : member'[p][v].rank = "none"
  <2> TAKE p \in Orgs
  <2>1. CASE p = o
    BY <1>3, <1>4, <2>1
  <2>2. CASE p # o
    <3>1. member'[p] = member[p] /\ org'[p] = org[p]
      BY <1>3, <1>4, <2>2
    <3> QED BY <3>1
  <2> QED BY <2>1, <2>2
<1> QED BY <1>2, <1>3, <1>4, <1>6, <1>7, <1>8, MembershipsEnd

\* A grant refers to a membership by its row, so it counts for no later one.
LEMMA AssignMemberRoleStep ==
    ASSUME TenInd, NEW r \in Requests, AssignMemberRole(r)
    PROVE  StepOK
<1> DEFINE q == req[r]
           h == [org |-> q.org, user |-> q.user, row |-> q.row, role |-> q.role]
<1>1. /\ q.op = "assign" /\ q \in ReqRows /\ q # NoReq /\ RoleOrg(q.role) = q.org
      /\ req' = [req EXCEPT ![r] = NoReq] /\ UNCHANGED <<catVars, org, member, roles>>
      /\ \/ held' = held
         \/ held' = held \cup {h} /\ SameMembership(q) /\ q.role \in roles
  <2>1. /\ q.op = "assign" /\ q \in ReqRows /\ q # NoReq /\ RoleOrg(q.role) = q.org
    BY ReqKinds DEF AssignMemberRole, TenInd, TableTypes, RequestsOK
  <2>2. /\ req' = [req EXCEPT ![r] = NoReq] /\ UNCHANGED <<catVars, org, member, roles>>
        /\ held' = IF SameMembership(q) /\ q.role \in roles THEN held \cup {h} ELSE held
    BY DEF AssignMemberRole, Keep
  <2> QED BY <2>1, <2>2
<1>2. h \in HeldRows
  BY <1>1, ReqKinds DEF HeldRows
<1>3. /\ req' \in [Requests -> ReqRows] /\ req'[r] = NoReq
      /\ \A s \in Requests \ {r} : req'[s] = req[s]
      /\ \A p \in Orgs, T \in Int : Waiting(p, T)' \subseteq Waiting(p, T) \ {r}
  BY <1>1, ReqEnds
<1>4. CatInd' /\ TableTypes' /\ OneOwner' /\ RequestsOK'
  BY <1>1, <1>2, <1>3, CatKept DEF TenInd, TableTypes, OneOwner, RequestsOK
<1>5. RolesFollowMembership'
  <2>1. SameMembership(q) /\ q.role \in roles =>
            /\ member[h.org][h.user].rank # "none" /\ member[h.org][h.user].row = h.row
            /\ h.role \in roles /\ RoleOrg(h.role) = h.org
    BY <1>1 DEF SameMembership
  <2> HIDE DEF h, q
  <2> QED BY <1>1, <2>1 DEF TenInd, RolesFollowMembership
<1>6. ASSUME NEW p \in Orgs PROVE Fits(p)
  <2>1. CountMembershipsByOrg(p)' = CountMembershipsByOrg(p)
    BY <1>1 DEF CountMembershipsByOrg, Members
  <2> QED BY <1>3, <2>1, LoadNotGrown, MembersCount
<1> QED BY <1>4, <1>5, <1>6 DEF StepOK

\* A role is created (CreateRole).
LEMMA CreateRoleStep ==
    ASSUME TenInd, NEW r \in Requests, NEW x \in Roles, CreateRole(r, x)
    PROVE  StepOK
<1>1. /\ req' = [req EXCEPT ![r] = NoReq] /\ UNCHANGED <<catVars, org, member, held>>
      /\ roles' = roles \cup {x}
  BY DEF CreateRole, Keep
<1>2. /\ req' \in [Requests -> ReqRows] /\ req'[r] = NoReq
      /\ \A s \in Requests \ {r} : req'[s] = req[s]
      /\ \A p \in Orgs, T \in Int : Waiting(p, T)' \subseteq Waiting(p, T) \ {r}
  BY <1>1, ReqEnds
<1>3. CatInd' /\ TableTypes' /\ OneOwner' /\ RequestsOK' /\ RolesFollowMembership'
  BY <1>1, <1>2, CatKept DEF TenInd, TableTypes, OneOwner, RequestsOK, RolesFollowMembership
<1>4. ASSUME NEW p \in Orgs PROVE Fits(p)
  <2>1. CountMembershipsByOrg(p)' = CountMembershipsByOrg(p)
    BY <1>1 DEF CountMembershipsByOrg, Members
  <2> QED BY <1>2, <2>1, LoadNotGrown, MembersCount
<1> QED BY <1>3, <1>4 DEF StepOK

\* A new organization has no subscription, so no limit that its owner could
\* exceed.
LEMMA CreateStep ==
    ASSUME TenInd, NEW o \in Orgs, NEW u \in Users, Create(o, u)
    PROVE  StepOK
<1>1. /\ org[o] = "none" /\ sub[o] = NoPlan /\ org' = [org EXCEPT ![o] = "live"]
      /\ member' = Join(o, u, "owner") /\ UNCHANGED <<catVars, roles, held, req>>
  BY DEF Create, Keep
<1>2. /\ member' \in [Orgs -> [Users -> [rank : Ranks, row : Nat]]]
      /\ member'[o][u].rank = "owner"
      /\ \A p \in Orgs, v \in Users : p # o \/ v # u => member'[p][v] = member[p][v]
  BY <1>1 DEF Join, TenInd, TableTypes, Ranks
<1>3. /\ org' \in [Orgs -> {"none", "live", "gone"}] /\ org'[o] = "live"
      /\ \A p \in Orgs \ {o} : org'[p] = org[p]
  BY <1>1 DEF TenInd, TableTypes
<1>4. CatInd' /\ TableTypes'
  BY <1>1, <1>2, <1>3, CatKept DEF TenInd, TableTypes
<1>5. \A v \in Users : member[o][v].rank = "none"
  BY <1>1 DEF TenInd, OneOwner
<1>6. OneOwner'
  <2> SUFFICES ASSUME NEW p \in Orgs
               PROVE  /\ org'[p] # "live" => \A v \in Users : member'[p][v].rank = "none"
                      /\ org'[p] = "live" =>
                            \E v \in Users : /\ member'[p][v].rank = "owner"
                                             /\ \A w \in Users \ {v} : member'[p][w].rank # "owner"
    BY DEF OneOwner
  <2>1. CASE p = o
    <3>1. \A w \in Users \ {u} : member'[o][w].rank # "owner"
      BY <1>2, <1>5
    <3> QED BY <1>2, <1>3, <2>1, <3>1
  <2>2. CASE p # o
    <3>1. org'[p] = org[p] /\ \A v \in Users : member'[p][v] = member[p][v]
      BY <1>2, <1>3, <2>2
    <3> QED BY <3>1 DEF TenInd, OneOwner
  <2> QED BY <2>1, <2>2
<1>7. RequestsOK'
  <2> SUFFICES ASSUME NEW s \in Requests, req[s] # NoReq
               PROVE  /\ org'[req[s].org] # "none"
                      /\ req[s].op = "leaving" => member'[req[s].org][req[s].user].rank # "owner"
                      /\ req[s].op = "assign" => RoleOrg(req[s].role) = req[s].org
    BY <1>1 DEF RequestsOK
  <2>1. /\ org[req[s].org] # "none" /\ req[s].org \in Orgs
        /\ req[s].op = "leaving" => req[s].user \in Users
                                    /\ member[req[s].org][req[s].user].rank # "owner"
        /\ req[s].op = "assign" => RoleOrg(req[s].role) = req[s].org
    BY ReqKinds DEF TenInd, TableTypes, RequestsOK
  <2>2. req[s].org # o
    BY <1>1, <2>1
  <2> QED BY <1>2, <1>3, <2>1, <2>2
<1>8. RolesFollowMembership'
  <2> SUFFICES ASSUME NEW h \in held PROVE member'[h.org][h.user] = member[h.org][h.user]
    BY <1>1 DEF TenInd, RolesFollowMembership
  <2>1. h.org \in Orgs /\ h.user \in Users /\ member[h.org][h.user].rank # "none"
    BY DEF TenInd, TableTypes, RolesFollowMembership, HeldRows
  <2> QED BY <1>2, <1>5, <2>1
<1>9. ASSUME NEW p \in Orgs PROVE Fits(p)
  <2>1. CASE p = o
    <3>1. MaxMembers(o)' = Unlimited
      <4>1. sub'[o] = NoPlan
        BY <1>1 DEF catVars
      <4>2. EffectiveLimits(o)' = NoLimits
        BY <4>1 DEF EffectiveLimits
      <4> QED BY <4>2 DEF MaxMembers, NoLimits
    <3> QED BY <2>1, <3>1 DEF Fits
  <2>2. CASE p # o
    <3>1. Members(p)' \subseteq Members(p)
      BY <1>2, <2>2 DEF Members
    <3>2. \A T \in Int : Waiting(p, T)' \subseteq Waiting(p, T)
      BY <1>1 DEF Waiting
    <3> QED BY <3>1, <3>2, LoadNotGrown, MembersCount
  <2> QED BY <2>1, <2>2
<1> QED BY <1>4, <1>6, <1>7, <1>8, <1>9 DEF StepOK

\* The console's other requests leave members and their requests alone.
LEMMA TablesKept ==
    ASSUME TenInd, CatInd', UNCHANGED <<org, member, roles, held, req>>
    PROVE  StepOK
<1>1. TableTypes' /\ OneOwner' /\ RequestsOK' /\ RolesFollowMembership'
  BY DEF TenInd, TableTypes, OneOwner, RequestsOK, RolesFollowMembership
<1>2. ASSUME NEW p \in Orgs PROVE Fits(p)
  <2>1. CountMembershipsByOrg(p)' = CountMembershipsByOrg(p)
    BY DEF CountMembershipsByOrg, Members
  <2>2. \A T \in Int : Waiting(p, T)' \subseteq Waiting(p, T)
    BY DEF Waiting
  <2> QED BY <2>1, <2>2, LoadNotGrown, MembersCount
<1> QED BY <1>1, <1>2 DEF StepOK

\* Every request of the console.
LEMMA ConsoleStepOK == ASSUME TenInd, ConsoleStep PROVE StepOK
<1>1. CatInd /\ UNCHANGED <<org, member, roles, held, req>>
  BY DEF TenInd, ConsoleStep
<1>2. ASSUME NEW o \in Orgs, NEW p \in Plans, AssignPlan(o, p) PROVE CatInd'
  BY <1>1, <1>2, AssignPlanStep
<1>3. ASSUME NEW o \in Orgs, NEW l \in PartialLimits, SetOrgLimits(o, l) PROVE CatInd'
  BY <1>1, <1>3, SetOrgLimitsStep
<1>4. ASSUME NEW p \in Plans, NEW b \in PlanBody, UpdatePlan(p, b) PROVE CatInd'
  BY <1>1, <1>4, BodyTyped, UpdatePlanStep
<1>5. CatInd'
  BY <1>2, <1>3, <1>4 DEF ConsoleStep
<1> QED BY <1>1, <1>5, TablesKept

-----------------------------------------------------------------------------
(* The invariant *)

\* The invariant holds at the start.
LEMMA TenInit == InitTenancy /\ InitCatalogue => TenInd
<1> SUFFICES ASSUME InitTenancy, InitCatalogue PROVE TenInd
  OBVIOUS
<1>1. CatInd
  BY CatInit
<1>2. TableTypes
  BY DEF InitTenancy, TableTypes, Ranks, ReqRows
<1>3. OneOwner /\ RequestsOK /\ RolesFollowMembership
  BY DEF InitTenancy, OneOwner, RequestsOK, RolesFollowMembership
<1>4. RoomOK
  <2>1. \A o \in Orgs : EffectiveLimits(o) = NoLimits
    BY DEF InitCatalogue, EffectiveLimits
  <2>2. \A o \in Orgs : MaxMembers(o) = Unlimited
    BY <2>1 DEF MaxMembers, NoLimits
  <2> QED BY <2>2 DEF InitTenancy, RoomOK
<1> QED BY <1>1, <1>2, <1>3, <1>4 DEF TenInd

\* Every step of a request.
LEMMA RequestStepOK == ASSUME TenInd, NEW r \in Requests, RequestStep(r) PROVE StepOK
BY RequireOrgStep, InviteCountStep, InviteLimitStep, LookupStep, CreateMembershipStep,
   DeleteMembershipStep, CreateRoleStep, AssignMemberRoleStep DEF RequestStep

\* Every step keeps the invariant.
LEMMA TenStep == TenInd /\ [NextTenancy]_<<catVars, tenVars>> => TenInd'
<1> SUFFICES ASSUME TenInd, [NextTenancy]_<<catVars, tenVars>> PROVE TenInd'
  OBVIOUS
<1>1. CASE NextTenancy
  <2>1. StepOK
    <3>1. CASE \E o \in Orgs, u \in Users : Create(o, u)
      BY <3>1, CreateStep
    <3>2. CASE \E r \in Requests : RequestStep(r)
      BY <3>2, RequestStepOK
    <3>3. CASE \E o \in Orgs : DeleteOrganization(o)
      BY <3>3, DeleteOrganizationStep
    <3>4. CASE ConsoleStep
      BY <3>4, ConsoleStepOK
    <3> QED BY <1>1, <3>1, <3>2, <3>3, <3>4 DEF NextTenancy
  <2>2. Watch
    BY <1>1 DEF NextTenancy
  <2>3. RoomOK'
    BY <2>1, <2>2, RoomKept DEF StepOK, CatInd
  <2> QED BY <2>1, <2>3 DEF StepOK, TenInd
<1>2. CASE UNCHANGED <<catVars, tenVars>>
  <2>1. CatInd'
    BY <1>2, CatKept DEF TenInd
  <2>2. TableTypes' /\ OneOwner' /\ RequestsOK' /\ RolesFollowMembership'
    BY <1>2 DEF tenVars, TenInd, TableTypes, OneOwner, RequestsOK, RolesFollowMembership
  <2>3. RoomOK'
    BY <1>2 DEF TenInd, RoomOK, tenVars, catVars, MaxMembers, EffectiveLimits, Overlay, Load,
                CountMembershipsByOrg, Members, Waiting
  <2> QED BY <2>1, <2>2, <2>3 DEF TenInd
<1> QED BY <1>1, <1>2

\* The inductive invariant.
LEMMA TenancyInvariant == SpecTenancy => []TenInd
BY TenInit, TenStep, PTL DEF SpecTenancy

\* A live organization has one owner, whom no removal takes away, and its
\* members exceed max_members by the other requests in progress and those who
\* were there before the limit at most (RequireOrg, Invite, RemoveMember,
\* EnforceLimit).
THEOREM OneOwnerAndRoomHold == SpecTenancy => []TenancyInv
<1>1. TenInd => TenancyInv
  <2> SUFFICES ASSUME TenInd PROVE TenancyInv
    OBVIOUS
  <2>1. CatalogueInv /\ org \in [Orgs -> {"none", "live", "gone"}]
    BY DEF TenInd, CatInd, TableTypes
  <2>2. ASSUME NEW o \in Orgs
        PROVE  /\ \A u \in Users : member[o][u].rank \in Ranks
               /\ org[o] # "live" => Members(o) = {}
    BY DEF TenInd, TableTypes, OneOwner, Members
  <2>3. ASSUME NEW o \in Orgs, org[o] = "live"
        PROVE  Cardinality({u \in Users : member[o][u].rank = "owner"}) = 1
    <3>1. PICK u \in Users : /\ member[o][u].rank = "owner"
                             /\ \A v \in Users \ {u} : member[o][v].rank # "owner"
      BY <2>3 DEF TenInd, OneOwner
    <3>2. {v \in Users : member[o][v].rank = "owner"} = {u}
      BY <3>1
    <3> QED BY <3>2, FS_Singleton
  <2>4. ASSUME NEW o \in Orgs, room[o] # Unlimited
        PROVE  CountMembershipsByOrg(o) <= room[o]
    <3> DEFINE T == room[o] + 1 - Cardinality(Requests)
    <3>1. room[o] \in Nat /\ T \in Int /\ T - 1 + Cardinality(Requests) = room[o]
      BY <2>4, RequestsCount DEF TenInd, RoomOK
    <3>2. Load(o, T) <= Higher(T - 1 + Cardinality(Requests), room[o])
      BY <2>4, <3>1 DEF TenInd, RoomOK
    <3>3. Load(o, T) >= CountMembershipsByOrg(o)
      BY WaitingCount, MembersCount DEF Load
    <3>4. Load(o, T) \in Int /\ CountMembershipsByOrg(o) \in Int
      BY WaitingCount, MembersCount DEF Load
    <3> HIDE DEF T
    <3> QED BY <3>1, <3>2, <3>3, <3>4 DEF Higher
  <2> QED BY <2>1, <2>2, <2>3, <2>4 DEF TenancyInv
<1> QED BY <1>1, TenancyInvariant, PTL

\* A role counts for the membership it was given to and for no later one,
\* whichever removals and invitations overlap the assignment (AssignRole,
\* RemoveMember).
THEOREM RolesFollow == SpecTenancy => []RolesFollowMembership
<1>1. TenInd => RolesFollowMembership
  BY DEF TenInd
<1> QED BY <1>1, TenancyInvariant, PTL

-----------------------------------------------------------------------------
(* Checkout *)

NextShopAround == NextShop \/ (ConsoleAround /\ UNCHANGED shopVars)
SpecShop == InitShop /\ InitCheckout /\ [][NextShopAround]_<<catVars, shopVars>>

CartRows ==
    {EmptyCart} \cup [op : {"price", "ref", "create", "claim", "reread", "session"}, org : Orgs,
                      plan : Plans \cup {NoPlan}, price : Prices \cup {NoPlan}, cust : Nat]

ShopTypes ==
    /\ customer \in [Orgs -> Nat] /\ linked \in [Orgs -> Nat]
    /\ known \in [Orgs -> Nat] /\ created \in [Orgs -> Nat] /\ sold \in Nat
    /\ cart \in [Carts -> CartRows]
    /\ sessions \subseteq [org : Orgs, cust : Nat, plan : Plans, price : Prices]
    /\ paying \cup ended \subseteq [id : Nat, org : Orgs, cust : Nat, plan : Plans]

\* Subscriptions are numbered in the order they start.
Numbered ==
    /\ \A q \in paying \cup ended : 1 <= q.id /\ q.id <= sold
    /\ \A p, q \in paying : p.id = q.id => p = q

\* The customer an organization uses: the recorded one, else the one its key
\* stands for.
Main(o) == IF customer[o] # 0 THEN customer[o] ELSE known[o]

\* A request carries that customer from the point where it has one.
CartOK(c) == c.op # "idle" =>
    /\ c.op # "price" /\ c.plan # NoPlan => c.price \in Prices
    /\ c.org \notin lapsed =>
          /\ c.op = "session" => c.cust # 0 /\ c.cust = Main(c.org)
          /\ c.op \in {"claim", "reread"} =>
                c.cust # 0 /\ (customer[c.org] = 0 => c.cust = known[c.org])

OneCustomer ==
    /\ \A r \in Carts : CartOK(cart[r])
    /\ \A s \in sessions : s.org \notin lapsed => s.cust # 0 /\ s.cust = Main(s.org)
    /\ \A q \in paying \cup ended : q.org \notin lapsed => q.cust # 0 /\ q.cust = Main(q.org)

LinkOK(o) ==
    /\ ~HasRow(o) => customer[o] = 0 /\ linked[o] = 0 /\ o \notin relinked
    /\ o \notin doubled => \A q, t \in paying : q.org = o /\ t.org = o => q = t
    /\ o \notin doubled \cup unnamed \cup relinked =>
          /\ \A q \in paying : q.org = o => q.id = linked[o]
          /\ linked[o] # 0 => \E q \in paying : q.org = o /\ q.id = linked[o]

Linked == \A o \in Orgs : LinkOK(o)

ShopInd == CatInd /\ ShopTypes /\ Numbered /\ OneCustomer /\ Linked

-----------------------------------------------------------------------------
(* What the leaves need *)

\* What a request holds follows from what it is.
LEMMA CartKinds ==
    /\ EmptyCart.op = "idle" /\ EmptyCart \in CartRows
    /\ \A c \in CartRows : c # EmptyCart => /\ c.op # "idle" /\ c.org \in Orgs /\ c.cust \in Nat
                                            /\ c.plan \in Plans \cup {NoPlan}
                                            /\ c.price \in Prices \cup {NoPlan}
                                            /\ c = [op |-> c.op, org |-> c.org, plan |-> c.plan,
                                                    price |-> c.price, cust |-> c.cust]
BY DEF CartRows, EmptyCart

\* A request that moves on keeps its type.
LEMMA MoveKinds ==
    ASSUME ShopTypes, NEW r \in Carts, cart[r].op # "idle",
           NEW w \in {"price", "ref", "create", "claim", "reread", "session"}, NEW k \in Nat, To(r, w, k)
    PROVE  /\ cart' \in [Carts -> CartRows] /\ \A s \in Carts \ {r} : cart'[s] = cart[s]
           /\ cart'[r].op = w /\ cart'[r].cust = k /\ cart'[r].org = cart[r].org
           /\ cart'[r].plan = cart[r].plan /\ cart'[r].price = cart[r].price
<1> PICK c : c = cart[r]
  OBVIOUS
<1> PICK d : d = [c EXCEPT !.op = w, !.cust = k]
  OBVIOUS
<1>1. c \in CartRows /\ c # EmptyCart
  BY CartKinds DEF ShopTypes
<1>2. d = [op |-> w, org |-> c.org, plan |-> c.plan, price |-> c.price, cust |-> k]
  <2> DEFINE W == {"price", "ref", "create", "claim", "reread", "session"}
             P == Plans \cup {NoPlan}
             X == Prices \cup {NoPlan}
  <2>1. c \in [op : W, org : Orgs, plan : P, price : X, cust : Nat] /\ w \in W
    BY <1>1 DEF CartRows
  <2> HIDE DEF W, P, X
  <2>2. PICK e : e = [c EXCEPT !.op = w]
    OBVIOUS
  <2>3. e = [op |-> w, org |-> c.org, plan |-> c.plan, price |-> c.price, cust |-> c.cust]
    BY <2>1, <2>2
  <2>4. [e EXCEPT !.cust = k] = [op |-> w, org |-> e.org, plan |-> e.plan, price |-> e.price, cust |-> k]
    BY <2>3
  <2>5. [c EXCEPT !.op = w, !.cust = k] = [e EXCEPT !.cust = k]
    BY <2>2
  <2> QED BY <2>3, <2>4, <2>5
<1>3. d \in CartRows /\ d.op = w /\ d.cust = k /\ d.org = c.org /\ d.plan = c.plan /\ d.price = c.price
  BY <1>1, <1>2, CartKinds DEF CartRows
<1>4. cart' = [cart EXCEPT ![r] = d]
  BY DEF To, Put
<1> QED BY <1>3, <1>4 DEF ShopTypes

\* The write of a request record.
LEMMA PutKinds ==
    ASSUME ShopTypes, NEW r \in Carts, NEW c \in CartRows, Put(r, c)
    PROVE  cart' \in [Carts -> CartRows] /\ cart'[r] = c /\ \A s \in Carts \ {r} : cart'[s] = cart[s]
BY DEF ShopTypes, Put

\* The catalogue that is left alone.
LEMMA CatStays == CatInd /\ UNCHANGED catVars => CatInd'
BY CatStep

\* A request goes on, and nothing else changes.
LEMMA CartMoves ==
    ASSUME ShopInd, NEW r \in Carts, cart' \in [Carts -> CartRows],
           \A s \in Carts \ {r} : cart'[s] = cart[s], CartOK(cart'[r]),
           UNCHANGED <<customer, linked, stripeVars, shopHistory, catVars>>
    PROVE  ShopInd'
<1>1. CatInd' /\ sub' = sub
  BY CatStays DEF ShopInd, catVars
<1>2. ShopTypes' /\ Numbered'
  BY DEF ShopInd, ShopTypes, Numbered, stripeVars
<1>3. Linked'
  BY <1>1 DEF ShopInd, Linked, LinkOK, HasRow, stripeVars, shopHistory
<1>4. OneCustomer'
  <2>1. \A s \in Carts : CartOK(cart'[s])
    BY DEF ShopInd, OneCustomer
  <2>2. \A s \in Carts : CartOK(cart[s])'
    BY <2>1 DEF CartOK, Main, stripeVars, shopHistory
  <2>3. /\ \A s \in sessions' : s.org \notin lapsed' => s.cust # 0 /\ s.cust = Main(s.org)'
        /\ \A q \in (paying \cup ended)' : q.org \notin lapsed' => q.cust # 0 /\ q.cust = Main(q.org)'
    BY DEF ShopInd, OneCustomer, Main, stripeVars, shopHistory
  <2> QED BY <2>2, <2>3 DEF OneCustomer
<1> QED BY <1>1, <1>2, <1>3, <1>4 DEF ShopInd

\* The reads of a request, and its end.
LEMMA ReadSteps ==
    ASSUME ShopInd, NEW r \in Carts,
           \/ \E o \in Orgs : Portal(r, o) \/ \E p \in Plans : StartCheckout(r, o, p)
           \/ \E x \in Prices : GetActivePlanPrice(r, x)
           \/ GetOrgBillingRef(r) \/ Reread(r) \/ GiveUp(r)
    PROVE  ShopInd'
<1>0. ShopTypes /\ CartOK(cart[r])
  BY DEF ShopInd, OneCustomer
<1>1. ASSUME NEW o \in Orgs, NEW p \in Plans \cup {NoPlan}, NEW op \in {"price", "ref"},
             op = "ref" => p = NoPlan,
             Put(r, [op |-> op, org |-> o, plan |-> p, price |-> NoPlan, cust |-> 0]),
             UNCHANGED <<customer, linked, stripeVars, shopHistory, catVars>>
      PROVE  ShopInd'
  <2> DEFINE c == [op |-> op, org |-> o, plan |-> p, price |-> NoPlan, cust |-> 0]
  <2>1. c \in CartRows /\ CartOK(c)
    BY <1>1 DEF CartRows, CartOK
  <2> HIDE DEF c
  <2> QED BY <1>0, <1>1, <2>1, PutKinds, CartMoves DEF c
<1>2. ASSUME NEW o \in Orgs, Portal(r, o) PROVE ShopInd'
  BY <1>1, <1>2 DEF Portal
<1>3. ASSUME NEW o \in Orgs, NEW p \in Plans, StartCheckout(r, o, p) PROVE ShopInd'
  BY <1>1, <1>3 DEF StartCheckout
<1>4. ASSUME NEW x \in Prices, GetActivePlanPrice(r, x) PROVE ShopInd'
  <2> PICK b : b = cart[r]
    OBVIOUS
  <2> PICK c : c = [b EXCEPT !.op = "ref", !.price = x]
    OBVIOUS
  <2>1. b \in CartRows /\ b # EmptyCart /\ b.op = "price"
    BY <1>0, <1>4, CartKinds DEF ShopTypes, GetActivePlanPrice
  <2>2. c = [op |-> "ref", org |-> b.org, plan |-> b.plan, price |-> x, cust |-> b.cust]
    <3> DEFINE W == {"price", "ref", "create", "claim", "reread", "session"}
               P == Plans \cup {NoPlan}
               X == Prices \cup {NoPlan}
    <3>1. b \in [op : W, org : Orgs, plan : P, price : X, cust : Nat] /\ "ref" \in W
      BY <2>1 DEF CartRows
    <3> HIDE DEF W, P, X
    <3>2. PICK e : e = [b EXCEPT !.op = "ref"]
      OBVIOUS
    <3>3. e = [op |-> "ref", org |-> b.org, plan |-> b.plan, price |-> b.price, cust |-> b.cust]
      BY <3>1, <3>2
    <3>4. [e EXCEPT !.price = x] = [op |-> "ref", org |-> e.org, plan |-> e.plan, price |-> x, cust |-> e.cust]
      BY <3>3
    <3>5. [b EXCEPT !.op = "ref", !.price = x] = [e EXCEPT !.price = x]
      BY <3>2
    <3> QED BY <3>3, <3>4, <3>5
  <2>3. c \in CartRows /\ CartOK(c)
    BY <2>1, <2>2, CartKinds DEF CartRows, CartOK
  <2>4. Put(r, c) /\ UNCHANGED <<customer, linked, stripeVars, shopHistory, catVars>>
    BY <1>4 DEF GetActivePlanPrice
  <2> QED BY <1>0, <2>3, <2>4, PutKinds, CartMoves
<1>5. ASSUME GetOrgBillingRef(r) PROVE ShopInd'
  <2> PICK o : o = cart[r].org
    OBVIOUS
  <2>1. /\ cart[r].op = "ref" /\ UNCHANGED <<customer, linked, stripeVars, shopHistory, catVars>>
        /\ IF Recorded(o) THEN To(r, "session", customer[o]) ELSE To(r, "create", 0)
    BY <1>5 DEF GetOrgBillingRef
  <2>2. o \in Orgs /\ customer[o] \in Nat
    BY <1>0, <2>1, CartKinds DEF ShopTypes
  <2>3. CASE Recorded(o)
    <3>1. /\ cart' \in [Carts -> CartRows] /\ \A s \in Carts \ {r} : cart'[s] = cart[s]
          /\ cart'[r].op = "session" /\ cart'[r].cust = customer[o] /\ cart'[r].org = o
          /\ cart'[r].plan = cart[r].plan /\ cart'[r].price = cart[r].price
      BY <1>0, <2>1, <2>2, <2>3, MoveKinds
    <3>2. CartOK(cart'[r])
      BY <1>0, <2>1, <2>3, <3>1 DEF CartOK, Main, Recorded
    <3> QED BY <2>1, <3>1, <3>2, CartMoves
  <2>4. CASE ~Recorded(o)
    <3>1. /\ cart' \in [Carts -> CartRows] /\ \A s \in Carts \ {r} : cart'[s] = cart[s]
          /\ cart'[r].op = "create"
          /\ cart'[r].plan = cart[r].plan /\ cart'[r].price = cart[r].price
      BY <1>0, <2>1, <2>4, MoveKinds
    <3>2. CartOK(cart'[r])
      BY <1>0, <2>1, <3>1 DEF CartOK
    <3> QED BY <2>1, <3>1, <3>2, CartMoves
  <2> QED BY <2>3, <2>4
<1>6. ASSUME Reread(r) PROVE ShopInd'
  <2> PICK o : o = cart[r].org
    OBVIOUS
  <2> PICK c : c = IF Recorded(o) THEN customer[o] ELSE cart[r].cust
    OBVIOUS
  <2>1. /\ cart[r].op = "reread" /\ UNCHANGED <<customer, linked, stripeVars, shopHistory, catVars>>
        /\ To(r, "session", c)
    BY <1>6 DEF Reread
  <2>2. o \in Orgs /\ customer[o] \in Nat /\ c \in Nat
    BY <1>0, <2>1, CartKinds DEF ShopTypes
  <2>3. /\ cart' \in [Carts -> CartRows] /\ \A s \in Carts \ {r} : cart'[s] = cart[s]
        /\ cart'[r].op = "session" /\ cart'[r].cust = c /\ cart'[r].org = o
        /\ cart'[r].plan = cart[r].plan /\ cart'[r].price = cart[r].price
    BY <1>0, <2>1, <2>2, MoveKinds
  <2>4. ~Recorded(o) => customer[o] = 0
    BY <2>2 DEF Recorded, ShopInd, Linked, LinkOK
  <2>5. CartOK(cart'[r])
    BY <1>0, <2>1, <2>2, <2>3, <2>4 DEF CartOK, Main, Recorded
  <2> QED BY <2>1, <2>3, <2>5, CartMoves
<1>7. ASSUME GiveUp(r) PROVE ShopInd'
  <2>1. CartOK(EmptyCart)
    BY CartKinds DEF CartOK
  <2> QED BY <1>0, <1>7, <2>1, CartKinds, PutKinds, CartMoves DEF GiveUp
<1> QED BY <1>2, <1>3, <1>4, <1>5, <1>6, <1>7

\* Who is carried to Stripe under one key is the same customer for all.
LEMMA CreateCustomerStep ==
    ASSUME ShopInd, NEW r \in Carts, CreateCustomer(r)
    PROVE  ShopInd'
<1>0. ShopTypes /\ CatInd /\ Numbered /\ OneCustomer /\ Linked
  BY DEF ShopInd
<1> PICK o : o = cart[r].org
  OBVIOUS
<1> PICK c : c = customerIdempotencyKey(o)
  OBVIOUS
<1>1. /\ cart[r].op = "create" /\ To(r, "claim", c)
      /\ known' = [known EXCEPT ![o] = c]
      /\ created' = [created EXCEPT ![o] = IF c > @ THEN c ELSE @]
      /\ UNCHANGED <<customer, linked, sessions, paying, ended, sold, shopHistory, catVars>>
  BY DEF CreateCustomer
<1>2. o \in Orgs /\ known[o] \in Nat /\ created[o] \in Nat
  BY <1>0, <1>1, CartKinds DEF ShopTypes
<1>3. c \in Nat /\ c # 0 /\ (known[o] # 0 => c = known[o])
  BY <1>2 DEF customerIdempotencyKey
<1>4. /\ cart' \in [Carts -> CartRows] /\ \A s \in Carts \ {r} : cart'[s] = cart[s]
      /\ cart'[r].op = "claim" /\ cart'[r].cust = c /\ cart'[r].org = o
      /\ cart'[r].plan = cart[r].plan /\ cart'[r].price = cart[r].price
  BY <1>0, <1>1, <1>3, MoveKinds
<1>5. /\ known' \in [Orgs -> Nat] /\ created' \in [Orgs -> Nat] /\ known'[o] = c
      /\ \A p \in Orgs \ {o} : known'[p] = known[p]
  <2>1. (IF c > created[o] THEN c ELSE created[o]) \in Nat
    BY <1>2, <1>3
  <2> QED BY <1>0, <1>1, <1>2, <1>3, <2>1 DEF ShopTypes
<1>6. CatInd' /\ sub' = sub
  BY <1>0, <1>1, CatStays DEF catVars
<1>7. ShopTypes' /\ Numbered' /\ Linked'
  BY <1>0, <1>1, <1>4, <1>5, <1>6 DEF ShopTypes, Numbered, Linked, LinkOK, HasRow, shopHistory
<1>8. \A p \in Orgs : /\ Main(p) # 0 => Main(p)' = Main(p)
                      /\ known[p] # 0 => known'[p] = known[p]
  BY <1>0, <1>1, <1>2, <1>3, <1>5 DEF Main, ShopTypes
<1>9. OneCustomer'
  <2>1. ASSUME NEW s \in Carts PROVE CartOK(cart[s])'
    <3>1. CASE s = r
      <4>1. CartOK(cart[r])
        BY <1>0 DEF OneCustomer
      <4> QED BY <1>1, <1>3, <1>4, <1>5, <3>1, <4>1 DEF CartOK
    <3>2. CASE s # r
      <4>1. CartOK(cart[s]) /\ cart'[s] = cart[s] /\ lapsed' = lapsed /\ customer' = customer
        BY <1>0, <1>1, <1>4, <3>2 DEF OneCustomer, shopHistory
      <4>2. cart[s].op # "idle" => cart[s].org \in Orgs
        BY <1>0, CartKinds DEF ShopTypes
      <4> QED BY <1>8, <4>1, <4>2 DEF CartOK
    <3> QED BY <3>1, <3>2
  <2>2. /\ \A s \in sessions : s.org \in Orgs
        /\ \A q \in paying \cup ended : q.org \in Orgs
    BY <1>0 DEF ShopTypes
  <2>3. /\ \A s \in sessions' : s.org \notin lapsed' => s.cust # 0 /\ s.cust = Main(s.org)'
        /\ \A q \in (paying \cup ended)' : q.org \notin lapsed' => q.cust # 0 /\ q.cust = Main(q.org)'
    BY <1>0, <1>1, <1>8, <2>2 DEF OneCustomer, shopHistory
  <2> QED BY <2>1, <2>3 DEF OneCustomer
<1> QED BY <1>6, <1>7, <1>9 DEF ShopInd

\* The conditional write of the customer and the read after it (ensureCustomer).
LEMMA ClaimStep ==
    ASSUME ShopInd, NEW r \in Carts, ClaimOrgStripeCustomer(r)
    PROVE  ShopInd'
<1>0. ShopTypes /\ CatInd /\ Numbered /\ OneCustomer /\ Linked /\ CartOK(cart[r])
  BY DEF ShopInd, OneCustomer
<1> PICK o : o = cart[r].org
  OBVIOUS
<1> PICK c : c = cart[r].cust
  OBVIOUS
<1>1. /\ cart[r].op = "claim" /\ UNCHANGED <<linked, stripeVars, shopHistory, catVars>>
      /\ IF HasRow(o) /\ customer[o] = 0
         THEN customer' = [customer EXCEPT ![o] = c] /\ To(r, "session", c)
         ELSE UNCHANGED customer /\ To(r, "reread", c)
  BY DEF ClaimOrgStripeCustomer
<1>2. o \in Orgs /\ c \in Nat /\ customer[o] \in Nat
  BY <1>0, <1>1, CartKinds DEF ShopTypes
<1>3. CASE ~(HasRow(o) /\ customer[o] = 0)
  <2>1. /\ cart' \in [Carts -> CartRows] /\ \A s \in Carts \ {r} : cart'[s] = cart[s]
        /\ cart'[r].op = "reread" /\ cart'[r].cust = c /\ cart'[r].org = o
        /\ cart'[r].plan = cart[r].plan /\ cart'[r].price = cart[r].price
    BY <1>0, <1>1, <1>2, <1>3, MoveKinds
  <2>2. CartOK(cart'[r])
    BY <1>0, <1>1, <2>1 DEF CartOK
  <2> QED BY <1>1, <1>3, <2>1, <2>2, CartMoves
<1>4. CASE HasRow(o) /\ customer[o] = 0
  <2>1. /\ cart' \in [Carts -> CartRows] /\ \A s \in Carts \ {r} : cart'[s] = cart[s]
        /\ cart'[r].op = "session" /\ cart'[r].cust = c /\ cart'[r].org = o
        /\ cart'[r].plan = cart[r].plan /\ cart'[r].price = cart[r].price
    BY <1>0, <1>1, <1>2, <1>4, MoveKinds
  <2>2. /\ customer' \in [Orgs -> Nat] /\ customer'[o] = c
        /\ \A p \in Orgs \ {o} : customer'[p] = customer[p]
    BY <1>0, <1>1, <1>2, <1>4 DEF ShopTypes
  <2>3. CatInd' /\ sub' = sub
    BY <1>0, <1>1, CatStays DEF catVars
  <2>4. ShopTypes' /\ Numbered'
    BY <1>0, <1>1, <2>1, <2>2 DEF ShopTypes, Numbered, stripeVars
  <2>5. Linked'
    BY <1>0, <1>1, <1>4, <2>2, <2>3 DEF Linked, LinkOK, HasRow, stripeVars, shopHistory
  <2>6. o \notin lapsed => c # 0 /\ c = known[o] /\ Main(o) = c /\ Main(o)' = c
    BY <1>0, <1>1, <1>4, <2>2 DEF CartOK, Main, stripeVars
  <2>7. \A p \in Orgs : p \notin lapsed => Main(p)' = Main(p) /\ (customer'[p] = 0 => customer[p] = 0)
    BY <1>1, <1>4, <2>2, <2>6 DEF Main, stripeVars
  <2>8. OneCustomer'
    <3>1. ASSUME NEW s \in Carts PROVE CartOK(cart[s])'
      <4>1. CASE s = r
        BY <1>0, <1>1, <2>1, <2>6, <4>1 DEF CartOK, shopHistory
      <4>2. CASE s # r
        <5>1. CartOK(cart[s]) /\ cart'[s] = cart[s] /\ lapsed' = lapsed /\ known' = known
          BY <1>0, <1>1, <2>1, <4>2 DEF OneCustomer, shopHistory, stripeVars
        <5>2. cart[s].op # "idle" => cart[s].org \in Orgs
          BY <1>0, CartKinds DEF ShopTypes
        <5> QED BY <2>7, <5>1, <5>2 DEF CartOK
      <4> QED BY <4>1, <4>2
    <3>2. /\ \A s \in sessions : s.org \in Orgs
          /\ \A q \in paying \cup ended : q.org \in Orgs
      BY <1>0 DEF ShopTypes
    <3>3. /\ \A s \in sessions' : s.org \notin lapsed' => s.cust # 0 /\ s.cust = Main(s.org)'
          /\ \A q \in (paying \cup ended)' : q.org \notin lapsed' => q.cust # 0 /\ q.cust = Main(q.org)'
      BY <1>0, <1>1, <2>7, <3>2 DEF OneCustomer, shopHistory, stripeVars
    <3> QED BY <3>1, <3>3 DEF OneCustomer
  <2> QED BY <2>3, <2>4, <2>5, <2>8 DEF ShopInd
<1> QED BY <1>3, <1>4

\* A session is opened (Checkout).
LEMMA OpenSessionStep ==
    ASSUME ShopInd, NEW r \in Carts, OpenSession(r)
    PROVE  ShopInd'
<1>0. ShopTypes /\ CatInd /\ Numbered /\ OneCustomer /\ Linked /\ CartOK(cart[r])
  BY DEF ShopInd, OneCustomer
<1> PICK c : c = cart[r]
  OBVIOUS
<1> PICK t : t = [org |-> c.org, cust |-> c.cust, plan |-> c.plan, price |-> c.price]
  OBVIOUS
<1>1. /\ c.op = "session" /\ Put(r, EmptyCart)
      /\ sessions' = IF c.plan = NoPlan THEN sessions ELSE sessions \cup {t}
      /\ UNCHANGED <<customer, linked, known, created, paying, ended, sold, shopHistory, catVars>>
  BY DEF OpenSession
<1>2. c \in CartRows /\ c # EmptyCart
  BY <1>0, <1>1, CartKinds DEF ShopTypes
<1>3. /\ cart' \in [Carts -> CartRows] /\ cart'[r] = EmptyCart
      /\ \A s \in Carts \ {r} : cart'[s] = cart[s]
  BY <1>0, <1>1, CartKinds, PutKinds
<1>4. c.plan # NoPlan => t \in [org : Orgs, cust : Nat, plan : Plans, price : Prices]
  BY <1>0, <1>1, <1>2, CartKinds DEF CartOK
<1>5. t.org = c.org /\ t.cust = c.cust /\ (c.org \notin lapsed => c.cust # 0 /\ c.cust = Main(c.org))
  BY <1>0, <1>1 DEF CartOK
<1>6. CatInd' /\ sub' = sub
  BY <1>0, <1>1, CatStays DEF catVars
<1>7. ShopTypes' /\ Numbered' /\ Linked'
  BY <1>0, <1>1, <1>3, <1>4, <1>6 DEF ShopTypes, Numbered, Linked, LinkOK, HasRow, shopHistory
<1>8. OneCustomer'
  <2>1. /\ lapsed' = lapsed /\ customer' = customer /\ known' = known
        /\ paying' = paying /\ ended' = ended
        /\ \A o \in Orgs : Main(o)' = Main(o)
    BY <1>1 DEF shopHistory, Main
  <2>2. \A s \in Carts : CartOK(cart[s])'
    BY <1>0, <1>3, <2>1, CartKinds DEF OneCustomer, CartOK, Main
  <2>3. /\ \A s \in sessions' : s.org \notin lapsed' => s.cust # 0 /\ s.cust = Main(s.org)'
        /\ \A q \in (paying \cup ended)' : q.org \notin lapsed' => q.cust # 0 /\ q.cust = Main(q.org)'
    BY <1>0, <1>1, <1>5, <2>1 DEF OneCustomer, Main
  <2> QED BY <2>2, <2>3 DEF OneCustomer
<1> QED BY <1>6, <1>7, <1>8 DEF ShopInd

-----------------------------------------------------------------------------
(* What Stripe does, and the console *)

\* What a webhook writes for one organization.
LEMMA ReconcileKinds ==
    ASSUME CatInd, ShopTypes, NEW o \in Orgs, NEW p, NEW c, NEW n, Reconcile(o, p, c, n),
           p \in Plans \cup {NoPlan}, p # NoPlan => plan[p].live, c \in Nat, n \in Nat,
           UNCHANGED <<plan, price, custom, edit, edits, raced>>
    PROVE  /\ CatInd' /\ customer' \in [Orgs -> Nat] /\ linked' \in [Orgs -> Nat]
           /\ \A x \in Orgs \ {o} : customer'[x] = customer[x] /\ linked'[x] = linked[x] /\ sub'[x] = sub[x]
           /\ \/ /\ p = NoPlan /\ ~HasRow(o)
                 /\ customer'[o] = customer[o] /\ linked'[o] = linked[o] /\ sub'[o] = sub[o]
              \/ HasRow(o)' /\ customer'[o] = c /\ linked'[o] = n
<1>1. CatTypes /\ CatalogueInv
  BY DEF CatInd
<1>2. /\ sub' \in [Orgs -> Plans \cup {NoPlan}] /\ sub'[o] = IF p = NoPlan THEN sub[o] ELSE p
      /\ \A x \in Orgs \ {o} : sub'[x] = sub[x]
  BY <1>1 DEF CatTypes, Reconcile, HasRow
<1>3. \A x \in Orgs : IF sub'[x] = NoPlan THEN custom'[x] = NoLimits ELSE plan[sub'[x]].live
  BY <1>1, <1>2 DEF CatalogueInv
<1>4. CatInd'
  BY <1>1, <1>2, <1>3, SubsWritten DEF CatTypes
<1>5. /\ customer' \in [Orgs -> Nat] /\ linked' \in [Orgs -> Nat]
      /\ \A x \in Orgs \ {o} : customer'[x] = customer[x] /\ linked'[x] = linked[x]
      /\ \/ p = NoPlan /\ ~HasRow(o) /\ customer'[o] = customer[o] /\ linked'[o] = linked[o]
         \/ ~(p = NoPlan /\ ~HasRow(o)) /\ customer'[o] = c /\ linked'[o] = n
  BY DEF Reconcile, ShopTypes
<1> QED BY <1>2, <1>4, <1>5 DEF HasRow

\* Requests know their customer by Main, whatever else happens.
LEMMA CartsKept ==
    ASSUME ShopTypes, OneCustomer, UNCHANGED cart, lapsed \subseteq lapsed',
           \A o \in Orgs \ lapsed' : /\ Main(o) # 0 => Main(o)' = Main(o)
                                     /\ customer'[o] = 0 => customer[o] = 0 /\ known'[o] = known[o]
    PROVE  \A r \in Carts : CartOK(cart[r])'
<1> TAKE r \in Carts
<1>1. CartOK(cart[r]) /\ cart'[r] = cart[r]
  BY DEF OneCustomer
<1>2. cart[r].op # "idle" => cart[r].org \in Orgs
  BY CartKinds DEF ShopTypes
<1> QED BY <1>1, <1>2 DEF CartOK

\* A session is paid, and the webhook writes it.
LEMMA PayStep ==
    ASSUME ShopInd, NEW s \in sessions, Pay(s)
    PROVE  ShopInd'
<1>0. ShopTypes /\ CatInd /\ Numbered /\ OneCustomer /\ Linked /\ CatTypes /\ CatalogueInv
  BY DEF ShopInd, CatInd
<1> PICK o : o = s.org
  OBVIOUS
<1> PICK c : c = s.cust
  OBVIOUS
<1> PICK p : p = PlanOf(s)
  OBVIOUS
<1> PICK n : n = sold + 1
  OBVIOUS
<1> PICK new : new = [id |-> n, org |-> o, cust |-> c, plan |-> s.plan]
  OBVIOUS
<1>1. /\ sold' = n /\ sessions' = sessions \ {s} /\ paying' = paying \cup {new}
      /\ Reconcile(o, p, c, n)
      /\ doubled' = IF \E q \in paying : q.org = o THEN doubled \cup {o} ELSE doubled
      /\ unnamed' = IF p = NoPlan THEN unnamed \cup {o} ELSE unnamed
      /\ relinked' = relinked \ {o}
      /\ UNCHANGED <<cart, known, created, ended, lapsed, plan, price, custom, edit, edits, raced>>
  BY DEF Pay
<1>2. o \in Orgs /\ c \in Nat /\ n \in Nat /\ s.plan \in Plans /\ s.price \in Prices /\ n # 0
  BY <1>0 DEF ShopTypes
<1>3. p \in Plans \cup {NoPlan} /\ (p # NoPlan => plan[p].live)
  <2>1. price[s.price].plan \in Plans \cup {NoPlan}
    BY <1>0, <1>2 DEF CatTypes, PriceRows
  <2> QED BY <1>0, <1>2, <2>1 DEF PlanOf, CatalogueInv
<1>4. /\ CatInd' /\ customer' \in [Orgs -> Nat] /\ linked' \in [Orgs -> Nat]
      /\ \A x \in Orgs \ {o} : customer'[x] = customer[x] /\ linked'[x] = linked[x] /\ sub'[x] = sub[x]
      /\ \/ /\ p = NoPlan /\ ~HasRow(o)
            /\ customer'[o] = customer[o] /\ linked'[o] = linked[o] /\ sub'[o] = sub[o]
         \/ HasRow(o)' /\ customer'[o] = c /\ linked'[o] = n
  <2>1. /\ CatInd /\ ShopTypes /\ o \in Orgs /\ p \in Plans \cup {NoPlan} /\ c \in Nat /\ n \in Nat
        /\ (p # NoPlan => plan[p].live) /\ Reconcile(o, p, c, n)
        /\ UNCHANGED <<plan, price, custom, edit, edits, raced>>
    BY <1>0, <1>1, <1>2, <1>3
  <2> QED BY <2>1, ReconcileKinds
<1>5. new \in [id : Nat, org : Orgs, cust : Nat, plan : Plans] /\ new.id = n /\ new.org = o /\ new.cust = c
  BY <1>2
<1>6. ShopTypes'
  BY <1>0, <1>1, <1>2, <1>4, <1>5 DEF ShopTypes
<1>7. Numbered'
  <2>1. \A q \in paying \cup ended : q.id \in Nat /\ 1 <= q.id /\ q.id <= sold
    BY <1>0 DEF ShopTypes, Numbered
  <2>2. \A q \in paying : q.id # n
    BY <1>0, <2>1 DEF ShopTypes
  <2>3. \A q \in (paying \cup ended)' : 1 <= q.id /\ q.id <= sold'
    BY <1>0, <1>1, <1>5, <2>1 DEF ShopTypes
  <2>4. \A q, t \in paying' : q.id = t.id => q = t
    BY <1>0, <1>1, <1>5, <2>2 DEF Numbered
  <2> QED BY <2>3, <2>4 DEF Numbered
<1>8. o \notin lapsed => c # 0 /\ c = Main(o)
  BY <1>0 DEF OneCustomer
<1>9. \A x \in Orgs \ lapsed : /\ Main(x)' = Main(x)
                               /\ customer'[x] = 0 => customer[x] = 0
  BY <1>1, <1>4, <1>8 DEF Main
<1>10. OneCustomer'
  <2>1. \A r \in Carts : CartOK(cart[r])'
    BY <1>0, <1>1, <1>9, CartsKept
  <2>2. /\ \A t \in sessions : t.org \in Orgs
        /\ \A q \in paying \cup ended : q.org \in Orgs
    BY <1>0 DEF ShopTypes
  <2>3. \A t \in sessions' : t.org \notin lapsed' => t.cust # 0 /\ t.cust = Main(t.org)'
    BY <1>0, <1>1, <1>9, <2>2 DEF OneCustomer
  <2>4. \A q \in (paying \cup ended)' : q.org \notin lapsed' => q.cust # 0 /\ q.cust = Main(q.org)'
    BY <1>0, <1>1, <1>2, <1>5, <1>8, <1>9, <2>2 DEF OneCustomer
  <2> QED BY <2>1, <2>3, <2>4 DEF OneCustomer
<1>11. Linked'
  <2> SUFFICES ASSUME NEW x \in Orgs PROVE LinkOK(x)'
    BY DEF Linked
  <2>1. LinkOK(x)
    BY <1>0 DEF Linked
  <2>2. CASE x # o
    <3>1. HasRow(x)' <=> HasRow(x)
      BY <1>4, <2>2 DEF HasRow
    <3>2. /\ x \in doubled => x \in doubled'
          /\ x \in unnamed => x \in unnamed'
          /\ x \in relinked' <=> x \in relinked
      BY <1>1, <2>2
    <3>3. customer'[x] = customer[x] /\ linked'[x] = linked[x]
      BY <1>4, <2>2
    <3> QED BY <1>1, <1>5, <2>1, <2>2, <3>1, <3>2, <3>3 DEF LinkOK
  <2>3. CASE x = o
    <3>1. ~HasRow(o)' => customer'[o] = 0 /\ linked'[o] = 0
      <4>1. (HasRow(o)' <=> HasRow(o)) \/ HasRow(o)'
        BY <1>4 DEF HasRow
      <4> QED BY <1>4, <2>1, <2>3, <4>1 DEF LinkOK
    <3>2. /\ o \notin unnamed' => p # NoPlan
          /\ o \notin doubled' => \A q \in paying : q.org # o
          /\ o \notin relinked'
      BY <1>1
    <3>3. o \notin unnamed' => linked'[o] = n
      BY <1>4, <3>2
    <3> QED BY <1>1, <1>5, <2>3, <3>1, <3>2, <3>3 DEF LinkOK
  <2> QED BY <2>2, <2>3
<1> QED BY <1>4, <1>6, <1>7, <1>10, <1>11 DEF ShopInd

\* Another event of a subscription: what is left to show is the link.
LEMMA WebhookStep ==
    ASSUME ShopInd, NEW t \in paying \cup ended, NEW p \in Plans \cup {NoPlan}, NEW n \in Nat,
           p # NoPlan => plan[p].live, Reconcile(t.org, p, t.cust, n),
           UNCHANGED <<cart, known, created, sessions, sold, lapsed, doubled, unnamed,
                       plan, price, custom, edit, edits, raced>>,
           paying' \in {paying, paying \ {t}}, ended' \in {ended, ended \cup {t}},
           relinked' \in {relinked \ {t.org}, relinked \cup {t.org}}
    PROVE  /\ \/ /\ p = NoPlan /\ ~HasRow(t.org) /\ ~HasRow(t.org)'
                 /\ customer'[t.org] = customer[t.org] /\ linked'[t.org] = linked[t.org]
              \/ HasRow(t.org)' /\ linked'[t.org] = n
           /\ LinkOK(t.org)' => ShopInd'
<1>0. ShopTypes /\ CatInd /\ Numbered /\ OneCustomer /\ Linked
  BY DEF ShopInd
<1> PICK o : o = t.org
  OBVIOUS
<1> PICK c : c = t.cust
  OBVIOUS
<1>2. o \in Orgs /\ c \in Nat
  BY <1>0 DEF ShopTypes
<1>4. /\ CatInd' /\ customer' \in [Orgs -> Nat] /\ linked' \in [Orgs -> Nat]
      /\ \A x \in Orgs \ {o} : customer'[x] = customer[x] /\ linked'[x] = linked[x] /\ sub'[x] = sub[x]
      /\ \/ /\ p = NoPlan /\ ~HasRow(o)
            /\ customer'[o] = customer[o] /\ linked'[o] = linked[o] /\ sub'[o] = sub[o]
         \/ HasRow(o)' /\ customer'[o] = c /\ linked'[o] = n
  <2>1. /\ CatInd /\ ShopTypes /\ Reconcile(o, p, c, n)
        /\ UNCHANGED <<plan, price, custom, edit, edits, raced>>
    BY <1>0
  <2> QED BY <1>2, <2>1, ReconcileKinds
<1>5. paying' \subseteq paying /\ ended' \subseteq paying \cup ended
  OBVIOUS
<1>6. ShopTypes' /\ Numbered'
  BY <1>0, <1>4, <1>5 DEF ShopTypes, Numbered
<1>7. o \notin lapsed => c # 0 /\ c = Main(o)
  BY <1>0 DEF OneCustomer
<1>8. \A x \in Orgs \ lapsed : /\ Main(x)' = Main(x)
                               /\ customer'[x] = 0 => customer[x] = 0
  BY <1>4, <1>7 DEF Main
<1>9. OneCustomer'
  <2>1. \A r \in Carts : CartOK(cart[r])'
    BY <1>0, <1>8, CartsKept
  <2>2. /\ \A s \in sessions : s.org \in Orgs
        /\ \A q \in paying \cup ended : q.org \in Orgs
    BY <1>0 DEF ShopTypes
  <2>3. /\ \A s \in sessions' : s.org \notin lapsed' => s.cust # 0 /\ s.cust = Main(s.org)'
        /\ \A q \in (paying \cup ended)' : q.org \notin lapsed' => q.cust # 0 /\ q.cust = Main(q.org)'
    BY <1>0, <1>5, <1>8, <2>2 DEF OneCustomer
  <2> QED BY <2>1, <2>3 DEF OneCustomer
<1>10. ASSUME NEW x \in Orgs, x # o PROVE LinkOK(x)'
  <2>1. LinkOK(x) /\ (HasRow(x)' <=> HasRow(x))
    BY <1>0, <1>4, <1>10 DEF Linked, HasRow
  <2>2. customer'[x] = customer[x] /\ linked'[x] = linked[x] /\ (x \in relinked' <=> x \in relinked)
    BY <1>4, <1>10
  <2>3. \A q \in paying : q.org = x => q \in paying'
    BY <1>10
  <2> QED BY <1>5, <2>1, <2>2, <2>3 DEF LinkOK
<1>11. LinkOK(o)' => ShopInd'
  BY <1>4, <1>6, <1>9, <1>10 DEF Linked, ShopInd
<1>12. sub'[o] = sub[o] => (HasRow(o)' <=> HasRow(o))
  BY DEF HasRow
<1> QED BY <1>4, <1>11, <1>12

\* A renewal, a failed payment or a switch of plan, and the webhook writes it.
LEMMA RefreshStep ==
    ASSUME ShopInd, NEW t \in paying, Refresh(t)
    PROVE  ShopInd'
<1>1. PICK p \in Resolved(t) : Reconcile(t.org, p, t.cust, t.id)
  BY DEF Refresh
<1>2. /\ paying' = paying /\ ended' = ended /\ relinked' = relinked \ {t.org}
      /\ UNCHANGED <<cart, known, created, sessions, sold, lapsed, doubled, unnamed,
                     plan, price, custom, edit, edits, raced>>
  BY DEF Refresh, stripeVars
<1>3. p \in Plans \cup {NoPlan} /\ (p # NoPlan => plan[p].live)
  BY DEF Resolved
<1>4. t.org \in Orgs /\ t.id \in Nat /\ LinkOK(t.org)
  BY DEF ShopInd, ShopTypes, Linked
<1>5. /\ \/ /\ p = NoPlan /\ ~HasRow(t.org) /\ ~HasRow(t.org)'
            /\ customer'[t.org] = customer[t.org] /\ linked'[t.org] = linked[t.org]
         \/ HasRow(t.org)' /\ linked'[t.org] = t.id
      /\ LinkOK(t.org)' => ShopInd'
  BY <1>1, <1>2, <1>3, <1>4, WebhookStep
<1>6. LinkOK(t.org)'
  BY <1>2, <1>4, <1>5 DEF LinkOK
<1> QED BY <1>5, <1>6

\* A subscription ends, and the webhook writes it.
LEMMA CancelStep ==
    ASSUME ShopInd, NEW t \in paying, Cancel(t)
    PROVE  ShopInd'
<1> PICK p : p = IF plan[FreePlan].live THEN FreePlan ELSE NoPlan
  OBVIOUS
<1>1. Reconcile(t.org, p, t.cust, 0)
  BY DEF Cancel
<1>2. /\ paying' = paying \ {t} /\ ended' = ended \cup {t} /\ relinked' = relinked \ {t.org}
      /\ UNCHANGED <<cart, known, created, sessions, sold, lapsed, doubled, unnamed,
                     plan, price, custom, edit, edits, raced>>
  BY DEF Cancel
<1>3. p \in Plans \cup {NoPlan} /\ (p # NoPlan => plan[p].live)
  BY CheckoutAssumption
<1>4. t.org \in Orgs /\ LinkOK(t.org)
  BY DEF ShopInd, ShopTypes, Linked
<1>5. /\ \/ /\ p = NoPlan /\ ~HasRow(t.org) /\ ~HasRow(t.org)'
            /\ customer'[t.org] = customer[t.org] /\ linked'[t.org] = linked[t.org]
         \/ HasRow(t.org)' /\ linked'[t.org] = 0
      /\ LinkOK(t.org)' => ShopInd'
  BY <1>1, <1>2, <1>3, <1>4, WebhookStep
<1>6. linked'[t.org] = 0
  BY <1>4, <1>5 DEF LinkOK
<1>7. LinkOK(t.org)'
  BY <1>2, <1>4, <1>5, <1>6 DEF LinkOK
<1> QED BY <1>5, <1>7

\* An event of a subscription that has ended: the property knows the organization.
LEMMA StraggleStep ==
    ASSUME ShopInd, NEW t \in ended, Straggle(t)
    PROVE  ShopInd'
<1>1. PICK p \in Resolved(t) : (HasRow(t.org) \/ p # NoPlan) /\ Reconcile(t.org, p, t.cust, t.id)
  BY DEF Straggle
<1>2. /\ paying' = paying /\ ended' = ended /\ relinked' = relinked \cup {t.org}
      /\ UNCHANGED <<cart, known, created, sessions, sold, lapsed, doubled, unnamed,
                     plan, price, custom, edit, edits, raced>>
  BY DEF Straggle, stripeVars
<1>3. p \in Plans \cup {NoPlan} /\ (p # NoPlan => plan[p].live)
  BY DEF Resolved
<1>4. t.org \in Orgs /\ t.id \in Nat /\ LinkOK(t.org)
  BY DEF ShopInd, ShopTypes, Linked
<1>5. /\ \/ /\ p = NoPlan /\ ~HasRow(t.org) /\ ~HasRow(t.org)'
            /\ customer'[t.org] = customer[t.org] /\ linked'[t.org] = linked[t.org]
         \/ HasRow(t.org)' /\ linked'[t.org] = t.id
      /\ LinkOK(t.org)' => ShopInd'
  BY <1>1, <1>2, <1>3, <1>4, WebhookStep
<1>6. LinkOK(t.org)'
  BY <1>1, <1>2, <1>4, <1>5 DEF LinkOK
<1> QED BY <1>5, <1>6

\* A session expires unpaid.
LEMMA ExpireStep ==
    ASSUME ShopInd, NEW s \in sessions, SessionExpires(s)
    PROVE  ShopInd'
<1>0. ShopTypes /\ CatInd /\ Numbered /\ OneCustomer /\ Linked
  BY DEF ShopInd
<1>1. /\ sessions' = sessions \ {s}
      /\ UNCHANGED <<customer, linked, cart, known, created, paying, ended, sold, shopHistory, catVars>>
  BY DEF SessionExpires
<1>2. CatInd' /\ sub' = sub /\ lapsed' = lapsed
  BY <1>0, <1>1, CatStays DEF catVars, shopHistory
<1>3. ShopTypes' /\ Numbered' /\ Linked'
  BY <1>0, <1>1, <1>2 DEF ShopTypes, Numbered, Linked, LinkOK, HasRow, shopHistory
<1>4. \A o : Main(o)' = Main(o)
  BY <1>1 DEF Main
<1>5. \A r \in Carts : CartOK(cart[r])'
  BY <1>0, <1>1, <1>2, <1>4, CartsKept
<1>6. OneCustomer'
  BY <1>0, <1>1, <1>2, <1>4, <1>5 DEF OneCustomer
<1> QED BY <1>2, <1>3, <1>6 DEF ShopInd

\* A key that lapses with no customer recorded is what the history remembers.
LEMMA LapseStep ==
    ASSUME ShopInd, NEW o \in Orgs, KeyLapses(o)
    PROVE  ShopInd'
<1>0. ShopTypes /\ CatInd /\ Numbered /\ OneCustomer /\ Linked
  BY DEF ShopInd
<1>1. /\ known' = [known EXCEPT ![o] = 0]
      /\ lapsed' = IF Recorded(o) THEN lapsed ELSE lapsed \cup {o}
      /\ UNCHANGED <<customer, linked, cart, created, sessions, paying, ended, sold, doubled, unnamed, relinked,
                   catVars>>
  BY DEF KeyLapses
<1>2. CatInd' /\ sub' = sub
  BY <1>0, <1>1, CatStays DEF catVars
<1>3. /\ known' \in [Orgs -> Nat] /\ \A x \in Orgs \ {o} : known'[x] = known[x]
  BY <1>0, <1>1 DEF ShopTypes
<1>4. ShopTypes' /\ Numbered' /\ Linked'
  BY <1>0, <1>1, <1>2, <1>3 DEF ShopTypes, Numbered, Linked, LinkOK, HasRow
<1>5. lapsed \subseteq lapsed' /\ (o \notin lapsed' => customer[o] # 0)
  BY <1>1 DEF Recorded
<1>6. \A x \in Orgs \ lapsed' : /\ Main(x)' = Main(x)
                                /\ customer'[x] = 0 => customer[x] = 0 /\ known'[x] = known[x]
  BY <1>1, <1>3, <1>5 DEF Main
<1>7. \A r \in Carts : CartOK(cart[r])'
  BY <1>0, <1>1, <1>5, <1>6, CartsKept
<1>8. OneCustomer'
  <2>1. /\ \A s \in sessions : s.org \in Orgs
        /\ \A q \in paying \cup ended : q.org \in Orgs
    BY <1>0 DEF ShopTypes
  <2>2. /\ \A s \in sessions' : s.org \notin lapsed' => s.cust # 0 /\ s.cust = Main(s.org)'
        /\ \A q \in (paying \cup ended)' : q.org \notin lapsed' => q.cust # 0 /\ q.cust = Main(q.org)'
    BY <1>0, <1>1, <1>5, <1>6, <2>1 DEF OneCustomer
  <2> QED BY <1>7, <2>2 DEF OneCustomer
<1> QED BY <1>2, <1>4, <1>8 DEF ShopInd

\* The console may move an organization to a plan and never to none.
LEMMA AroundStep ==
    ASSUME ShopInd, ConsoleAround, UNCHANGED shopVars
    PROVE  ShopInd'
<1>0. ShopTypes /\ CatInd /\ Numbered /\ OneCustomer /\ Linked
  BY DEF ShopInd
<1>1. CatInd' /\ \A o \in Orgs : HasRow(o) => HasRow(o)'
  <2>0. sub \in [Orgs -> Plans \cup {NoPlan}] /\ NoPlan \notin Plans
    BY <1>0, EditKinds DEF CatInd, CatTypes
  <2>1. ASSUME NEW o \in Orgs, NEW p \in Plans, AssignPlan(o, p)
        PROVE  CatInd' /\ \A x \in Orgs : HasRow(x) => HasRow(x)'
    <3>1. sub' = [sub EXCEPT ![o] = p]
      BY <2>1 DEF AssignPlan
    <3>2. \A x \in Orgs : HasRow(x) => HasRow(x)'
      BY <2>0, <3>1 DEF HasRow
    <3> QED BY <1>0, <2>1, <3>2, AssignPlanStep
  <2>2. ASSUME NEW p \in Plans, UpdatePlan(p, [plan[p] EXCEPT !.public = FALSE])
        PROVE  CatInd' /\ sub' = sub
    <3> PICK b : b = [plan[p] EXCEPT !.public = FALSE]
      OBVIOUS
    <3>1. plan[p] \in PlanRows /\ plan[p].live /\ validatePlanLimits(plan[p].limits)
      BY <1>0, <2>2 DEF CatInd, CatTypes, CatalogueInv, UpdatePlan
    <3>2. b \in PlanRows /\ b.live = plan[p].live /\ b.limits = plan[p].limits
      BY <3>1 DEF PlanRows
    <3> QED BY <1>0, <2>2, <3>1, <3>2, UpdatePlanStep DEF UpdatePlan
  <2>3. ASSUME NEW s \in Staff, NEW x \in Prices, SetPlanPriceActive(s, x, FALSE)
        PROVE  CatInd' /\ sub' = sub
    BY <1>0, <2>3, SetPlanPriceActiveStep DEF SetPlanPriceActive
  <2>4. ASSUME NEW s \in Staff, NEW p \in Plans, DeletePlan(s, p)
        PROVE  CatInd' /\ sub' = sub
    BY <1>0, <2>4, CatStep DEF NextCatalogue, DeletePlan
  <2>5. ASSUME NEW s \in Staff, CountRemaining(s) \/ AdminSetPlanPriceActive(s) \/ AdminDeletePlan(s)
        PROVE  CatInd' /\ sub' = sub
    <3>1. NextCatalogue
      BY <2>5 DEF NextCatalogue
    <3> QED BY <1>0, <2>5, <3>1, CatStep DEF CountRemaining, AdminSetPlanPriceActive, AdminDeletePlan
  <2>6. sub' = sub => \A x \in Orgs : HasRow(x) => HasRow(x)'
    BY DEF HasRow
  <2> QED BY <2>1, <2>2, <2>3, <2>4, <2>5, <2>6 DEF ConsoleAround
<1>2. UNCHANGED <<customer, linked, cart, known, created, sessions, paying, ended, sold, lapsed, doubled, unnamed,
                 relinked>>
  BY DEF shopVars, stripeVars, shopHistory
<1>3. ShopTypes' /\ Numbered'
  BY <1>0, <1>2 DEF ShopTypes, Numbered
<1>4. Linked'
  BY <1>0, <1>1, <1>2 DEF Linked, LinkOK
<1>5. OneCustomer'
  BY <1>0, <1>2 DEF OneCustomer, CartOK, Main
<1> QED BY <1>1, <1>3, <1>4, <1>5 DEF ShopInd

-----------------------------------------------------------------------------
(* The invariant *)

\* The invariant holds at the start.
LEMMA ShopInit == InitShop /\ InitCheckout => ShopInd
<1> SUFFICES ASSUME InitShop, InitCheckout PROVE ShopInd
  OBVIOUS
<1>1. PICK p \in Plans \ {FreePlan} :
          price = [x \in Prices |-> IF x \in OnSale THEN [plan |-> p, active |-> TRUE]
                                    ELSE [plan |-> NoPlan, active |-> FALSE]]
  BY DEF InitShop
<1>2. SeedLimits \in LimitMaps /\ DOMAIN SeedLimits = LimitKeys
  BY CatalogueAssumption DEF LimitMaps
<1>3. plan = [q \in Plans |-> [live |-> TRUE, limits |-> SeedLimits, public |-> TRUE]]
  BY DEF InitShop
<1>4. plan \in [Plans -> PlanRows] /\ \A q \in Plans : plan[q].live /\ plan[q].limits = SeedLimits
  BY <1>2, <1>3 DEF PlanRows
<1>5. price \in [Prices -> PriceRows] /\ \A x \in Prices : price[x].plan \in {p, NoPlan}
  BY <1>1 DEF PriceRows
<1>6. /\ sub = [o \in Orgs |-> NoPlan] /\ custom = [o \in Orgs |-> NoLimits]
      /\ edit = [s \in Staff |-> NoEdit] /\ edits = 0 /\ raced = FALSE
  BY DEF InitShop
<1>7. CatTypes
  BY <1>4, <1>5, <1>6, EditKinds DEF CatTypes
<1>8. CatalogueInv
  BY <1>2, <1>4, <1>5, <1>6 DEF CatalogueInv, validatePlanLimits
<1>9. Apart /\ \A s \in Staff : EditOK(s)
  BY <1>6, EditKinds DEF Apart, EditOK, PriceEdit
<1>10. ShopTypes /\ Numbered /\ OneCustomer /\ Linked
  BY CartKinds DEF InitCheckout, ShopTypes, Numbered, OneCustomer, CartOK, Linked, LinkOK
<1> QED BY <1>7, <1>8, <1>9, <1>10 DEF ShopInd, CatInd

\* Every step keeps the invariant.
LEMMA ShopStep == ShopInd /\ [NextShopAround]_<<catVars, shopVars>> => ShopInd'
<1> SUFFICES ASSUME ShopInd, [NextShopAround]_<<catVars, shopVars>> PROVE ShopInd'
  OBVIOUS
<1>1. CASE NextShop
  BY <1>1, ReadSteps, CreateCustomerStep, ClaimStep, OpenSessionStep, PayStep, RefreshStep,
     CancelStep, StraggleStep, ExpireStep, LapseStep DEF NextShop
<1>2. CASE ConsoleAround /\ UNCHANGED shopVars
  BY <1>2, AroundStep
<1>3. CASE UNCHANGED <<catVars, shopVars>>
  <2>1. CatInd' /\ sub' = sub
    BY <1>3, CatStays DEF ShopInd, catVars
  <2>2. UNCHANGED <<customer, linked, cart, known, created, sessions, paying, ended, sold, lapsed, doubled, unnamed,
                 relinked>>
    BY <1>3 DEF shopVars, stripeVars, shopHistory
  <2>3. ShopTypes' /\ Numbered'
    BY <2>2 DEF ShopInd, ShopTypes, Numbered
  <2>4. Linked' /\ OneCustomer'
    BY <2>1, <2>2 DEF ShopInd, Linked, LinkOK, HasRow, OneCustomer, CartOK, Main
  <2> QED BY <2>1, <2>3, <2>4 DEF ShopInd
<1> QED BY <1>1, <1>2, <1>3 DEF NextShopAround

\* The inductive invariant.
LEMMA ShopInvariant == SpecShop => []ShopInd
BY ShopInit, ShopStep, PTL DEF SpecShop

\* An organization uses one Stripe customer, and stripe_subscription_id names
\* what it pays for, with the exceptions the property names (ensureCustomer,
\* Checkout, updateParams).
THEOREM BillingHolds == SpecShop => []BillingAgrees
<1>1. ShopInd => BillingAgrees
  <2> SUFFICES ASSUME ShopInd, NEW o \in Orgs
               PROVE  /\ ~HasRow(o) => customer[o] = 0 /\ linked[o] = 0
                      /\ o \notin lapsed => Cardinality(CustomersInUse(o)) <= 1
                      /\ o \notin doubled \cup unnamed \cup relinked =>
                            {q.id : q \in {t \in paying : t.org = o}} = {linked[o]} \ {0}
    BY DEF BillingAgrees
  <2>0. ShopTypes /\ Numbered /\ OneCustomer /\ LinkOK(o)
    BY DEF ShopInd, Linked
  <2>1. ASSUME o \notin lapsed PROVE Cardinality(CustomersInUse(o)) <= 1
    <3>1. CustomersInUse(o) \subseteq {Main(o)}
      <4>1. \A c \in {customer[o]} \ {0} : c = Main(o)
        BY DEF Main
      <4>2. \A s \in {t \in sessions : t.org = o} : s.cust = Main(o)
        BY <2>0, <2>1 DEF OneCustomer
      <4>3. \A q \in {t \in paying : t.org = o} : q.cust = Main(o)
        BY <2>0, <2>1 DEF OneCustomer
      <4> QED BY <4>1, <4>2, <4>3 DEF CustomersInUse
    <3>2. IsFiniteSet({Main(o)}) /\ Cardinality({Main(o)}) = 1
      BY FS_Singleton
    <3>3. Cardinality(CustomersInUse(o)) <= Cardinality({Main(o)}) /\ Cardinality(CustomersInUse(o)) \in Nat
      BY <3>1, <3>2, FS_Subset, FS_CardinalityType
    <3> QED BY <3>2, <3>3
  <2>2. ASSUME o \notin doubled \cup unnamed \cup relinked
        PROVE  {q.id : q \in {t \in paying : t.org = o}} = {linked[o]} \ {0}
    <3>1. \A q \in {t \in paying : t.org = o} : q.id = linked[o] /\ q.id # 0
      BY <2>0, <2>2 DEF LinkOK, Numbered, ShopTypes
    <3>2. linked[o] # 0 => \E q \in {t \in paying : t.org = o} : q.id = linked[o]
      BY <2>0, <2>2 DEF LinkOK
    <3> QED BY <3>1, <3>2
  <2> QED BY <2>0, <2>1, <2>2 DEF LinkOK
<1> QED BY <1>1, ShopInvariant, PTL

-----------------------------------------------------------------------------
(* The totals under the lists *)

SpecReads == InitReads /\ [][NextReads]_readVars

\* A filter that is counted as one thing and cached as another.
EmptyType(f) == list = "connectors" /\ f.type = EmptyText

BusyPages == [at : {"count", "set"}, begun : Nat, f : Asked(list), total : 0 .. MaxRows]
Entries == [count : 0 .. MaxRows, until : Nat]

ReadTypes ==
    /\ list \in Lists /\ table \subseteq Rows(list) /\ clock \in Nat
    /\ watched \in Asked(list) /\ blurred \in BOOLEAN
    /\ cache \in [Keys -> Entries]
    /\ page \in [Pages -> {NoPage} \cup BusyPages]
    /\ last \in [0 .. MaxRows -> Int]

\* The watched total is true now, and none was true later than now.
Remembered ==
    /\ last[Cardinality(Matching(watched))] = clock
    /\ \A n \in 0 .. MaxRows : last[n] <= clock

\* A request is of this unit of time or the one before, and its filters are
\* told apart by their keys while no empty type was asked for.
PageOK(r) == page[r] # NoPage =>
    /\ page[r].begun <= clock /\ clock <= page[r].begun + 1
    /\ ~blurred => ~EmptyType(page[r].f)
    /\ /\ page[r].at = "set" /\ ~blurred /\ ~EmptyType(watched)
       /\ filterKey(page[r].f) = filterKey(watched)
       => last[page[r].total] >= page[r].begun

\* An entry's total was true when it was counted, a unit of time before it was
\* stored at most.
EntryOK(e) ==
    e # NoEntry => e.until > clock /\ last[e.count] >= e.until - countCacheTTL - 1

ReadInd ==
    /\ ReadTypes /\ Remembered /\ \A r \in Pages : PageOK(r)
    /\ ~blurred /\ ~EmptyType(watched) => EntryOK(cache[filterKey(watched)])
    /\ TotalFresh

-----------------------------------------------------------------------------
(* Keys and totals *)

\* No two filters share a key but those with an empty and an absent type.
LEMMA KeysFaithful ==
    ASSUME list \in Lists, NEW f \in Asked(list), NEW g \in Asked(list),
           filterKey(f) = filterKey(g), ~EmptyType(f), ~EmptyType(g)
    PROVE  \A x : Where(f, x) <=> Where(g, x)
<1>1. CASE list = "organizations"
  <2>1. f.search = g.search
    BY <1>1, ReadsAssumption DEF filterKey, derefStr
  <2> QED BY <1>1, <2>1 DEF Where, OrganizationsWhere, Search
<1>2. CASE list = "users"
  <2>1. f.search = g.search /\ f.role = g.role /\ f.banned = g.banned
    BY <1>2, ReadsAssumption DEF filterKey, usersFilterKey, derefStr
  <2> QED BY <1>2, <2>1 DEF Where, UsersWhere, Search, Same
<1>3. CASE list = "connectors"
  <2>1. f.search = g.search /\ f.org = g.org /\ f.type = g.type /\ f.status = g.status
    BY <1>3, ReadsAssumption DEF filterKey, connectorsFilterKey, derefStr, EmptyType
  <2> QED BY <1>3, <2>1 DEF Where, ConnectorsWhere, Search, Same
<1>4. CASE list = "mcpkeys"
  <2>1. f.search = g.search /\ f.org = g.org /\ f.user = g.user
    BY <1>4, ReadsAssumption DEF filterKey, mcpKeysFilterKey, derefStr
  <2> QED BY <1>4, <2>1 DEF Where, MCPKeysWhere, Search, Same
<1>5. CASE list = "auditlogs"
  <2>1. f.org = g.org /\ f.user = g.user /\ f.patterns = g.patterns /\ f.from = g.from /\ f.to = g.to
    BY <1>5, ReadsAssumption DEF filterKey, auditLogsFilterKey, derefStr
  <2> QED BY <1>5, <2>1 DEF Where, AuditLogsWhere, Same
<1>6. CASE list = "stats"
  BY <1>6 DEF Where
<1> QED BY <1>1, <1>2, <1>3, <1>4, <1>5, <1>6, ReadsAssumption

\* A total is a number up to the bound.
LEMMA TotalTyped ==
    ASSUME list \in Lists, table \subseteq Rows(list), NEW f
    PROVE  Cardinality(Matching(f)) \in 0 .. MaxRows
<1>1. /\ IsFiniteSet(Rows(list)) /\ Cardinality(Rows(list)) <= MaxRows /\ MaxRows \in Nat
      /\ Matching(f) \subseteq Rows(list)
  BY ReadsAssumption DEF Matching
<1>2. /\ Cardinality(Matching(f)) <= Cardinality(Rows(list)) /\ Cardinality(Matching(f)) \in Nat
      /\ Cardinality(Rows(list)) \in Nat
  BY <1>1, FS_Subset, FS_CardinalityType
<1> QED BY <1>1, <1>2

\* A request in progress and an entry are not the empty ones.
LEMMA PageKinds ==
    ASSUME ReadTypes
    PROVE  /\ \A q \in BusyPages : q # NoPage /\ q.at # "idle"
           /\ NoPage.at = "idle" /\ NoEntry \in Entries
           /\ \A f \in Asked(list) : filterKey(f) \in Keys
BY ReadsAssumption DEF BusyPages, NoPage, NoEntry, Entries, Keys

\* What was remembered before is not forgotten.
LEMMA RememberStep ==
    ASSUME ReadTypes, Remembered, Remember, clock' \in Nat, clock <= clock', table' \subseteq Rows(list)
    PROVE  /\ list' = list /\ watched' = watched /\ last' \in [0 .. MaxRows -> Int] /\ Remembered'
           /\ \A n \in 0 .. MaxRows : last'[n] >= last[n]
<1>1. list' = list /\ watched' = watched /\ last' = [last EXCEPT ![Cardinality(Matching(watched))'] = clock']
  BY DEF Remember
<1>2. watched \in Asked(list) /\ list \in Lists /\ last \in [0 .. MaxRows -> Int] /\ clock \in Nat
  BY DEF ReadTypes
<1> PICK m : m = Cardinality(Matching(watched))'
  OBVIOUS
<1>3. Cardinality(Matching(watched)') \in 0 .. MaxRows
  <2>1. /\ IsFiniteSet(Rows(list)) /\ Cardinality(Rows(list)) <= MaxRows /\ MaxRows \in Nat
        /\ Matching(watched)' \subseteq Rows(list)
    BY <1>1, <1>2, ReadsAssumption DEF Matching
  <2>2. /\ Cardinality(Matching(watched)') <= Cardinality(Rows(list))
        /\ Cardinality(Matching(watched)') \in Nat /\ Cardinality(Rows(list)) \in Nat
    BY <2>1, FS_Subset, FS_CardinalityType
  <2> QED BY <2>1, <2>2
<1>4. m \in 0 .. MaxRows
  BY <1>3
<1>5. last' = [last EXCEPT ![m] = clock']
  BY <1>1
<1>6. /\ last' \in [0 .. MaxRows -> Int] /\ last'[m] = clock'
      /\ \A n \in 0 .. MaxRows : last'[n] = last[n] \/ last'[n] = clock'
  BY <1>2, <1>4, <1>5
<1>7. \A n \in 0 .. MaxRows : last[n] <= clock /\ last[n] \in Int
  BY <1>2 DEF Remembered
<1>8. \A n \in 0 .. MaxRows : last'[n] >= last[n] /\ last'[n] <= clock'
  BY <1>2, <1>6, <1>7
<1> QED BY <1>1, <1>6, <1>8 DEF Remembered

\* Equal filters have equal keys.
LEMMA KeysSame ==
    ASSUME list' = list
    PROVE  /\ Keys' = Keys
           /\ \A f : filterKey(f)' = filterKey(f) /\ EmptyType(f)' = EmptyType(f)
BY DEF Keys, filterKey, usersFilterKey, connectorsFilterKey, mcpKeysFilterKey, auditLogsFilterKey,
       derefStr, EmptyType

\* What is known of the pages and the entries stays known while no time passes.
LEMMA PageCarried ==
    ASSUME ReadTypes, list' = list, watched' = watched, clock' = clock, blurred => blurred',
           \A n \in 0 .. MaxRows : last'[n] \in Int /\ last'[n] >= last[n],
           NEW r \in Pages, page'[r] = page[r], PageOK(r)
    PROVE  PageOK(r)'
<1> SUFFICES ASSUME page[r] # NoPage
             PROVE  /\ page[r].begun <= clock /\ clock <= page[r].begun + 1
                    /\ ~blurred' => ~EmptyType(page[r].f)
                    /\ /\ page[r].at = "set" /\ ~blurred' /\ ~EmptyType(watched)
                       /\ filterKey(page[r].f) = filterKey(watched)
                       => last'[page[r].total] >= page[r].begun
  BY KeysSame DEF PageOK
<1>1. page[r].total \in 0 .. MaxRows /\ page[r].begun \in Nat /\ last[page[r].total] \in Int
  BY DEF ReadTypes, BusyPages
<1> QED BY <1>1 DEF PageOK

\* The same for an entry.
LEMMA EntryCarried ==
    ASSUME ReadTypes, NEW e \in Entries, clock' = clock, EntryOK(e),
           \A n \in 0 .. MaxRows : last'[n] \in Int /\ last'[n] >= last[n]
    PROVE  EntryOK(e)'
<1>1. e.count \in 0 .. MaxRows /\ e.until \in Nat /\ last[e.count] \in Int /\ countCacheTTL \in Nat
  BY ReadsAssumption DEF ReadTypes, Entries
<1> QED BY <1>1 DEF EntryOK

\* A total is not watched, or it is fresh.
LEMMA AnswerFresh ==
    ASSUME ReadInd, NEW r \in Pages, NEW f, NEW n, Answer(r, f, n),
           f = watched /\ ~blurred' => last[n] >= clock - countCacheTTL /\ last[n] \in Int
    PROVE  /\ TotalFresh' /\ page' \in [Pages -> {NoPage} \cup BusyPages] /\ page'[r] = NoPage
           /\ \A s \in Pages \ {r} : page'[s] = page[s]
<1>1. ~(f = watched /\ ~blurred' /\ last[n] < clock - countCacheTTL)
  BY ReadsAssumption DEF ReadInd, ReadTypes
<1>2. TotalFresh'
  BY <1>1 DEF Answer, ReadInd, TotalFresh
<1>3. page \in [Pages -> {NoPage} \cup BusyPages] /\ page' = [page EXCEPT ![r] = NoPage]
  BY DEF Answer, ReadInd, ReadTypes
<1> HIDE DEF NoPage, BusyPages
<1> QED BY <1>2, <1>3

\* The state after a step in which no time passes, but for the pages.
LEMMA Carried ==
    ASSUME ReadInd, Remember, KeepTables, UNCHANGED cache, blurred' \in BOOLEAN, blurred => blurred'
    PROVE  /\ list' = list /\ watched' = watched /\ Remembered' /\ last' \in [0 .. MaxRows -> Int]
           /\ \A n \in 0 .. MaxRows : last'[n] \in Int /\ last'[n] >= last[n]
           /\ page' \in [Pages -> {NoPage} \cup BusyPages] => ReadTypes'
           /\ ~blurred' /\ ~EmptyType(watched) => EntryOK(cache[filterKey(watched)])'
           /\ \A r \in Pages : page'[r] = page[r] => PageOK(r)'
<1>1. ReadTypes /\ Remembered /\ clock' = clock /\ table' = table /\ table' \subseteq Rows(list)
      /\ clock' \in Nat /\ clock <= clock'
  BY DEF ReadInd, ReadTypes, KeepTables
<1>2. /\ list' = list /\ watched' = watched /\ last' \in [0 .. MaxRows -> Int] /\ Remembered'
      /\ \A n \in 0 .. MaxRows : last'[n] >= last[n]
  BY <1>1, RememberStep
<1>3. \A n \in 0 .. MaxRows : last'[n] \in Int /\ last'[n] >= last[n]
  BY <1>2
<1>4. Keys' = Keys /\ filterKey(watched)' = filterKey(watched)
  BY <1>2, KeysSame
<1>5. page' \in [Pages -> {NoPage} \cup BusyPages] => ReadTypes'
  <2>1. list' \in Lists /\ watched' \in Asked(list') /\ cache' \in [Keys' -> Entries]
        /\ table' \subseteq Rows(list')
    BY <1>1, <1>2, <1>4 DEF ReadTypes
  <2>2. BusyPages' = BusyPages
    BY <1>2 DEF BusyPages
  <2> QED BY <1>1, <1>2, <2>1, <2>2 DEF ReadTypes
<1>6. ~blurred' /\ ~EmptyType(watched) => EntryOK(cache[filterKey(watched)])'
  <2> SUFFICES ASSUME ~blurred', ~EmptyType(watched)
               PROVE  EntryOK(cache[filterKey(watched)])'
    OBVIOUS
  <2> PICK e : e = cache[filterKey(watched)]
    OBVIOUS
  <2>1. EntryOK(e) /\ e \in Entries
    BY <1>1, PageKinds DEF ReadInd, ReadTypes
  <2>2. EntryOK(e)'
    BY <1>1, <1>3, <2>1, EntryCarried
  <2>3. cache[filterKey(watched)]' = e
    BY <1>4
  <2> QED BY <2>2, <2>3 DEF EntryOK
<1>7. \A r \in Pages : page'[r] = page[r] => PageOK(r)'
  BY <1>1, <1>2, <1>3, PageCarried DEF ReadInd
<1> QED BY <1>2, <1>3, <1>5, <1>6, <1>7

\* A request begins: it answers from the cache or goes on to count (cachedCount).
LEMMA BeginStep ==
    ASSUME ReadInd, NEW r \in Pages, NEW f \in Asked(list), Begin(r, f), Remember
    PROVE  ReadInd'
<1>1. ReadTypes /\ blurred \in BOOLEAN /\ clock \in Nat /\ PageOK(r)
  BY DEF ReadInd, ReadTypes
<1>2. /\ KeepTables /\ UNCHANGED cache /\ blurred' = (blurred \/ EmptyType(f))
      /\ blurred' \in BOOLEAN /\ (blurred => blurred')
  BY DEF Begin, EmptyType
<1>3. /\ list' = list /\ watched' = watched /\ Remembered' /\ last' \in [0 .. MaxRows -> Int]
      /\ \A n \in 0 .. MaxRows : last'[n] \in Int /\ last'[n] >= last[n]
      /\ page' \in [Pages -> {NoPage} \cup BusyPages] => ReadTypes'
      /\ ~blurred' /\ ~EmptyType(watched) => EntryOK(cache[filterKey(watched)])'
      /\ \A s \in Pages : page'[s] = page[s] => PageOK(s)'
  BY <1>2, Carried
<1>4. EmptyType(watched)' = EmptyType(watched)
  BY <1>3, KeysSame
<1> PICK e : e = cache[filterKey(f)]
  OBVIOUS
<1>5. CASE e # NoEntry /\ Answer(r, f, e.count)
  <2>1. f = watched /\ ~blurred' => last[e.count] >= clock - countCacheTTL /\ last[e.count] \in Int
    <3> SUFFICES ASSUME f = watched, ~blurred'
                 PROVE  last[e.count] >= clock - countCacheTTL /\ last[e.count] \in Int
      OBVIOUS
    <3>1. EntryOK(e) /\ e \in Entries
      BY <1>1, <1>2, PageKinds DEF ReadInd, ReadTypes
    <3>2. e.until > clock /\ last[e.count] >= e.until - countCacheTTL - 1
      BY <1>5, <3>1 DEF EntryOK
    <3>3. e.count \in 0 .. MaxRows /\ e.until \in Nat /\ last[e.count] \in Int /\ countCacheTTL \in Nat
      BY <1>1, <3>1, ReadsAssumption DEF ReadTypes, Entries
    <3> QED BY <1>1, <3>2, <3>3
  <2>2. /\ TotalFresh' /\ page' \in [Pages -> {NoPage} \cup BusyPages] /\ page'[r] = NoPage
        /\ \A s \in Pages \ {r} : page'[s] = page[s]
    BY <1>5, <2>1, AnswerFresh
  <2>3. \A s \in Pages : PageOK(s)'
    <3>1. PageOK(r)'
      BY <2>2 DEF PageOK, NoPage
    <3> QED BY <1>3, <2>2, <3>1
  <2> QED BY <1>3, <1>4, <2>2, <2>3 DEF ReadInd
<1>6. CASE Step(r, [NoPage EXCEPT !.at = "count", !.begun = clock, !.f = f])
  <2> PICK q : q = [NoPage EXCEPT !.at = "count", !.begun = clock, !.f = f]
    OBVIOUS
  <2>1. q = [at |-> "count", begun |-> clock, f |-> f, total |-> 0]
    BY DEF NoPage
  <2>2. q \in BusyPages
    BY <1>1, <2>1, ReadsAssumption DEF BusyPages
  <2>3. page' = [page EXCEPT ![r] = q] /\ stale' = stale
    BY <1>6 DEF Step
  <2>4. /\ page' \in [Pages -> {NoPage} \cup BusyPages] /\ page'[r] = q
        /\ \A s \in Pages \ {r} : page'[s] = page[s]
    BY <1>1, <2>2, <2>3 DEF ReadTypes
  <2>5. PageOK(r)'
    <3>1. EmptyType(f)' = EmptyType(f) /\ clock' = clock
      BY <1>2, <1>3, KeysSame DEF KeepTables
    <3>2. ~blurred' => ~EmptyType(f)
      BY <1>2
    <3>3. q.begun = clock /\ q.f = f /\ q.at = "count"
      BY <2>1
    <3> QED BY <1>1, <2>4, <3>1, <3>2, <3>3 DEF PageOK
  <2>6. \A s \in Pages : PageOK(s)'
    BY <1>3, <2>4, <2>5
  <2>7. TotalFresh'
    BY <2>3 DEF ReadInd, TotalFresh
  <2> QED BY <1>3, <1>4, <2>4, <2>6, <2>7 DEF ReadInd
<1> QED BY <1>5, <1>6 DEF Begin

\* A count is true when it is made.
LEMMA ComputeStep ==
    ASSUME ReadInd, NEW r \in Pages, compute(r), Remember
    PROVE  ReadInd'
<1> PICK p : p = page[r]
  OBVIOUS
<1> PICK n : n = Cardinality(Matching(p.f))
  OBVIOUS
<1> PICK q : q = [p EXCEPT !.at = "set", !.total = n]
  OBVIOUS
<1>1. /\ ReadTypes /\ Remembered /\ clock \in Nat /\ PageOK(r) /\ blurred \in BOOLEAN
      /\ list \in Lists /\ table \subseteq Rows(list) /\ watched \in Asked(list)
  BY DEF ReadInd, ReadTypes
<1>2. /\ p.at = "count" /\ page' = [page EXCEPT ![r] = q] /\ stale' = stale
      /\ KeepTables /\ UNCHANGED <<cache, blurred>>
  BY DEF compute, Step
<1>3. p \in BusyPages
  BY <1>1, <1>2, PageKinds DEF ReadTypes
<1>4. n \in 0 .. MaxRows
  BY <1>1, TotalTyped
<1>5. q = [at |-> "set", begun |-> p.begun, f |-> p.f, total |-> n]
  <2> DEFINE W == {"count", "set"}
             A == Asked(list)
             N == 0 .. MaxRows
  <2>1. p \in [at : W, begun : Nat, f : A, total : N] /\ "set" \in W
    BY <1>3 DEF BusyPages
  <2> HIDE DEF W, A, N
  <2>2. PICK e : e = [p EXCEPT !.at = "set"]
    OBVIOUS
  <2>3. e = [at |-> "set", begun |-> p.begun, f |-> p.f, total |-> p.total]
    BY <2>1, <2>2
  <2>4. [e EXCEPT !.total = n] = [at |-> "set", begun |-> e.begun, f |-> e.f, total |-> n]
    BY <2>3
  <2>5. q = [e EXCEPT !.total = n]
    BY <2>2
  <2> QED BY <2>3, <2>4, <2>5
<1>6. q \in BusyPages
  BY <1>3, <1>4, <1>5 DEF BusyPages
<1>7. /\ page' \in [Pages -> {NoPage} \cup BusyPages] /\ page'[r] = q
      /\ \A s \in Pages \ {r} : page'[s] = page[s]
  BY <1>1, <1>2, <1>6 DEF ReadTypes
<1>8. /\ list' = list /\ watched' = watched /\ Remembered' /\ last' \in [0 .. MaxRows -> Int]
      /\ \A k \in 0 .. MaxRows : last'[k] \in Int /\ last'[k] >= last[k]
      /\ page' \in [Pages -> {NoPage} \cup BusyPages] => ReadTypes'
      /\ ~blurred' /\ ~EmptyType(watched) => EntryOK(cache[filterKey(watched)])'
      /\ \A s \in Pages : page'[s] = page[s] => PageOK(s)'
  BY <1>1, <1>2, Carried
<1>9. /\ clock' = clock /\ blurred' = blurred
      /\ \A f : filterKey(f)' = filterKey(f) /\ EmptyType(f)' = EmptyType(f)
  BY <1>2, <1>8, KeysSame DEF KeepTables
<1>10. PageOK(r)'
  <2>1. /\ p.begun \in Nat /\ p.begun <= clock /\ clock <= p.begun + 1 /\ (~blurred => ~EmptyType(p.f))
        /\ p.f \in Asked(list)
    BY <1>1, <1>2, <1>3, PageKinds DEF PageOK, BusyPages
  <2>2. ASSUME ~blurred, ~EmptyType(watched), filterKey(p.f) = filterKey(watched)
        PROVE  last'[n] >= p.begun
    <3>1. \A x : Where(p.f, x) <=> Where(watched, x)
      BY <1>1, <2>1, <2>2, KeysFaithful
    <3>2. Matching(p.f) = Matching(watched)
      BY <3>1 DEF Matching
    <3>3. last[n] = clock
      BY <1>1, <3>2 DEF Remembered
    <3> QED BY <1>1, <1>4, <1>8, <2>1, <3>3
  <2>3. q.begun = p.begun /\ q.f = p.f /\ q.at = "set" /\ q.total = n
    BY <1>5
  <2> QED BY <1>7, <1>8, <1>9, <2>1, <2>2, <2>3 DEF PageOK
<1>11. \A s \in Pages : PageOK(s)'
  BY <1>7, <1>8, <1>10
<1>12. TotalFresh'
  BY <1>2 DEF ReadInd, TotalFresh
<1> QED BY <1>7, <1>8, <1>9, <1>11, <1>12 DEF ReadInd

\* A count or a write that fails.
LEMMA FailStep ==
    ASSUME ReadInd, NEW r \in Pages, Fail(r), Remember
    PROVE  ReadInd'
<1>1. /\ page' = [page EXCEPT ![r] = NoPage] /\ stale' = stale
      /\ KeepTables /\ UNCHANGED <<cache, blurred>>
  BY DEF Fail, Step
<1>2. ReadTypes /\ blurred \in BOOLEAN
  BY DEF ReadInd, ReadTypes
<1>3. /\ page' \in [Pages -> {NoPage} \cup BusyPages] /\ page'[r] = NoPage
      /\ \A s \in Pages \ {r} : page'[s] = page[s]
  <2> HIDE DEF NoPage, BusyPages
  <2> QED BY <1>1, <1>2 DEF ReadTypes
<1>4. /\ list' = list /\ watched' = watched /\ Remembered' /\ last' \in [0 .. MaxRows -> Int]
      /\ \A k \in 0 .. MaxRows : last'[k] \in Int /\ last'[k] >= last[k]
      /\ page' \in [Pages -> {NoPage} \cup BusyPages] => ReadTypes'
      /\ ~blurred' /\ ~EmptyType(watched) => EntryOK(cache[filterKey(watched)])'
      /\ \A s \in Pages : page'[s] = page[s] => PageOK(s)'
  BY <1>1, <1>2, Carried
<1>5. PageOK(r)'
  BY <1>3 DEF PageOK, NoPage
<1>6. \A s \in Pages : PageOK(s)'
  BY <1>3, <1>4, <1>5
<1>7. TotalFresh' /\ EmptyType(watched)' = EmptyType(watched)
  BY <1>1, <1>4, KeysSame DEF ReadInd, TotalFresh
<1> QED BY <1>3, <1>4, <1>6, <1>7 DEF ReadInd

\* Of a stored total, the entry's lifetime and the request's length bound the age.
LEMMA SetStep ==
    ASSUME ReadInd, NEW r \in Pages, Set(r), Remember
    PROVE  ReadInd'
<1> PICK p : p = page[r]
  OBVIOUS
<1> PICK k : k = filterKey(p.f)
  OBVIOUS
<1> PICK e : e = [count |-> p.total, until |-> clock + countCacheTTL]
  OBVIOUS
<1>1. /\ ReadTypes /\ Remembered /\ clock \in Nat /\ PageOK(r) /\ blurred \in BOOLEAN
      /\ list \in Lists /\ table \subseteq Rows(list) /\ watched \in Asked(list)
      /\ countCacheTTL \in Nat /\ countCacheTTL # 0 /\ cache \in [Keys -> Entries]
  BY ReadsAssumption DEF ReadInd, ReadTypes
<1>2. /\ p.at = "set" /\ KeepTables /\ UNCHANGED blurred
      /\ cache' = [cache EXCEPT ![k] = e] \/ cache' = cache
      /\ Answer(r, p.f, p.total)
  BY DEF Set
<1>3. p \in BusyPages /\ p # NoPage
  BY <1>1, <1>2, PageKinds DEF ReadTypes
<1>4. p.total \in 0 .. MaxRows /\ p.begun \in Nat /\ p.f \in Asked(list) /\ last[p.total] \in Int
  BY <1>1, <1>3 DEF BusyPages, ReadTypes
<1>5. /\ p.begun <= clock /\ clock <= p.begun + 1 /\ (~blurred => ~EmptyType(p.f))
      /\ (~blurred /\ ~EmptyType(watched) /\ k = filterKey(watched) => last[p.total] >= p.begun)
  BY <1>1, <1>2, <1>3 DEF PageOK
<1>6. p.f = watched /\ ~blurred' => last[p.total] >= clock - countCacheTTL /\ last[p.total] \in Int
  BY <1>1, <1>2, <1>4, <1>5
<1>7. /\ TotalFresh' /\ page' \in [Pages -> {NoPage} \cup BusyPages] /\ page'[r] = NoPage
      /\ \A s \in Pages \ {r} : page'[s] = page[s]
  BY <1>2, <1>6, AnswerFresh
<1>8. clock' = clock /\ table' = table /\ clock' \in Nat /\ clock <= clock' /\ table' \subseteq Rows(list)
  BY <1>1, <1>2 DEF KeepTables
<1>9. /\ list' = list /\ watched' = watched /\ last' \in [0 .. MaxRows -> Int] /\ Remembered'
      /\ \A n \in 0 .. MaxRows : last'[n] >= last[n]
  BY <1>1, <1>8, RememberStep
<1>10. \A n \in 0 .. MaxRows : last'[n] \in Int /\ last'[n] >= last[n]
  BY <1>9
<1>11. /\ Keys' = Keys /\ BusyPages' = BusyPages
       /\ \A f : filterKey(f)' = filterKey(f) /\ EmptyType(f)' = EmptyType(f)
  BY <1>9, KeysSame DEF BusyPages
<1>12. e \in Entries /\ e.count = p.total /\ e.until = clock + countCacheTTL
  BY <1>1, <1>4 DEF Entries
<1>13. cache' \in [Keys -> Entries]
  BY <1>1, <1>2, <1>12
<1>14. ReadTypes'
  BY <1>1, <1>2, <1>7, <1>8, <1>9, <1>11, <1>13 DEF ReadTypes
<1>15. \A s \in Pages : PageOK(s)'
  <2>1. PageOK(r)'
    BY <1>7 DEF PageOK, NoPage
  <2>2. \A s \in Pages \ {r} : PageOK(s)'
    BY <1>1, <1>2, <1>7, <1>8, <1>9, <1>10, PageCarried DEF ReadInd
  <2> QED BY <2>1, <2>2
<1>16. ~blurred' /\ ~EmptyType(watched)' => EntryOK(cache[filterKey(watched)])'
  <2> SUFFICES ASSUME ~blurred, ~EmptyType(watched) PROVE EntryOK(cache[filterKey(watched)])'
    BY <1>2, <1>11, <1>9
  <2> PICK w : w = filterKey(watched)
    OBVIOUS
  <2> PICK d : d = cache'[w]
    OBVIOUS
  <2>1. w \in Keys /\ cache[w] \in Entries /\ EntryOK(cache[w])
    BY <1>1, PageKinds DEF ReadInd
  <2>2. d = cache[w] \/ (w = k /\ d = e)
    <3>1. CASE cache' = cache
      BY <3>1
    <3>2. CASE cache' = [cache EXCEPT ![k] = e]
      BY <1>1, <2>1, <3>2
    <3> QED BY <1>2, <3>1, <3>2
  <2>3. CASE d = cache[w]
    <3>1. EntryOK(d)'
      BY <1>1, <1>8, <1>10, <2>1, <2>3, EntryCarried
    <3> QED BY <1>9, <1>11, <3>1 DEF EntryOK
  <2>4. CASE w = k /\ d = e
    <3>1. last[p.total] >= p.begun
      BY <1>5, <2>4
    <3>2. last'[p.total] >= p.begun /\ last'[p.total] \in Int
      BY <1>4, <1>10, <3>1
    <3>3. e.until > clock' /\ last'[e.count] >= e.until - countCacheTTL - 1
      BY <1>1, <1>4, <1>5, <1>8, <1>12, <3>2
    <3>4. cache[filterKey(watched)]' = e
      BY <1>9, <1>11, <2>4
    <3> QED BY <3>3, <3>4 DEF EntryOK
  <2> QED BY <2>2, <2>3, <2>4
<1> QED BY <1>7, <1>9, <1>14, <1>15, <1>16 DEF ReadInd

\* Rows come and go: the watched total changes, and is remembered as of now.
LEMMA WriteStep ==
    ASSUME ReadInd, NEW gone, NEW new, new \subseteq Rows(list), Write(gone, new), Remember
    PROVE  ReadInd'
<1>1. /\ ReadTypes /\ Remembered /\ clock \in Nat /\ blurred \in BOOLEAN /\ table \subseteq Rows(list)
      /\ watched \in Asked(list)
  BY DEF ReadInd, ReadTypes
<1>2. /\ table' = (table \ gone) \cup new /\ UNCHANGED <<cache, page, clock, blurred, stale>>
  BY DEF Write
<1>3. clock' = clock /\ clock' \in Nat /\ clock <= clock' /\ table' \subseteq Rows(list)
  BY <1>1, <1>2
<1>4. /\ list' = list /\ watched' = watched /\ last' \in [0 .. MaxRows -> Int] /\ Remembered'
      /\ \A n \in 0 .. MaxRows : last'[n] >= last[n]
  BY <1>1, <1>3, RememberStep
<1>5. \A n \in 0 .. MaxRows : last'[n] \in Int /\ last'[n] >= last[n]
  BY <1>4
<1>6. /\ Keys' = Keys /\ BusyPages' = BusyPages
      /\ \A f : filterKey(f)' = filterKey(f) /\ EmptyType(f)' = EmptyType(f)
  BY <1>4, KeysSame DEF BusyPages
<1>7. ReadTypes'
  BY <1>1, <1>2, <1>3, <1>4, <1>6 DEF ReadTypes
<1>8. \A s \in Pages : PageOK(s)'
  BY <1>1, <1>2, <1>4, <1>5, PageCarried DEF ReadInd
<1>9. ~blurred' /\ ~EmptyType(watched)' => EntryOK(cache[filterKey(watched)])'
  <2> SUFFICES ASSUME ~blurred, ~EmptyType(watched) PROVE EntryOK(cache[filterKey(watched)])'
    BY <1>2, <1>6, <1>4
  <2> PICK e : e = cache[filterKey(watched)]
    OBVIOUS
  <2>1. EntryOK(e) /\ e \in Entries
    BY <1>1, PageKinds DEF ReadInd, ReadTypes
  <2>2. EntryOK(e)'
    BY <1>1, <1>2, <1>5, <2>1, EntryCarried
  <2>3. cache[filterKey(watched)]' = e
    BY <1>2, <1>4, <1>6
  <2> QED BY <2>2, <2>3 DEF EntryOK
<1>10. TotalFresh'
  BY <1>2 DEF ReadInd, TotalFresh
<1> QED BY <1>4, <1>7, <1>8, <1>9, <1>10 DEF ReadInd

\* Time passes when no request is left of the unit before, and entries expire.
LEMMA AdvanceStep ==
    ASSUME ReadInd, Advance, Remember
    PROVE  ReadInd'
<1>1. /\ ReadTypes /\ Remembered /\ clock \in Nat /\ blurred \in BOOLEAN /\ table \subseteq Rows(list)
      /\ watched \in Asked(list) /\ cache \in [Keys -> Entries]
  BY DEF ReadInd, ReadTypes
<1>2. /\ clock' = clock + 1 /\ \A r \in Pages : page[r].at # "idle" => page[r].begun = clock
      /\ cache' = [k \in Keys |-> IF cache[k].until > clock + 1 THEN cache[k] ELSE NoEntry]
      /\ UNCHANGED <<table, page, blurred, stale>>
  BY DEF Advance
<1>3. clock' \in Nat /\ clock <= clock' /\ table' \subseteq Rows(list)
  BY <1>1, <1>2
<1>4. /\ list' = list /\ watched' = watched /\ last' \in [0 .. MaxRows -> Int] /\ Remembered'
      /\ \A n \in 0 .. MaxRows : last'[n] >= last[n]
  BY <1>1, <1>3, RememberStep
<1>5. \A n \in 0 .. MaxRows : last'[n] \in Int /\ last'[n] >= last[n]
  BY <1>4
<1>6. /\ Keys' = Keys /\ BusyPages' = BusyPages
      /\ \A f : filterKey(f)' = filterKey(f) /\ EmptyType(f)' = EmptyType(f)
  BY <1>4, KeysSame DEF BusyPages
<1>7. cache' \in [Keys -> Entries]
  BY <1>1, <1>2, PageKinds
<1>8. ReadTypes'
  BY <1>1, <1>2, <1>3, <1>4, <1>6, <1>7 DEF ReadTypes
<1>9. ASSUME NEW r \in Pages PROVE PageOK(r)'
  <2> SUFFICES ASSUME page[r] # NoPage
               PROVE  /\ page[r].begun <= clock' /\ clock' <= page[r].begun + 1
                      /\ ~blurred => ~EmptyType(page[r].f)
                      /\ /\ page[r].at = "set" /\ ~blurred /\ ~EmptyType(watched)
                         /\ filterKey(page[r].f) = filterKey(watched)
                         => last'[page[r].total] >= page[r].begun
    BY <1>2, <1>4, <1>6 DEF PageOK
  <2>1. page[r] \in BusyPages /\ page[r].begun = clock
    BY <1>1, <1>2, PageKinds DEF ReadTypes
  <2>2. page[r].total \in 0 .. MaxRows /\ last[page[r].total] \in Int
    BY <1>1, <2>1 DEF BusyPages, ReadTypes
  <2>3. PageOK(r)
    BY DEF ReadInd
  <2> QED BY <1>1, <1>2, <1>5, <2>1, <2>2, <2>3 DEF PageOK
<1>10. ~blurred' /\ ~EmptyType(watched)' => EntryOK(cache[filterKey(watched)])'
  <2> SUFFICES ASSUME ~blurred, ~EmptyType(watched) PROVE EntryOK(cache[filterKey(watched)])'
    BY <1>2, <1>6, <1>4
  <2> PICK w : w = filterKey(watched)
    OBVIOUS
  <2> PICK e : e = cache[w]
    OBVIOUS
  <2> PICK d : d = cache'[w]
    OBVIOUS
  <2>1. EntryOK(e) /\ e \in Entries /\ w \in Keys
    BY <1>1, PageKinds DEF ReadInd
  <2>2. d = IF e.until > clock + 1 THEN e ELSE NoEntry
    BY <1>2, <2>1
  <2>3. e.count \in 0 .. MaxRows /\ e.until \in Nat /\ last[e.count] \in Int
    BY <1>1, <2>1 DEF Entries, ReadTypes
  <2>4. d # NoEntry => d.until > clock' /\ last'[d.count] >= d.until - countCacheTTL - 1
    <3> SUFFICES ASSUME d # NoEntry PROVE d.until > clock' /\ last'[d.count] >= d.until - countCacheTTL - 1
      OBVIOUS
    <3>1. d = e /\ e.until > clock + 1
      BY <2>2
    <3>2. last[e.count] >= e.until - countCacheTTL - 1
      BY <2>1, <3>1 DEF EntryOK
    <3>3. last'[e.count] >= last[e.count] /\ last'[e.count] \in Int
      BY <1>5, <2>3
    <3> QED BY <1>1, <1>2, <2>3, <3>1, <3>2, <3>3, ReadsAssumption
  <2>5. cache[filterKey(watched)]' = d
    BY <1>4, <1>6
  <2> QED BY <2>4, <2>5 DEF EntryOK
<1>11. TotalFresh'
  BY <1>2 DEF ReadInd, TotalFresh
<1> QED BY <1>4, <1>8, <1>9, <1>10, <1>11 DEF ReadInd

-----------------------------------------------------------------------------
(* The invariant *)

\* The invariant holds at the start.
LEMMA ReadInit == InitReads => ReadInd
<1> SUFFICES ASSUME InitReads PROVE ReadInd
  OBVIOUS
<1>1. /\ list \in Lists /\ table = {} /\ clock = 0 /\ blurred = FALSE /\ stale = FALSE
      /\ watched \in Asked(list) /\ cache = [k \in Keys |-> NoEntry]
      /\ page = [r \in Pages |-> NoPage]
      /\ last = [n \in 0 .. MaxRows |-> IF n = 0 THEN 0 ELSE -MaxClock]
  BY DEF InitReads
<1>2. NoEntry \in Entries
  BY ReadsAssumption DEF NoEntry, Entries
<1>3. last \in [0 .. MaxRows -> Int] /\ last[0] = 0 /\ \A n \in 0 .. MaxRows : last[n] <= 0
  BY <1>1, ReadsAssumption
<1>4. ReadTypes
  BY <1>1, <1>2, <1>3 DEF ReadTypes
<1>5. Cardinality(Matching(watched)) = 0
  BY <1>1, FS_EmptySet DEF Matching
<1>6. Remembered
  BY <1>1, <1>3, <1>5 DEF Remembered
<1>7. filterKey(watched) \in Keys
  BY <1>1 DEF Keys
<1> QED BY <1>1, <1>4, <1>6, <1>7 DEF ReadInd, PageOK, EntryOK, TotalFresh

\* Every step keeps the invariant.
LEMMA ReadStep == ReadInd /\ [NextReads]_readVars => ReadInd'
<1> SUFFICES ASSUME ReadInd, [NextReads]_readVars PROVE ReadInd'
  OBVIOUS
<1>1. CASE NextReads
  <2>1. Remember
    BY <1>1 DEF NextReads
  <2>2. ASSUME NEW r \in Pages, NEW f \in Asked(list), Begin(r, f) PROVE ReadInd'
    BY <2>1, <2>2, BeginStep
  <2>3. ASSUME NEW r \in Pages, compute(r) \/ Set(r) \/ Fail(r) PROVE ReadInd'
    BY <2>1, <2>3, ComputeStep, SetStep, FailStep
  <2>4. ASSUME NEW x \in Rows(list), Write({}, {x}) \/ Write({x}, {}) \/ Write(table, {x})
        PROVE  ReadInd'
    <3>1. {x} \subseteq Rows(list) /\ {} \subseteq Rows(list)
      OBVIOUS
    <3> QED BY <2>1, <2>4, <3>1, WriteStep
  <2>5. CASE Advance
    BY <2>1, <2>5, AdvanceStep
  <2> QED BY <1>1, <2>2, <2>3, <2>4, <2>5
          DEF NextReads, ListOrganizations, ListUsers, ListConnectors, ListMCPKeys, QueryAuditLogs, SystemStats
<1>2. CASE UNCHANGED readVars
  <2>1. UNCHANGED <<list, table, cache, page, clock, watched, last, blurred, stale>>
    BY <1>2 DEF readVars
  <2>2. /\ Keys' = Keys /\ BusyPages' = BusyPages
        /\ \A f : filterKey(f)' = filterKey(f) /\ EmptyType(f)' = EmptyType(f)
    BY <2>1, KeysSame DEF BusyPages
  <2>3. ReadTypes'
    BY <2>1, <2>2 DEF ReadInd, ReadTypes
  <2>4. Matching(watched)' = Matching(watched)
    BY <2>1 DEF Matching, Where, OrganizationsWhere, UsersWhere, ConnectorsWhere, MCPKeysWhere, AuditLogsWhere
  <2>5. Remembered'
    BY <2>1, <2>4 DEF ReadInd, Remembered
  <2>6. \A r \in Pages : PageOK(r)'
    BY <2>1, <2>2 DEF ReadInd, PageOK
  <2>7. ~blurred' /\ ~EmptyType(watched)' => EntryOK(cache[filterKey(watched)])'
    <3>1. EntryOK(cache[filterKey(watched)]) => EntryOK(cache[filterKey(watched)])'
      BY <2>1, <2>2 DEF EntryOK
    <3> QED BY <2>1, <2>2, <3>1 DEF ReadInd
  <2>8. TotalFresh'
    BY <2>1 DEF ReadInd, TotalFresh
  <2> QED BY <2>1, <2>3, <2>5, <2>6, <2>7, <2>8 DEF ReadInd
<1> QED BY <1>1, <1>2

\* The inductive invariant.
LEMMA ReadInvariant == SpecReads => []ReadInd
BY ReadInit, ReadStep, PTL DEF SpecReads

\* The total under a page was true no longer ago than an entry lives
\* (cachedCount and the filter-key builders).
THEOREM TotalsHold == SpecReads => []TotalFresh
<1>1. ReadInd => TotalFresh
  BY DEF ReadInd
<1> QED BY <1>1, ReadInvariant, PTL

=============================================================================
