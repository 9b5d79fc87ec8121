------------------------- MODULE AuthSessionsProofs -------------------------
(***************************************************************************)
(* Proofs about AuthSessions for any sets of users, tokens, families,      *)
(* passwords and concurrent requests.                                      *)
(***************************************************************************)
EXTENDS AuthSessions, TLAPS

\* The initial state satisfies the inductive invariant.
LEMMA InitIndInv == Init => IndInv
  BY NoneAssumption
     DEF Init, IndInv, TypeOK, LocalsOK, LinearFamilies, LiveIn, Live, Issued,
         Idle, Local, Stages

\* Every step of every handler keeps the types.
LEMMA TypeStep ==
    ASSUME TypeOK, LocalsOK, [Next]_vars
    PROVE  TypeOK'
  <1> USE NoneAssumption DEF TypeOK, sessionVars, userVars, Idle, Local, Stages,
                             At, Goto, Done
  <1>0. ASSUME NEW r \in Requests, NEW u \in Users, NEW p \in Passwords,
               Register(r, u, p)
        PROVE  TypeOK'
    BY <1>0 DEF Register, UpdateUserPassword
  <1>1. ASSUME NEW r \in Requests, NEW u \in Users, NEW p \in Passwords,
               LoginRead(r, u, p)
        PROVE  TypeOK'
    <2>1. [Idle EXCEPT !.st = IF u \in legacy THEN "rehash" ELSE "admit",
                       !.user = u, !.pw = p,
                       !.saw = IF u \in banned THEN "banned" ELSE "clear"] \in Local
      OBVIOUS
    <2> QED
      BY <1>1, <2>1 DEF LoginRead
  <1>2. ASSUME NEW r \in Requests, LoginRehash(r) \/ LoginRefuse(r) \/ Abort(r)
        PROVE  TypeOK'
    BY <1>2 DEF LoginRehash, UpdateUserPassword, LoginRefuse, Abort, LocalsOK
  <1>3. ASSUME NEW r \in Requests, NEW n \in Tokens, NEW f \in Families,
               IssueTokenPair(r, n, f)
        PROVE  TypeOK'
    <2>1. req[r].user \in Users /\ req[r].pw \in Passwords
      BY <1>3 DEF IssueTokenPair, LocalsOK
    <2> QED
      BY <1>3, <2>1 DEF IssueTokenPair, Insert
  <1>4. ASSUME NEW r \in Requests, NEW t \in Tokens, RotateRead(r, t)
        PROVE  TypeOK'
    <2>1. \A s \in {"reuse", "rotate"} : [Idle EXCEPT !.st = s, !.tok = t] \in Local
      OBVIOUS
    <2>2. PICK s \in {"reuse", "rotate"} : Goto(r, [Idle EXCEPT !.st = s, !.tok = t])
      BY <1>4 DEF RotateRead
    <2>3. req' \in [Requests -> Local]
      BY <2>1, <2>2
    <2> QED
      BY <1>4, <2>3 DEF RotateRead
  <1>5. ASSUME NEW r \in Requests, RotateReuse(r)
        PROVE  TypeOK'
    BY <1>5 DEF RotateReuse, RevokeSessionFamily, RevokeWhere, LocalsOK, Issued
  <1>6. ASSUME NEW r \in Requests, NEW n \in Tokens, RotateCommit(r, n)
        PROVE  TypeOK'
    BY <1>6 DEF RotateCommit, Insert, LocalsOK, Issued
  <1>7. ASSUME NEW t \in Tokens, Logout(t) \/ SessionExpires(t) \/ SessionAges(t)
        PROVE  TypeOK'
    BY <1>7 DEF Logout, RevokeAllUserSessions, RevokeWhere, SessionExpires,
                SessionAges
  <1>8. ASSUME NEW u \in Users,
               \/ \E p \in Passwords : ResetPassword(u, p)
               \/ \E ban \in BOOLEAN : SetBan(u, ban)
               \/ ChangePlatformRole(u)
        PROVE  TypeOK'
    BY <1>8 DEF ResetPassword, UpdateUserPassword, SetBan, ChangePlatformRole,
                RevokeAllUserSessions, RevokeWhere
  <1>9. CASE DeleteExpiredSessions
    BY <1>9 DEF DeleteExpiredSessions
  <1>10. CASE UNCHANGED vars
    BY <1>10 DEF vars
  <1> QED
    BY <1>0, <1>1, <1>2, <1>3, <1>4, <1>5, <1>6, <1>7, <1>8, <1>9, <1>10 DEF Next

\* Every step keeps what requests remember, and rows, well formed.
LEMMA LocalsStep ==
    ASSUME TypeOK, LocalsOK, [Next]_vars
    PROVE  LocalsOK'
  <1> USE NoneAssumption DEF TypeOK, LocalsOK, Issued, sessionVars, userVars,
                             Idle, Local, At, Goto, Done
  <1>0. ASSUME NEW r \in Requests, NEW u \in Users, NEW p \in Passwords,
               Register(r, u, p)
        PROVE  LocalsOK'
    BY <1>0 DEF Register
  <1>1. ASSUME NEW r \in Requests, NEW u \in Users, NEW p \in Passwords,
               LoginRead(r, u, p)
        PROVE  LocalsOK'
    BY <1>1 DEF LoginRead
  <1>2. ASSUME NEW r \in Requests, LoginRehash(r) \/ LoginRefuse(r) \/ Abort(r)
        PROVE  LocalsOK'
    BY <1>2 DEF LoginRehash, UpdateUserPassword, LoginRefuse, Abort
  <1>3. ASSUME NEW r \in Requests, NEW n \in Tokens, NEW f \in Families,
               IssueTokenPair(r, n, f)
        PROVE  LocalsOK'
    BY <1>3 DEF IssueTokenPair, Insert, FreshToken
  <1>4. ASSUME NEW r \in Requests, NEW t \in Tokens, RotateRead(r, t)
        PROVE  LocalsOK'
    <2>1. PICK s \in {"reuse", "rotate"} : Goto(r, [Idle EXCEPT !.st = s, !.tok = t])
      BY <1>4 DEF RotateRead
    <2>2. UNCHANGED <<sessionVars, userVars>> /\ t \in rows
      BY <1>4 DEF RotateRead
    <2> QED
      BY <2>1, <2>2
  <1>5. ASSUME NEW r \in Requests, RotateReuse(r)
        PROVE  LocalsOK'
    BY <1>5 DEF RotateReuse, RevokeSessionFamily, RevokeWhere
  <1>6. ASSUME NEW r \in Requests, NEW n \in Tokens, RotateCommit(r, n)
        PROVE  LocalsOK'
    BY <1>6 DEF RotateCommit, Insert, FreshToken
  <1>7. ASSUME NEW t \in Tokens, Logout(t) \/ SessionExpires(t) \/ SessionAges(t)
        PROVE  LocalsOK'
    BY <1>7 DEF Logout, RevokeAllUserSessions, RevokeWhere, SessionExpires,
                SessionAges
  <1>8. ASSUME NEW u \in Users,
               \/ \E p \in Passwords : ResetPassword(u, p)
               \/ \E ban \in BOOLEAN : SetBan(u, ban)
               \/ ChangePlatformRole(u)
        PROVE  LocalsOK'
    BY <1>8 DEF ResetPassword, UpdateUserPassword, SetBan, ChangePlatformRole,
                RevokeAllUserSessions, RevokeWhere
  <1>9. CASE DeleteExpiredSessions
    BY <1>9 DEF DeleteExpiredSessions
  <1>10. CASE UNCHANGED vars
    BY <1>10 DEF vars
  <1> QED
    BY <1>0, <1>1, <1>2, <1>3, <1>4, <1>5, <1>6, <1>7, <1>8, <1>9, <1>10 DEF Next

\* A step that leaves family alone and makes no row live keeps LinearFamilies.
LEMMA ShrinkKeepsLinear ==
    ASSUME LinearFamilies, family' = family, forked' = forked,
           Live' \subseteq Live
    PROVE  LinearFamilies'
  BY DEF LinearFamilies, LiveIn

\* Every step keeps a family that no late rotation touched linear.
LEMMA LinearStep ==
    ASSUME TypeOK, LocalsOK, LinearFamilies, [Next]_vars
    PROVE  LinearFamilies'
  <1> USE NoneAssumption DEF TypeOK, LocalsOK, Issued, Live, sessionVars, userVars
  <1>1. ASSUME NEW r \in Requests, NEW n \in Tokens, NEW f \in Families,
               IssueTokenPair(r, n, f)
        PROVE  LinearFamilies'
    \* The new family holds the new token alone.
    BY <1>1 DEF IssueTokenPair, Insert, FreshToken, FreshFamily, LinearFamilies,
                LiveIn
  <1>2. ASSUME NEW r \in Requests, NEW n \in Tokens, RotateCommit(r, n)
        PROVE  LinearFamilies'
    <2> DEFINE t == req[r].tok
    <2>1. /\ t \in Issued /\ n \notin Issued
          /\ family' = [family EXCEPT ![n] = family[t]]
          /\ Live' \subseteq (Live \ {t}) \cup {n}
          /\ forked' = IF t \in Live THEN forked ELSE forked \cup {family[t]}
      BY <1>2 DEF RotateCommit, Insert, FreshToken, At
    <2> HIDE DEF t
    <2> SUFFICES ASSUME NEW f \in Families \ forked',
                        NEW x \in LiveIn(f)', NEW y \in LiveIn(f)'
                 PROVE  x = y
      BY DEF LinearFamilies
    <2>2. f \in Families \ forked
      BY <2>1
    <2>3. CASE f = family[t]
      \* t was live, so it was the family's only live row; n replaces it.
      BY <2>1, <2>2, <2>3 DEF LinearFamilies, LiveIn
    <2>4. CASE f # family[t]
      BY <2>1, <2>2, <2>4 DEF LinearFamilies, LiveIn
    <2> QED
      BY <2>3, <2>4
  <1>3. CASE /\ ~ \E r \in Requests, n \in Tokens, f \in Families : IssueTokenPair(r, n, f)
             /\ ~ \E r \in Requests, n \in Tokens : RotateCommit(r, n)
    <2>1. family' = family /\ forked' = forked /\ Live' \subseteq Live
      BY <1>3 DEF Next, vars, Register, LoginRead, LoginRehash, LoginRefuse,
                  RotateRead, RotateReuse, RevokeSessionFamily, RevokeWhere,
                  Abort, Logout, RevokeAllUserSessions, SessionExpires,
                  SessionAges, ResetPassword, SetBan, ChangePlatformRole,
                  DeleteExpiredSessions
    <2> QED
      BY <2>1, ShrinkKeepsLinear
  <1> QED
    BY <1>1, <1>2, <1>3

\* The inductive step.
LEMMA IndInvStep == IndInv /\ [Next]_vars => IndInv'
  BY TypeStep, LocalsStep, LinearStep DEF IndInv

\* In every reachable state every variable is well typed, requests remember
\* rows and accounts that existed, and a family that no late rotation
\* touched has at most one live session.
THEOREM Invariance == Spec => []IndInv
  BY InitIndInv, IndInvStep, PTL DEF Spec

\* RotateSession keeps families linear, for any number of users, tokens and
\* concurrent requests, as long as no rotation commits on a row that was
\* revoked or deleted after it was read.
THEOREM Linearity == Spec => []LinearFamilies
  <1>1. IndInv => LinearFamilies
    BY DEF IndInv
  <1> QED
    BY <1>1, Invariance, PTL

-----------------------------------------------------------------------------
(* Revocation is final. *)

\* A step that inserts no session and starts no rotation keeps a dead family
\* dead.
LEMMA QuietStepKeepsDead ==
    ASSUME TypeOK, NEW f \in Families, DeadFamily(f),
           UNCHANGED <<owner, family>>, Live' \subseteq Live,
           \A r \in Requests : At(r, "rotate")' => req[r]' = req[r]
    PROVE  DeadFamily(f)'
  BY DEF TypeOK, DeadFamily, Issued, LiveIn, At

\* One step never revives a dead family.
LEMMA DeadStep ==
    ASSUME IndInv, [Next]_vars, NEW f \in Families, DeadFamily(f)
    PROVE  DeadFamily(f)'
  <1> USE NoneAssumption DEF IndInv, TypeOK, LocalsOK, Issued, Live, Goto, Done, At,
                             Idle, Local, sessionVars, userVars
  <1>1. ASSUME NEW r \in Requests, NEW n \in Tokens, NEW g \in Families,
               IssueTokenPair(r, n, g)
        PROVE  DeadFamily(f)'
    <2>1. g # f /\ n \notin Issued
      BY <1>1 DEF IssueTokenPair, FreshToken, FreshFamily, DeadFamily
    <2> QED
      BY <1>1, <2>1 DEF IssueTokenPair, Insert, DeadFamily, LiveIn
  <1>2. ASSUME NEW r \in Requests, NEW n \in Tokens, RotateCommit(r, n)
        PROVE  DeadFamily(f)'
    <2>1. family[req[r].tok] # f /\ n \notin Issued
      BY <1>2 DEF RotateCommit, FreshToken, DeadFamily
    <2> QED
      BY <1>2, <2>1 DEF RotateCommit, Insert, DeadFamily, LiveIn
  <1>3. ASSUME NEW r \in Requests, NEW t \in Tokens, RotateRead(r, t)
        PROVE  DeadFamily(f)'
    \* A token of a dead family is not live, so a replay is not a rotation.
    <2>1. req'[r].st = "rotate" => req'[r].tok = t /\ family[t] # f
      <3>1. CASE t \in revoked
        BY <1>3, <3>1 DEF RotateRead
      <3>2. CASE t \notin revoked
        <4>1. t \in LiveIn(family[t]) /\ LiveIn(f) = {}
          BY <1>3, <3>2 DEF RotateRead, LiveIn, DeadFamily
        <4> QED
          BY <1>3, <3>2, <4>1 DEF RotateRead
      <3> QED
        BY <3>1, <3>2
    <2>2. UNCHANGED <<sessionVars, userVars>>
      BY <1>3 DEF RotateRead
    <2>4. \A q \in Requests \ {r} : req'[q] = req[q]
      BY <1>3 DEF RotateRead
    <2>3. \A q \in Requests : At(q, "rotate")' => family'[req'[q].tok] # f
      BY <2>1, <2>2, <2>4 DEF DeadFamily
    <2> QED
      BY <2>2, <2>3 DEF DeadFamily, LiveIn
  <1>4. ASSUME NEW r \in Requests,
               \/ \E u \in Users, p \in Passwords : Register(r, u, p) \/ LoginRead(r, u, p)
               \/ LoginRehash(r) \/ LoginRefuse(r) \/ RotateReuse(r) \/ Abort(r)
        PROVE  DeadFamily(f)'
    <2>1. UNCHANGED <<owner, family>> /\ Live' \subseteq Live
      BY <1>4 DEF Register, LoginRead, LoginRehash, LoginRefuse, RotateReuse,
                  RevokeSessionFamily, RevokeWhere, Abort
    <2>2. req'[r].st # "rotate" /\ \A q \in Requests \ {r} : req'[q] = req[q]
      <3>1. CASE \E u \in Users, p \in Passwords : Register(r, u, p)
        BY <3>1 DEF Register
      <3>2. CASE \E u \in Users, p \in Passwords : LoginRead(r, u, p)
        BY <3>2 DEF LoginRead
      <3>3. CASE LoginRehash(r)
        BY <3>3 DEF LoginRehash
      <3>4. CASE LoginRefuse(r) \/ RotateReuse(r) \/ Abort(r)
        BY <3>4 DEF LoginRefuse, RotateReuse, Abort
      <3> QED
        BY <1>4, <3>1, <3>2, <3>3, <3>4
    <2>3. \A q \in Requests : At(q, "rotate")' => req[q]' = req[q]
      BY <2>2
    <2> QED
      BY <2>1, <2>3, QuietStepKeepsDead
  <1>5. ASSUME NEW t \in Tokens, Logout(t) \/ SessionExpires(t) \/ SessionAges(t)
        PROVE  DeadFamily(f)'
    <2>1. UNCHANGED <<owner, family, req>> /\ Live' \subseteq Live
      BY <1>5 DEF Logout, SessionExpires, SessionAges, RevokeAllUserSessions,
                  RevokeWhere
    <2> QED
      BY <2>1, QuietStepKeepsDead
  <1>6. ASSUME NEW u \in Users,
               \/ \E p \in Passwords : ResetPassword(u, p)
               \/ \E ban \in BOOLEAN : SetBan(u, ban)
               \/ ChangePlatformRole(u)
        PROVE  DeadFamily(f)'
    <2>1. UNCHANGED <<owner, family, req>> /\ Live' \subseteq Live
      BY <1>6 DEF ResetPassword, SetBan, ChangePlatformRole,
                  RevokeAllUserSessions, RevokeWhere
    <2> QED
      BY <2>1, QuietStepKeepsDead
  <1>7. CASE DeleteExpiredSessions \/ UNCHANGED vars
    <2>1. UNCHANGED <<owner, family, req>> /\ Live' \subseteq Live
      BY <1>7 DEF DeleteExpiredSessions, vars
    <2> QED
      BY <2>1, QuietStepKeepsDead
  <1> HIDE DEF IndInv, TypeOK, LocalsOK, Issued, Live, Goto, Done, At, Idle, Local,
               sessionVars, userVars
  <1> QED
    BY <1>1, <1>2, <1>3, <1>4, <1>5, <1>6, <1>7 DEF Next

\* Reuse detection and every other revocation are final: a family with no
\* live session and no rotation in flight never has one again.
THEOREM DeadForGood == Spec => DeadFamilyStaysDead
  <1>1. IndInv /\ [Next]_vars =>
            [\A f \in Families : DeadFamily(f) => DeadFamily(f)']_vars
    BY DeadStep
  <1> QED
    BY <1>1, Invariance, PTL DEF Spec, DeadFamilyStaysDead

-----------------------------------------------------------------------------
(* A logged-out user comes back only through a password check. *)

\* A step that inserts no session and moves no request keeps u logged out.
LEMMA QuietStepKeepsOut ==
    ASSUME TypeOK, NEW u \in Users, LoggedOut(u),
           UNCHANGED <<owner, req>>, Live' \subseteq Live
    PROVE  LoggedOut(u)'
  BY DEF TypeOK, LoggedOut, LiveOf, Live, Admitted, At

\* One step either keeps u logged out or is a fresh login.
LEMMA LoggedOutStep ==
    ASSUME IndInv, [Next]_vars, NEW u \in Users, LoggedOut(u)
    PROVE  LoggedOut(u)' \/ FreshLogin(u)
  <1> USE NoneAssumption DEF IndInv, TypeOK, LocalsOK, Issued, Live, Goto, Done, At,
                             Idle, Local, sessionVars, userVars
  <1>1. ASSUME NEW r \in Requests, NEW v \in Users, NEW p \in Passwords,
               Register(r, v, p)
        PROVE  LoggedOut(u)' \/ FreshLogin(u)
    <2>1. CASE v = u
      <3>1. u \notin banned /\ req'[r].pw = p /\ password'[u] = p /\ Admitted(r, u)'
        BY <1>1, <2>1 DEF Register, UpdateUserPassword, Admitted
      <3> QED
        BY <3>1 DEF FreshLogin, LoggedOut
    <2>2. CASE v # u
      BY <1>1, <2>2 DEF Register, LoggedOut, LiveOf, Admitted
    <2> QED
      BY <2>1, <2>2
  <1>2. ASSUME NEW r \in Requests, NEW v \in Users, NEW p \in Passwords,
               LoginRead(r, v, p)
        PROVE  LoggedOut(u)' \/ FreshLogin(u)
    <2>0. UNCHANGED <<sessionVars, userVars>> /\ req'[r].user = v /\ req'[r].pw = p
          /\ req'[r].st \in {"rehash", "admit"} /\ password[v] = p
          /\ (req'[r].saw = "clear" <=> v \notin banned)
      BY <1>2 DEF LoginRead
    <2>3. \A q \in Requests \ {r} : req'[q] = req[q]
      BY <1>2 DEF LoginRead
    <2>1. CASE v = u /\ v \notin banned
      <3>1. Admitted(r, u)' /\ password'[u] = p
        BY <2>0, <2>1 DEF Admitted
      <3> QED
        BY <2>0, <2>1, <3>1 DEF FreshLogin, LoggedOut
    <2>2. CASE v # u \/ v \in banned
      <3>1. \A q \in Requests : ~Admitted(q, u)'
        BY <2>0, <2>2, <2>3 DEF LoggedOut, Admitted
      <3> QED
        BY <2>0, <3>1 DEF LoggedOut, LiveOf
    <2> QED
      BY <2>1, <2>2
  <1>3. ASSUME NEW r \in Requests, LoginRehash(r)
        PROVE  LoggedOut(u)'
    BY <1>3 DEF LoginRehash, LoggedOut, LiveOf, Admitted
  <1>4. ASSUME NEW r \in Requests, LoginRefuse(r) \/ Abort(r)
        PROVE  LoggedOut(u)'
    BY <1>4 DEF LoginRefuse, Abort, LoggedOut, LiveOf, Admitted
  <1>5. ASSUME NEW r \in Requests, NEW n \in Tokens, NEW f \in Families,
               IssueTokenPair(r, n, f)
        PROVE  LoggedOut(u)'
    <2>1. req[r].user # u /\ n \notin Issued
      BY <1>5 DEF IssueTokenPair, FreshToken, LoggedOut, Admitted
    <2> QED
      BY <1>5, <2>1 DEF IssueTokenPair, Insert, LoggedOut, LiveOf, Admitted
  <1>6. ASSUME NEW r \in Requests, NEW t \in Tokens, RotateRead(r, t)
        PROVE  LoggedOut(u)'
    <2>1. UNCHANGED <<sessionVars, userVars>>
          /\ \A q \in Requests \ {r} : req'[q] = req[q]
      BY <1>6 DEF RotateRead
    <2>2. ~Admitted(r, u)'
      <3>1. CASE t \in revoked
        BY <1>6, <3>1 DEF RotateRead, Admitted
      <3>2. CASE t \notin revoked
        <4>1. owner[t] # u
          BY <1>6, <3>2 DEF RotateRead, LoggedOut, LiveOf
        <4> QED
          BY <1>6, <3>2, <4>1 DEF RotateRead, Admitted
      <3> QED
        BY <3>1, <3>2
    <2>3. \A q \in Requests : ~Admitted(q, u)'
      BY <2>1, <2>2 DEF LoggedOut, Admitted
    <2> QED
      BY <2>1, <2>3 DEF LoggedOut, LiveOf
  <1>7. ASSUME NEW r \in Requests, RotateReuse(r)
        PROVE  LoggedOut(u)'
    BY <1>7 DEF RotateReuse, RevokeSessionFamily, RevokeWhere, LoggedOut, LiveOf,
                Admitted
  <1>8. ASSUME NEW r \in Requests, NEW n \in Tokens, RotateCommit(r, n)
        PROVE  LoggedOut(u)'
    <2>1. owner[req[r].tok] # u /\ n \notin Issued
      BY <1>8 DEF RotateCommit, FreshToken, LoggedOut, Admitted
    <2> QED
      BY <1>8, <2>1 DEF RotateCommit, Insert, LoggedOut, LiveOf, Admitted
  <1>9. ASSUME NEW t \in Tokens, Logout(t) \/ SessionExpires(t) \/ SessionAges(t)
        PROVE  LoggedOut(u)'
    <2>1. UNCHANGED <<owner, req>> /\ Live' \subseteq Live
      BY <1>9 DEF Logout, SessionExpires, SessionAges, RevokeAllUserSessions,
                  RevokeWhere
    <2> QED
      BY <2>1, QuietStepKeepsOut
  <1>10. ASSUME NEW v \in Users,
               \/ \E p \in Passwords : ResetPassword(v, p)
               \/ \E ban \in BOOLEAN : SetBan(v, ban)
               \/ ChangePlatformRole(v)
        PROVE  LoggedOut(u)'
    <2>1. UNCHANGED <<owner, req>> /\ Live' \subseteq Live
      BY <1>10 DEF ResetPassword, SetBan, ChangePlatformRole,
                   RevokeAllUserSessions, RevokeWhere
    <2> QED
      BY <2>1, QuietStepKeepsOut
  <1>11. CASE DeleteExpiredSessions \/ UNCHANGED vars
    <2>1. UNCHANGED <<owner, req>> /\ Live' \subseteq Live
      BY <1>11 DEF DeleteExpiredSessions, vars
    <2> QED
      BY <2>1, QuietStepKeepsOut
  <1> HIDE DEF IndInv, TypeOK, LocalsOK, Issued, Live, Goto, Done, At, Idle, Local,
               sessionVars, userVars
  <1> QED
    BY <1>1, <1>2, <1>3, <1>4, <1>5, <1>6, <1>7, <1>8, <1>9, <1>10, <1>11 DEF Next

\* Once a logout, a reset, a ban or a role change has left a user without a
\* session and without an admitted request, only a login or a registration
\* that checks the current password of an unbanned account opens another.
THEOREM LoggedOutForGood == Spec => LoggedOutStaysOut
  <1>1. IndInv /\ [Next]_vars =>
            [\A u \in Users : LoggedOut(u) => LoggedOut(u)' \/ FreshLogin(u)]_vars
    BY LoggedOutStep
  <1> QED
    BY <1>1, Invariance, PTL DEF Spec, LoggedOutStaysOut

=============================================================================
