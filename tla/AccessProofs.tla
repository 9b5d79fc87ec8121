---------------------------- MODULE AccessProofs ----------------------------
(***************************************************************************)
(* Proofs about what a request has to pass.  AccessGate, for every set     *)
(* of users, tokens and requests and all TTLs: BanBound is not inductive   *)
(* by itself; a token may only be signed by a request that was admitted,   *)
(* so what keeps it true is that the clock of a user runs only while no    *)
(* such request exists (ClockOK).  StepUp, for any number of requests,     *)
(* any limit, any number of recovery codes and any number of enrolments    *)
(* and confirmations.                                                      *)
(***************************************************************************)
EXTENDS AccessGate, StepUp, FiniteSetTheorems, TLAPS

-----------------------------------------------------------------------------
(* The guard *)

\* MaxTTL bounds both lifetimes a token can be signed with.
LEMMA MaxTTLFact ==
    /\ MaxTTL \in Nat
    /\ AccessTTL \in 0..MaxTTL
    /\ ImpTTL \in 0..MaxTTL
BY TTLAssumption DEF MaxTTL

LEMMA InitIndInv == Init => IndInv
BY MaxTTLFact, TTLAssumption
   DEF Init, IndInv, TypeOK, ClockOK, BanBound, BlacklistOutlives, Sealed,
       Local, Stages, Idle

-----------------------------------------------------------------------------
(* Signing *)

\* A token signed for a user whose clock stands still keeps the bounds.
LEMMA SignKeeps ==
    ASSUME IndInv, NEW a \in Access, NEW u \in Users,
           NEW duration \in 0..MaxTTL, since[u] = 0,
           Sign(a, u, duration), UNCHANGED <<bl, since>>
    PROVE  /\ sub' \in [Access -> Users \cup {None}]
           /\ life' \in [Access -> 0..MaxTTL]
           /\ presented' \subseteq Access
           /\ BanBound' /\ BlacklistOutlives'
<1>1. MaxTTL \in Nat /\ BlacklistTTL \in Nat
  BY MaxTTLFact, TTLAssumption
<1>2. sub' \in [Access -> Users \cup {None}] /\ life' \in [Access -> 0..MaxTTL]
      /\ presented' \subseteq Access
  BY DEF IndInv, TypeOK, Sign
<1>3. BanBound'
  <2> SUFFICES ASSUME NEW v \in Users, NEW b \in Access, sub'[b] = v
               PROVE  life'[b] + since[v] <= MaxTTL
    BY DEF BanBound
  <2>1. CASE b = a
    BY <2>1, <1>1 DEF Sign, IndInv, TypeOK
  <2>2. CASE b # a
    BY <2>2 DEF Sign, IndInv, TypeOK, BanBound
  <2> QED BY <2>1, <2>2
<1>4. BlacklistOutlives'
  BY DEF Sign, IndInv, TypeOK, BlacklistOutlives
<1> QED BY <1>2, <1>3, <1>4

\* The clock of a user some request is about to sign a token for is at zero.
LEMMA AdmittedClock ==
    ASSUME IndInv, NEW r \in Requests, req[r].st \in Admitting
    PROVE  req[r].user \in Users /\ since[req[r].user] = 0
<1>1. req[r].user \in Users
  BY DEF IndInv, ClockOK, Admitting
<1>2. ~Sealed(req[r].user)
  BY DEF Sealed
<1> QED BY <1>1, <1>2, MaxTTLFact DEF IndInv, TypeOK, ClockOK

-----------------------------------------------------------------------------
(* Preservation *)

LEMMA TypeStep == IndInv /\ [Next]_vars => TypeOK'
<1> SUFFICES ASSUME IndInv, [Next]_vars PROVE TypeOK'
  OBVIOUS
<1> USE DEF IndInv, TypeOK
<1>0. /\ MaxTTL \in Nat /\ BlacklistTTL \in Nat
      /\ AccessTTL \in 0..MaxTTL /\ ImpTTL \in 0..MaxTTL
  BY MaxTTLFact, TTLAssumption
<1>1. ASSUME NEW r \in Requests, NEW u \in Users,
             \/ LoginRead(r, u) \/ RefreshRead(r, u) \/ ImpersonateRead(r, u)
             \/ BanCommit(r, u) \/ UnbanCommit(r, u)
      PROVE  TypeOK'
  BY <1>1, <1>0
     DEF LoginRead, RefreshRead, ImpersonateRead, BanCommit, UnbanCommit,
         Goto, Local, Stages, tokenVars
<1>2. ASSUME NEW r \in Requests, NEW a \in Access,
             \/ IssueTokenPair(r, a) \/ RefreshCommit(r, a)
             \/ ImpersonateMint(r, a)
      PROVE  TypeOK'
  <2>1. req[r].user \in Users /\ since[req[r].user] = 0
    BY <1>2, AdmittedClock
       DEF IssueTokenPair, RefreshCommit, ImpersonateMint, At, Admitting
  <2>2. PICK duration \in 0..MaxTTL : Sign(a, req[r].user, duration)
    BY <1>2, <1>0 DEF IssueTokenPair, RefreshCommit, ImpersonateMint
  <2>3. UNCHANGED <<bl, since, banned, cache>> /\ Done(r)
        /\ live' \subseteq Users
    BY <1>2, <2>1 DEF IssueTokenPair, RefreshCommit, ImpersonateMint
  <2>4. /\ sub' \in [Access -> Users \cup {None}]
        /\ life' \in [Access -> 0..MaxTTL]
        /\ presented' \subseteq Access
    BY <2>1, <2>2 DEF Sign
  <2>5. req' \in [Requests -> Local]
    BY <2>3 DEF Done, Idle, Local, Stages
  <2> QED
    BY <2>3, <2>4, <2>5
<1>3. ASSUME NEW r \in Requests,
             LoginReprime(r) \/ BanPrime(r) \/ UnbanClear(r) \/ Abort(r)
      PROVE  TypeOK'
  <2>1. req[r].user \in Users
    BY <1>3 DEF LoginReprime, BanPrime, UnbanClear, Abort, At, ClockOK
  <2> QED
    BY <1>3, <2>1
       DEF LoginReprime, BanPrime, UnbanClear, Abort, Done, Idle, Local,
           Stages, tokenVars
<1>4. ASSUME NEW u \in Users, SessionsEnd(u) PROVE TypeOK'
  BY <1>4 DEF SessionsEnd, tokenVars
<1>5. ASSUME NEW a \in Access, Logout(a) PROVE TypeOK'
  BY <1>5, <1>0 DEF Logout, tokenVars
<1>6. CASE RedisFlush
  BY <1>6, <1>0 DEF RedisFlush, tokenVars
<1>7. CASE Tick
  BY <1>7, <1>0 DEF Tick, Minus1
<1>8. CASE UNCHANGED vars
  BY <1>8 DEF vars, tokenVars
<1> QED BY <1>1, <1>2, <1>3, <1>4, <1>5, <1>6, <1>7, <1>8 DEF Next

LEMMA ClockStep == IndInv /\ [Next]_vars => ClockOK'
<1> SUFFICES ASSUME IndInv, [Next]_vars PROVE ClockOK'
  OBVIOUS
<1>0. /\ MaxTTL \in Nat /\ since \in [Users -> 0..MaxTTL]
      /\ req \in [Requests -> Local]
      /\ \A u \in Users : since[u] > 0 => Sealed(u)
      /\ \A r \in Requests : req[r].st # "idle" => req[r].user \in Users
  BY MaxTTLFact DEF IndInv, TypeOK, ClockOK
<1>1. ASSUME NEW r \in Requests, NEW u \in Users,
             \/ LoginRead(r, u) \/ RefreshRead(r, u) \/ ImpersonateRead(r, u)
             \/ BanCommit(r, u)
      PROVE  ClockOK'
  <2>1. /\ since' = since
        /\ \A q \in Requests \ {r} : req'[q] = req[q]
        /\ req'[r].user = u
        /\ banned \subseteq banned' /\ live' \subseteq live
    BY <1>1, <1>0
       DEF LoginRead, RefreshRead, ImpersonateRead, BanCommit, Goto
  <2>2. req'[r].st \in Admitting => ~Sealed(u)
    BY <1>1, <1>0
       DEF LoginRead, RefreshRead, ImpersonateRead, BanCommit, Goto,
           Admitting, Sealed
  <2> QED BY <2>1, <2>2, <1>0 DEF ClockOK, Sealed
<1>2. ASSUME NEW r \in Requests, NEW u \in Users, UnbanCommit(r, u)
      PROVE  ClockOK'
  <2>1. /\ \A q \in Requests \ {r} : req'[q] = req[q]
        /\ req'[r].user = u /\ req'[r].st = "clear"
        /\ since'[u] = 0 /\ \A v \in Users \ {u} : since'[v] = since[v]
        /\ banned' = banned \ {u} /\ live' \subseteq live
    BY <1>2, <1>0 DEF UnbanCommit, Goto
  <2> QED BY <2>1, <1>0 DEF ClockOK, Sealed, Admitting
<1>3. ASSUME NEW r \in Requests, NEW a \in Access,
             \/ IssueTokenPair(r, a) \/ RefreshCommit(r, a)
             \/ ImpersonateMint(r, a)
      PROVE  ClockOK'
  <2>1. req[r].user \in Users /\ since[req[r].user] = 0
    BY <1>3, AdmittedClock
       DEF IssueTokenPair, RefreshCommit, ImpersonateMint, At, Admitting
  <2>2. /\ since' = since /\ banned' = banned
        /\ live' \subseteq live \cup {req[r].user}
        /\ \A q \in Requests \ {r} : req'[q] = req[q]
        /\ req'[r].st = "idle"
    BY <1>3, <1>0
       DEF IssueTokenPair, RefreshCommit, ImpersonateMint, Done, Idle
  <2> QED BY <2>1, <2>2, <1>0 DEF ClockOK, Sealed, Admitting
<1>4. ASSUME NEW r \in Requests,
             LoginReprime(r) \/ BanPrime(r) \/ UnbanClear(r) \/ Abort(r)
      PROVE  ClockOK'
  <2>1. /\ since' = since /\ banned' = banned /\ live' = live
        /\ \A q \in Requests \ {r} : req'[q] = req[q]
        /\ req'[r].st = "idle"
    BY <1>4, <1>0
       DEF LoginReprime, BanPrime, UnbanClear, Abort, Done, Idle
  <2> QED BY <2>1, <1>0 DEF ClockOK, Sealed, Admitting
<1>5. ASSUME NEW u \in Users, SessionsEnd(u) PROVE ClockOK'
  BY <1>5, <1>0 DEF SessionsEnd, ClockOK, Sealed
<1>6. ASSUME NEW a \in Access, Logout(a) PROVE ClockOK'
  <2>1. UNCHANGED <<since, banned, req>> /\ live' \subseteq live
    BY <1>6 DEF Logout
  <2> QED BY <2>1, <1>0 DEF ClockOK, Sealed
<1>7. CASE RedisFlush
  BY <1>7, <1>0 DEF RedisFlush, ClockOK, Sealed
<1>8. CASE Tick
  <2>1. UNCHANGED <<banned, live, req>>
    BY <1>8 DEF Tick
  <2>2. \A u \in Users : since'[u] > 0 => Sealed(u)
    BY <1>8, <1>0 DEF Tick
  <2> QED BY <2>1, <2>2, <1>0 DEF ClockOK, Sealed
<1>9. CASE UNCHANGED vars
  BY <1>9, <1>0 DEF vars, ClockOK, Sealed
<1> QED BY <1>1, <1>2, <1>3, <1>4, <1>5, <1>6, <1>7, <1>8, <1>9 DEF Next

LEMMA BoundStep == IndInv /\ [Next]_vars => BanBound' /\ BlacklistOutlives'
<1> SUFFICES ASSUME IndInv, [Next]_vars PROVE BanBound' /\ BlacklistOutlives'
  OBVIOUS
<1>0. /\ MaxTTL \in Nat /\ BlacklistTTL \in Nat
      /\ AccessTTL \in 0..MaxTTL /\ ImpTTL \in 0..MaxTTL
      /\ since \in [Users -> 0..MaxTTL] /\ life \in [Access -> 0..MaxTTL]
      /\ bl \in [Access -> 0..BlacklistTTL]
      /\ sub \in [Access -> Users \cup {None}]
      /\ presented \subseteq Access
      /\ BanBound /\ BlacklistOutlives
  BY MaxTTLFact, TTLAssumption DEF IndInv, TypeOK
<1>1. ASSUME NEW r \in Requests, NEW a \in Access,
             \/ IssueTokenPair(r, a) \/ RefreshCommit(r, a)
             \/ ImpersonateMint(r, a)
      PROVE  BanBound' /\ BlacklistOutlives'
  <2>1. req[r].user \in Users /\ since[req[r].user] = 0
    BY <1>1, AdmittedClock
       DEF IssueTokenPair, RefreshCommit, ImpersonateMint, At, Admitting
  <2>2. PICK duration \in 0..MaxTTL : Sign(a, req[r].user, duration)
    BY <1>1, <1>0 DEF IssueTokenPair, RefreshCommit, ImpersonateMint
  <2>3. UNCHANGED <<bl, since>>
    BY <1>1 DEF IssueTokenPair, RefreshCommit, ImpersonateMint
  <2> QED BY <2>1, <2>2, <2>3, SignKeeps
<1>2. CASE Tick
  <2>1. /\ \A a \in Access : life'[a] = Minus1(life[a]) /\ bl'[a] = Minus1(bl[a])
        /\ sub' = sub /\ presented' = presented
    BY <1>2 DEF Tick
  <2>2. \A u \in Users : since'[u] \in 0..MaxTTL /\ since'[u] <= since[u] + 1
    BY <1>2, <1>0 DEF Tick
  <2>3. BanBound'
    <3> SUFFICES ASSUME NEW u \in Users, NEW a \in Access, sub[a] = u
                 PROVE  life'[a] + since'[u] <= MaxTTL
      BY <2>1 DEF BanBound
    <3> QED BY <2>1, <2>2, <1>0 DEF Minus1, BanBound
  <2>4. BlacklistOutlives'
    BY <2>1, <1>0 DEF Minus1, BlacklistOutlives
  <2> QED BY <2>3, <2>4
<1>3. ASSUME NEW a \in Access, Logout(a) PROVE BanBound' /\ BlacklistOutlives'
  <2>1. /\ UNCHANGED <<sub, life, since>>
        /\ bl' = [bl EXCEPT ![a] = BlacklistTTL]
        /\ presented' = presented \cup {a}
    BY <1>3 DEF Logout, tokenVars
  <2> QED BY <2>1, <1>0 DEF BanBound, BlacklistOutlives
<1>4. ASSUME NEW r \in Requests, NEW u \in Users, UnbanCommit(r, u)
      PROVE  BanBound' /\ BlacklistOutlives'
  <2>1. /\ UNCHANGED <<sub, life, bl, presented>>
        /\ since' = [since EXCEPT ![u] = 0]
    BY <1>4 DEF UnbanCommit, tokenVars
  <2> QED BY <2>1, <1>0 DEF BanBound, BlacklistOutlives
<1>5. CASE RedisFlush
  BY <1>5, <1>0 DEF RedisFlush, tokenVars, BanBound, BlacklistOutlives
<1>6. CASE UNCHANGED <<sub, life, bl, since, presented>>
  BY <1>6, <1>0 DEF BanBound, BlacklistOutlives
<1>7. ASSUME NEW r \in Requests, NEW u \in Users,
             \/ LoginRead(r, u) \/ RefreshRead(r, u) \/ ImpersonateRead(r, u)
             \/ BanCommit(r, u)
      PROVE  UNCHANGED <<sub, life, bl, since, presented>>
  BY <1>7 DEF LoginRead, RefreshRead, ImpersonateRead, BanCommit, tokenVars
<1>8. ASSUME NEW r \in Requests,
             LoginReprime(r) \/ BanPrime(r) \/ UnbanClear(r) \/ Abort(r)
      PROVE  UNCHANGED <<sub, life, bl, since, presented>>
  BY <1>8 DEF LoginReprime, BanPrime, UnbanClear, Abort, tokenVars
<1>9. ASSUME NEW u \in Users, SessionsEnd(u)
      PROVE  UNCHANGED <<sub, life, bl, since, presented>>
  BY <1>9 DEF SessionsEnd, tokenVars
<1>10. CASE UNCHANGED vars
  BY <1>10, <1>6 DEF vars, tokenVars
<1> QED
  BY <1>1, <1>2, <1>3, <1>4, <1>5, <1>6, <1>7, <1>8, <1>9, <1>10 DEF Next

-----------------------------------------------------------------------------
(* Theorems *)

\* The inductive invariant of AccessGate holds in every reachable state, for
\* every number of users, tokens and requests, and for all TTLs.
THEOREM Invariance == Spec => []IndInv
<1>1. IndInv /\ [Next]_vars => IndInv'
  BY TypeStep, ClockStep, BoundStep DEF IndInv
<1> QED BY InitIndInv, <1>1, PTL DEF Spec

\* The <=15 minute bound quoted by Guards.verify and SetBan: MaxTTL ticks
\* after a banned user is sealed, no access token of the user is unexpired.
THEOREM BanIsBounded == Spec => []BanBound
<1>1. IndInv => BanBound
  BY DEF IndInv
<1> QED BY Invariance, <1>1, PTL

\* With TTLs under which a blacklist key outlives its token, a token that was
\* presented at logout never passes Guards.verify again.
THEOREM LogoutIsFinal ==
    ASSUME MaxTTL <= BlacklistTTL
    PROVE  Spec => []LoggedOutTokenRefused
<1>1. IndInv => LoggedOutTokenRefused
  <2> SUFFICES ASSUME IndInv, NEW a \in presented, Passes(a) PROVE FALSE
    BY DEF LoggedOutTokenRefused
  <2> QED
    BY MaxTTLFact, TTLAssumption
       DEF IndInv, TypeOK, BlacklistOutlives, Passes
<1> QED BY Invariance, <1>1, PTL

\* Only an unban opens a sealed account again: no login, refresh or
\* impersonation, whatever Redis holds, can.
THEOREM SealHolds == Spec => SealedUntilUnban
<1> DEFINE Kept == \A u \in Users : Sealed(u) => Sealed(u)' \/ u \notin banned'
<1>1. IndInv /\ [Next]_vars => [Kept]_vars
  <2> SUFFICES ASSUME IndInv, Next, NEW u \in Users, Sealed(u), u \in banned'
               PROVE  Sealed(u)'
    OBVIOUS
  <2>0. req \in [Requests -> Local]
    BY DEF IndInv, TypeOK
  <2>1. ASSUME NEW r \in Requests, NEW v \in Users,
               \/ LoginRead(r, v) \/ RefreshRead(r, v)
               \/ ImpersonateRead(r, v) \/ BanCommit(r, v)
               \/ UnbanCommit(r, v)
        PROVE  Sealed(u)'
    <3>1. /\ \A q \in Requests \ {r} : req'[q] = req[q]
          /\ req'[r].user = v /\ live' \subseteq live
      BY <2>1, <2>0
         DEF LoginRead, RefreshRead, ImpersonateRead, BanCommit, UnbanCommit,
             Goto
    <3>2. req'[r].st \in Admitting => ~Sealed(v)
      BY <2>1, <2>0
         DEF LoginRead, RefreshRead, ImpersonateRead, BanCommit, UnbanCommit,
             Goto, Admitting, Sealed
    <3> QED BY <3>1, <3>2 DEF Sealed
  <2>2. ASSUME NEW r \in Requests, NEW a \in Access,
               \/ IssueTokenPair(r, a) \/ RefreshCommit(r, a)
               \/ ImpersonateMint(r, a)
        PROVE  Sealed(u)'
    <3>1. req[r].user # u
      BY <2>2 DEF IssueTokenPair, RefreshCommit, ImpersonateMint, At, Sealed,
                  Admitting
    <3>2. /\ live' \subseteq live \cup {req[r].user}
          /\ \A q \in Requests \ {r} : req'[q] = req[q]
          /\ req'[r].st = "idle"
      BY <2>2, <2>0
         DEF IssueTokenPair, RefreshCommit, ImpersonateMint, Done, Idle
    <3> QED BY <3>1, <3>2 DEF Sealed, Admitting
  <2>3. ASSUME NEW r \in Requests,
               LoginReprime(r) \/ BanPrime(r) \/ UnbanClear(r) \/ Abort(r)
        PROVE  Sealed(u)'
    <3>1. /\ live' = live
          /\ \A q \in Requests \ {r} : req'[q] = req[q]
          /\ req'[r].st = "idle"
      BY <2>3, <2>0
         DEF LoginReprime, BanPrime, UnbanClear, Abort, Done, Idle
    <3> QED BY <3>1 DEF Sealed, Admitting
  <2>4. ASSUME NEW v \in Users, SessionsEnd(v) PROVE Sealed(u)'
    BY <2>4 DEF SessionsEnd, Sealed
  <2>5. ASSUME NEW a \in Access, Logout(a) PROVE Sealed(u)'
    <3>1. UNCHANGED req /\ live' \subseteq live
      BY <2>5 DEF Logout
    <3> QED BY <3>1 DEF Sealed
  <2>6. CASE RedisFlush \/ Tick
    BY <2>6 DEF RedisFlush, Tick, Sealed
  <2> QED BY <2>1, <2>2, <2>3, <2>4, <2>5, <2>6 DEF Next
<1> QED BY Invariance, <1>1, PTL DEF Spec, SealedUntilUnban

-----------------------------------------------------------------------------
(* Guesses and the second factor *)

\* StepUpTypes in two halves.
Values ==
    /\ limiter \in Limiters /\ cnt \in Nat
    /\ pc \in [Submissions -> {"idle", "check", "compare", "row", "incr", "expire",
                            "reset", "mark", "spend", "store"}]
    /\ kind \in [Submissions -> Kinds]
    /\ secret \in Nat /\ issued \in Nat
    /\ codes \in SUBSET (Nat \X Nat)
    /\ seen \in [Submissions -> SUBSET (Nat \X Nat)] /\ code \in [Submissions -> Nat \X Nat]

Flags ==
    /\ ttl \in BOOLEAN /\ confirmed \in BOOLEAN /\ validated \in BOOLEAN
    /\ twice \in BOOLEAN /\ overlap \in BOOLEAN /\ orphaned \in BOOLEAN

LEMMA TypeHalves == StepUpTypes <=> Values /\ Flags
  BY DEF StepUpTypes, Values, Flags

LEMMA ValuesStep == Values /\ [NextStepUp]_stepUpVars => Values'
  <1> SUFFICES ASSUME Values, [NextStepUp]_stepUpVars PROVE Values'
    OBVIOUS
  <1>1. ASSUME NEW r \in Submissions,
               Login(r) \/ reauth(r) \/ verifyTOTP(r) \/ confirmTOTP(r)
        PROVE Values'
    <2>1. PICK k \in Kinds : Begin(r, k)
      BY <1>1 DEF Login, reauth, verifyTOTP, confirmTOTP, Kinds, Limiters
    <2> QED BY <2>1 DEF Begin, Step, Values, keyVars, rowVars
  <1>2. ASSUME NEW r \in Submissions,
               \/ GetLoginAttempts(r) \/ GetReauthAttempts(r) \/ GetTwoFactorAttempts(r)
               \/ Compare(r) \/ Expire(r) \/ SetTwoFactorVerified(r)
        PROVE Values'
    BY <1>2 DEF GetLoginAttempts, GetReauthAttempts, GetTwoFactorAttempts, GetAttempts, Compare,
                Expire, SetTwoFactorVerified, Step, Values, keyVars, rowVars, histVars
  <1>3. ASSUME NEW r \in Submissions,
               \/ IncrementLoginAttempts(r) \/ IncrementReauthAttempts(r)
               \/ IncrementTwoFactorAttempts(r)
               \/ ResetLoginAttempts(r) \/ ResetReauthAttempts(r) \/ ResetTwoFactorAttempts(r)
        PROVE Values'
    BY <1>3 DEF IncrementLoginAttempts, IncrementReauthAttempts, IncrementTwoFactorAttempts,
                Increment, ResetLoginAttempts, ResetReauthAttempts, ResetTwoFactorAttempts, Reset,
                Step, Values, rowVars, histVars
  <1>4. ASSUME NEW r \in Submissions, VerifyTOTP(r) \/ ConfirmTOTP(r) PROVE Values'
    BY <1>4 DEF VerifyTOTP, ConfirmTOTP, Step, Values, keyVars, rowVars, histVars
  <1>5. ASSUME NEW r \in Submissions, UpdateUserTOTPRecoveryCodes(r) PROVE Values'
    BY <1>5 DEF UpdateUserTOTPRecoveryCodes, Remaining, NoCode, Step, Values, keyVars
  <1>6. ASSUME NEW r \in Submissions, ConfirmUserTOTP(r) PROVE Values'
    BY <1>6, LimitAssumption DEF ConfirmUserTOTP, generateRecoveryCodes, Step, Values, keyVars, histVars
  <1>7. CASE EnrollTOTP BY <1>7 DEF EnrollTOTP, Values, keyVars, reqVars
  <1>8. CASE KeyExpires \/ TwoFactorExpires \/ UNCHANGED stepUpVars
    BY <1>8 DEF KeyExpires, TwoFactorExpires, Values, stepUpVars, keyVars, rowVars, reqVars, histVars
  <1>9. ASSUME NEW r \in Submissions, Fail(r) PROVE Values'
    BY <1>9 DEF Fail, NoCode, Values, keyVars, rowVars
  <1> QED BY <1>1, <1>2, <1>3, <1>4, <1>5, <1>6, <1>7, <1>8, <1>9 DEF NextStepUp, Advance

LEMMA FlagsStep == Flags /\ [NextStepUp]_stepUpVars => Flags'
  <1> SUFFICES ASSUME Flags, [NextStepUp]_stepUpVars PROVE Flags'
    OBVIOUS
  <1>1. ASSUME NEW r \in Submissions,
               Login(r) \/ reauth(r) \/ verifyTOTP(r) \/ confirmTOTP(r) \/ Fail(r)
        PROVE Flags'
    BY <1>1, Zenon DEF Login, reauth, verifyTOTP, confirmTOTP, Begin, Fail, Flags, keyVars, rowVars
  <1>2. ASSUME NEW r \in Submissions,
               \/ GetLoginAttempts(r) \/ GetReauthAttempts(r) \/ GetTwoFactorAttempts(r)
               \/ Compare(r) \/ Expire(r) \/ SetTwoFactorVerified(r)
        PROVE Flags'
    BY <1>2, Zenon DEF GetLoginAttempts, GetReauthAttempts, GetTwoFactorAttempts, GetAttempts, Compare,
                Expire, SetTwoFactorVerified, Flags, keyVars, rowVars, histVars
  <1>3. ASSUME NEW r \in Submissions,
               \/ IncrementLoginAttempts(r) \/ IncrementReauthAttempts(r)
               \/ IncrementTwoFactorAttempts(r)
               \/ ResetLoginAttempts(r) \/ ResetReauthAttempts(r) \/ ResetTwoFactorAttempts(r)
        PROVE Flags'
    BY <1>3, Zenon DEF IncrementLoginAttempts, IncrementReauthAttempts, IncrementTwoFactorAttempts,
                Increment, ResetLoginAttempts, ResetReauthAttempts, ResetTwoFactorAttempts, Reset,
                Flags, rowVars, histVars
  <1>4. ASSUME NEW r \in Submissions, VerifyTOTP(r) \/ ConfirmTOTP(r) PROVE Flags'
    BY <1>4, Zenon DEF VerifyTOTP, ConfirmTOTP, Flags, keyVars, rowVars, histVars
  <1>5. ASSUME NEW r \in Submissions, UpdateUserTOTPRecoveryCodes(r) \/ ConfirmUserTOTP(r) PROVE Flags'
    BY <1>5, Zenon DEF UpdateUserTOTPRecoveryCodes, ConfirmUserTOTP, Flags, keyVars, histVars
  <1>6. CASE EnrollTOTP BY <1>6, Zenon DEF EnrollTOTP, Flags, keyVars, reqVars
  <1>7. CASE KeyExpires \/ TwoFactorExpires \/ UNCHANGED stepUpVars
    BY <1>7, Zenon DEF KeyExpires, TwoFactorExpires, Flags, stepUpVars, keyVars, rowVars, reqVars, histVars
  <1> QED BY <1>1, <1>2, <1>3, <1>4, <1>5, <1>6, <1>7, Zenon DEF NextStepUp, Advance

-----------------------------------------------------------------------------
(* The attempt limiters *)

LEMMA AdmittedFacts ==
    /\ IsFiniteSet(Submissions) /\ Cardinality(Submissions) \in Nat
    /\ \A S \in SUBSET Submissions :
          IsFiniteSet(S) /\ Cardinality(S) \in Nat /\ Cardinality(S) <= Cardinality(Submissions)
    /\ \A S \in SUBSET Submissions : \A T \in SUBSET S : Cardinality(T) <= Cardinality(S)
    /\ \A S \in SUBSET Submissions : \A r \in S : Cardinality(S \ {r}) = Cardinality(S) - 1
  BY RequestAssumption, FS_CardinalityType, FS_Subset, FS_RemoveElement

\* Nobody is let past the limiter and the counter stays.
LEMMA BudgetShrinks ==
    ASSUME Values, Budget, UNCHANGED cnt, Admitted' \subseteq Admitted
    PROVE  Budget'
  <1>1. /\ Admitted \subseteq Submissions
        /\ Cardinality(Admitted') <= Cardinality(Admitted)
        /\ Cardinality(Admitted') \in Nat /\ Cardinality(Admitted) \in Nat
    BY AdmittedFacts DEF Admitted
  <1> QED BY <1>1, AdmittedFacts, LimitAssumption DEF Budget, Values

\* Whoever is let past the limiter sees it below the limit.
LEMMA BudgetOpen ==
    ASSUME cnt' \in Nat, cnt' <= MaxAttempts - 1
    PROVE  Budget'
  <1>1. Cardinality(Admitted)' \in Nat /\ Cardinality(Admitted)' <= Cardinality(Submissions)
    BY AdmittedFacts DEF Admitted
  <1> QED BY <1>1, AdmittedFacts, LimitAssumption DEF Budget

\* Whoever counts is let past no more.
LEMMA BudgetSpent ==
    ASSUME Values, Budget, NEW r \in Admitted, cnt' = cnt + 1, Admitted' \subseteq Admitted \ {r}
    PROVE  Budget'
  <1>1. /\ Admitted \subseteq Submissions /\ Admitted' \subseteq Submissions
        /\ Admitted \ {r} \in SUBSET Submissions
    BY DEF Admitted
  <1>2. /\ Cardinality(Admitted') <= Cardinality(Admitted \ {r})
        /\ Cardinality(Admitted \ {r}) = Cardinality(Admitted) - 1
        /\ Cardinality(Admitted') \in Nat /\ Cardinality(Admitted) \in Nat
    BY <1>1, AdmittedFacts
  <1> QED BY <1>2, AdmittedFacts, LimitAssumption DEF Budget, Values

LEMMA BudgetStep == Values /\ KindOK /\ Budget /\ [NextStepUp]_stepUpVars => KindOK' /\ Budget'
  <1> SUFFICES ASSUME Values, KindOK, Budget, [NextStepUp]_stepUpVars PROVE KindOK' /\ Budget'
    OBVIOUS
  <1>1. ASSUME NEW r \in Submissions, NEW k \in Kinds, Begin(r, k) PROVE KindOK' /\ Budget'
    <2>1. UNCHANGED cnt /\ Admitted' \subseteq Admitted
      BY <1>1 DEF Begin, Step, Admitted, Values, Kinds, Limiters, keyVars
    <2>2. KindOK'
      BY <1>1 DEF Begin, Step, KindOK, Busy, Values, Kinds, Limiters, keyVars
    <2> QED BY <2>1, <2>2, BudgetShrinks
  <1>2. ASSUME NEW r \in Submissions, NEW k \in Limiters, GetAttempts(r, k) PROVE KindOK' /\ Budget'
    <2>1. KindOK' /\ UNCHANGED cnt
      BY <1>2 DEF GetAttempts, Step, KindOK, Busy, Values, Kinds, Limiters, keyVars
    <2>2. CASE cnt >= MaxAttempts
      <3>1. Admitted' \subseteq Admitted
        BY <1>2, <2>2 DEF GetAttempts, Step, Admitted, Values, keyVars
      <3> QED BY <2>1, <3>1, BudgetShrinks
    <2>3. CASE ~(cnt >= MaxAttempts)
      BY <2>1, <2>3, BudgetOpen, LimitAssumption DEF Values
    <2> QED BY <2>1, <2>2, <2>3
  <1>3. ASSUME NEW r \in Submissions, NEW k \in Limiters, Increment(r, k) PROVE KindOK' /\ Budget'
    <2>1. KindOK'
      BY <1>3 DEF Increment, Step, KindOK, Busy, Values, Kinds, Limiters
    <2>2. /\ r \in Admitted /\ cnt' = cnt + 1 /\ Admitted' \subseteq Admitted \ {r}
      BY <1>3 DEF Increment, Step, Admitted, KindOK, Busy, Values
    <2> QED BY <2>1, <2>2, BudgetSpent
  <1>4. ASSUME NEW r \in Submissions, NEW k \in Limiters, Reset(r, k) PROVE KindOK' /\ Budget'
    <2>1. KindOK'
      BY <1>4 DEF Reset, Step, KindOK, Busy, Values, Kinds, Limiters
    <2>2. cnt' = 0
      BY <1>4 DEF Reset
    <2> QED BY <2>1, <2>2, BudgetOpen, LimitAssumption
  <1>5. CASE KeyExpires
    <2>1. KindOK' BY <1>5 DEF KeyExpires, KindOK, Busy, reqVars
    <2>2. cnt' = 0 BY <1>5 DEF KeyExpires
    <2> QED BY <2>1, <2>2, BudgetOpen, LimitAssumption
  <1>6. ASSUME NEW r \in Submissions,
               \/ Fail(r) \/ Compare(r) \/ Expire(r) \/ SetTwoFactorVerified(r)
               \/ VerifyTOTP(r) \/ UpdateUserTOTPRecoveryCodes(r)
               \/ ConfirmTOTP(r) \/ ConfirmUserTOTP(r)
        PROVE KindOK' /\ Budget'
    <2>1. /\ UNCHANGED <<limiter, cnt, kind>>
          /\ \A s \in Submissions \ {r} : pc'[s] = pc[s]
          /\ \/ pc[r] \in {"compare", "row"} /\ pc'[r] \in {"idle", "reset", "incr", "spend", "store"}
             \/ pc'[r] \in {"idle", "reset"}
      BY <1>6 DEF Fail, Compare, Expire, SetTwoFactorVerified, VerifyTOTP,
                  UpdateUserTOTPRecoveryCodes, ConfirmTOTP, ConfirmUserTOTP, Step, Values,
                  keyVars, rowVars, histVars
    <2>2. Admitted' \subseteq Admitted
      BY <2>1 DEF Admitted
    <2>3. KindOK'
      <3>1. \/ pc'[r] = "idle" \/ kind[r] = "tfa"
            \/ kind[r] = "confirm" /\ pc'[r] = "store"
            \/ pc[r] \in {"compare", "spend"}
        BY <1>6 DEF Fail, Compare, Expire, SetTwoFactorVerified, VerifyTOTP,
                    UpdateUserTOTPRecoveryCodes, ConfirmTOTP, ConfirmUserTOTP, Step, Values
      <3>2. pc'[r] = "idle" \/ pc[r] # "idle"
        BY <1>6 DEF Fail, Compare, Expire, SetTwoFactorVerified, VerifyTOTP,
                    UpdateUserTOTPRecoveryCodes, ConfirmTOTP, ConfirmUserTOTP, Step, Values
      <3> QED BY <2>1, <3>1, <3>2 DEF KindOK, Busy
    <2> QED BY <2>1, <2>2, <2>3, BudgetShrinks
  <1>7. CASE EnrollTOTP \/ TwoFactorExpires \/ UNCHANGED stepUpVars
    <2>1. UNCHANGED <<limiter, cnt, kind, pc>>
      BY <1>7 DEF EnrollTOTP, TwoFactorExpires, stepUpVars, keyVars, reqVars
    <2>2. Admitted' \subseteq Admitted /\ KindOK'
      BY <2>1 DEF Admitted, KindOK, Busy
    <2> QED BY <2>1, <2>2, BudgetShrinks
  <1>8. ASSUME NEW r \in Submissions,
               Login(r) \/ reauth(r) \/ verifyTOTP(r) \/ confirmTOTP(r)
        PROVE KindOK' /\ Budget'
    BY <1>1, <1>8 DEF Login, reauth, verifyTOTP, confirmTOTP, Kinds, Limiters
  <1>9. ASSUME NEW r \in Submissions, Advance(r) \/ Fail(r) PROVE KindOK' /\ Budget'
    BY <1>2, <1>3, <1>4, <1>6, <1>9
    DEF Advance, GetLoginAttempts, GetReauthAttempts, GetTwoFactorAttempts,
        IncrementLoginAttempts, IncrementReauthAttempts, IncrementTwoFactorAttempts,
        ResetLoginAttempts, ResetReauthAttempts, ResetTwoFactorAttempts, Limiters
  <1> QED BY <1>5, <1>7, <1>8, <1>9 DEF NextStepUp

LEMMA InitBudget == InitStepUp => Values /\ Flags /\ KindOK /\ Budget
  <1> SUFFICES ASSUME InitStepUp PROVE Values /\ Flags /\ KindOK /\ Budget
    OBVIOUS
  <1>1. Values BY DEF InitStepUp, Values, Kinds, Limiters, NoCode
  <1>2. Flags BY Zenon DEF InitStepUp, Flags
  <1>3. KindOK BY DEF InitStepUp, KindOK, Busy
  <1>4. Budget
    <2>1. Admitted \subseteq Submissions BY DEF Admitted
    <2>2. Cardinality(Admitted) \in Nat /\ Cardinality(Admitted) <= Cardinality(Submissions)
      BY <2>1, AdmittedFacts
    <2> QED BY <2>2, AdmittedFacts, LimitAssumption DEF InitStepUp, Budget
  <1> QED BY <1>1, <1>2, <1>3, <1>4

LEMMA Bounded == Values /\ Budget => AttemptsBounded
  <1>1. Admitted \subseteq Submissions BY DEF Admitted
  <1>2. Cardinality(Admitted) \in Nat BY <1>1, AdmittedFacts
  <1> QED BY <1>2, AdmittedFacts, LimitAssumption DEF Budget, AttemptsBounded, Values

\* Wrong guesses counted before the limiter shuts are at most the limit plus
\* the requests that run together, less one (reauth, Login, VerifyTOTP and the
\* limiters of infra/redis/auth.go).
THEOREM GuessesBounded == SpecStepUp => []AttemptsBounded
  BY InitBudget, ValuesStep, BudgetStep, Bounded, PTL DEF SpecStepUp

-----------------------------------------------------------------------------
(* The second factor, one request at a time *)

\* What Alone and SequentialStepUp say when no two requests have overlapped.
One == \A r, s \in Busy : r = s
Checked ==
    /\ confirmed => validated
    /\ \A r \in Submissions : pc[r] = "store" => validated
Stored ==
    /\ \A r \in Submissions : pc[r] = "spend" => seen[r] = codes /\ code[r] \in codes
    /\ spent \subseteq (0 .. issued) \X Nat
    /\ codes \subseteq {issued} \X (1 .. CodeCount)
    /\ codes \cap spent = {}

LEMMA SequentialParts ==
    Alone /\ SequentialStepUp <=> (~overlap => One /\ Checked /\ Stored /\ ~twice)
  BY Zenon DEF Alone, SequentialStepUp, One, Checked, Stored

\* The steps that leave the row and the histories alone and do not begin a
\* request, store or spend.
LEMMA SequentialKept ==
    ASSUME Values, NEW r \in Submissions, One, Checked, Stored,
           UNCHANGED <<confirmed, validated, codes, issued, spent>>,
           pc[r] # "idle", \A s \in Submissions \ {r} : pc'[s] = pc[s] /\ seen'[s] = seen[s] /\ code'[s] = code[s],
           pc'[r] # "store",
           pc'[r] = "spend" => seen'[r] = codes /\ code'[r] \in codes
    PROVE  One' /\ Checked' /\ Stored'
  <1>1. One' BY DEF One, Busy
  <1>2. Checked' BY DEF Checked
  <1>3. Stored' BY DEF Stored
  <1> QED BY <1>1, <1>2, <1>3

LEMMA SequentialStep ==
    ASSUME Values, [NextStepUp]_stepUpVars, ~overlap', ~overlap, One, Checked, Stored, ~twice
    PROVE  One' /\ Checked' /\ Stored' /\ ~twice'
  <1>1. ASSUME NEW r \in Submissions, NEW k \in Kinds, Begin(r, k)
        PROVE One' /\ Checked' /\ Stored' /\ ~twice'
    <2>1. /\ UNCHANGED <<confirmed, validated, codes, issued, spent, seen, code>>
          /\ pc' = [pc EXCEPT ![r] = IF k = "confirm" THEN "row" ELSE "check"]
      BY <1>1 DEF Begin, Step, rowVars
    <2>2. Busy = {} BY <1>1, Zenon DEF Begin
    <2>3. One' BY <2>1, <2>2 DEF One, Busy, Values
    <2>4. Checked' BY <2>1 DEF Checked, Values
    <2>5. Stored' BY <2>1 DEF Stored, Values
    <2>6. ~twice' BY <1>1, Zenon DEF Begin
    <2> QED BY <2>3, <2>4, <2>5, <2>6
  <1>2. CASE EnrollTOTP
    <2>1. /\ UNCHANGED <<issued, spent, pc, seen, code, twice>>
          /\ codes' = {} /\ confirmed' = FALSE
      BY <1>2 DEF EnrollTOTP, reqVars
    <2>2. Busy = {} BY <1>2, Zenon DEF EnrollTOTP
    <2>3. \A r \in Submissions : pc'[r] = "idle" BY <2>1, <2>2 DEF Busy
    <2>4. One' BY <2>3 DEF One, Busy
    <2>5. Checked' BY <2>1, <2>3 DEF Checked
    <2>6. Stored' BY <2>1, <2>3 DEF Stored
    <2> QED BY <2>1, <2>4, <2>5, <2>6
  <1>3. ASSUME NEW r \in Submissions,
               \/ \E k \in Limiters : GetAttempts(r, k) \/ Increment(r, k) \/ Reset(r, k)
               \/ Compare(r) \/ Expire(r) \/ SetTwoFactorVerified(r) \/ VerifyTOTP(r) \/ Fail(r)
        PROVE One' /\ Checked' /\ Stored' /\ ~twice'
    <2>1. UNCHANGED <<confirmed, validated, codes, issued, spent, twice>>
      BY <1>3 DEF GetAttempts, Increment, Reset, Compare, Expire, SetTwoFactorVerified,
                  VerifyTOTP, Fail, keyVars, rowVars, histVars
    <2>2. /\ pc[r] # "idle" /\ pc'[r] # "store"
          /\ \A s \in Submissions \ {r} :
                pc'[s] = pc[s] /\ seen'[s] = seen[s] /\ code'[s] = code[s]
          /\ pc'[r] = "spend" => seen'[r] = codes /\ code'[r] \in codes
      BY <1>3 DEF GetAttempts, Increment, Reset, Compare, Expire, SetTwoFactorVerified,
                  VerifyTOTP, Fail, Step, Values
    <2> QED BY <2>1, <2>2, SequentialKept
  <1>4. ASSUME NEW r \in Submissions, UpdateUserTOTPRecoveryCodes(r)
        PROVE One' /\ Checked' /\ Stored' /\ ~twice'
    <2>1. /\ UNCHANGED <<confirmed, issued, validated>>
          /\ pc[r] = "spend" /\ pc' = [pc EXCEPT ![r] = "reset"]
          /\ codes' = seen[r] \ {code[r]} /\ spent' = spent \cup {code[r]}
          /\ \A s \in Submissions \ {r} : seen'[s] = seen[s] /\ code'[s] = code[s]
      BY <1>4 DEF UpdateUserTOTPRecoveryCodes, Remaining, Step, Values
    <2>2. seen[r] = codes /\ code[r] \in codes /\ code[r] \notin spent
      BY <2>1 DEF Stored
    <2>3. \A s \in Submissions \ {r} : pc[s] = "idle"
      BY <2>1 DEF One, Busy
    <2>4. \A s \in Submissions : pc'[s] \in {"idle", "reset"} /\ (s # r => pc'[s] = "idle")
      BY <2>1, <2>3 DEF Values
    <2>5. One' BY <2>4 DEF One, Busy
    <2>6. Checked' BY <2>1, <2>4 DEF Checked
    <2>7. code[r] \in (0 .. issued) \X Nat
      BY <2>2 DEF Stored, Values
    <2>8. Stored' BY <2>1, <2>2, <2>4, <2>7 DEF Stored
    <2>9. ~twice' BY <1>4, <2>2, Zenon DEF UpdateUserTOTPRecoveryCodes
    <2> QED BY <2>5, <2>6, <2>8, <2>9
  <1>5. ASSUME NEW r \in Submissions, ConfirmTOTP(r)
        PROVE One' /\ Checked' /\ Stored' /\ ~twice'
    <2>1. UNCHANGED <<confirmed, codes, issued, spent, twice, seen, code>>
      BY <1>5 DEF ConfirmTOTP, rowVars
    <2>2. /\ pc[r] # "idle" /\ \A s \in Submissions \ {r} : pc'[s] = pc[s]
          /\ pc'[r] \in {"idle", "store"}
      BY <1>5 DEF ConfirmTOTP, Step, Values
    <2>3. (pc'[r] = "idle" /\ UNCHANGED validated) \/ validated' = TRUE
      BY <1>5 DEF ConfirmTOTP, Step, Values
    <2>4. One' BY <2>2 DEF One, Busy
    <2>5. Checked' BY <2>1, <2>2, <2>3 DEF Checked
    <2>6. Stored' BY <2>1, <2>2 DEF Stored
    <2> QED BY <2>1, <2>4, <2>5, <2>6
  <1>6. ASSUME NEW r \in Submissions, ConfirmUserTOTP(r)
        PROVE One' /\ Checked' /\ Stored' /\ ~twice'
    <2>1. /\ UNCHANGED <<spent, twice, seen, code, validated>>
          /\ codes' = {issued + 1} \X (1 .. CodeCount) /\ issued' = issued + 1
          /\ pc[r] = "store" /\ pc' = [pc EXCEPT ![r] = "idle"]
      BY <1>6 DEF ConfirmUserTOTP, generateRecoveryCodes, Step, histVars
    <2>2. \A s \in Submissions : pc'[s] = "idle"
      BY <2>1 DEF One, Busy, Values
    <2>3. One' BY <2>2 DEF One, Busy
    <2>4. validated' BY <2>1 DEF Checked
    <2>5. Checked' BY <2>2, <2>4 DEF Checked
    <2>6. \A c \in spent : c[1] <= issued /\ c \in (0 .. issued + 1) \X Nat
      BY DEF Stored, Values
    <2>7. \A c \in codes' : c[1] = issued + 1
      BY <2>1
    <2>8. codes' \cap spent = {}
      BY <2>6, <2>7 DEF Values
    <2>9. Stored' BY <2>1, <2>2, <2>6, <2>8 DEF Stored
    <2> QED BY <2>1, <2>3, <2>5, <2>9
  <1>7. CASE KeyExpires \/ TwoFactorExpires \/ UNCHANGED stepUpVars
    <2>1. UNCHANGED <<confirmed, validated, codes, issued, spent, twice, pc, seen, code>>
      BY <1>7 DEF KeyExpires, TwoFactorExpires, stepUpVars, rowVars, reqVars, histVars
    <2> QED BY <2>1 DEF One, Busy, Checked, Stored
  <1>8. ASSUME NEW r \in Submissions, Login(r) \/ reauth(r) \/ verifyTOTP(r) \/ confirmTOTP(r)
        PROVE One' /\ Checked' /\ Stored' /\ ~twice'
    BY <1>1, <1>8 DEF Login, reauth, verifyTOTP, confirmTOTP, Kinds, Limiters
  <1>9. ASSUME NEW r \in Submissions, Advance(r) \/ Fail(r)
        PROVE One' /\ Checked' /\ Stored' /\ ~twice'
    BY <1>3, <1>4, <1>5, <1>6, <1>9
    DEF Advance, GetLoginAttempts, GetReauthAttempts, GetTwoFactorAttempts,
        IncrementLoginAttempts, IncrementReauthAttempts, IncrementTwoFactorAttempts,
        ResetLoginAttempts, ResetReauthAttempts, ResetTwoFactorAttempts, Limiters
  <1> QED BY <1>2, <1>7, <1>8, <1>9 DEF NextStepUp

LEMMA OverlapStays == [NextStepUp]_stepUpVars /\ overlap => overlap'
  <1> SUFFICES ASSUME [NextStepUp]_stepUpVars, overlap PROVE overlap'
    OBVIOUS
  <1>1. ASSUME NEW r \in Submissions,
               Login(r) \/ reauth(r) \/ verifyTOTP(r) \/ confirmTOTP(r) \/ Fail(r)
        PROVE overlap'
    BY <1>1, Zenon DEF Login, reauth, verifyTOTP, confirmTOTP, Begin, Fail
  <1>2. ASSUME NEW r \in Submissions,
               \/ GetLoginAttempts(r) \/ GetReauthAttempts(r) \/ GetTwoFactorAttempts(r)
               \/ Compare(r) \/ Expire(r) \/ SetTwoFactorVerified(r)
               \/ IncrementLoginAttempts(r) \/ IncrementReauthAttempts(r)
               \/ IncrementTwoFactorAttempts(r)
               \/ ResetLoginAttempts(r) \/ ResetReauthAttempts(r) \/ ResetTwoFactorAttempts(r)
               \/ VerifyTOTP(r) \/ ConfirmUserTOTP(r)
        PROVE overlap'
    BY <1>2, Zenon
    DEF GetLoginAttempts, GetReauthAttempts, GetTwoFactorAttempts, GetAttempts, Compare,
        Expire, SetTwoFactorVerified, IncrementLoginAttempts, IncrementReauthAttempts,
        IncrementTwoFactorAttempts, Increment, ResetLoginAttempts, ResetReauthAttempts,
        ResetTwoFactorAttempts, Reset, VerifyTOTP, ConfirmUserTOTP, histVars
  <1>3. ASSUME NEW r \in Submissions, UpdateUserTOTPRecoveryCodes(r) \/ ConfirmTOTP(r)
        PROVE overlap'
    BY <1>3, Zenon DEF UpdateUserTOTPRecoveryCodes, ConfirmTOTP
  <1>4. CASE EnrollTOTP \/ KeyExpires \/ TwoFactorExpires \/ UNCHANGED stepUpVars
    BY <1>4, Zenon DEF EnrollTOTP, KeyExpires, TwoFactorExpires, stepUpVars, histVars
  <1> QED BY <1>1, <1>2, <1>3, <1>4, Zenon DEF NextStepUp, Advance

LEMMA SequentialInit == InitStepUp => Alone /\ SequentialStepUp
  <1> SUFFICES ASSUME InitStepUp PROVE One /\ Checked /\ Stored /\ ~twice
    BY SequentialParts
  <1>1. One BY DEF InitStepUp, One, Busy
  <1>2. Checked BY DEF InitStepUp, Checked
  <1>3. Stored BY DEF InitStepUp, Stored
  <1> QED BY <1>1, <1>2, <1>3 DEF InitStepUp

LEMMA SequentialNext ==
    Values /\ [NextStepUp]_stepUpVars /\ Alone /\ SequentialStepUp => (Alone /\ SequentialStepUp)'
  <1> SUFFICES ASSUME Values, [NextStepUp]_stepUpVars, Alone, SequentialStepUp, ~overlap'
               PROVE One' /\ Checked' /\ Stored' /\ ~twice'
    BY SequentialParts, Zenon DEF Alone, SequentialStepUp, One, Checked, Stored
  <1>1. ~overlap BY OverlapStays
  <1>2. One /\ Checked /\ Stored /\ ~twice BY <1>1, SequentialParts
  <1> QED BY <1>1, <1>2, SequentialStep

\* The inductive invariant as a whole, the types with it.
THEOREM StepUpInvariance == SpecStepUp => []StepUpInd
  BY InitBudget, ValuesStep, FlagsStep, BudgetStep, SequentialInit, SequentialNext, TypeHalves, PTL
  DEF SpecStepUp, StepUpInd

\* As long as requests for an account do not overlap, a recovery code works
\* once and only a secret that was checked is confirmed (consumeRecoveryCode,
\* ConfirmTOTP, EnrollTOTP).
THEOREM SequentialHolds == SpecStepUp => []SequentialStepUp
  BY InitBudget, ValuesStep, SequentialInit, SequentialNext, PTL DEF SpecStepUp

=============================================================================
