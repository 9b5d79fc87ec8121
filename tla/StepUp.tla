------------------------------- MODULE StepUp -------------------------------
(***************************************************************************)
(* The secrets of one staff account that can be guessed: its password, at  *)
(* login and at the re-authentication before a destructive console         *)
(* operation, and its second factor.  Each of the three has an attempt     *)
(* limiter of its own in Redis, and all three have the same shape: read    *)
(* the counter, compare, then increment it (with an expiry set by a second *)
(* command when it became 1) or delete it.  The second factor is a row of  *)
(* user_totp, replaced by an enrolment, confirmed by a first code, and     *)
(* read, changed and written back by every recovery code.                  *)
(*                                                                         *)
(* The counters share nothing, so a behaviour follows one limiter, chosen   *)
(* at the start, and the requests that use it; the second factor is in use *)
(* when it is its limiter that is followed.                                *)
(*                                                                         *)
(* Requests for the account run side by side; each step of one is one      *)
(* statement of the database or of Redis.  Secrets are numbered by         *)
(* enrolment and recovery codes by the confirmation that made them, so     *)
(* that no two are equal.  Hashes, the otpauth URI, the sealing of the     *)
(* secret and the time window of a code are not modelled.                  *)
(***************************************************************************)
EXTENDS Naturals, FiniteSets

CONSTANTS
    Submissions,   \* requests that can be in progress at one time
    MaxAttempts,   \* maxLoginAttempts, maxReauthAttempts, maxTwoFactorAttempts
    CodeCount,     \* recoveryCodeCount
    MaxEnrol,      \* bound: enrolments
    MaxConfirm     \* bound: confirmations

ASSUME RequestAssumption == IsFiniteSet(Submissions) /\ Submissions # {}
ASSUME LimitAssumption ==
    /\ MaxAttempts \in Nat \ {0} /\ CodeCount \in Nat \ {0}
    /\ MaxEnrol \in Nat /\ MaxConfirm \in Nat

Limiters == {"login", "reauth", "tfa"}
Kinds == Limiters \cup {"confirm"}
VARIABLES
    limiter,    \* the limiter followed
    cnt,        \* its counter; an absent key counts 0
    ttl,        \* the counter carries an expiry
    secret,     \* enrolment the stored secret is from, 0 without a row
    confirmed,  \* confirmed_at is set
    codes,      \* recovery_codes
    issued,     \* confirmations so far
    tfaKey,     \* admin:2fa:<userId> exists
    pc, kind,   \* step and kind of a request
    seen,       \* recovery codes the request has read
    code,       \* recovery code it matched
    spent,      \* history: recovery codes that were accepted
    twice,      \* history: one of them was accepted twice
    validated,  \* history: a first code was checked against the stored secret
    overlap,    \* history: two requests were in progress at once
    orphaned    \* history: a request died before it could set the expiry

keyVars == <<limiter, cnt, ttl, tfaKey>>
rowVars == <<secret, confirmed, codes, issued>>
reqVars == <<pc, kind, seen, code>>
histVars == <<spent, twice, validated, overlap, orphaned>>
stepUpVars == <<keyVars, rowVars, reqVars, histVars>>

NoCode == <<0, 0>>

InitStepUp ==
    /\ limiter \in Limiters /\ cnt = 0 /\ ttl = FALSE /\ tfaKey = FALSE
    /\ secret = 0 /\ confirmed = FALSE /\ codes = {} /\ issued = 0
    /\ pc = [r \in Submissions |-> "idle"]
    /\ kind = [r \in Submissions |-> limiter]
    /\ seen = [r \in Submissions |-> {}]
    /\ code = [r \in Submissions |-> NoCode]
    /\ spent = {} /\ twice = FALSE /\ validated = FALSE
    /\ overlap = FALSE /\ orphaned = FALSE

-----------------------------------------------------------------------------
(* Requests *)

Step(r, from, to) == pc[r] = from /\ pc' = [pc EXCEPT ![r] = to]

Busy == {r \in Submissions : pc[r] # "idle"}

Begin(r, k) ==
    /\ limiter = (IF k = "confirm" THEN "tfa" ELSE k)
    /\ Step(r, "idle", IF k = "confirm" THEN "row" ELSE "check")
    /\ kind' = [kind EXCEPT ![r] = k]
    /\ overlap' = (overlap \/ Busy # {})
    /\ UNCHANGED <<keyVars, rowVars, seen, code, spent, twice, validated, orphaned>>

Login(r) == Begin(r, "login")

reauth(r) == Begin(r, "reauth")

verifyTOTP(r) == Begin(r, "tfa")

confirmTOTP(r) == Begin(r, "confirm")

\* The whole enrolment is one upsert.
EnrollTOTP ==
    /\ limiter = "tfa" /\ secret < MaxEnrol
    /\ secret' = secret + 1 /\ codes' = {} /\ confirmed' = FALSE
    /\ validated' = FALSE
    /\ overlap' = (overlap \/ Busy # {})
    /\ UNCHANGED <<keyVars, issued, reqVars, spent, twice, orphaned>>

\* Redis or the database answers with an error, the client is gone, or the
\* process dies: whatever the request has written stays.
Fail(r) ==
    /\ pc[r] # "idle" /\ pc' = [pc EXCEPT ![r] = "idle"]
    /\ orphaned' = (orphaned \/ pc[r] = "expire")
    /\ seen' = [seen EXCEPT ![r] = {}] /\ code' = [code EXCEPT ![r] = NoCode]
    /\ UNCHANGED <<keyVars, rowVars, kind, spent, twice, validated, overlap>>

-----------------------------------------------------------------------------
(* The limiters *)

\* Mutant: the limit itself is let through.
GetAttemptsOffByOne(r, k) ==
    /\ kind[r] = k
    /\ Step(r, "check", IF cnt > MaxAttempts THEN "idle"
                        ELSE IF k = "tfa" THEN "row" ELSE "compare")
    /\ UNCHANGED <<keyVars, rowVars, kind, seen, code, histVars>>

GetAttempts(r, k) ==
    /\ kind[r] = k
    /\ Step(r, "check", IF cnt >= MaxAttempts THEN "idle"
                        ELSE IF k = "tfa" THEN "row" ELSE "compare")
    /\ UNCHANGED <<keyVars, rowVars, kind, seen, code, histVars>>

GetLoginAttempts(r) == GetAttempts(r, "login")

GetReauthAttempts(r) == GetAttempts(r, "reauth")

GetTwoFactorAttempts(r) == GetAttempts(r, "tfa")

\* password.Verify says yes or no.
Compare(r) ==
    /\ \E next \in {"reset", "incr"} : Step(r, "compare", next)
    /\ UNCHANGED <<keyVars, rowVars, kind, seen, code, histVars>>

\* Mutant: the expiry is asked for when the limit is passed, not at 1.
IncrementNoExpiry(r, k) ==
    /\ kind[r] = k
    /\ Step(r, "incr", IF cnt + 1 > MaxAttempts THEN "expire" ELSE "idle")
    /\ cnt' = cnt + 1
    /\ UNCHANGED <<limiter, ttl, tfaKey, rowVars, kind, seen, code, histVars>>

Increment(r, k) ==
    /\ kind[r] = k
    /\ Step(r, "incr", IF cnt = 0 THEN "expire" ELSE "idle")
    /\ cnt' = cnt + 1
    /\ UNCHANGED <<limiter, ttl, tfaKey, rowVars, kind, seen, code, histVars>>

IncrementLoginAttempts(r) == Increment(r, "login")

IncrementReauthAttempts(r) == Increment(r, "reauth")

IncrementTwoFactorAttempts(r) == Increment(r, "tfa")

\* EXPIRE on a key that is gone does nothing.
Expire(r) ==
    /\ Step(r, "expire", "idle")
    /\ ttl' = (ttl \/ cnt > 0)
    /\ UNCHANGED <<limiter, cnt, tfaKey, rowVars, kind, seen, code, histVars>>

Reset(r, k) ==
    /\ kind[r] = k
    /\ Step(r, "reset", IF k = "tfa" THEN "mark" ELSE "idle")
    /\ cnt' = 0 /\ ttl' = FALSE
    /\ UNCHANGED <<limiter, tfaKey, rowVars, kind, seen, code, histVars>>

ResetLoginAttempts(r) == Reset(r, "login")

ResetReauthAttempts(r) == Reset(r, "reauth")

ResetTwoFactorAttempts(r) == Reset(r, "tfa")

-----------------------------------------------------------------------------
(* The second factor *)

SetTwoFactorVerified(r) ==
    /\ Step(r, "mark", "idle") /\ tfaKey' = TRUE
    /\ UNCHANGED <<limiter, cnt, ttl, rowVars, kind, seen, code, histVars>>

\* A row that is missing or not confirmed ends the request; otherwise the
\* code is the current one, a recovery code that was read, or neither.
VerifyTOTP(r) ==
    /\ kind[r] = "tfa" /\ pc[r] = "row"
    /\ \/ /\ \/ (secret = 0 \/ ~confirmed) /\ Step(r, "row", "idle")
             \/ secret # 0 /\ confirmed /\ Step(r, "row", "reset")
             \/ secret # 0 /\ confirmed /\ Step(r, "row", "incr")
          /\ UNCHANGED <<seen, code>>
       \/ /\ secret # 0 /\ confirmed /\ Step(r, "row", "spend")
          /\ seen' = [seen EXCEPT ![r] = codes]
          /\ \E c \in codes : code' = [code EXCEPT ![r] = c]
    /\ UNCHANGED <<keyVars, rowVars, kind, histVars>>

\* Mutant: the first stored code is dropped whichever was used.
RemainingOther(r) ==
    IF seen[r] = {} THEN {} ELSE seen[r] \ {CHOOSE c \in seen[r] : TRUE}

\* consumeRecoveryCode
Remaining(r) == seen[r] \ {code[r]}

UpdateUserTOTPRecoveryCodes(r) ==
    /\ Step(r, "spend", "reset")
    /\ codes' = Remaining(r)
    /\ seen' = [seen EXCEPT ![r] = {}] /\ code' = [code EXCEPT ![r] = NoCode]
    /\ spent' = spent \cup {code[r]}
    /\ twice' = (twice \/ code[r] \in spent)
    /\ UNCHANGED <<keyVars, secret, confirmed, issued, kind,
                   validated, overlap, orphaned>>

\* A code for the secret that was read is right, or the request ends.
ConfirmTOTP(r) ==
    /\ kind[r] = "confirm" /\ pc[r] = "row"
    /\ \/ Step(r, "row", "idle") /\ UNCHANGED validated
       \/ /\ secret # 0 /\ Step(r, "row", "store")
          /\ validated' = TRUE
    /\ UNCHANGED <<keyVars, rowVars, kind, seen, code, spent, twice, overlap, orphaned>>

generateRecoveryCodes == {issued + 1} \X (1 .. CodeCount)

ConfirmUserTOTP(r) ==
    /\ Step(r, "store", "idle") /\ issued < MaxConfirm
    /\ confirmed' = TRUE /\ codes' = generateRecoveryCodes /\ issued' = issued + 1
    /\ UNCHANGED <<keyVars, secret, kind, seen, code, histVars>>

-----------------------------------------------------------------------------
(* Expiry *)

KeyExpires ==
    /\ ttl /\ cnt' = 0 /\ ttl' = FALSE
    /\ UNCHANGED <<limiter, tfaKey, rowVars, reqVars, histVars>>

TwoFactorExpires ==
    /\ tfaKey /\ tfaKey' = FALSE
    /\ UNCHANGED <<limiter, cnt, ttl, rowVars, reqVars, histVars>>

Advance(r) ==
    \/ GetLoginAttempts(r) \/ GetReauthAttempts(r) \/ GetTwoFactorAttempts(r)
    \/ Compare(r)
    \/ IncrementLoginAttempts(r) \/ IncrementReauthAttempts(r)
    \/ IncrementTwoFactorAttempts(r) \/ Expire(r)
    \/ ResetLoginAttempts(r) \/ ResetReauthAttempts(r) \/ ResetTwoFactorAttempts(r)
    \/ VerifyTOTP(r) \/ UpdateUserTOTPRecoveryCodes(r) \/ SetTwoFactorVerified(r)
    \/ ConfirmTOTP(r) \/ ConfirmUserTOTP(r)

NextStepUp ==
    \/ \E r \in Submissions :
          \/ Login(r) \/ reauth(r) \/ verifyTOTP(r) \/ confirmTOTP(r)
          \/ Advance(r) \/ Fail(r)
    \/ EnrollTOTP
    \/ KeyExpires
    \/ TwoFactorExpires

SpecStepUp == InitStepUp /\ [][NextStepUp]_stepUpVars

\* Requests end, and Redis expires keys.
FairStepUp ==
    /\ SpecStepUp
    /\ \A r \in Submissions : WF_stepUpVars(Advance(r) \/ Fail(r))
    /\ WF_stepUpVars(KeyExpires)

-----------------------------------------------------------------------------
(* Properties *)

\* The variables have their types.
StepUpTypes ==
    /\ limiter \in Limiters /\ cnt \in Nat /\ ttl \in BOOLEAN
    /\ pc \in [Submissions -> {"idle", "check", "compare", "row", "incr", "expire",
                            "reset", "mark", "spend", "store"}]
    /\ kind \in [Submissions -> Kinds]
    /\ secret \in Nat /\ issued \in Nat
    /\ codes \in SUBSET (Nat \X Nat)
    /\ seen \in [Submissions -> SUBSET (Nat \X Nat)] /\ code \in [Submissions -> Nat \X Nat]
    /\ confirmed \in BOOLEAN /\ validated \in BOOLEAN
    /\ twice \in BOOLEAN /\ overlap \in BOOLEAN /\ orphaned \in BOOLEAN

\* Requests of a kind that were let past the limiter and may still count.
Admitted == {r \in Submissions : kind[r] = limiter /\ pc[r] \in {"compare", "row", "incr"}}

\* Only a request of the limiter counts on it; a confirmation does not.
KindOK ==
    \A r \in Busy : kind[r] = limiter \/ (kind[r] = "confirm" /\ pc[r] \in {"row", "store"})

\* What makes AttemptsBounded inductive: the requests already let past the
\* limiter may each add one, and there are no more of them than requests.
Budget ==
    cnt + Cardinality(Admitted) <= MaxAttempts - 1 + Cardinality(Submissions)

\* The counter is read before the comparison and incremented after it, so
\* requests that run together overshoot the limit; never by more than the
\* other requests in progress, whatever fails, resets or expires meanwhile
\* (reauth, Login, VerifyTOTP and the limiters of infra/redis/auth.go).
AttemptsBounded == cnt <= MaxAttempts - 1 + Cardinality(Submissions)

\* As long as requests for the account do not overlap, a recovery code works
\* once, only a secret that was checked is confirmed, and the stored codes
\* are of the latest confirmation (totp.go: "it verifies exactly once").
SequentialStepUp ==
    ~overlap =>
        /\ ~twice
        /\ confirmed => validated
        /\ codes \subseteq {issued} \X (1 .. CodeCount)
        /\ codes \cap spent = {}

\* What makes SequentialStepUp inductive: one request at a time, a stored
\* secret that was checked, and the codes that were read still the stored ones.
Alone ==
    ~overlap =>
        /\ \A r, s \in Busy : r = s
        /\ \A r \in Submissions : pc[r] = "store" => validated
        /\ \A r \in Submissions : pc[r] = "spend" => seen[r] = codes /\ code[r] \in codes
        /\ spent \subseteq (0 .. issued) \X Nat

\* The inductive invariant behind AttemptsBounded and SequentialStepUp.
StepUpInd == StepUpTypes /\ KindOK /\ Budget /\ Alone /\ SequentialStepUp

\* A locked limiter opens again, unless a request died between INCR and
\* EXPIRE ("The key expires 15 minutes after the first increment").
LockoutEnds == cnt >= MaxAttempts ~> cnt < MaxAttempts \/ orphaned

=============================================================================
