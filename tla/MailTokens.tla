----------------------------- MODULE MailTokens -----------------------------
(***************************************************************************)
(* The links mailed to verify an address and to reset a password.  A token  *)
(* is a Redis key that GETDEL spends; two stores are written one after the  *)
(* other, so a request may end between any two of its steps with what it    *)
(* has done so far.                                                         *)
(*                                                                          *)
(* Time to live is counted in ticks.  A token is random: nobody can present *)
(* one that was not mailed, and a number that is in no key and no request   *)
(* stands for a fresh one.  Delivery itself is EmailOutbox's; the sessions  *)
(* a reset revokes are AuthSessions'.                                       *)
(***************************************************************************)
EXTENDS Naturals, FiniteSets

CONSTANTS
    People, Tokens, Requests, NoOne,
    TTL,           \* verifyTokenTTL and resetTokenTTL, by kind
    Cooldown,      \* verifyResendCooldown and resetRequestCooldown, by kind
    MaxFailures    \* bound: requests and mails that fail

Kinds == {"verify", "reset"}

ASSUME MailAssumption ==
    /\ TTL \in [Kinds -> Nat \ {0}] /\ Cooldown \in [Kinds -> Nat \ {0}]
    /\ \A k \in Kinds : Cooldown[k] <= TTL[k]
    /\ MaxFailures \in Nat /\ NoOne \notin People \cup Tokens

VARIABLES
    account,    \* users that exist
    verified,   \* users.is_verified
    secret,     \* the link that set users.password_hash last
    key,        \* tokens in Redis: kind, user and ticks left
    cooling,    \* ticks left of a cooldown
    mailed,     \* links in mailboxes
    req,        \* a request between two steps
    failures

mailVars == <<account, verified, secret, key, cooling, mailed, req, failures>>

NoKey == [kind |-> "none", user |-> NoOne, ttl |-> 0]
NoReq == [op |-> "idle", kind |-> "none", user |-> NoOne, token |-> NoOne]

Init ==
    /\ account = {} /\ verified = {}
    /\ secret = [u \in People |-> NoOne]
    /\ key = [t \in Tokens |-> NoKey]
    /\ cooling = [k \in Kinds |-> [u \in People |-> 0]]
    /\ mailed = {} /\ failures = 0
    /\ req = [r \in Requests |-> NoReq]

Fresh(t) == key[t] = NoKey /\ \A r \in Requests : req[r].token # t

To(r, op) == req' = [req EXCEPT ![r].op = op]
End(r) == req' = [req EXCEPT ![r] = NoReq]
Begin(r, op, k, u) ==
    req[r] = NoReq /\ req' = [req EXCEPT ![r] = [op |-> op, kind |-> k, user |-> u, token |-> NoOne]]

-----------------------------------------------------------------------------
(* Asking for a link *)

\* EMAIL_TAKEN otherwise.  The row stays inside the transaction until Commit.
Register(r, u) ==
    /\ u \notin account /\ \A s \in Requests : req[s].user # u
    /\ Begin(r, "register", "verify", u)
    /\ UNCHANGED <<account, verified, secret, key, cooling, mailed, failures>>

\* USER_NOT_FOUND and ALREADY_VERIFIED otherwise.
ResendVerificationEmail(r, u) ==
    /\ u \in account \ verified /\ Begin(r, "cool", "verify", u)
    /\ UNCHANGED <<account, verified, secret, key, cooling, mailed, failures>>

\* For any address, also one nobody has.
RequestPasswordReset(r, u) ==
    /\ Begin(r, "cool", "reset", u)
    /\ UNCHANGED <<account, verified, secret, key, cooling, mailed, failures>>

\* MarkVerifyResent, MarkResetRequested: SET NX EX.
MarkRequested(k, u) == cooling' = [cooling EXCEPT ![k][u] = Cooldown[k]]

\* VERIFICATION_RESEND_TOO_SOON, or silence.
Cool(r) ==
    /\ req[r].op = "cool"
    /\ LET k == req[r].kind  u == req[r].user IN
       IF cooling[k][u] > 0 THEN End(r) /\ UNCHANGED cooling
       ELSE MarkRequested(k, u) /\ To(r, "lookup")
    /\ UNCHANGED <<account, verified, secret, key, mailed, failures>>

\* GetUserByEmail; a resend has its user already.
Lookup(r) ==
    /\ req[r].op = "lookup"
    /\ IF req[r].user \in account THEN To(r, "token") ELSE End(r)
    /\ UNCHANGED <<account, verified, secret, key, cooling, mailed, failures>>

\* SetVerifyToken, SetResetToken: a new key; old links to that number are no
\* link any more.
SetToken(r, t) ==
    /\ req[r].op \in {"register", "token"} /\ Fresh(t)
    /\ key' = [key EXCEPT ![t] = [kind |-> req[r].kind, user |-> req[r].user, ttl |-> TTL[req[r].kind]]]
    /\ mailed' = {m \in mailed : m # t}
    /\ req' = [req EXCEPT ![r].op = IF req[r].op = "register" THEN "commit" ELSE "mail", ![r].token = t]
    /\ UNCHANGED <<account, verified, secret, cooling, failures>>

\* EnqueueEmail; for a registration the user's row with it.
EnqueueEmail(r) ==
    /\ req[r].op \in {"commit", "mail"}
    /\ account' = IF req[r].op = "commit" THEN account \cup {req[r].user} ELSE account
    /\ mailed' = mailed \cup {req[r].token}
    /\ End(r)
    /\ UNCHANGED <<verified, secret, key, cooling, failures>>

-----------------------------------------------------------------------------
(* Following a link *)

\* Mutant: GET, and the key stays.
SpentKept(t) == key

\* GETDEL: read and gone in one command.
Spent(t) == [key EXCEPT ![t] = NoKey]

\* ConsumeVerifyToken, ConsumeResetToken; each kind looks under its own prefix.
Consume(r, t) ==
    /\ req[r] = NoReq /\ t \in mailed /\ key[t] # NoKey
    /\ key' = Spent(t)
    /\ req' = [req EXCEPT ![r] = [op |-> "apply", kind |-> key[t].kind,
                                  user |-> key[t].user, token |-> t]]
    /\ UNCHANGED <<account, verified, secret, cooling, mailed, failures>>

\* Mutant: the test of is_verified the wrong way round.
NothingToDoYet(r) ==
    /\ req[r].op = "apply"
    /\ \/ req[r].user \notin account
       \/ req[r].kind = "verify" /\ req[r].user \notin verified
    /\ End(r)
    /\ UNCHANGED <<account, verified, secret, key, cooling, mailed, failures>>

\* GetUserByID finds no such user, or one who is verified already.
NothingToDo(r) ==
    /\ req[r].op = "apply"
    /\ \/ req[r].user \notin account
       \/ req[r].kind = "verify" /\ req[r].user \in verified
    /\ End(r)
    /\ UNCHANGED <<account, verified, secret, key, cooling, mailed, failures>>

VerifyEmail(r, u) ==
    /\ req[r].op = "apply" /\ req[r].kind = "verify" /\ req[r].user = u /\ u \in account \ verified
    /\ verified' = verified \cup {u} /\ End(r)
    /\ UNCHANGED <<account, secret, key, cooling, mailed, failures>>

\* Password, verification and sessions in one transaction.
ResetPassword(r, u) ==
    /\ req[r].op = "apply" /\ req[r].kind = "reset" /\ req[r].user = u /\ u \in account
    /\ secret' = [secret EXCEPT ![u] = req[r].token]
    /\ verified' = verified \cup {u} /\ End(r)
    /\ UNCHANGED <<account, key, cooling, mailed, failures>>

-----------------------------------------------------------------------------
(* Time and failure *)

\* An error or a crash ends a request where it is; a mail that is given up is
\* one such end of its request.
Fail(r) ==
    /\ req[r] # NoReq /\ failures < MaxFailures /\ failures' = failures + 1
    /\ End(r)
    /\ UNCHANGED <<account, verified, secret, key, cooling, mailed>>

Less(n) == IF n = 0 THEN 0 ELSE n - 1

\* A tick is hours: a request does not outlive the token it is about to mail.
Tick ==
    /\ \A r \in Requests : req[r].op \in {"commit", "mail"} => key[req[r].token].ttl # 1
    /\ key' = [t \in Tokens |-> IF key[t].ttl <= 1 THEN NoKey
                                ELSE [key[t] EXCEPT !.ttl = @ - 1]]
    /\ cooling' = [k \in Kinds |-> [u \in People |-> Less(cooling[k][u])]]
    /\ <<key, cooling>>' # <<key, cooling>>
    /\ UNCHANGED <<account, verified, secret, mailed, req, failures>>

\* What the server does once a request is in.
Serve(r) ==
    \/ Cool(r) \/ Lookup(r) \/ EnqueueEmail(r) \/ NothingToDo(r)
    \/ \E t \in Tokens : SetToken(r, t)
    \/ \E u \in People : VerifyEmail(r, u) \/ ResetPassword(r, u)

Next ==
    \/ \E r \in Requests : Serve(r) \/ Fail(r)
    \/ \E r \in Requests, u \in People :
          Register(r, u) \/ ResendVerificationEmail(r, u) \/ RequestPasswordReset(r, u)
    \/ \E r \in Requests, t \in Tokens : Consume(r, t)
    \/ Tick

\* The server goes on with a request and time passes.  Users are persistent:
\* they ask again while they can and follow a link that has arrived.
Fairness ==
    /\ WF_mailVars(Tick)
    /\ \A r \in Requests : WF_mailVars(Serve(r))
    /\ \A u \in People : SF_mailVars(\E r \in Requests : ResendVerificationEmail(r, u))
    /\ \A t \in Tokens : SF_mailVars(\E r \in Requests : Consume(r, t))

Spec == Init /\ [][Next]_mailVars /\ Fairness

-----------------------------------------------------------------------------
(* Properties *)

\* The requests that have spent token t and have yet to act, and what the two
\* stores together make of the token.
Holders(q, t) == {r \in Requests : q[r].op = "apply" /\ q[r].token = t}

PhaseOf(q, k, t) ==
    IF Holders(q, t) # {} THEN "redeemed" ELSE IF k[t] # NoKey THEN "usable" ELSE "unused"

OwnerOf(q, k, t) ==
    IF Holders(q, t) # {}
    THEN LET r == CHOOSE s \in Holders(q, t) : TRUE IN <<q[r].kind, q[r].user>>
    ELSE IF k[t] # NoKey THEN <<k[t].kind, k[t].user>> ELSE NoOne

Links == INSTANCE OneTimeLink WITH
    phase <- [t \in Tokens |-> PhaseOf(req, key, t)],
    owner <- [t \in Tokens |-> OwnerOf(req, key, t)]

\* The two stores together implement one-time links: GETDEL before the lookup
\* and the write, whatever requests, lapses and failures fall in between
\* (VerifyEmail, ResetPassword, ConsumeVerifyToken, ConsumeResetToken).
OneTime == Links!Spec

\* Who has an account gets verified in the end: a token spent for nothing and
\* the cooldown only delay it, as long as failures end (VerifyEmail,
\* ResendVerificationEmail).
VerifiedInTheEnd == \A u \in People : u \in account ~> u \in verified

-----------------------------------------------------------------------------
(* Why OneTime holds *)

Keys == [kind : Kinds \cup {"none"}, user : People \cup {NoOne}, ttl : Nat]

Ops == {"idle", "register", "commit", "cool", "lookup", "token", "mail", "apply"}

TypeOK ==
    /\ account \subseteq People /\ verified \subseteq account
    /\ secret \in [People -> Tokens \cup {NoOne}]
    /\ key \in [Tokens -> Keys]
    /\ mailed \subseteq Tokens
    /\ req \in [Requests -> [op : Ops, kind : Kinds \cup {"none"},
                             user : People \cup {NoOne}, token : Tokens \cup {NoOne}]]

\* A key has an owner and a life.
KeysOK == \A t \in Tokens : key[t] # NoKey =>
              key[t].kind \in Kinds /\ key[t].user \in People /\ key[t].ttl # 0

\* A request under way has a user; one that asks for a link may do so for the
\* account it found; one that has made a key is the one that made it.
RequestsOK == \A r \in Requests : req[r] # NoReq =>
    /\ req[r].op # "idle" /\ req[r].kind \in Kinds /\ req[r].user \in People
    /\ req[r].op \in {"token", "mail"} => req[r].user \in account
    /\ req[r].op \notin {"commit", "mail", "apply"} => req[r].token = NoOne
    /\ req[r].op \in {"commit", "mail"} =>
          /\ req[r].token \in Tokens /\ req[r].token \notin mailed
          /\ key[req[r].token] # NoKey /\ key[req[r].token].user = req[r].user

\* A token is with one request at most, and in no key once it was spent.
SpentOnce ==
    /\ \A r, s \in Requests : req[r].token # NoOne /\ req[r].token = req[s].token => r = s
    /\ \A r \in Requests : req[r].op = "apply" =>
          req[r].token \in Tokens /\ key[req[r].token] = NoKey

\* A link in a mailbox that still works is of an account whose registration
\* was committed (SendVerificationEmail, Register).
MailedIsCommitted ==
    \A t \in mailed : key[t] # NoKey => key[t].user \in account

\* The inductive invariant behind OneTime.
IndInv == TypeOK /\ KeysOK /\ RequestsOK /\ SpentOnce /\ MailedIsCommitted

=============================================================================
