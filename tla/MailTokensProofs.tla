-------------------------- MODULE MailTokensProofs --------------------------
(***************************************************************************)
(* Proofs about MailTokens: its inductive invariant, and that the two        *)
(* stores together implement OneTimeLink.                                    *)
(***************************************************************************)
EXTENDS MailTokens, TLAPS

-----------------------------------------------------------------------------
(* The inductive invariant *)

LEMMA InitInv == Init => IndInv
  <1>1. ASSUME Init PROVE TypeOK
    BY <1>1 DEF Init, TypeOK, Keys, Ops, NoKey, NoReq
  <1>2. ASSUME Init PROVE KeysOK
    BY <1>2 DEF Init, KeysOK
  <1>3. ASSUME Init PROVE RequestsOK
    BY <1>3 DEF Init, RequestsOK
  <1>4. ASSUME Init PROVE SpentOnce
    BY <1>4 DEF Init, SpentOnce, NoReq
  <1>5. ASSUME Init PROVE MailedIsCommitted
    BY <1>5 DEF Init, MailedIsCommitted
  <1> QED BY <1>1, <1>2, <1>3, <1>4, <1>5 DEF IndInv

\* A request begins, goes on or ends; the stores are as they were, or a user
\* becomes verified.
LEMMA BeginInv ==
    ASSUME IndInv, NEW r \in Requests, NEW u \in People,
           Register(r, u) \/ ResendVerificationEmail(r, u) \/ RequestPasswordReset(r, u)
    PROVE  IndInv'
  <1>1. PICK op \in {"register", "cool"}, k \in Kinds :
           req' = [req EXCEPT ![r] = [op |-> op, kind |-> k, user |-> u, token |-> NoOne]]
    BY DEF Register, ResendVerificationEmail, RequestPasswordReset, Begin, Kinds
  <1>2. UNCHANGED <<account, verified, secret, key, mailed>> /\ req[r] = NoReq
    BY DEF Register, ResendVerificationEmail, RequestPasswordReset, Begin
  <1>3. NoOne \notin Tokens BY MailAssumption
  <1>a. TypeOK' BY <1>1, <1>2 DEF IndInv, TypeOK, Ops
  <1>b. KeysOK' BY <1>2 DEF IndInv, KeysOK
  <1>c. RequestsOK' BY <1>1, <1>2 DEF IndInv, TypeOK, RequestsOK
  <1>d. SpentOnce' BY <1>1, <1>2, <1>3 DEF IndInv, TypeOK, SpentOnce
  <1>e. MailedIsCommitted' BY <1>2 DEF IndInv, MailedIsCommitted
  <1> QED BY <1>a, <1>b, <1>c, <1>d, <1>e DEF IndInv

LEMMA EndInv ==
    ASSUME IndInv, NEW r \in Requests, End(r), UNCHANGED <<account, key, mailed>>,
           verified' \subseteq account, secret' \in [People -> Tokens \cup {NoOne}]
    PROVE  IndInv'
  <1>3. NoOne \notin Tokens BY MailAssumption
  <1>a. TypeOK' BY DEF IndInv, TypeOK, Ops, End, NoReq
  <1>b. KeysOK' BY DEF IndInv, KeysOK
  <1>c. RequestsOK' BY DEF IndInv, TypeOK, RequestsOK, End
  <1>d. SpentOnce' BY <1>3 DEF IndInv, TypeOK, SpentOnce, End, NoReq
  <1>e. MailedIsCommitted' BY DEF IndInv, MailedIsCommitted
  <1> QED BY <1>a, <1>b, <1>c, <1>d, <1>e DEF IndInv

LEMMA CoolInv ==
    ASSUME IndInv, NEW r \in Requests, Cool(r) \/ Lookup(r)
    PROVE  IndInv'
  <1>0. UNCHANGED <<account, verified, secret, key, mailed>> BY DEF Cool, Lookup
  <1>1. CASE End(r) BY <1>0, <1>1, EndInv DEF IndInv, TypeOK
  <1>2. CASE \/ req[r].op = "cool" /\ To(r, "lookup")
             \/ req[r].op = "lookup" /\ To(r, "token") /\ req[r].user \in account
    <2>1. PICK op \in {"lookup", "token"} :
             /\ req' = [req EXCEPT ![r].op = op]
             /\ req[r].op \in {"cool", "lookup"} /\ (op = "token" => req[r].user \in account)
      BY <1>2 DEF To
    <2>2. req[r] # NoReq BY <2>1 DEF NoReq
    <2>a. TypeOK' BY <1>0, <2>1 DEF IndInv, TypeOK, Ops
    <2>b. KeysOK' BY <1>0 DEF IndInv, KeysOK
    <2>c. RequestsOK' BY <1>0, <2>1, <2>2 DEF IndInv, TypeOK, RequestsOK
    <2>d. SpentOnce' BY <1>0, <2>1 DEF IndInv, TypeOK, SpentOnce
    <2>e. MailedIsCommitted' BY <1>0 DEF IndInv, MailedIsCommitted
    <2> QED BY <2>a, <2>b, <2>c, <2>d, <2>e DEF IndInv
  <1> QED BY <1>1, <1>2 DEF Cool, Lookup

\* A new key: its number is in no other key, request or working link.
LEMMA SetTokenInv ==
    ASSUME IndInv, NEW r \in Requests, NEW t \in Tokens, SetToken(r, t)
    PROVE  IndInv'
  <1> DEFINE k == req[r].kind
             u == req[r].user
             next == IF req[r].op = "register" THEN "commit" ELSE "mail"
  <1>0. /\ UNCHANGED <<account, verified, secret>>
        /\ req[r].op \in {"register", "token"} /\ key[t] = NoKey
        /\ \A s \in Requests : req[s].token # t
        /\ key' = [key EXCEPT ![t] = [kind |-> k, user |-> u, ttl |-> TTL[k]]]
        /\ mailed' = {m \in mailed : m # t}
    BY DEF SetToken, Fresh
  <1>1. req[r] # NoReq /\ k \in Kinds /\ u \in People
    BY <1>0 DEF NoReq, IndInv, RequestsOK
  <1>2. TTL[k] \in Nat \ {0} /\ NoOne \notin People \cup Tokens
    BY <1>1, MailAssumption
  <1>3. /\ req' \in [Requests -> [op : Ops, kind : Kinds \cup {"none"},
                                  user : People \cup {NoOne}, token : Tokens \cup {NoOne}]]
        /\ req'[r] = [op |-> next, kind |-> k, user |-> u, token |-> t]
        /\ \A s \in Requests \ {r} : req'[s] = req[s]
    BY DEF SetToken, IndInv, TypeOK, Ops
  <1>4. /\ key' \in [Tokens -> Keys] /\ key'[t].user = u /\ key'[t] # NoKey
        /\ key'[t].kind \in Kinds /\ key'[t].ttl # 0
        /\ \A s \in Tokens \ {t} : key'[s] = key[s]
    BY <1>0, <1>1, <1>2 DEF IndInv, TypeOK, Keys, NoKey
  <1>a. TypeOK' BY <1>0, <1>3, <1>4 DEF IndInv, TypeOK
  <1>b. KeysOK' BY <1>1, <1>4 DEF IndInv, KeysOK
  <1>c. RequestsOK'
    <2>1. ASSUME NEW s \in Requests, req'[s] # NoReq, s # r PROVE RequestsOK!(s)'
      BY <1>0, <1>3, <1>4, <2>1 DEF IndInv, RequestsOK
    <2>2. /\ next # "idle" /\ k \in Kinds /\ u \in People
          /\ next = "mail" => u \in account
          /\ t \notin mailed'
      BY <1>0, <1>1 DEF IndInv, RequestsOK
    <2>3. ASSUME req'[r] # NoReq PROVE RequestsOK!(r)'
      BY <1>0, <1>3, <1>4, <2>2
    <2> QED BY <2>1, <2>3 DEF RequestsOK
  <1>d. SpentOnce' BY <1>0, <1>3, <1>4 DEF IndInv, SpentOnce
  <1>e. MailedIsCommitted' BY <1>0, <1>4 DEF IndInv, TypeOK, MailedIsCommitted
  <1> QED BY <1>a, <1>b, <1>c, <1>d, <1>e DEF IndInv

\* The mail and, for a registration, the row that owns its key.
LEMMA EnqueueInv ==
    ASSUME IndInv, NEW r \in Requests, EnqueueEmail(r)
    PROVE  IndInv'
  <1>0. /\ UNCHANGED <<verified, secret, key>> /\ req[r].op \in {"commit", "mail"}
        /\ account' = IF req[r].op = "commit" THEN account \cup {req[r].user} ELSE account
        /\ mailed' = mailed \cup {req[r].token}
        /\ req' = [req EXCEPT ![r] = NoReq] /\ NoOne \notin Tokens
    BY MailAssumption DEF EnqueueEmail, End
  <1>1. /\ req[r].user \in People /\ req[r].token \in Tokens
        /\ req[r].op = "mail" => req[r].user \in account
        /\ key[req[r].token].user = req[r].user
    BY <1>0 DEF IndInv, RequestsOK, NoReq
  <1>2. \A s \in Requests \ {r} : req'[s] = req[s] /\ req[s].token # req[r].token
    BY <1>0, <1>1 DEF IndInv, TypeOK, SpentOnce
  <1>a. TypeOK' BY <1>0, <1>1 DEF IndInv, TypeOK, Ops, NoReq
  <1>b. KeysOK' BY <1>0 DEF IndInv, KeysOK
  <1>c. RequestsOK' BY <1>0, <1>1, <1>2 DEF IndInv, TypeOK, RequestsOK
  <1>d. SpentOnce' BY <1>0, <1>1 DEF IndInv, TypeOK, SpentOnce, NoReq
  <1>e. MailedIsCommitted' BY <1>0, <1>1 DEF IndInv, MailedIsCommitted
  <1> QED BY <1>a, <1>b, <1>c, <1>d, <1>e DEF IndInv

\* GETDEL: the token leaves Redis and is with this request alone.
LEMMA ConsumeInv ==
    ASSUME IndInv, NEW r \in Requests, NEW t \in Tokens, Consume(r, t)
    PROVE  IndInv'
  <1> DEFINE k == key[t].kind
             u == key[t].user
  <1>0. /\ UNCHANGED <<account, verified, secret, mailed>>
        /\ t \in mailed /\ key[t] # NoKey
        /\ key' = [key EXCEPT ![t] = NoKey]
        /\ req' = [req EXCEPT ![r] = [op |-> "apply", kind |-> k, user |-> u, token |-> t]]
        /\ NoOne \notin Tokens
    BY MailAssumption DEF Consume, Spent
  <1>1. k \in Kinds /\ u \in People
    BY <1>0 DEF IndInv, KeysOK
  <1>2. \A s \in Requests : req[s].token # t
    <2> SUFFICES ASSUME NEW s \in Requests, req[s].token = t PROVE FALSE
      OBVIOUS
    <2>1. CASE req[s] = NoReq BY <1>0, <2>1 DEF NoReq
    <2>2. CASE req[s] # NoReq BY <1>0, <2>2 DEF IndInv, RequestsOK, SpentOnce
    <2> QED BY <2>1, <2>2
  <1>a. TypeOK' BY <1>0, <1>1 DEF IndInv, TypeOK, Ops, Keys, NoKey
  <1>b. KeysOK' BY <1>0 DEF IndInv, TypeOK, KeysOK
  <1>c. RequestsOK' BY <1>0, <1>1, <1>2 DEF IndInv, TypeOK, RequestsOK
  <1>d. SpentOnce' BY <1>0, <1>1, <1>2 DEF IndInv, TypeOK, SpentOnce
  <1>e. MailedIsCommitted' BY <1>0 DEF IndInv, TypeOK, MailedIsCommitted
  <1> QED BY <1>a, <1>b, <1>c, <1>d, <1>e DEF IndInv

\* Whoever acts on a spent token, or gives up, ends the request.
LEMMA ApplyInv ==
    ASSUME IndInv, NEW r \in Requests,
           \/ NothingToDo(r) \/ Fail(r)
           \/ \E u \in People : VerifyEmail(r, u) \/ ResetPassword(r, u)
    PROVE  IndInv'
  <1>1. CASE NothingToDo(r) \/ Fail(r)
    BY <1>1, EndInv DEF NothingToDo, Fail, IndInv, TypeOK
  <1>2. ASSUME NEW u \in People, VerifyEmail(r, u) PROVE IndInv'
    BY <1>2, EndInv DEF VerifyEmail, IndInv, TypeOK
  <1>3. ASSUME NEW u \in People, ResetPassword(r, u) PROVE IndInv'
    <2>1. req[r].token \in Tokens
      BY <1>3 DEF ResetPassword, IndInv, SpentOnce
    <2>2. /\ verified' \subseteq account
          /\ secret' \in [People -> Tokens \cup {NoOne}]
      BY <1>3, <2>1 DEF ResetPassword, IndInv, TypeOK
    <2> QED BY <1>3, <2>2, EndInv DEF ResetPassword
  <1> QED BY <1>1, <1>2, <1>3

\* The keys that lapse were nobody's about to be mailed.
LEMMA TickInv ==
    ASSUME IndInv, Tick
    PROVE  IndInv'
  <1>0. /\ UNCHANGED <<account, verified, secret, mailed, req>>
        /\ \A r \in Requests : req[r].op \in {"commit", "mail"} => key[req[r].token].ttl # 1
        /\ key' = [t \in Tokens |-> IF key[t].ttl <= 1 THEN NoKey
                                    ELSE [key[t] EXCEPT !.ttl = @ - 1]]
    BY DEF Tick
  <1>1. ASSUME NEW t \in Tokens PROVE key'[t] = NoKey \/
           /\ key[t] # NoKey /\ key'[t] = [key[t] EXCEPT !.ttl = key[t].ttl - 1]
           /\ key[t].ttl \in Nat /\ key[t].ttl - 1 \in Nat \ {0}
    BY <1>0 DEF IndInv, TypeOK, Keys, NoKey
  <1>2. key' \in [Tokens -> Keys]
    BY <1>0, <1>1 DEF IndInv, TypeOK, Keys, NoKey
  <1>3. ASSUME NEW t \in Tokens, key'[t] # NoKey
        PROVE  key[t] # NoKey /\ key'[t].user = key[t].user
               /\ key'[t].kind = key[t].kind /\ key'[t].ttl # 0
    BY <1>1, <1>3 DEF IndInv, TypeOK, Keys
  <1>4. ASSUME NEW t \in Tokens, key[t] # NoKey, key[t].ttl # 1
        PROVE  key'[t] # NoKey
    <2>1. key[t].ttl \in Nat /\ key[t].ttl # 0 /\ key[t] \in Keys
      BY <1>4 DEF IndInv, TypeOK, KeysOK, Keys
    <2>2. key'[t].ttl = key[t].ttl - 1
      BY <1>0, <1>4, <2>1 DEF Keys
    <2>3. key'[t].ttl # 0
      BY <1>4, <2>1, <2>2
    <2> QED BY <2>3 DEF NoKey
  <1>a. TypeOK' BY <1>0, <1>2 DEF IndInv, TypeOK
  <1>b. KeysOK' BY <1>3 DEF IndInv, KeysOK
  <1>c. RequestsOK' BY <1>0, <1>3, <1>4 DEF IndInv, RequestsOK
  <1>d. SpentOnce' BY <1>0, <1>3 DEF IndInv, SpentOnce
  <1>e. MailedIsCommitted' BY <1>0, <1>3 DEF IndInv, TypeOK, MailedIsCommitted
  <1> QED BY <1>a, <1>b, <1>c, <1>d, <1>e DEF IndInv

LEMMA StepInv == IndInv /\ [Next]_mailVars => IndInv'
  <1> SUFFICES ASSUME IndInv, [Next]_mailVars PROVE IndInv'
    OBVIOUS
  <1>1. ASSUME NEW r \in Requests, Serve(r) PROVE IndInv'
    BY <1>1, CoolInv, EnqueueInv, SetTokenInv, ApplyInv DEF Serve
  <1>2. ASSUME NEW r \in Requests, NEW u \in People,
               Register(r, u) \/ ResendVerificationEmail(r, u) \/ RequestPasswordReset(r, u)
        PROVE IndInv'
    BY <1>2, BeginInv
  <1>3. CASE UNCHANGED mailVars
    BY <1>3 DEF mailVars, IndInv, TypeOK, KeysOK, RequestsOK, SpentOnce, MailedIsCommitted
  <1>4. ASSUME NEW r \in Requests, Fail(r) PROVE IndInv'
    BY <1>4, ApplyInv
  <1>5. ASSUME NEW r \in Requests, NEW t \in Tokens, Consume(r, t) PROVE IndInv'
    BY <1>5, ConsumeInv
  <1>6. CASE Tick BY <1>6, TickInv
  <1> QED BY <1>1, <1>2, <1>3, <1>4, <1>5, <1>6 DEF Next

\* A token is in Redis or with one request, never both, and a working link in
\* a mailbox is of a committed account (ConsumeVerifyToken, Register).
THEOREM Invariance == Spec => []IndInv
  BY InitInv, StepInv, PTL DEF Spec

-----------------------------------------------------------------------------
(* The refinement *)

\* What a token's phase and owner are when a request r has spent it, when none
\* has, and when neither changes.
LEMMA Redeemed ==
    ASSUME NEW q, NEW k, NEW t, NEW r \in Requests, q[r].op = "apply", q[r].token = t,
           \A s \in Requests : q[s].op = "apply" /\ q[s].token = t => s = r
    PROVE  PhaseOf(q, k, t) = "redeemed" /\ OwnerOf(q, k, t) = <<q[r].kind, q[r].user>>
  <1>1. Holders(q, t) = {r} BY DEF Holders
  <1>2. (CHOOSE s \in Holders(q, t) : TRUE) = r BY <1>1
  <1> QED BY <1>1, <1>2 DEF PhaseOf, OwnerOf

LEMMA NotRedeemed ==
    ASSUME NEW q, NEW k, NEW t,
           \A s \in Requests : ~(q[s].op = "apply" /\ q[s].token = t)
    PROVE  /\ PhaseOf(q, k, t) = IF k[t] # NoKey THEN "usable" ELSE "unused"
           /\ OwnerOf(q, k, t) = IF k[t] # NoKey THEN <<k[t].kind, k[t].user>> ELSE NoOne
  <1>1. Holders(q, t) = {} BY DEF Holders
  <1> QED BY <1>1 DEF PhaseOf, OwnerOf

LEMMA Unchanged ==
    ASSUME NEW q, NEW k, NEW p, NEW j, NEW t,
           \A s \in Requests : (q[s].op = "apply" /\ q[s].token = t) \/
                               (p[s].op = "apply" /\ p[s].token = t) => p[s] = q[s],
           k[t] # NoKey <=> j[t] # NoKey,
           k[t].kind = j[t].kind, k[t].user = j[t].user
    PROVE  PhaseOf(q, k, t) = PhaseOf(p, j, t) /\ OwnerOf(q, k, t) = OwnerOf(p, j, t)
  <1>1. Holders(q, t) = Holders(p, t) BY DEF Holders
  <1>2. CASE Holders(q, t) = {} BY <1>1, <1>2 DEF PhaseOf, OwnerOf
  <1>3. CASE Holders(q, t) # {}
    <2> DEFINE r == CHOOSE s \in Holders(q, t) : TRUE
    <2>1. r \in Holders(q, t) BY <1>3
    <2>2. q[r] = p[r] BY <2>1 DEF Holders
    <2> QED BY <1>1, <1>3, <2>2 DEF PhaseOf, OwnerOf
  <1> QED BY <1>2, <1>3

\* The same of a step.
Phases == [t \in Tokens |-> PhaseOf(req, key, t)]
Owners == [t \in Tokens |-> OwnerOf(req, key, t)]

LEMMA PrimeFacts ==
    /\ Phases' = [t \in Tokens |-> PhaseOf(req', key', t)]
    /\ Owners' = [t \in Tokens |-> OwnerOf(req', key', t)]
  BY DEF Phases, Owners, PhaseOf, OwnerOf, Holders

LEMMA LinkFacts ==
    /\ \A t \in Tokens, k \in Kinds, u \in People :
          /\ Phases[t] = "unused"
          /\ Phases' = [Phases EXCEPT ![t] = "usable"]
          /\ Owners' = [Owners EXCEPT ![t] = <<k, u>>]
          /\ UNCHANGED <<verified, secret>>
          => Links!Next
    /\ \A t \in Tokens :
          /\ Phases[t] = "usable" /\ Phases' = [Phases EXCEPT ![t] = "redeemed"]
          /\ UNCHANGED <<Owners, verified, secret>>
          => Links!Next
    /\ \A t \in Tokens, u \in People :
          /\ Phases[t] = "redeemed"
          /\ Phases' = [Phases EXCEPT ![t] = "unused"]
          /\ Owners' = [Owners EXCEPT ![t] = NoOne]
          /\ \/ /\ Owners[t] = <<"verify", u>>
                /\ verified' = verified \cup {u} /\ UNCHANGED secret
             \/ /\ Owners[t] = <<"reset", u>>
                /\ verified' = verified \cup {u} /\ secret' = [secret EXCEPT ![u] = t]
          => Links!Next
    /\ \A T \in SUBSET Tokens :
          /\ Phases' = [t \in Tokens |-> IF t \in T THEN "unused" ELSE Phases[t]]
          /\ Owners' = [t \in Tokens |-> IF t \in T THEN NoOne ELSE Owners[t]]
          /\ UNCHANGED <<verified, secret>>
          => Links!Next
    /\ UNCHANGED <<Phases, Owners, verified, secret>> => UNCHANGED Links!linkVars
  BY DEF Links!Next, Links!Issue, Links!Redeem, Links!Apply, Links!Void, Links!linkVars,
         Phases, Owners, Kinds, Links!Kinds

\* A request that has spent no token moves.
LEMMA SameLinks ==
    ASSUME IndInv, NEW r \in Requests, UNCHANGED <<key, verified, secret>>,
           \A s \in Requests \ {r} : req'[s] = req[s],
           req[r].op # "apply", req'[r].op # "apply"
    PROVE  UNCHANGED Links!linkVars
  <1>1. ASSUME NEW t \in Tokens
        PROVE  PhaseOf(req, key, t) = PhaseOf(req', key', t)
               /\ OwnerOf(req, key, t) = OwnerOf(req', key', t)
    BY Unchanged
  <1>2. UNCHANGED <<Phases, Owners>>
    BY <1>1, PrimeFacts DEF Phases, Owners
  <1> QED BY <1>2, LinkFacts

LEMMA AskLinks ==
    ASSUME IndInv, NEW r \in Requests,
           \/ \E u \in People : Register(r, u) \/ ResendVerificationEmail(r, u)
                                \/ RequestPasswordReset(r, u)
           \/ Cool(r) \/ Lookup(r) \/ EnqueueEmail(r)
           \/ Fail(r) /\ req[r].op # "apply"
    PROVE  UNCHANGED Links!linkVars
  <1>1. /\ UNCHANGED <<key, verified, secret>>
        /\ req[r].op # "apply"
    BY DEF Register, ResendVerificationEmail, RequestPasswordReset, Begin, NoReq,
           Cool, Lookup, EnqueueEmail, Fail
  <1>2. PICK q \in {NoReq, [req[r] EXCEPT !.op = "lookup"], [req[r] EXCEPT !.op = "token"]}
                   \cup {[op |-> op, kind |-> k, user |-> u, token |-> NoOne] :
                           op \in {"register", "cool"}, k \in Kinds, u \in People} :
           req' = [req EXCEPT ![r] = q]
    BY DEF Register, ResendVerificationEmail, RequestPasswordReset, Begin, Kinds,
           Cool, Lookup, EnqueueEmail, Fail, End, To
  <1>3. q.op # "apply"
    BY <1>2 DEF NoReq, IndInv, TypeOK
  <1>4. req'[r].op # "apply" /\ \A s \in Requests \ {r} : req'[s] = req[s]
    BY <1>2, <1>3 DEF IndInv, TypeOK
  <1> QED BY <1>1, <1>4, SameLinks

\* SetToken issues the link.
LEMMA IssueLinks ==
    ASSUME IndInv, NEW r \in Requests, NEW t \in Tokens, SetToken(r, t)
    PROVE  Links!Next
  <1> DEFINE k == req[r].kind
             u == req[r].user
             next == IF req[r].op = "register" THEN "commit" ELSE "mail"
  <1>0. /\ UNCHANGED <<verified, secret>>
        /\ req[r].op \in {"register", "token"} /\ key[t] = NoKey
        /\ key' = [key EXCEPT ![t] = [kind |-> k, user |-> u, ttl |-> TTL[k]]]
    BY DEF SetToken, Fresh
  <1>a. \A s \in Requests : req[s].token # t
    BY DEF SetToken, Fresh
  <1>1. k \in Kinds /\ u \in People
    BY <1>0 DEF NoReq, IndInv, RequestsOK
  <1>2. /\ req[r].op # "apply" /\ req'[r].op # "apply"
        /\ \A s \in Requests \ {r} : req'[s] = req[s]
    BY DEF SetToken, IndInv, TypeOK
  <1>3. /\ key'[t] # NoKey /\ key'[t].kind = k /\ key'[t].user = u
        /\ \A s \in Tokens \ {t} : key'[s] = key[s]
    BY <1>0, <1>1 DEF IndInv, TypeOK, NoKey, Kinds
  <1>4. ASSUME NEW s \in Tokens \ {t}
        PROVE  PhaseOf(req, key, s) = PhaseOf(req', key', s)
               /\ OwnerOf(req, key, s) = OwnerOf(req', key', s)
    <2>1. \A q \in Requests : (req[q].op = "apply" /\ req[q].token = s) \/
                              (req'[q].op = "apply" /\ req'[q].token = s) => req'[q] = req[q]
      BY <1>2
    <2>2. key[s] = key'[s] BY <1>3
    <2> QED BY <2>1, <2>2, Unchanged
  <1>5. PhaseOf(req, key, t) = "unused"
    BY <1>0, <1>a, NotRedeemed
  <1>6. PhaseOf(req', key', t) = "usable" /\ OwnerOf(req', key', t) = <<k, u>>
    <2>1. \A s \in Requests : ~(req'[s].op = "apply" /\ req'[s].token = t)
      BY <1>2, <1>a
    <2> QED BY <2>1, <1>3, NotRedeemed
  <1>7. /\ Phases[t] = "unused"
        /\ Phases' = [Phases EXCEPT ![t] = "usable"]
        /\ Owners' = [Owners EXCEPT ![t] = <<k, u>>]
    BY <1>4, <1>5, <1>6, PrimeFacts DEF Phases, Owners
  <1> QED BY <1>0, <1>1, <1>7, LinkFacts

\* Consume redeems it.
LEMMA RedeemLinks ==
    ASSUME IndInv, NEW r \in Requests, NEW t \in Tokens, Consume(r, t)
    PROVE  Links!Next
  <1> DEFINE k == key[t].kind
             u == key[t].user
  <1>0. /\ UNCHANGED <<verified, secret>> /\ req[r].op # "apply" /\ key[t] # NoKey
        /\ \A s \in Tokens \ {t} : key'[s] = key[s]
    BY DEF Consume, Spent, NoReq, IndInv, TypeOK
  <1>1. /\ req'[r].op = "apply" /\ req'[r].kind = k /\ req'[r].user = u /\ req'[r].token = t
        /\ \A s \in Requests \ {r} : req'[s] = req[s]
    BY DEF Consume, IndInv, TypeOK
  <1>2. \A s \in Requests : ~(req[s].op = "apply" /\ req[s].token = t)
    BY <1>0 DEF IndInv, SpentOnce
  <1>3. ASSUME NEW s \in Tokens \ {t}
        PROVE  PhaseOf(req, key, s) = PhaseOf(req', key', s)
               /\ OwnerOf(req, key, s) = OwnerOf(req', key', s)
    <2>1. \A q \in Requests : (req[q].op = "apply" /\ req[q].token = s) \/
                              (req'[q].op = "apply" /\ req'[q].token = s) => req'[q] = req[q]
      BY <1>0, <1>1
    <2>2. key[s] = key'[s] BY <1>0
    <2> QED BY <2>1, <2>2, Unchanged
  <1>4. PhaseOf(req, key, t) = "usable" /\ OwnerOf(req, key, t) = <<k, u>>
    BY <1>0, <1>2, NotRedeemed
  <1>5. PhaseOf(req', key', t) = "redeemed" /\ OwnerOf(req', key', t) = <<k, u>>
    <2>1. \A s \in Requests : req'[s].op = "apply" /\ req'[s].token = t => s = r
      BY <1>1, <1>2
    <2> QED BY <2>1, <1>1, Redeemed
  <1>6. /\ Phases[t] = "usable" /\ Phases' = [Phases EXCEPT ![t] = "redeemed"]
        /\ UNCHANGED Owners
    BY <1>3, <1>4, <1>5, PrimeFacts DEF Phases, Owners
  <1> QED BY <1>0, <1>6, LinkFacts

\* Ending the request that spent it leaves the token to be issued again.
LEMMA EndLinks ==
    ASSUME IndInv, NEW r \in Requests, req[r].op = "apply", End(r), UNCHANGED key
    PROVE  LET t == req[r].token IN
           /\ t \in Tokens /\ Phases[t] = "redeemed"
           /\ Owners[t] = <<req[r].kind, req[r].user>>
           /\ Phases' = [Phases EXCEPT ![t] = "unused"]
           /\ Owners' = [Owners EXCEPT ![t] = NoOne]
  <1> DEFINE t == req[r].token
  <1>0. t \in Tokens /\ key[t] = NoKey /\ NoOne \notin Tokens
    BY MailAssumption DEF IndInv, SpentOnce
  <1>1. /\ req'[r].op # "apply"
        /\ \A s \in Requests \ {r} : req'[s] = req[s] /\ req[s].token # t
    BY <1>0 DEF End, NoReq, IndInv, TypeOK, SpentOnce
  <1>2. ASSUME NEW s \in Tokens \ {t}
        PROVE  PhaseOf(req, key, s) = PhaseOf(req', key', s)
               /\ OwnerOf(req, key, s) = OwnerOf(req', key', s)
    BY <1>1, Unchanged
  <1>3. PhaseOf(req, key, t) = "redeemed"
        /\ OwnerOf(req, key, t) = <<req[r].kind, req[r].user>>
    BY <1>1, Redeemed
  <1>4. PhaseOf(req', key', t) = "unused" /\ OwnerOf(req', key', t) = NoOne
    BY <1>0, <1>1, NotRedeemed
  <1> QED BY <1>0, <1>2, <1>3, <1>4, PrimeFacts DEF Phases, Owners

\* The effect, or none.
LEMMA ApplyLinks ==
    ASSUME IndInv, NEW r \in Requests, req[r].op = "apply",
           \/ NothingToDo(r) \/ Fail(r)
           \/ \E u \in People : VerifyEmail(r, u) \/ ResetPassword(r, u)
    PROVE  Links!Next
  <1> DEFINE t == req[r].token
  <1>0. req[r].op = "apply" /\ End(r) /\ UNCHANGED key
    BY DEF NothingToDo, Fail, VerifyEmail, ResetPassword
  <1>1. /\ t \in Tokens /\ Phases[t] = "redeemed"
        /\ Owners[t] = <<req[r].kind, req[r].user>>
        /\ Phases' = [Phases EXCEPT ![t] = "unused"]
        /\ Owners' = [Owners EXCEPT ![t] = NoOne]
    BY <1>0, EndLinks
  <1>2. CASE NothingToDo(r) \/ Fail(r)
    <2> DEFINE T == {t}
    <2>1. /\ Phases' = [s \in Tokens |-> IF s \in T THEN "unused" ELSE Phases[s]]
          /\ Owners' = [s \in Tokens |-> IF s \in T THEN NoOne ELSE Owners[s]]
      BY <1>1 DEF Phases, Owners
    <2>2. UNCHANGED <<verified, secret>> BY <1>2 DEF NothingToDo, Fail
    <2>3. T \in SUBSET Tokens BY <1>1
    <2> HIDE DEF T
    <2> QED BY <2>1, <2>2, <2>3, LinkFacts
  <1>3. ASSUME NEW u \in People, VerifyEmail(r, u) PROVE Links!Next
    <2>1. /\ Owners[t] = <<"verify", u>>
          /\ verified' = verified \cup {u} /\ UNCHANGED secret
      BY <1>1, <1>3 DEF VerifyEmail
    <2> QED BY <1>1, <2>1, LinkFacts
  <1>4. ASSUME NEW u \in People, ResetPassword(r, u) PROVE Links!Next
    <2>1. /\ Owners[t] = <<"reset", u>>
          /\ verified' = verified \cup {u} /\ secret' = [secret EXCEPT ![u] = t]
      BY <1>1, <1>4 DEF ResetPassword
    <2> QED BY <1>1, <2>1, LinkFacts
  <1> QED BY <1>2, <1>3, <1>4

\* The tokens whose time is up lapse together.
LEMMA LapseLinks ==
    ASSUME IndInv, Tick
    PROVE  Links!Next
  <1> DEFINE T == {t \in Tokens : key[t] # NoKey /\ key'[t] = NoKey}
  <1>0. /\ UNCHANGED <<verified, secret, req>>
        /\ key' = [t \in Tokens |-> IF key[t].ttl <= 1 THEN NoKey
                                    ELSE [key[t] EXCEPT !.ttl = @ - 1]]
    BY DEF Tick
  <1>1. ASSUME NEW t \in T
        PROVE  /\ PhaseOf(req', key', t) = "unused" /\ OwnerOf(req', key', t) = NoOne
    <2>1. \A s \in Requests : ~(req'[s].op = "apply" /\ req'[s].token = t)
      BY <1>0 DEF IndInv, SpentOnce
    <2> QED BY <2>1, NotRedeemed
  <1>2. ASSUME NEW t \in Tokens \ T
        PROVE  PhaseOf(req, key, t) = PhaseOf(req', key', t)
               /\ OwnerOf(req, key, t) = OwnerOf(req', key', t)
    <2>1. /\ key[t] # NoKey <=> key'[t] # NoKey
          /\ key[t].kind = key'[t].kind /\ key[t].user = key'[t].user
      BY <1>0 DEF IndInv, TypeOK, Keys, NoKey
    <2>2. \A q \in Requests : req'[q] = req[q] BY <1>0
    <2> QED BY <2>1, <2>2, Unchanged
  <1>3. /\ Phases' = [t \in Tokens |-> IF t \in T THEN "unused" ELSE Phases[t]]
        /\ Owners' = [t \in Tokens |-> IF t \in T THEN NoOne ELSE Owners[t]]
    BY <1>1, <1>2, PrimeFacts DEF Phases, Owners
  <1>4. T \in SUBSET Tokens /\ UNCHANGED <<verified, secret>> BY <1>0
  <1> HIDE DEF T
  <1> QED BY <1>3, <1>4, LinkFacts

LEMMA LinkStep == IndInv /\ [Next]_mailVars => [Links!Next]_(Links!linkVars)
  <1> SUFFICES ASSUME IndInv, [Next]_mailVars PROVE Links!Next \/ UNCHANGED Links!linkVars
    OBVIOUS
  <1>1. ASSUME NEW r \in Requests, Serve(r) \/ Fail(r) PROVE Links!Next \/ UNCHANGED Links!linkVars
    <2>1. CASE \E t \in Tokens : SetToken(r, t)
      BY <2>1, IssueLinks
    <2>2. CASE Cool(r) \/ Lookup(r) \/ EnqueueEmail(r)
      BY <2>2, AskLinks
    <2>3. CASE NothingToDo(r)
      BY <2>3, ApplyLinks DEF NothingToDo
    <2>4. ASSUME NEW u \in People, VerifyEmail(r, u) \/ ResetPassword(r, u)
          PROVE  Links!Next \/ UNCHANGED Links!linkVars
      BY <2>4, ApplyLinks DEF VerifyEmail, ResetPassword
    <2>5. CASE Fail(r) /\ req[r].op = "apply"
      BY <2>5, ApplyLinks
    <2>6. CASE Fail(r) /\ req[r].op # "apply"
      BY <2>6, AskLinks
    <2> QED BY <1>1, <2>1, <2>2, <2>3, <2>4, <2>5, <2>6 DEF Serve
  <1>2. ASSUME NEW r \in Requests, NEW u \in People,
               Register(r, u) \/ ResendVerificationEmail(r, u) \/ RequestPasswordReset(r, u)
        PROVE Links!Next \/ UNCHANGED Links!linkVars
    BY <1>2, AskLinks
  <1>3. ASSUME NEW r \in Requests, NEW t \in Tokens, Consume(r, t)
        PROVE Links!Next \/ UNCHANGED Links!linkVars
    BY <1>3, RedeemLinks
  <1>4. CASE Tick BY <1>4, LapseLinks
  <1>5. CASE UNCHANGED mailVars
    <2>1. UNCHANGED <<Phases, Owners, verified, secret>>
      BY <1>5, PrimeFacts DEF mailVars, Phases, Owners
    <2> QED BY <2>1, LinkFacts
  <1> QED BY <1>1, <1>2, <1>3, <1>4, <1>5 DEF Next

LEMMA LinkInit == Init => Links!Init
  <1> SUFFICES ASSUME Init PROVE Links!Init
    OBVIOUS
  <1>1. ASSUME NEW t \in Tokens
        PROVE  PhaseOf(req, key, t) = "unused" /\ OwnerOf(req, key, t) = NoOne
    <2>1. \A s \in Requests : ~(req[s].op = "apply" /\ req[s].token = t)
      BY DEF Init, NoReq
    <2>2. key[t] = NoKey BY DEF Init
    <2> QED BY <2>1, <2>2, NotRedeemed
  <1> QED BY <1>1 DEF Init, Links!Init

\* The two stores together implement one-time links, for any accounts, tokens
\* and requests, and any times to live (VerifyEmail, ResetPassword,
\* ConsumeVerifyToken, ConsumeResetToken).
THEOREM Implements == Spec => OneTime
  BY Invariance, LinkInit, LinkStep, PTL DEF Spec, OneTime, Links!Spec

=============================================================================
