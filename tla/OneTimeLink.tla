---------------------------- MODULE OneTimeLink ----------------------------
(***************************************************************************)
(* What a mailed link promises: it belongs to one account, it works once,   *)
(* and an account is verified, or its password changed, by redeeming a link *)
(* of its own and in no other way.                                          *)
(***************************************************************************)
CONSTANTS People, Tokens, NoOne

VARIABLES
    phase,      \* a link is unused, usable or redeemed
    owner,      \* the account it was issued to, and for what
    verified,   \* accounts whose address is verified
    secret      \* the link that set an account's password last

linkVars == <<phase, owner, verified, secret>>

Kinds == {"verify", "reset"}

Init ==
    /\ phase = [t \in Tokens |-> "unused"]
    /\ owner = [t \in Tokens |-> NoOne]
    /\ verified = {}
    /\ secret = [u \in People |-> NoOne]

Issue(t, k, u) ==
    /\ phase[t] = "unused"
    /\ phase' = [phase EXCEPT ![t] = "usable"]
    /\ owner' = [owner EXCEPT ![t] = <<k, u>>]
    /\ UNCHANGED <<verified, secret>>

Redeem(t) ==
    /\ phase[t] = "usable" /\ phase' = [phase EXCEPT ![t] = "redeemed"]
    /\ UNCHANGED <<owner, verified, secret>>

\* The effect, on the account the link names.
Apply(t) ==
    /\ phase[t] = "redeemed"
    /\ phase' = [phase EXCEPT ![t] = "unused"] /\ owner' = [owner EXCEPT ![t] = NoOne]
    /\ \E u \in People :
          \/ /\ owner[t] = <<"verify", u>>
             /\ verified' = verified \cup {u} /\ UNCHANGED secret
          \/ /\ owner[t] = <<"reset", u>>
             /\ verified' = verified \cup {u} /\ secret' = [secret EXCEPT ![u] = t]

\* Links lapse, several at a time, or are redeemed for nothing.
Void(T) ==
    /\ phase' = [t \in Tokens |-> IF t \in T THEN "unused" ELSE phase[t]]
    /\ owner' = [t \in Tokens |-> IF t \in T THEN NoOne ELSE owner[t]]
    /\ UNCHANGED <<verified, secret>>

Next ==
    \/ \E t \in Tokens, k \in Kinds, u \in People : Issue(t, k, u)
    \/ \E t \in Tokens : Redeem(t) \/ Apply(t)
    \/ \E T \in SUBSET Tokens : Void(T)

Spec == Init /\ [][Next]_linkVars

=============================================================================
