----------------------------- MODULE Permissions -----------------------------
(***************************************************************************)
(* Actions and what grants them.  The action "resource:verb" is the pair   *)
(* <<resource, verb>>; a string without a colon has the verb None, so the  *)
(* bare wildcard "*" is <<"*", None>> and "resource:*" <<resource, "*">>.  *)
(***************************************************************************)

None == "none"

Star == <<"*", None>>

\* "*", the action itself, or "<resource>:*".
ActionMatches(granted, action) ==
    \E a \in granted : a = Star \/ a = action \/ a = <<action[1], "*">>

\* A principal: its role in the organization and the actions its roles grant.
Allows(p, action) == p.role = "owner" \/ ActionMatches(p.actions, action)

NoScopes == {<<None, None>>}   \* SQL NULL: the key adds no restriction

Narrow(p, scopes) ==
    IF scopes = NoScopes THEN p
    ELSE [role |-> None, actions |-> {s \in scopes : Allows(p, s)}]

=============================================================================
