-------------------------- MODULE MCAuthSessions --------------------------
(* Finite instances of AuthSessions for TLC. *)
EXTENDS AuthSessions, TLC

Symmetry ==
    Permutations(Tokens) \cup Permutations(Families)
        \cup Permutations(Requests) \cup Permutations(Passwords)

\* Bound: the rows that pass either limit of age while they are in the table.
FewRowsAge == Cardinality(expired) <= 1 /\ Cardinality(aged) <= 1

=============================================================================
