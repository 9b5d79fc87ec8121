---------------------------- MODULE MCAccessGate ----------------------------
(* Instances of AccessGate for TLC. *)
EXTENDS AccessGate, TLC

Symmetry == Permutations(Access) \cup Permutations(Requests)

=============================================================================
