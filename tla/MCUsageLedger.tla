--------------------------- MODULE MCUsageLedger ---------------------------
(* Calls are interchangeable. *)
EXTENDS UsageLedger, TLC

Symmetry == Permutations(Calls) \cup Permutations(Runs)
=============================================================================
