------------------------------ MODULE MCStepUp ------------------------------
(* Instances of StepUp for TLC. *)
EXTENDS StepUp, TLC

Symmetry == Permutations(Submissions)

=============================================================================
