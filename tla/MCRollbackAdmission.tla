------------------------- MODULE MCRollbackAdmission -------------------------
(* Instances of RollbackAdmission for TLC. *)
EXTENDS RollbackAdmission, TLC

CallerSymmetry == Permutations(Callers) \cup Permutations(Actions)
=============================================================================
