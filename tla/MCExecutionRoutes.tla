-------------------------- MODULE MCExecutionRoutes --------------------------
(* Instances of ExecutionRoutes for TLC. *)
EXTENDS ExecutionInvariants, TLC

RequestSymmetry == Permutations(Requests)
=============================================================================
