------------------------------ MODULE MCWatchRun ------------------------------
(* Instances of WatchRun for TLC. *)
EXTENDS WatchRun, TLC
=============================================================================
