-------------------------- MODULE MCMemoryActionLoop --------------------------
(* Instances of MemoryActionLoop for TLC. *)
EXTENDS MemoryActionLoop, TLC
=============================================================================
