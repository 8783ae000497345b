---------------------------- MODULE MCGmailArchive ----------------------------
(* GmailArchive for TLC: executors are interchangeable, and so are recoverers. *)
EXTENDS GmailArchive, TLC

Interchangeable == Permutations(Executors) \cup Permutations(Recoverers)
===============================================================================
