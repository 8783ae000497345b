-------------------------- MODULE MCOpportunityQueue --------------------------
(* Instances of OpportunityQueue for TLC. *)
EXTENDS OpportunityQueue
=============================================================================
