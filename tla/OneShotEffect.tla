---------------------------- MODULE OneShotEffect ----------------------------
(***************************************************************************)
(* What the execution ledger promises, and nothing of how: for every       *)
(* decision one request at most is handed the authority to act, only that  *)
(* request acts, and it acts once.  Purging the account takes the          *)
(* authority back but never the memory of what was done.                   *)
(***************************************************************************)
CONSTANTS Decisions, Requests, None

VARIABLES
    holder,     \* the request that holds the authority of a decision, or None
    acted       \* the requests that called an adapter for a decision

effects == <<holder, acted>>

Init ==
    /\ holder = [d \in Decisions |-> None]
    /\ acted = [d \in Decisions |-> {}]

Grant(d, r) ==
    /\ holder[d] = None
    /\ acted[d] = {}
    /\ holder' = [holder EXCEPT ![d] = r]
    /\ UNCHANGED acted

Act(d) ==
    /\ holder[d] # None
    /\ acted[d] = {}
    /\ acted' = [acted EXCEPT ![d] = {holder[d]}]
    /\ UNCHANGED holder

Forget ==
    /\ holder' = [d \in Decisions |-> None]
    /\ UNCHANGED acted

Next ==
    \/ \E d \in Decisions : Act(d) \/ \E r \in Requests : Grant(d, r)
    \/ Forget

Spec == Init /\ [][Next]_effects
=============================================================================
