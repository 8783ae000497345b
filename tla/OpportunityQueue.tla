--------------------------- MODULE OpportunityQueue ---------------------------
(***************************************************************************)
(* Which of an owner's opportunities the memory action loop takes up, and   *)
(* when: the worker's six-hour tick (index.ts), the batch of one owner      *)
(* (runMemoryActionLoopJob) and the ranked, limited claim of                *)
(* memory-action-opportunity-repository.ts.  What is done with one claimed  *)
(* opportunity is in MemoryActionLoop; here only the status it ends with    *)
(* counts.                                                                  *)
(*                                                                          *)
(* The six hours and the 24 hours are not measured against each other: a    *)
(* tick may be late by any time (the computer is off, the previous tick is  *)
(* still in flight), so any number of rows may have come due again by then. *)
(***************************************************************************)
EXTENDS Naturals, Sequences, FiniteSets, SequencesExt

CONSTANTS
    Opportunities,
    ClaimLimit,     \* maxAttemptsPerUser
    MaxSuggestions, \* maxSuggestionsPerUser
    MaxFaults       \* bound: exceptions and deaths of the worker explored

ASSUME QueueConstants ==
    /\ IsFiniteSet(Opportunities)
    /\ ClaimLimit \in Nat \ {0}
    /\ MaxSuggestions \in Nat
    /\ MaxFaults \in Nat

VARIABLES
    status,     \* memory_action_opportunities.status
    due,        \* row by row: last_attempted_at is NULL or a day ago
    order,      \* the rows by novelty, confidence and last suggestion
    job,        \* the owner's turn of the job in flight: idle, suggest, process
    bundle,     \* suggestions of this turn not yet stored
    batch,      \* rows claimed and not yet processed
    elapsed,    \* six hours since lastMemoryActionLoopAt
    faults

vars == <<status, due, order, job, bundle, batch, elapsed, faults>>

\* RETRYABLE_STATUSES; blocked is blocked_by_policy or learning_needed.  The
\* other statuses are none, queued_approval and final.
Retryable == {"suggested", "blocked"}

Init ==
    /\ status = [o \in Opportunities |-> "none"]
    /\ due = [o \in Opportunities |-> TRUE]
    /\ order \in SetToSeqs(Opportunities)
    /\ job = "idle"
    /\ bundle = 0
    /\ batch = {}
    /\ elapsed = TRUE
    /\ faults = 0

-----------------------------------------------------------------------------
(* The tick.                                                               *)

\* Single flight, six hours after the last start.
Tick ==
    /\ job = "idle" /\ elapsed
    /\ job' = "suggest"
    /\ bundle' \in 0..MaxSuggestions
    /\ elapsed' = FALSE
    /\ UNCHANGED <<status, due, order, batch, faults>>

\* The order after o's rank has changed: it goes anywhere, the rest stay.
Reranked(o) ==
    LET rest == SelectSeq(order, LAMBDA x : x # o) IN
    {InsertAt(rest, p, o) : p \in 1..Len(order)}

\* upsertFromSuggestion: a known row keeps its status and its clock, but not
\* its novelty, confidence and last suggestion.
Upsert(o) ==
    /\ job = "suggest" /\ bundle > 0
    /\ bundle' = bundle - 1
    /\ status' = [status EXCEPT ![o] = IF @ = "none" THEN "suggested" ELSE @]
    /\ order' \in Reranked(o)
    /\ UNCHANGED <<due, job, batch, elapsed, faults>>

\* The WHERE clause of the claim.
Claimable(o) == status[o] \in Retryable /\ due[o]

\* ORDER BY ... LIMIT.
Chosen == LET ranked == SelectSeq(order, Claimable) IN
          {ranked[i] : i \in {j \in DOMAIN ranked : j <= ClaimLimit}}

\* claimDueForUser.
ClaimDueForUser ==
    /\ job = "suggest" /\ bundle = 0
    /\ batch' = Chosen
    /\ due' = [o \in Opportunities |-> due[o] /\ o \notin Chosen]
    /\ job' = "process"
    /\ UNCHANGED <<status, order, bundle, elapsed, faults>>

\* processOpportunity, to its last markStatus.
Process(o) ==
    /\ job = "process" /\ o \in batch
    /\ batch' = batch \ {o}
    /\ \E s \in {"blocked", "queued_approval", "final"} :
          status' = [status EXCEPT ![o] = s]
    /\ UNCHANGED <<due, order, job, bundle, elapsed, faults>>

Finish ==
    /\ job = "process" /\ batch = {}
    /\ job' = "idle"
    /\ UNCHANGED <<status, due, order, bundle, batch, elapsed, faults>>

-----------------------------------------------------------------------------
(* What goes wrong, and what happens elsewhere.                            *)

Abandon ==
    /\ job # "idle"
    /\ faults < MaxFaults
    /\ faults' = faults + 1
    /\ job' = "idle"
    /\ bundle' = 0
    /\ batch' = {}
    /\ UNCHANGED <<status, due, order>>

\* An exception ends the owner's turn: what was claimed and not processed
\* waits for a day.
TurnFails == Abandon /\ UNCHANGED elapsed

\* The job is rejected (lastMemoryActionLoopAt is put back) or the worker dies
\* (a new one starts at 0): the next poll starts it again.
JobFails == Abandon /\ elapsed' = TRUE

\* The approval route settles the row, or reopens it when the policies now
\* deny what the owner approved.
Answer(o) ==
    /\ status[o] = "queued_approval"
    /\ \E s \in {"blocked", "final"} : status' = [status EXCEPT ![o] = s]
    /\ UNCHANGED <<due, order, job, bundle, batch, elapsed, faults>>

SixHoursPass ==
    /\ ~elapsed
    /\ elapsed' = TRUE
    /\ UNCHANGED <<status, due, order, job, bundle, batch, faults>>

\* Mutant: a suggested row is taken for one never attempted, so that only an
\* answered row comes due again.
DayPassesIfBlocked(o) ==
    /\ ~due[o] /\ status[o] = "blocked"
    /\ due' = [due EXCEPT ![o] = TRUE]
    /\ UNCHANGED <<status, order, job, bundle, batch, elapsed, faults>>

DayPasses(o) ==
    /\ ~due[o]
    /\ due' = [due EXCEPT ![o] = TRUE]
    /\ UNCHANGED <<status, order, job, bundle, batch, elapsed, faults>>

Job ==
    \/ Tick \/ ClaimDueForUser \/ Finish
    \/ \E o \in Opportunities : Upsert(o) \/ Process(o)

Next ==
    \/ Job \/ TurnFails \/ JobFails \/ SixHoursPass
    \/ \E o \in Opportunities : Answer(o) \/ DayPasses(o)

Spec == Init /\ [][Next]_vars

\* The worker polls and its job goes on; time passes.  Nothing is assumed of
\* which rows a claim takes, of the owner or of the suggestions.
FairSpec ==
    /\ Spec
    /\ WF_vars(Job)
    /\ WF_vars(SixHoursPass)
    /\ \A o \in Opportunities : WF_vars(DayPasses(o))

-----------------------------------------------------------------------------
(* The rows ahead of o that a claim may take in its place.                 *)
Ahead(o) ==
    {p \in Opportunities :
        /\ status[p] \in Retryable
        /\ \E i, j \in DOMAIN order : i < j /\ order[i] = p /\ order[j] = o}

Outranked(o) == Cardinality(Ahead(o)) >= ClaimLimit

\* A suggestion is taken up and answered, although turns fail half way, workers
\* die, and answered rows come due again every day: what can hold it back for
\* ever is a full batch of retryable rows ranked ahead of it, and nothing else.
SuggestionsAnswered ==
    \A o \in Opportunities :
        status[o] = "suggested" ~> status[o] # "suggested" \/ Outranked(o)

=============================================================================
