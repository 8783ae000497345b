------------------------------- MODULE WatchRun -------------------------------
(***************************************************************************)
(* Scheduled runs of Watches: packages/db watch-run-repository.ts and the   *)
(* worker's watch-scheduler.ts.  A due Watch gets a durable slot, a worker  *)
(* leases the slot, reads the signals of the slot's window and completes    *)
(* or fails it; a lease that lapses is taken over by another worker.        *)
(*                                                                         *)
(* Every claim draws a fresh lease token and adds one to attempt_count, so  *)
(* the attempt number of a claim stands for its token.  Durations are not   *)
(* modelled: a lease or a retry delay may pass at any time; the clock only  *)
(* orders the windows.                                                      *)
(***************************************************************************)
EXTENDS Integers

CONSTANTS
    Watches,        \* watches rows
    Workers,        \* concurrent executions of runWatchSchedulerJob
    MaxAttempts,    \* MAX_ATTEMPTS
    MaxWindow,      \* MAX_WINDOW_MS, in ticks of the clock
    Lookback,       \* defaultLookbackMs of a cadence, in ticks
    MaxSlots,       \* bound: slots explored
    MaxTime,        \* bound: ticks of the clock explored
    MaxEdits        \* bound: status changes by the owner explored

ASSUME WatchConstants ==
    /\ MaxAttempts \in Nat \ {0}
    /\ MaxWindow \in Nat
    /\ Lookback \in Nat
    /\ MaxSlots \in Nat
    /\ MaxTime \in Nat
    /\ MaxEdits \in Nat

VARIABLES
    now,        \* the database clock
    watch,      \* watches rows
    slot,       \* watch_runs rows
    worker,     \* what each scheduler execution is doing
    edits       \* status changes made so far

vars == <<now, watch, slot, worker, edits>>

Slots       == 1..MaxSlots
Never       == -1
Times       == Nat \cup {Never}
Outstanding == {"pending", "processing"}
Final       == {"completed", "failed", "deleted"}

\* next: next_run_at is NULL, in the future or due.  last: last_run_at.
WatchRows  == [status: {"active", "paused", "deleted"},
               next: {"null", "later", "due"}, last: Times, created: Nat]
\* lease: lease_expires_at is NULL, in the future or past.
SlotRows   == [status: {"none", "pending", "processing", "completed", "failed", "deleted"},
               watch: Watches, start: Int, end: Int,
               lease: {"none", "live", "lapsed"}, attempts: Nat, matched: BOOLEAN]
WorkerRows == [at: {"idle", "evaluate", "failing"}, slot: Slots \cup {0}, token: Nat]

NoSlot(w) == [status |-> "none", watch |-> w, start |-> 0, end |-> 0,
              lease |-> "none", attempts |-> 0, matched |-> FALSE]
Idle == [at |-> "idle", slot |-> 0, token |-> 0]

TypeOK ==
    /\ now \in Nat
    /\ watch \in [Watches -> WatchRows]
    /\ slot \in [Slots -> SlotRows]
    /\ worker \in [Workers -> WorkerRows]
    /\ edits \in Nat

Init ==
    /\ now = 0
    /\ watch = [w \in Watches |->
          [status |-> "active", next |-> "due", last |-> Never, created |-> 0]]
    /\ \E w \in Watches : slot = [i \in Slots |-> NoSlot(w)]
    /\ worker = [k \in Workers |-> Idle]
    /\ edits = 0

(***************************************************************************)
(* claimNextDueSlot, one transaction.                                      *)
(***************************************************************************)
Failed(s) == [s EXCEPT !.status = "failed", !.lease = "none"]

\* Mutant: a slot whose attempts are spent is left alone.
AbandonedByWatch(s) ==
    /\ s.status \in Outstanding
    /\ s.lease = "lapsed"
    /\ watch[s.watch].status # "active"

\* The two sweeping UPDATEs that open the transaction.
Abandoned(s) ==
    /\ s.status \in Outstanding
    /\ s.lease = "lapsed"
    /\ \/ watch[s.watch].status # "active"
       \/ s.status = "processing" /\ s.attempts >= MaxAttempts

Swept == [i \in Slots |-> IF Abandoned(slot[i]) THEN Failed(slot[i]) ELSE slot[i]]

Retryable(s) ==
    /\ s.status \in Outstanding
    /\ s.lease = "lapsed"
    /\ s.attempts < MaxAttempts
    /\ watch[s.watch].status = "active"

\* Mutant: a due watch is taken although a slot of it is outstanding.
DueAlways(w, slots) == watch[w].status = "active" /\ watch[w].next = "due"

Due(w, slots) ==
    /\ watch[w].status = "active"
    /\ watch[w].next = "due"
    /\ \A i \in Slots : slots[i].watch = w => slots[i].status \notin Outstanding

\* A lapsed slot is taken over with a new token, or failed because its
\* persisted specification does not parse.
ClaimRetry(k) ==
    /\ worker[k].at = "idle"
    /\ \E i \in Slots :
          /\ Retryable(Swept[i])
          /\ \/ /\ slot' = [Swept EXCEPT ![i].status = "processing", ![i].lease = "live",
                                         ![i].attempts = @ + 1]
                /\ worker' = [worker EXCEPT ![k] =
                      [at |-> "evaluate", slot |-> i, token |-> slot[i].attempts + 1]]
             \/ slot' = [Swept EXCEPT ![i] = Failed(@)] /\ UNCHANGED worker
    /\ UNCHANGED <<now, watch, edits>>

Larger(a, b) == IF a >= b THEN a ELSE b

\* The window of a new slot: from the last claimed boundary (for a first run,
\* one cadence back, but not before the watch was created) to now, and never
\* longer than the limit.
WindowStart(w) ==
    LET first == Larger(now - Lookback, watch[w].created)
        prior == IF watch[w].last = Never THEN first ELSE watch[w].last
    IN  Larger(prior, now - MaxWindow)

NewSlot(w, status) ==
    [status |-> status, watch |-> w, start |-> WindowStart(w), end |-> now,
     lease |-> IF status = "processing" THEN "live" ELSE "none",
     attempts |-> 1, matched |-> FALSE]

\* Mutant: the boundary is not moved with the claim.
AdvancedScheduleOnly(row) == [row EXCEPT !.next = "later"]

\* The schedule advances in the transaction that inserts the slot.
Advanced(row) == [row EXCEPT !.next = "later", !.last = now]

Quarantined(row) == [row EXCEPT !.status = "paused", !.next = "null"]

\* A due watch gets its slot.  It is paused instead when its specification
\* does not parse, or when no future run can be computed (then with a slot
\* that has failed).  SKIP LOCKED: a retryable slot locked by another worker
\* does not hold this back.
ClaimDue(k) ==
    /\ worker[k].at = "idle"
    /\ \E w \in Watches, i \in Slots :
          /\ Due(w, Swept)
          /\ slot[i].status = "none"
          /\ \A j \in Slots : slot[j].status = "none" => i <= j
          /\ \/ /\ slot' = [Swept EXCEPT ![i] = NewSlot(w, "processing")]
                /\ watch' = [watch EXCEPT ![w] = Advanced(@)]
                /\ worker' = [worker EXCEPT ![k] =
                      [at |-> "evaluate", slot |-> i, token |-> 1]]
             \/ /\ slot' = [Swept EXCEPT ![i] = NewSlot(w, "failed")]
                /\ watch' = [watch EXCEPT ![w] = Quarantined(@)]
                /\ UNCHANGED worker
             \/ /\ slot' = Swept
                /\ watch' = [watch EXCEPT ![w] = Quarantined(@)]
                /\ UNCHANGED worker
    /\ UNCHANGED <<now, edits>>

\* Nothing to do: the sweep is all that commits.  Once the bound on slots is
\* reached no watch counts as due.
Room == \E i \in Slots : slot[i].status = "none"

ClaimNothing(k) ==
    /\ worker[k].at = "idle"
    /\ \A i \in Slots : ~Retryable(Swept[i])
    /\ Room => \A w \in Watches : ~Due(w, Swept)
    /\ slot' = Swept
    /\ UNCHANGED <<now, watch, worker, edits>>

(***************************************************************************)
(* runWatchSchedulerJob after a claim.                                     *)
(***************************************************************************)

\* Mutant: only the token is compared.
HoldsToken(k) == slot[worker[k].slot].attempts = worker[k].token

\* Mutant: the token is not compared.
HoldsAnyLease(k) ==
    LET s == slot[worker[k].slot] IN s.status = "processing" /\ s.lease = "live"

\* The fence of completeSlot and failSlot.
HoldsLease(k) ==
    LET s == slot[worker[k].slot] IN
    /\ s.status = "processing"
    /\ s.attempts = worker[k].token
    /\ s.lease = "live"

Evaluating(k) == worker[k].at = "evaluate"
Released(k)   == worker' = [worker EXCEPT ![k] = Idle]

\* The UPDATE of completeSlot, when the fence lets it through.
CompleteSlot(k) ==
    /\ HoldsLease(k)
    /\ \E matched \in BOOLEAN :
          slot' = [slot EXCEPT ![worker[k].slot] =
              [@ EXCEPT !.status = "completed", !.lease = "none", !.matched = matched]]

\* completeSlot, won or lost.
Complete(k) ==
    /\ Evaluating(k)
    /\ \/ CompleteSlot(k)
       \/ ~HoldsLease(k) /\ UNCHANGED slot
    /\ Released(k)
    /\ UNCHANGED <<now, watch, edits>>

\* An exception while the window is read, or in completeSlot after its commit.
EvaluationThrows(k) ==
    /\ Evaluating(k)
    /\ UNCHANGED slot \/ CompleteSlot(k)
    /\ worker' = [worker EXCEPT ![k].at = "failing"]
    /\ UNCHANGED <<now, watch, edits>>

\* failSlot: released for a later retry, or failed at the ceiling.
FailSlot(k) ==
    /\ worker[k].at = "failing"
    /\ LET i == worker[k].slot IN
       \/ /\ HoldsLease(k)
          /\ slot' = [slot EXCEPT ![i] =
                IF slot[i].attempts >= MaxAttempts THEN Failed(@)
                ELSE [@ EXCEPT !.status = "pending", !.lease = "live"]]
       \/ ~HoldsLease(k) /\ UNCHANGED slot
    /\ Released(k)
    /\ UNCHANGED <<now, watch, edits>>

\* The worker dies or its generation is revoked: the lease is left behind.
Crash(k) ==
    /\ worker[k].at # "idle"
    /\ Released(k)
    /\ UNCHANGED <<now, watch, slot, edits>>

\* pruneZeroMatchSlots.
Prune ==
    /\ \E i \in Slots :
          /\ slot[i].status = "completed"
          /\ ~slot[i].matched
          /\ slot' = [slot EXCEPT ![i].status = "deleted"]
    /\ UNCHANGED <<now, watch, worker, edits>>

(***************************************************************************)
(* The owner and the clock.                                                *)
(***************************************************************************)

\* setStatus: an active watch is due at once, a paused or drafted one never.
SetStatus ==
    /\ edits < MaxEdits
    /\ edits' = edits + 1
    /\ \E w \in Watches, status \in {"active", "paused"} :
          /\ watch[w].status # "deleted"
          /\ watch' = [watch EXCEPT ![w].status = status,
                                    ![w].next = IF status = "active" THEN "due" ELSE "null"]
    /\ UNCHANGED <<now, slot, worker>>

\* delete: the slots go with their watch (ON DELETE CASCADE).
DeleteWatch ==
    /\ edits < MaxEdits
    /\ edits' = edits + 1
    /\ \E w \in Watches :
          /\ watch[w].status # "deleted"
          /\ watch' = [watch EXCEPT ![w].status = "deleted", ![w].next = "null"]
          /\ slot' = [i \in Slots |->
                IF slot[i].watch = w /\ slot[i].status # "none"
                THEN [slot[i] EXCEPT !.status = "deleted", !.lease = "none"] ELSE slot[i]]
    /\ UNCHANGED <<now, worker>>

Tick ==
    /\ now < MaxTime
    /\ now' = now + 1
    /\ UNCHANGED <<watch, slot, worker, edits>>

\* A next run falls due.
BecomeDue ==
    /\ \E w \in Watches :
          /\ watch[w].next = "later"
          /\ watch' = [watch EXCEPT ![w].next = "due"]
    /\ UNCHANGED <<now, slot, worker, edits>>

\* A lease, or the delay before a retry, passes.
Lapse ==
    /\ \E i \in Slots :
          /\ slot[i].lease = "live"
          /\ slot' = [slot EXCEPT ![i].lease = "lapsed"]
    /\ UNCHANGED <<now, watch, worker, edits>>

Claim(k)  == ClaimRetry(k) \/ ClaimDue(k) \/ ClaimNothing(k)
Finish(k) == Complete(k) \/ EvaluationThrows(k) \/ FailSlot(k)

Next ==
    \/ \E k \in Workers : Claim(k) \/ Finish(k) \/ Crash(k)
    \/ Prune \/ SetStatus \/ DeleteWatch \/ Tick \/ BecomeDue \/ Lapse

Spec == Init /\ [][Next]_vars

\* The worker polls once a minute, an execution ends, and time passes.
FairSpec ==
    /\ Spec
    /\ WF_vars(\E k \in Workers : Claim(k))
    /\ \A k \in Workers : WF_vars(Finish(k))
    /\ WF_vars(Lapse)

(***************************************************************************)
(* What must hold.                                                         *)
(***************************************************************************)

\* A watch never has two slots in flight, whatever lapses, is paused, resumed
\* or retried (the NOT EXISTS of the due query against the take-over).
OneSlotInFlight ==
    \A i, j \in Slots :
        /\ slot[i].status \in Outstanding /\ slot[j].status \in Outstanding
        /\ slot[i].watch = slot[j].watch
        => i = j

\* No signal is reported twice: the windows (start, end] of two runs of a watch
\* that are completed or may still be completed do not overlap, across retries,
\* pauses and quarantines ("counted once", evaluateWatch).
Reports == Outstanding \cup {"completed"}

WindowsDisjoint ==
    \A i, j \in Slots :
        /\ i # j
        /\ slot[i].status \in Reports /\ slot[j].status \in Reports
        /\ slot[i].watch = slot[j].watch
        => slot[i].end <= slot[j].start \/ slot[j].end <= slot[i].start

\* Of the workers that believe to hold a slot, one at most passes the fence.
OneHolder ==
    \A k, l \in Workers :
        /\ worker[k].at # "idle" /\ worker[l].at # "idle"
        /\ HoldsLease(k) /\ HoldsLease(l)
        /\ worker[k].slot = worker[l].slot
        => k = l

\* A completed, failed or deleted slot is never reopened.
SettledIsFinal ==
    [][\A i \in Slots :
          /\ slot[i].status \in Final => slot'[i].status \in Final
          /\ slot[i].status = "failed" => slot'[i].status # "completed"]_vars

\* Every slot is completed, failed or deleted in the end: an abandoned lease is
\* taken over until the attempts are spent.
SlotsSettle ==
    \A i \in Slots : slot[i].status \in Outstanding ~> slot[i].status \in Final
=============================================================================
