--------------------------- MODULE MemoryActionLoop ---------------------------
(***************************************************************************)
(* Opportunities found in the owner's memory: the worker's                  *)
(* memory-action-loop.ts, the approval route where it answers for one       *)
(* (approvals.ts), the memory_action_opportunities rows and the             *)
(* memory-scope execution barrier.                                          *)
(*                                                                         *)
(* Every claim of an opportunity is an attempt with a decision, an action   *)
(* and a plan of its own (the signal id contains attempt_count), so one     *)
(* opportunity may have several decisions and approvals.  An attempt is     *)
(* worked on by two processes: the worker ("loop") and the request that     *)
(* answers its approval ("route").                                          *)
(*                                                                         *)
(* The owner exists throughout and the dispatch lease is not repeated here: *)
(* both are in ExecutionLedger.  Whatever the router refuses before a       *)
(* request starts, the lease included, is the refusal of Dispatch.          *)
(***************************************************************************)
EXTENDS Naturals, FiniteSets

CONSTANTS
    Opportunities,
    Attempts,       \* claims explored; also their decision, action and plan ids
    None,           \* SQL NULL
    MaxChanges,     \* bound: changes of the policies explored
    MaxFaults       \* bound: processes that die and status writes that fail explored

ASSUME MemoryConstants ==
    /\ None \notin Attempts \cup Opportunities
    /\ MaxChanges \in Nat
    /\ MaxFaults \in Nat

VARIABLES
    opp,        \* memory_action_opportunities rows
    target,     \* the opportunity of an attempt
    proc,       \* what the two processes of an attempt are doing
    approval,   \* approval_requests.status, unique on decision_id
    barrier,    \* execution_admission_barriers, scope memory, unique on the opportunity
    plan,       \* execution_plans.status
    effect,     \* what the adapter did for an attempt
    verdict,    \* what the policies say of the action now
    changes, faults

vars == <<opp, target, proc, approval, barrier, plan, effect, verdict, changes, faults>>
ledger == <<opp, approval, barrier, plan, effect>>
world == <<target, verdict, changes, faults>>

Sides     == {"loop", "route"}
Retryable == {"suggested", "blocked_by_policy", "learning_needed"}
Marks     == Retryable \cup {"noted_awareness", "queued_approval", "skipped", "auto_executed",
                             "execution_failed", "execution_ambiguous"}
Results   == {"completed", "failed", "ambiguous"}
Verdicts  == {"auto", "ask", "deny"}

\* due: last_attempted_at is NULL or a day ago.
OppRows     == [status: Marks \cup {"none"}, due: BOOLEAN, decision: Attempts \cup {None}]
BarrierRows == [status: Results \cup {"none", "in_progress"}, plan: Attempts \cup {None},
                policy: Verdicts]
\* mark: the status about to be written.  guarded: its write is inside the try
\* block of executeAllowedOpportunity, before the admission.
ProcRows    == [at: {"idle", "claimed", "prepare", "ask", "admit", "recheck", "dispatch",
                     "observe", "finalize", "mark", "done"},
                policy: Verdicts, result: Results \cup {"none"},
                mark: Marks \cup {"none"}, guarded: BOOLEAN]

NotStarted == [at |-> "idle", policy |-> "deny", result |-> "none", mark |-> "none",
               guarded |-> FALSE]
NoBarrier  == [status |-> "none", plan |-> None, policy |-> "deny"]

TypeOK ==
    /\ opp \in [Opportunities -> OppRows]
    /\ target \in [Attempts -> Opportunities \cup {None}]
    /\ proc \in [Attempts -> [Sides -> ProcRows]]
    /\ approval \in [Attempts -> {"none", "pending", "approved", "rejected", "expired"}]
    /\ barrier \in [Opportunities -> BarrierRows]
    /\ plan \in [Attempts -> {"none", "running", "completed", "failed"}]
    /\ effect \in [Attempts -> Results \cup {"none"}]
    /\ verdict \in Verdicts
    /\ changes \in Nat
    /\ faults \in Nat

Init ==
    /\ opp = [o \in Opportunities |-> [status |-> "none", due |-> TRUE, decision |-> None]]
    /\ target = [a \in Attempts |-> None]
    /\ proc = [a \in Attempts |-> [s \in Sides |-> NotStarted]]
    /\ approval = [a \in Attempts |-> "none"]
    /\ barrier = [o \in Opportunities |-> NoBarrier]
    /\ plan = [a \in Attempts |-> "none"]
    /\ effect = [a \in Attempts |-> "none"]
    /\ verdict \in Verdicts
    /\ changes = 0
    /\ faults = 0

At(a, s, point) == proc[a][s].at = point
Goto(a, s, point) == proc' = [proc EXCEPT ![a][s].at = point]

\* The process has decided which status to write next.
GotoMark(a, s, status, guarded) ==
    proc' = [proc EXCEPT ![a][s].at = "mark", ![a][s].mark = status, ![a][s].guarded = guarded]

(***************************************************************************)
(* The worker before it may execute.                                       *)
(***************************************************************************)

\* upsertFromSuggestion: a known fingerprint keeps its status and its clock.
Suggest(o) ==
    /\ opp[o].status = "none"
    /\ opp' = [opp EXCEPT ![o].status = "suggested"]
    /\ UNCHANGED <<proc, approval, barrier, plan, effect, world>>

Due(o) == opp[o].status \in Retryable /\ opp[o].due

\* claimDueForUser, one row of the batch it returns.  Which due rows a batch
\* takes, and when, is left open here and is the subject of OpportunityQueue.
Claim(o, a) ==
    /\ Due(o)
    /\ target[a] = None
    /\ opp' = [opp EXCEPT ![o].due = FALSE]
    /\ target' = [target EXCEPT ![a] = o]
    /\ Goto(a, "loop", "claimed")
    /\ UNCHANGED <<approval, barrier, plan, effect, verdict, changes, faults>>

\* processOpportunity: a decision of its own, then no capability, the first
\* policy verdict or an awareness note.
Decide(a) ==
    /\ At(a, "loop", "claimed")
    /\ \/ GotoMark(a, "loop", "learning_needed", FALSE)
       \/ verdict = "deny" /\ GotoMark(a, "loop", "blocked_by_policy", FALSE)
       \/ verdict = "ask" /\ GotoMark(a, "loop", "noted_awareness", FALSE)
       \/ verdict = "ask" /\ Goto(a, "loop", "ask")
       \/ verdict = "auto" /\ Goto(a, "loop", "prepare")
    /\ UNCHANGED <<ledger, world>>

\* approvalRepository.create, from either place.
Ask(a) ==
    /\ At(a, "loop", "ask")
    /\ approval' = [approval EXCEPT ![a] = "pending"]
    /\ GotoMark(a, "loop", "queued_approval", proc[a]["loop"].guarded)
    /\ UNCHANGED <<opp, barrier, plan, effect, world>>

\* Mutant: the verdict on the prepared path is only looked at for a denial.
PrepareUnlessDenied(a) ==
    /\ At(a, "loop", "prepare")
    /\ \/ verdict = "deny" /\ GotoMark(a, "loop", "blocked_by_policy", TRUE)
       \/ verdict # "deny"
          /\ proc' = [proc EXCEPT ![a]["loop"].at = "admit", ![a]["loop"].policy = verdict]
    /\ UNCHANGED <<ledger, world>>

\* executeAllowedOpportunity up to the admission: the router prepares, the
\* policies are read again.
Prepare(a) ==
    /\ At(a, "loop", "prepare")
    /\ \/ \E status \in {"learning_needed", "execution_failed", "execution_ambiguous"} :
             GotoMark(a, "loop", status, FALSE)
       \/ verdict = "deny" /\ GotoMark(a, "loop", "blocked_by_policy", TRUE)
       \/ verdict = "ask"
          /\ proc' = [proc EXCEPT ![a]["loop"].at = "ask", ![a]["loop"].guarded = TRUE]
       \/ verdict = "auto"
          /\ proc' = [proc EXCEPT ![a]["loop"].at = "admit", ![a]["loop"].policy = "auto"]
    /\ UNCHANGED <<ledger, world>>

(***************************************************************************)
(* The route before it may execute.                                        *)
(***************************************************************************)

\* respond: once, while the row is pending.  A yes is for the action as it was
\* prepared; the policies are evaluated after it.
Respond(a) ==
    /\ approval[a] = "pending"
    /\ \/ /\ approval' = [approval EXCEPT ![a] = "rejected"]
          /\ GotoMark(a, "route", "skipped", FALSE)
       \/ /\ approval' = [approval EXCEPT ![a] = "approved"]
          /\ Goto(a, "route", "prepare")
    /\ UNCHANGED <<opp, barrier, plan, effect, world>>

\* The approved action is denied by the current policies (which records the
\* denial), an error ends the route before the admission, or it is admitted.
Evaluate(a) ==
    /\ At(a, "route", "prepare")
    /\ \/ verdict = "deny" /\ GotoMark(a, "route", "blocked_by_policy", FALSE)
       \/ GotoMark(a, "route", "execution_failed", FALSE)
       \/ verdict # "deny"
          /\ proc' = [proc EXCEPT ![a]["route"].at = "admit", ![a]["route"].policy = verdict]
    /\ UNCHANGED <<ledger, world>>

(***************************************************************************)
(* Admission.                                                              *)
(***************************************************************************)

\* Mutant: the worker admits whatever became of the opportunity and of an
\* earlier admission.
AdmissibleAnyway(a, s) ==
    LET o == target[a] IN
    s = "loop" \/ (opp[o].status = "queued_approval" /\ opp[o].decision = a)

\* What admitMemoryExecution and admitApprovalExecution ask of the rows.
Admissible(a, s) ==
    LET o == target[a] IN
    /\ barrier[o] = NoBarrier
    /\ \/ s = "loop" /\ opp[o].status \in Retryable \cup {"execution_failed"}
       \/ /\ s = "route"
          /\ approval[a] = "approved"
          /\ opp[o].status = "queued_approval"
          /\ opp[o].decision = a

\* The barrier, the plan and the frozen opportunity in one transaction.
AdmitRows(a, s) ==
    LET o == target[a] IN
    /\ barrier' = [barrier EXCEPT ![o] =
          [status |-> "in_progress", plan |-> a, policy |-> proc[a][s].policy]]
    /\ plan' = [plan EXCEPT ![a] = "running"]
    /\ opp' = [opp EXCEPT ![o].status = "execution_ambiguous", ![o].decision = a]

\* Admitted; or admitted and the answer of the database is lost.  Then the
\* barrier is looked for: the worker reports it and leaves the row alone, the
\* route calls the outcome ambiguous, and so does either when it finds nothing.
Admit(a, s) ==
    /\ At(a, s, "admit")
    /\ Admissible(a, s)
    /\ AdmitRows(a, s)
    /\ \/ Goto(a, s, "recheck")
       \/ s = "loop" /\ Goto(a, s, "done")
       \/ GotoMark(a, s, "execution_ambiguous", FALSE)
    /\ UNCHANGED <<approval, effect, world>>

\* Refused.  A barrier of another attempt is no match for this authority, so
\* the duplicate ends as unresolved too.
AdmissionThrows(a, s) ==
    /\ At(a, s, "admit")
    /\ GotoMark(a, s, "execution_ambiguous", FALSE)
    /\ UNCHANGED <<ledger, world>>

(***************************************************************************)
(* Dispatch and settlement.                                                *)
(***************************************************************************)

\* failBeforeDispatch: only while nothing was sent.
CloseUndispatched(a) ==
    /\ barrier' = [barrier EXCEPT ![target[a]].status = "failed"]
    /\ plan' = [plan EXCEPT ![a] = "failed"]

\* The refusal is recorded, or cannot be (then the worker, which finds its
\* barrier in progress, may leave the row as it is).
Refused(a, s) ==
    /\ \/ CloseUndispatched(a) /\ GotoMark(a, s, "execution_failed", FALSE)
       \/ UNCHANGED <<barrier, plan>> /\ GotoMark(a, s, "execution_ambiguous", FALSE)
       \/ UNCHANGED <<barrier, plan>> /\ s = "loop" /\ Goto(a, s, "done")
    /\ UNCHANGED <<opp, approval, effect, world>>

\* The policies once more, and isDispatchable with the new snapshot.
StillDispatchable(a, s) ==
    /\ barrier[target[a]].status = "in_progress"
    /\ barrier[target[a]].plan = a
    /\ barrier[target[a]].policy = verdict
    /\ plan[a] = "running"

Recheck(a, s) ==
    /\ At(a, s, "recheck")
    /\ \/ StillDispatchable(a, s) /\ Goto(a, s, "dispatch") /\ UNCHANGED <<ledger, world>>
       \/ ~StillDispatchable(a, s) /\ Refused(a, s)

\* executePrepared: refused before a request starts, or sent.
Dispatch(a, s) ==
    /\ At(a, s, "dispatch")
    /\ \/ Refused(a, s)
       \/ /\ \E r \in Results :
                /\ effect' = [effect EXCEPT ![a] = r]
                /\ proc' = [proc EXCEPT ![a][s].at = "observe", ![a][s].result = r]
          /\ UNCHANGED <<opp, approval, barrier, plan, world>>

\* Mutant: an answer that cannot be told is recorded as a failure, and the
\* barrier's status is not asked for.
ObserveAnyway(a, s) ==
    /\ At(a, s, "observe")
    /\ barrier' = [barrier EXCEPT ![target[a]].status = "failed"]
    /\ Goto(a, s, IF proc[a][s].result = "ambiguous" THEN "observe" ELSE "finalize")
    /\ UNCHANGED <<opp, approval, plan, effect, world>>

\* observeTerminal, best effort.
Observe(a, s) ==
    /\ At(a, s, "observe")
    /\ \/ barrier[target[a]].status = "in_progress"
          /\ barrier' = [barrier EXCEPT ![target[a]].status = proc[a][s].result]
       \/ UNCHANGED barrier
    /\ IF proc[a][s].result = "ambiguous" THEN GotoMark(a, s, "execution_ambiguous", FALSE)
                                          ELSE Goto(a, s, "finalize")
    /\ UNCHANGED <<opp, approval, plan, effect, world>>

\* Mutant: what the adapter answered is not looked at.
StatusOptimistic(r) == "auto_executed"

StatusOf(r) == IF r = "completed" THEN "auto_executed" ELSE "execution_failed"

\* finalizeAdmittedPlan, best effort.
Finalize(a, s) ==
    /\ At(a, s, "finalize")
    /\ \/ plan' = [plan EXCEPT ![a] = proc[a][s].result]
       \/ UNCHANGED plan
    /\ GotoMark(a, s, StatusOf(proc[a][s].result), FALSE)
    /\ UNCHANGED <<opp, approval, barrier, effect, world>>

\* markStatus: an UPDATE by id that asks nothing of the row.  A write that
\* fails inside the try block is followed by that of its catch block.
Mark(a, s) ==
    /\ At(a, s, "mark")
    /\ \/ /\ opp' = [opp EXCEPT ![target[a]].status = proc[a][s].mark,
                                ![target[a]].decision = a]
          /\ Goto(a, s, "done")
          /\ UNCHANGED faults
       \/ /\ faults < MaxFaults
          /\ faults' = faults + 1
          /\ IF proc[a][s].guarded THEN GotoMark(a, s, "execution_failed", FALSE)
                                   ELSE Goto(a, s, "done")
          /\ UNCHANGED opp
    /\ UNCHANGED <<approval, barrier, plan, effect, target, verdict, changes>>

(***************************************************************************)
(* The environment.                                                        *)
(***************************************************************************)

\* A process dies, its generation is revoked, or an exception ends it.
Crash(a, s) ==
    /\ faults < MaxFaults
    /\ proc[a][s].at \notin {"idle", "done"}
    /\ faults' = faults + 1
    /\ Goto(a, s, "done")
    /\ UNCHANGED <<ledger, target, verdict, changes>>

Expire(a) ==
    /\ approval[a] = "pending"
    /\ approval' = [approval EXCEPT ![a] = "expired"]
    /\ UNCHANGED <<opp, proc, barrier, plan, effect, world>>

DayPasses(o) ==
    /\ ~opp[o].due
    /\ opp' = [opp EXCEPT ![o].due = TRUE]
    /\ UNCHANGED <<proc, approval, barrier, plan, effect, world>>

ChangePolicies ==
    /\ changes < MaxChanges
    /\ changes' = changes + 1
    /\ \E v \in Verdicts \ {verdict} : verdict' = v
    /\ UNCHANGED <<ledger, target, proc, faults>>

Worker(a) == Decide(a) \/ Ask(a) \/ Prepare(a)
Step(a, s) ==
    \/ Admit(a, s) \/ AdmissionThrows(a, s) \/ Recheck(a, s) \/ Dispatch(a, s)
    \/ Observe(a, s) \/ Finalize(a, s) \/ Mark(a, s)

Next ==
    \/ \E o \in Opportunities : Suggest(o) \/ DayPasses(o) \/ \E a \in Attempts : Claim(o, a)
    \/ \E a \in Attempts :
          \/ Worker(a) \/ Respond(a) \/ Evaluate(a) \/ Expire(a)
          \/ \E s \in Sides : Step(a, s) \/ Crash(a, s)
    \/ ChangePolicies

Spec == Init /\ [][Next]_vars

(***************************************************************************)
(* What must hold.                                                         *)
(***************************************************************************)
OneShot == INSTANCE OneShotEffect WITH
    Decisions <- Opportunities,
    Requests  <- Attempts,
    holder    <- [o \in Opportunities |-> barrier[o].plan],
    acted     <- [o \in Opportunities |->
                    {a \in Attempts : target[a] = o /\ effect[a] # "none"}]

\* However many attempts, decisions and approvals an opportunity gathers, one
\* of them at most acts, and only with the barrier (the memory-scope key).
OneEffectPerOpportunity == OneShot!Spec

\* What the owner is told was done was done: the status auto_executed, which
\* any process may overwrite at any time, is only ever written for an effect
\* that the adapter reported as completed.
ReportedDoneIsDone ==
    \A o \in Opportunities :
        opp[o].status = "auto_executed" =>
            \E a \in Attempts : target[a] = o /\ effect[a] = "completed"

\* A barrier that says completed or failed agrees with the adapter, also when
\* the refusal was recorded by a process that lost a race.
BarrierAgrees ==
    \A o \in Opportunities :
        LET b == barrier[o] IN
        /\ b.status = "completed" => effect[b.plan] = "completed"
        /\ b.status = "failed" => effect[b.plan] \in {"none", "failed"}

\* An attempt that was put to the owner acts only with the owner's yes, and one
\* that was not only under an admission that says auto, although the policies
\* are read three times and may change in between.
ConsentOrAuto ==
    \A a \in Attempts :
        effect[a] # "none" =>
            \/ approval[a] = "approved"
            \/ approval[a] = "none" /\ barrier[target[a]].policy = "auto"

\* An opportunity whose approval was answered does not go on asking for an
\* answer once every process is done with it.
AnsweredIsNotQueued ==
    \A o \in Opportunities :
        LET a == opp[o].decision IN
        /\ opp[o].status = "queued_approval"
        /\ \A s \in Sides : proc[a][s].at \in {"idle", "done"}
        => approval[a] \notin {"approved", "rejected"}

=============================================================================
