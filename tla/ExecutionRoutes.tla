--------------------------- MODULE ExecutionRoutes ---------------------------
(***************************************************************************)
(* The two API routes that can make SkyTwin act: event ingestion           *)
(* (apps/api/src/routes/events.ts) and the response to an approval request *)
(* (apps/api/src/routes/approvals.ts), with the execution router they      *)
(* call.  Requests run concurrently; every await is a place where another  *)
(* request, the owner or a crash may step in.                              *)
(*                                                                         *)
(* A step of a request is one read of shared rows, one transaction of      *)
(* ExecutionLedger, or one call of an adapter.  A request in Faulty may    *)
(* stop anywhere, and a commit of its may succeed while the response is    *)
(* lost.                                                                   *)
(***************************************************************************)
EXTENDS ExecutionLedger

CONSTANTS
    MaxChanges,     \* bound: changes of settings and policies explored, together
    Faulty          \* requests that crashes and lost commit responses may hit

ASSUME RouteConstants ==
    /\ MaxChanges \in Nat
    /\ Faulty \subseteq Requests

VARIABLES
    pc,     \* where each request is
    local,  \* what each request holds in memory
    sent    \* requests whose adapter has been called: the effects on the world

process == <<pc, local, sent>>
vars    == <<authority, rows, inputs, process>>

\* phase: which policy evaluation is in progress; settings .. verdict: what it
\* read and concluded; outcome: what the adapter reported.
Forgotten == [phase |-> "none", settings |-> "observer", userRev |-> 0,
              polRev |-> 0, verdict |-> "denied", outcome |-> "none"]

Locations == {"idle", "interpret", "capture", "approval", "prepare",
              "first_confirm", "reject",
              "read_user", "read_revision", "read_policies", "decide",
              "start", "abort", "call", "await", "settle",
              "plan_status", "create_result", "mark_terminal",
              "observe", "finalize", "done"}

Phases == {"none", "claim", "preflight", "admit", "dispatch"}

Outcomes == {"none", "unclear", "completed", "failed"}

Memories == [phase: Phases, settings: Settings, userRev: Nat, polRev: Nat,
             verdict: Verdicts, outcome: Outcomes]

ProcessTypeOK ==
    /\ pc \in [Requests -> Locations]
    /\ local \in [Requests -> Memories]
    /\ sent \subseteq Requests

\* Type correctness of the whole state.
TypeOK == LedgerTypeOK /\ ProcessTypeOK

Init ==
    /\ LedgerInit
    /\ pc = [r \in Requests |-> "idle"]
    /\ local = [r \in Requests |-> Forgotten]
    /\ sent = {}

(***************************************************************************)
(* Steps of a request: where it goes next, and what else stays.            *)
(***************************************************************************)
At(r, where) == pc[r] = where
Goto(r, where) == pc' = [pc EXCEPT ![r] = where]

\* A request that ends forgets what it held in memory.
Finish(r) ==
    /\ Goto(r, "done")
    /\ local' = [local EXCEPT ![r] = Forgotten]

\* Begin a policy evaluation.
EvaluatePolicy(r, phase) ==
    /\ Goto(r, "read_user")
    /\ local' = [local EXCEPT ![r] = [Forgotten EXCEPT !.phase = phase]]

OnlyProcess == UNCHANGED <<authority, rows, inputs, sent>>
OnlyRows    == UNCHANGED <<authority, inputs, sent>>

(***************************************************************************)
(* Event ingestion up to the receipt.                                      *)
(***************************************************************************)

\* approvalRepository.findByDecisionId does not see a soft-deleted row.
ApprovalHidden(d) == approval[d].status \in {"none", "cleaned"}

\* Where a signal that already has a decision resumes.  Only a captured
\* receipt resumes, and only the durable continuation it recorded; everything
\* else is suppressed or answered 409 and ends the request.
ResumePoint(d) ==
    IF guard[d].kind = "approval" /\ guard[d].state = "non_effect" /\ ApprovalHidden(d)
    THEN "approval"
    ELSE IF guard[d].kind = "auto_execute" /\ guard[d].state = "ready" /\ ApprovalHidden(d)
    THEN "prepare"
    ELSE "done"

\* The duplicate lookup that precedes interpretation.
IngestLookup(r) ==
    /\ At(r, "idle")
    /\ route[r] = "ingest"
    /\ Goto(r, IF dec[r] \in saved THEN ResumePoint(dec[r]) ELSE "interpret")
    /\ OnlyProcess /\ UNCHANGED local

\* Interpretation has finished.  The loser of the insert race resumes from
\* the winner's receipt and never uses its own interpretation.
IngestSave(r) ==
    /\ At(r, "interpret")
    /\ \/ SaveDecision(dec[r]) /\ Goto(r, "capture")
       \/ dec[r] \in saved /\ Goto(r, ResumePoint(dec[r])) /\ UNCHANGED rows
       \/ ~owner /\ Goto(r, "done") /\ UNCHANGED rows
    /\ OnlyRows /\ UNCHANGED local

\* The decision maker's outcome depends on the signal, the twin and a model:
\* every continuation is possible, and so is a receipt that does not verify.
IngestCapture(r) ==
    /\ At(r, "capture")
    /\ \/ \E kind \in Kinds \ {"none"}, level \in {"single", "dual"} :
             /\ CreateReceipts(dec[r], kind, level)
             /\ Goto(r, CASE kind = "approval"     -> "approval"
                          [] kind = "auto_execute" -> "prepare"
                          [] OTHER                 -> "done")
       \/ Goto(r, "done") /\ UNCHANGED rows
    /\ OnlyRows /\ UNCHANGED local

IngestApproval(r) ==
    /\ At(r, "approval")
    /\ \/ CreateApproval(dec[r])
       \/ dec[r] \notin saved /\ UNCHANGED rows
    /\ Finish(r)
    /\ OnlyRows

\* prepareExecution writes no shared row, so its result and the transaction
\* that records it are one step: prepared, no risk assessment on file, refused
\* by every adapter before a request, or not classifiable.
IngestPrepare(r) ==
    /\ At(r, "prepare")
    /\ EvaluatePolicy(r, "claim")
    /\ OnlyProcess

IngestUnprepared(r) ==
    /\ At(r, "prepare")
    /\ \/ EscalateExecutionToApproval(dec[r], "single")
       \/ \E ambiguous \in BOOLEAN : ClosePreparation(dec[r], ambiguous)
       \/ ~Ready(dec[r]) /\ UNCHANGED rows
    /\ Finish(r)
    /\ OnlyRows

(***************************************************************************)
(* Policy evaluation: three separate reads.  The users row is read first,  *)
(* with its revision; then, before a dispatch or a claim, the policy       *)
(* revision; the policies themselves last.                                 *)
(***************************************************************************)
\* Ingestion denies at once when the owner is gone ("denied" is what a request
\* holds before it evaluates); the approval route goes on as if for an observer.
NeedsRevision(r) == route[r] = "ingest" \/ local[r].phase = "dispatch"

ReadUser(r) ==
    /\ At(r, "read_user")
    /\ local' = [local EXCEPT ![r].settings = IF owner THEN settings ELSE "observer",
                              ![r].userRev  = userRev]
    /\ Goto(r, IF route[r] = "ingest" /\ ~owner THEN "decide"
               ELSE IF NeedsRevision(r) THEN "read_revision" ELSE "read_policies")
    /\ OnlyProcess

ReadRevision(r) ==
    /\ At(r, "read_revision")
    /\ local' = [local EXCEPT ![r].polRev = polRev]
    /\ Goto(r, "read_policies")
    /\ OnlyProcess

ReadPolicies(r) ==
    /\ At(r, "read_policies")
    /\ local' = [local EXCEPT ![r].verdict = Evaluate(local[r].settings, policies)]
    /\ Goto(r, "decide")
    /\ OnlyProcess

Decides(r, to, phase) ==
    At(r, "decide") /\ route[r] = to /\ local[r].phase = phase

Paused(r) == local[r].settings = "paused"

(***************************************************************************)
(* Ingestion: what the claim-time and the dispatch-time verdicts lead to.  *)
(***************************************************************************)
IngestDenied(r) ==
    /\ Decides(r, "ingest", "claim")
    /\ ~Allowed(local[r].verdict)
    /\ \/ DenyReceipt(dec[r])
       \/ ~Ready(dec[r]) /\ UNCHANGED rows
    /\ Finish(r)
    /\ OnlyRows

IngestEscalate(r) ==
    /\ Decides(r, "ingest", "claim")
    /\ RequiresApproval(local[r].verdict)
    /\ \/ \E level \in {"single", "dual"} : EscalateExecutionToApproval(dec[r], level)
       \/ ~Escalatable(dec[r]) /\ UNCHANGED rows
    /\ Finish(r)
    /\ OnlyRows

IngestClaim(r) ==
    /\ Decides(r, "ingest", "claim")
    /\ local[r].verdict = "auto"
    /\ \/ ClaimExecution(r) /\ EvaluatePolicy(r, "dispatch")
       \/ ~Ready(dec[r]) /\ UNCHANGED rows /\ Finish(r)
    /\ OnlyRows

\* The commit succeeded, its response did not arrive: never dispatched.
IngestClaimLost(r) ==
    /\ r \in Faulty
    /\ Decides(r, "ingest", "claim")
    /\ local[r].verdict = "auto"
    /\ ClaimExecution(r)
    /\ Finish(r)
    /\ OnlyRows

\* The recheck before dispatch; an exception in it also aborts.
IngestRecheck(r) ==
    /\ Decides(r, "ingest", "dispatch")
    /\ \/ Goto(r, IF local[r].verdict = "auto" /\ ReceiptDispatchable(r)
                  THEN "start" ELSE "abort")
       \/ r \in Faulty /\ Goto(r, "abort")
    /\ OnlyProcess /\ UNCHANGED local

(***************************************************************************)
(* The response to an approval request.                                    *)
(***************************************************************************)

\* Mutant: a token that was never minted does not ask for a first confirmation.
DualStepUnminted(a, token) ==
    IF a.level # "dual" THEN "not_applicable"
    ELSE IF a.status \notin {"pending", "lapsed"} THEN "reject"
    ELSE IF token /\ a.first # "stale" THEN "proceed"
    ELSE IF a.first = "none" THEN "issue_first"
    ELSE "reject"

\* classifyDualConfirmStep, on the row as it was read: a dual request needs a
\* first confirmation, then a second one with the token while it is fresh.
\* Whether the caller presents the token is the caller's choice.
DualStep(a, token) ==
    IF a.level # "dual" THEN "not_applicable"
    ELSE IF a.status \notin {"pending", "lapsed"} THEN "reject"
    ELSE IF a.first = "none" THEN "issue_first"
    ELSE IF token /\ a.first = "fresh" THEN "proceed"
    ELSE "reject"

RespondApprove(r) ==
    /\ At(r, "idle")
    /\ route[r] = "respond"
    /\ approval[dec[r]] # NoApproval
    /\ \E token \in BOOLEAN :
          LET step == DualStep(approval[dec[r]], token) IN
          \/ step \in {"not_applicable", "proceed"} /\ EvaluatePolicy(r, "preflight")
          \/ step = "issue_first" /\ Goto(r, "first_confirm") /\ UNCHANGED local
          \/ step = "reject" /\ Finish(r)
    /\ OnlyProcess

RespondReject(r) ==
    /\ At(r, "idle")
    /\ route[r] = "respond"
    /\ approval[dec[r]] # NoApproval
    /\ Goto(r, "reject")
    /\ OnlyProcess /\ UNCHANGED local

FirstConfirm(r) ==
    /\ At(r, "first_confirm")
    /\ \/ RecordFirstConfirmation(dec[r])
       \/ ~FirstConfirmable(dec[r]) /\ UNCHANGED rows
    /\ Finish(r)
    /\ OnlyRows

Rejected(r) ==
    /\ At(r, "reject")
    /\ \/ RespondTo(dec[r], "rejected")
       \/ approval[dec[r]].status # "pending" /\ UNCHANGED rows
    /\ Finish(r)
    /\ OnlyRows

\* What blocks an approval: a denial, a pause, or an edit or a policy that makes
\* the action of a single-confirmation row need two.  Whether it does is not in
\* the model's settings and policies, so a single row may always be blocked.
Blocked(r) ==
    \/ ~Allowed(local[r].verdict)
    \/ Paused(r)
    \/ approval[dec[r]].level = "single"

\* Preflight, before anything is consumed: it records why it blocks and leaves
\* the row pending (the evidence is not modelled: nothing reads it).
PreflightBlocked(r) ==
    /\ Decides(r, "respond", "preflight")
    /\ Blocked(r)
    /\ Finish(r)
    /\ OnlyProcess

\* The response is the atomic single winner; feedback and memory writes follow
\* it (a failure there is a Crash) and then the admission is evaluated anew.
Approved(r) ==
    /\ Decides(r, "respond", "preflight")
    /\ Allowed(local[r].verdict) /\ ~Paused(r)
    /\ \/ RespondTo(dec[r], "approved") /\ EvaluatePolicy(r, "admit")
       \/ approval[dec[r]].status # "pending" /\ UNCHANGED rows /\ Finish(r)
    /\ OnlyRows

AdmissionDenied(r) ==
    /\ Decides(r, "respond", "admit")
    /\ Blocked(r)
    /\ \/ DenyApproved(dec[r])
       \/ ~Deniable(dec[r]) /\ UNCHANGED rows
    /\ Finish(r)
    /\ OnlyRows

Admitted(r) ==
    /\ Decides(r, "respond", "admit")
    /\ Allowed(local[r].verdict) /\ ~Paused(r)
    /\ \/ AdmitApprovalExecution(r, local[r].verdict) /\ EvaluatePolicy(r, "dispatch")
       \/ ~Admissible(r) /\ UNCHANGED rows /\ Finish(r)
    /\ OnlyRows

\* The commit succeeded, its response did not arrive: never dispatched.
AdmittedLost(r) ==
    /\ r \in Faulty
    /\ Decides(r, "respond", "admit")
    /\ Allowed(local[r].verdict) /\ ~Paused(r)
    /\ AdmitApprovalExecution(r, local[r].verdict)
    /\ Finish(r)
    /\ OnlyRows

\* The recheck: the verdict must still allow, not pause and ask exactly when
\* the admitted one asked; isDispatchable then throws on any other difference
\* of the policy snapshot, which ends the request in the outer catch with the
\* barrier in progress.
SamePermission(r) ==
    /\ Allowed(local[r].verdict)
    /\ ~Paused(r)
    /\ RequiresApproval(local[r].verdict) = RequiresApproval(barrier[dec[r]].policy)

RespondRecheck(r) ==
    /\ Decides(r, "respond", "dispatch")
    /\ \/ SamePermission(r) /\ SnapshotMatches(r, local[r].verdict)
          /\ Goto(r, IF AdmissionDispatchable(r) THEN "start" ELSE "abort")
          /\ UNCHANGED local
       \/ ~SamePermission(r) /\ Goto(r, "abort") /\ UNCHANGED local
       \/ SamePermission(r) /\ ~SnapshotMatches(r, local[r].verdict) /\ Finish(r)
    /\ OnlyProcess

(***************************************************************************)
(* Dispatch: the execution router, for both routes.                        *)
(***************************************************************************)

\* No adapter was called: the admitted plan is closed as failed.
Abort(r) ==
    /\ At(r, "abort")
    /\ \/ route[r] = "ingest" /\ FailReceiptBeforeDispatch(r)
       \/ route[r] = "respond" /\ FailAdmissionBeforeDispatch(r)
       \/ route[r] = "ingest" /\ ~ReceiptUndispatched(r) /\ UNCHANGED rows
       \/ route[r] = "respond" /\ ~AdmissionUndispatched(r) /\ UNCHANGED rows
    /\ Finish(r)
    /\ OnlyRows

\* startDispatch: granted, or refused with a typed proof that no request
\* started.  Authorities that are not modelled (the credential and its vault,
\* the MCP server, the execution channel) may refuse too, so a refusal is always
\* possible.  A request asks once for its own plan: "dispatch_replayed" cannot
\* be the answer.
StartDispatch(r) ==
    /\ At(r, "start")
    /\ \E overdue \in SUBSET StartedLeases :
          \/ StartLease(r, local[r].userRev, local[r].polRev, overdue) /\ Goto(r, "call")
          \/ SweepOverdue(overdue) /\ Goto(r, "abort")
    /\ OnlyRows /\ UNCHANGED local

\* Mutant: any error of the router is taken for a refusal before dispatch.
DoubtAsRefusal(r) ==
    /\ Goto(r, "abort")
    /\ local' = [local EXCEPT ![r] = Forgotten]

\* An AmbiguousExecutionError: the ingest route leaves the receipt running, the
\* approval route goes on to record the ambiguity.
Doubt(r) ==
    /\ Goto(r, IF route[r] = "ingest" THEN "done" ELSE "observe")
    /\ local' = [local EXCEPT ![r] =
          [Forgotten EXCEPT !.outcome = IF route[r] = "ingest" THEN "none" ELSE "unclear"]]

\* startDispatch threw: the grant or the refusal may have committed; a grant is
\* never used.
StartDispatchLost(r) ==
    /\ r \in Faulty
    /\ At(r, "start")
    /\ \E overdue \in SUBSET StartedLeases :
          StartLease(r, local[r].userRev, local[r].polRev, overdue) \/ SweepOverdue(overdue)
    /\ Doubt(r)
    /\ OnlyRows

\* The adapter is called: the effect reaches the world.
CallAdapter(r) ==
    /\ At(r, "call")
    /\ sent' = sent \cup {r}
    /\ Goto(r, "await")
    /\ UNCHANGED <<authority, rows, inputs, local>>

\* The adapter answers with bound terminal truth, or with anything else: an
\* exception, an unbound result, a stream without a terminal event.
AdapterAnswer(r) ==
    /\ At(r, "await")
    /\ \E outcome \in {"completed", "failed", "unclear"} :
          local' = [local EXCEPT ![r].outcome = outcome]
    /\ Goto(r, "settle")
    /\ OnlyProcess

\* terminalizeDispatch with known truth; only then is it handed to the route.
SettleLease(r) ==
    /\ At(r, "settle")
    /\ local[r].outcome \in Terminal
    /\ TerminalizeLease(r, local[r].outcome)
    /\ Goto(r, IF route[r] = "ingest" THEN "plan_status" ELSE "observe")
    /\ OnlyRows /\ UNCHANGED local

\* No trustworthy truth: the router retains the lease as ambiguous and throws.
SettleUnclear(r) ==
    /\ At(r, "settle")
    /\ local[r].outcome = "unclear"
    /\ TerminalizeLease(r, "ambiguous")
    /\ Doubt(r)
    /\ OnlyRows

\* terminalizeDispatch failed or its response was lost: known truth becomes
\* doubt, whatever was committed.
SettleLost(r) ==
    /\ r \in Faulty
    /\ At(r, "settle")
    /\ \/ local[r].outcome \in Terminal /\ TerminalizeLease(r, local[r].outcome)
       \/ local[r].outcome \in Terminal /\ TerminalizeLease(r, "ambiguous")
       \/ UNCHANGED rows
    /\ Doubt(r)
    /\ OnlyRows

\* Ingestion writes its terminal truth in three separate statements; the
\* receipt guard is last.
IngestPlanStatus(r) ==
    /\ At(r, "plan_status")
    /\ UpdatePlanStatus(r, local[r].outcome)
    /\ Goto(r, "create_result")
    /\ OnlyRows /\ UNCHANGED local

IngestResult(r) ==
    /\ At(r, "create_result")
    /\ CreateResult(r, local[r].outcome)
    /\ Goto(r, "mark_terminal")
    /\ OnlyRows /\ UNCHANGED local

IngestTerminal(r) ==
    /\ At(r, "mark_terminal")
    /\ MarkExecutionTerminal(r, local[r].outcome)
    /\ Finish(r)
    /\ OnlyRows

\* The approval route observes the barrier first, then finalizes the plan;
\* each is best effort.
RespondObserve(r) ==
    /\ At(r, "observe")
    /\ \/ local[r].outcome \in Terminal /\ ObserveTerminal(r, local[r].outcome)
          /\ Goto(r, "finalize") /\ UNCHANGED local
       \/ local[r].outcome = "unclear" /\ ObserveTerminal(r, "ambiguous") /\ Finish(r)
    /\ OnlyRows

RespondObserveLost(r) ==
    /\ r \in Faulty
    /\ At(r, "observe")
    /\ \/ local[r].outcome \in Terminal /\ Goto(r, "finalize") /\ UNCHANGED local
       \/ local[r].outcome = "unclear" /\ Finish(r)
    /\ OnlyProcess

RespondFinalize(r) ==
    /\ At(r, "finalize")
    /\ \/ FinalizeAdmittedPlan(r, local[r].outcome)
       \/ barrier[dec[r]] = NoBarrier /\ UNCHANGED rows
    /\ Finish(r)
    /\ OnlyRows

(***************************************************************************)
(* Everything else: the owner, the clock, the process.                     *)
(***************************************************************************)
ChangeSettings ==
    /\ userRev + polRev < MaxChanges
    /\ \E s \in Settings \ {settings} : UpdateSettings(s)
    /\ UNCHANGED <<rows, inputs, process>>

ChangePolicies ==
    /\ userRev + polRev < MaxChanges
    /\ \E p \in Policies \ {policies} : UpdatePolicies(p)
    /\ UNCHANGED <<rows, inputs, process>>

Purge ==
    /\ PurgeUser
    /\ UNCHANGED <<inputs, process>>

\* An approval passes its expiry; a first confirmation passes its window.
Elapse ==
    /\ \E d \in Decisions :
          \/ approval[d].status = "pending"
             /\ approval' = [approval EXCEPT ![d].status = "lapsed"]
          \/ approval[d].first = "fresh" /\ approval[d].status = "pending"
             /\ approval' = [approval EXCEPT ![d].first = "stale"]
    /\ UNCHANGED <<authority, saved, guard, barrier, plan, result, lease, inputs, process>>

Expire ==
    /\ ExpirePending
    /\ UNCHANGED <<authority, inputs, process>>

Clean ==
    /\ \E escalations \in (SUBSET StaleApprovals) \ {{}} : CleanEscalations(escalations)
    /\ UNCHANGED <<authority, inputs, process>>

\* A bind or a mutation of a credential sweeps the overdue leases.
Overdue ==
    /\ \E overdue \in (SUBSET StartedLeases) \ {{}} : SweepOverdue(overdue)
    /\ UNCHANGED <<authority, inputs, process>>

\* The process dies, or an exception between two writes ends the request.
Crash(r) ==
    /\ r \in Faulty
    /\ pc[r] \notin {"idle", "done"}
    /\ Finish(r)
    /\ OnlyProcess

Arrive(r) == IngestLookup(r) \/ RespondApprove(r) \/ RespondReject(r)

Step(r) ==
    \/ IngestSave(r) \/ IngestCapture(r) \/ IngestApproval(r)
    \/ IngestPrepare(r) \/ IngestUnprepared(r)
    \/ ReadUser(r) \/ ReadRevision(r) \/ ReadPolicies(r)
    \/ IngestDenied(r) \/ IngestEscalate(r) \/ IngestClaim(r) \/ IngestRecheck(r)
    \/ FirstConfirm(r) \/ Rejected(r) \/ PreflightBlocked(r) \/ Approved(r)
    \/ AdmissionDenied(r) \/ Admitted(r) \/ RespondRecheck(r)
    \/ Abort(r) \/ StartDispatch(r) \/ CallAdapter(r) \/ AdapterAnswer(r)
    \/ SettleLease(r) \/ SettleUnclear(r)
    \/ IngestPlanStatus(r) \/ IngestResult(r) \/ IngestTerminal(r)
    \/ RespondObserve(r) \/ RespondFinalize(r)

Fault(r) ==
    \/ IngestClaimLost(r) \/ AdmittedLost(r) \/ StartDispatchLost(r)
    \/ SettleLost(r) \/ RespondObserveLost(r) \/ Crash(r)

Environment == ChangeSettings \/ ChangePolicies \/ Purge \/ Elapse \/ Expire \/ Clean \/ Overdue

Next ==
    \/ \E r \in Requests : Arrive(r) \/ Step(r) \/ Fault(r)
    \/ Environment

Spec == Init /\ [][Next]_vars

\* A request that was accepted keeps running: its handler has no wait of its
\* own and every adapter call is bounded by a timeout.
FairSpec == Spec /\ \A r \in Requests : WF_vars(Step(r))

(***************************************************************************)
(* What must hold.                                                         *)
(***************************************************************************)

\* At most one request ever calls an adapter for a decision: a signal that is
\* ingested twice, an approval answered twice, a crash and a lost commit
\* response never run the action a second time (events.ts re-ingestion,
\* claimExecutionForDecision, admitApprovalExecution, lease start).
AtMostOneEffect ==
    \A q, r \in sent : dec[q] = dec[r] => q = r

\* Whatever reached an adapter did so under one durable authority that names
\* its plan: a claimed receipt for an ingested signal; for an approval, a
\* barrier on an approved, undenied row whose receipt was never claimed.
EffectHasAuthority ==
    \A r \in sent : owner =>
        LET d == dec[r] IN
        \/ /\ route[r] = "ingest"
           /\ guard[d].plan = r
           /\ guard[d].state \in {"running", "completed", "failed"}
           /\ barrier[d] = NoBarrier
        \/ /\ route[r] = "respond"
           /\ barrier[d].plan = r
           /\ approval[d].status = "approved"
           /\ ~approval[d].denied
           /\ guard[d].plan = NoPlan

\* An account is never purged under a request that may still reach the world
\* (assertNoActiveExecutionsWithClient against startDispatch).
PurgeWaitsForEffects ==
    \A r \in Requests :
        pc[r] \in {"call", "await", "settle"} => owner /\ lease[r] \in Unresolved

\* A plan closed as failed before dispatch was never sent, and a receipt or a
\* barrier that reports a terminal status repeats what the lease recorded.
LedgersTellTheTruth ==
    owner => \A r \in Requests :
        LET d == dec[r] IN
        /\ plan[r] = "failed" /\ lease[r] = "none" => r \notin sent
        /\ plan[r] = "completed" => lease[r] = "completed" /\ r \in sent
        /\ guard[d].plan = r /\ guard[d].state \in Terminal =>
              plan[r] = guard[d].state /\ result[r] = guard[d].state
        /\ barrier[d].plan = r /\ barrier[d].status \in Terminal /\ lease[r] # "none" =>
              lease[r] = barrier[d].status

\* One unresolved request per OAuth provider: a second credentialed dispatch
\* waits for the first one's truth.
OneUnresolvedPerProvider ==
    \A q, r \in Requests :
        /\ dec[q] \in Credentialed /\ lease[q] \in Unresolved
        /\ dec[r] \in Credentialed /\ lease[r] \in Unresolved
        => q = r

\* A dual-confirmation request is approved only after a first confirmation.
DualNeedsTwoConfirmations ==
    \A d \in Decisions :
        approval[d].level = "dual" /\ approval[d].status = "approved" =>
            approval[d].first # "none"

\* A request-start lease is granted only if the settings and the policies in
\* force at that very moment permit the action: no change that commits between
\* the evaluation's reads and the grant is overlooked.
Permits(r, s, p) ==
    IF route[r] = "ingest" THEN Evaluate(s, p) = "auto"
    ELSE Allowed(Evaluate(s, p)) /\ s # "paused"

GrantedUnderCurrentAuthority ==
    [][\A r \in Requests :
          lease[r] = "none" /\ lease'[r] # "none" => owner /\ Permits(r, settings, policies)]_vars

\* Terminal truth and recorded doubt are never rewritten while the account
\* exists: no late answer, retry or sweep changes a terminal receipt, a settled
\* barrier or a resolved lease.
TerminalIsFinal ==
    [][owner' =>
        /\ \A d \in Decisions :
              /\ guard[d].state \in Terminal => guard'[d] = guard[d]
              /\ barrier[d].status \in Terminal \cup {"ambiguous"} => barrier'[d] = barrier[d]
        /\ \A r \in Requests :
              /\ lease[r] \in Terminal => lease'[r] = lease[r]
              /\ result[r] # "none" => result'[r] = result[r]]_vars

\* A receipt claimed by a request that no fault hits reaches a terminal state,
\* unless the adapter's answer left the lease ambiguous, and whatever becomes of
\* the other requests.
ClaimSettles ==
    \A d \in Decisions, r \in Requests \ Faulty :
        (guard[d].state = "running" /\ guard[d].plan = r) ~>
            (guard[d].state \in Terminal \/ lease[r] = "ambiguous")

\* failBeforeDispatch closes an admitted plan whose request ended without
\* invoking the router: without faults no such plan is left running.
UndispatchedAdmissionIsClosed ==
    \A r \in Requests :
        route[r] = "respond" /\ pc[r] = "done" /\ plan[r] = "running" => lease[r] # "none"
=============================================================================
