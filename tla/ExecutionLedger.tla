--------------------------- MODULE ExecutionLedger ---------------------------
(***************************************************************************)
(* The durable rows that decide whether SkyTwin may act for one account    *)
(* owner, and the database transactions that change them.                  *)
(*                                                                         *)
(* Every operator below that primes a variable is one SQL transaction (or  *)
(* one single-statement autocommit) of packages/db.  The transactions lock *)
(* the owner's users row first, so each one is a single atomic step; what  *)
(* the routes do between two of them is in ExecutionRoutes.                *)
(*                                                                         *)
(* A request brings its own freshly drawn execution plan id                *)
(* (prepareExecution draws a UUID), so a plan is named by its request.     *)
(***************************************************************************)
EXTENDS Naturals, FiniteSets

CONSTANTS
    Decisions,      \* decisions of the owner; one candidate action is selected in each
    Requests,       \* HTTP requests served by the API; also the plan ids they draw
    Credentialed,   \* decisions whose adapter needs the owner's OAuth provider
    NoPlan          \* the SQL NULL of source_execution_plan_id / execution_plan_id

ASSUME LedgerConstants ==
    /\ Credentialed \subseteq Decisions
    /\ NoPlan \notin Requests

VARIABLES
    owner,      \* the users row exists
    settings,   \* what the users row says of autonomy: see Settings
    userRev,    \* users.execution_authority_revision
    policies,   \* what the enabled policies say of the action: see Policies
    polRev,     \* execution_policy_authority.revision
    saved,      \* decisions rows
    guard,      \* decision_ingest_guards rows, one per decision
    approval,   \* approval_requests rows, unique on decision_id
    barrier,    \* execution_admission_barriers rows, one per approval
    plan,       \* execution_plans.status
    result,     \* execution_results rows
    lease,      \* credential_dispatch_leases.state
    dec,        \* the decision each request is about
    route       \* the route each request is sent to

authority == <<owner, settings, userRev, policies, polRev>>
rows      == <<saved, guard, approval, barrier, plan, result, lease>>
inputs    == <<dec, route>>

(***************************************************************************)
(* Values.                                                                 *)
(***************************************************************************)
Settings == {"normal", "paused", "observer"}
Policies == {"auto", "ask", "deny"}
Verdicts == {"auto", "ask_policy", "ask_tier", "ask_paused", "denied"}
Plans    == Requests \cup {NoPlan}

GuardStates    == {"none", "ready", "non_effect", "running", "completed", "failed"}
Kinds          == {"none", "auto_execute", "approval", "non_effect"}
Levels         == {"none", "single", "dual"}
ApprovalStates == {"none", "pending", "lapsed", "approved", "rejected", "expired",
                   "cleaned"}
Confirmations  == {"none", "fresh", "stale"}
BarrierStates  == {"none", "in_progress", "completed", "failed", "ambiguous"}
PlanStates     == {"none", "running", "completed", "failed"}
ResultStates   == {"none", "completed", "failed"}
LeaseStates    == {"none", "request_started", "ambiguous", "completed", "failed"}
Terminal       == {"completed", "failed"}
Unresolved     == {"request_started", "ambiguous"}

GuardRows    == [state: GuardStates, kind: Kinds, plan: Plans, level: Levels]
ApprovalRows == [status: ApprovalStates, level: Levels, first: Confirmations, denied: BOOLEAN]
BarrierRows  == [status: BarrierStates, plan: Plans, policy: Verdicts]

NoGuard    == [state |-> "none", kind |-> "none", plan |-> NoPlan, level |-> "none"]
NoApproval == [status |-> "none", level |-> "none", first |-> "none", denied |-> FALSE]
NoBarrier  == [status |-> "none", plan |-> NoPlan, policy |-> "denied"]

(***************************************************************************)
(* PolicyEvaluator.evaluate: a deny wins; the pause is applied after every *)
(* deny path and its reason comes first; then a policy's reason, then the  *)
(* trust tier's.  The verdict keeps the reason, because the reason is part *)
(* of the policy snapshot that admissions are compared by.                 *)
(***************************************************************************)
Evaluate(s, p) ==
    IF p = "deny" THEN "denied"
    ELSE IF s = "paused" THEN "ask_paused"
    ELSE IF p = "ask" THEN "ask_policy"
    ELSE IF s = "observer" THEN "ask_tier"
    ELSE "auto"

Allowed(v)          == v # "denied"
RequiresApproval(v) == v \in {"ask_policy", "ask_tier", "ask_paused"}

LedgerInit ==
    /\ owner = TRUE
    /\ settings = "normal"
    /\ policies = "auto"
    /\ userRev = 0
    /\ polRev = 0
    /\ saved = {}
    /\ guard = [d \in Decisions |-> NoGuard]
    /\ approval = [d \in Decisions |-> NoApproval]
    /\ barrier = [d \in Decisions |-> NoBarrier]
    /\ plan = [r \in Requests |-> "none"]
    /\ result = [r \in Requests |-> "none"]
    /\ lease = [r \in Requests |-> "none"]
    /\ dec \in [Requests -> Decisions]
    /\ route \in [Requests -> {"ingest", "respond"}]

LedgerTypeOK ==
    /\ owner \in BOOLEAN
    /\ settings \in Settings
    /\ policies \in Policies
    /\ userRev \in Nat
    /\ polRev \in Nat
    /\ saved \subseteq Decisions
    /\ guard \in [Decisions -> GuardRows]
    /\ approval \in [Decisions -> ApprovalRows]
    /\ barrier \in [Decisions -> BarrierRows]
    /\ plan \in [Requests -> PlanStates]
    /\ result \in [Requests -> ResultStates]
    /\ lease \in [Requests -> LeaseStates]
    /\ dec \in [Requests -> Decisions]
    /\ route \in [Requests -> {"ingest", "respond"}]

(***************************************************************************)
(* Ingest: the decision, its receipt guard and its approval request.       *)
(***************************************************************************)

\* decisionRepositoryAdapter.saveDecision: insert, unique on (user_id, signal_id).
SaveDecision(d) ==
    /\ owner
    /\ d \notin saved
    /\ saved' = saved \cup {d}
    /\ UNCHANGED <<guard, approval, barrier, plan, result, lease>>

\* inferenceReceiptRepository.createManyForUser: the receipts, the completion
\* marker and the ingest guard commit together, once per decision.
Capturable(d) == owner /\ d \in saved /\ guard[d] = NoGuard

CreateReceipts(d, kind, level) ==
    /\ Capturable(d)
    /\ guard' = [guard EXCEPT ![d] =
          [state |-> IF kind = "auto_execute" THEN "ready" ELSE "non_effect",
           kind  |-> kind,
           plan  |-> NoPlan,
           level |-> IF kind = "approval" THEN level ELSE "none"]]
    /\ UNCHANGED <<saved, approval, barrier, plan, result, lease>>

\* approvalRepository.create: INSERT ... ON CONFLICT (decision_id) DO NOTHING.
PendingApproval(level) ==
    [status |-> "pending", level |-> level, first |-> "none", denied |-> FALSE]

CreateApproval(d) ==
    /\ owner
    /\ d \in saved
    /\ approval' = IF approval[d] = NoApproval
                   THEN [approval EXCEPT ![d] = PendingApproval(guard[d].level)]
                   ELSE approval
    /\ UNCHANGED <<saved, guard, barrier, plan, result, lease>>

\* Mutant: the receipt is taken by its kind, claimed or not.
ReadyByKind(d) == owner /\ guard[d].kind = "auto_execute"

\* recordReceiptPreparationDisposition: preparation proved that no request was
\* made (the receipt is closed) or could not prove it (it is kept "running",
\* without a plan, so that no retry executes it).
Ready(d) == owner /\ guard[d].state = "ready" /\ guard[d].kind = "auto_execute"

ClosePreparation(d, ambiguous) ==
    /\ Ready(d)
    /\ guard' = [guard EXCEPT ![d].state = IF ambiguous THEN "running" ELSE "non_effect"]
    /\ UNCHANGED <<saved, approval, barrier, plan, result, lease>>

\* recordPolicyDenial, scope receipt: only the effect state changes, the
\* continuation kind stays auto_execute.
DenyReceipt(d) ==
    /\ owner
    /\ guard[d].state = "ready"
    /\ guard' = [guard EXCEPT ![d].state = "non_effect"]
    /\ UNCHANGED <<saved, approval, barrier, plan, result, lease>>

\* escalateExecutionToApproval: the ready receipt becomes a pending approval in
\* one transaction; an older approval row must not exist (its reason would
\* differ and the transaction throws).
Escalatable(d) == Ready(d) /\ barrier[d] = NoBarrier /\ approval[d] = NoApproval

EscalateExecutionToApproval(d, level) ==
    /\ Escalatable(d)
    /\ approval' = [approval EXCEPT ![d] = PendingApproval(level)]
    /\ guard' = [guard EXCEPT ![d] =
          [state |-> "non_effect", kind |-> "approval", plan |-> NoPlan, level |-> level]]
    /\ UNCHANGED <<saved, barrier, plan, result, lease>>

\* claimExecutionForDecision: the compare-and-set that turns the ready receipt
\* into a running one bound to this request's plan.
ClaimExecution(r) ==
    /\ Ready(dec[r])
    /\ plan' = [plan EXCEPT ![r] = "running"]
    /\ guard' = [guard EXCEPT ![dec[r]].state = "running", ![dec[r]].plan = r]
    /\ UNCHANGED <<saved, approval, barrier, result, lease>>

\* isExecutionDispatchableForDecision: the SELECT fenced immediately before dispatch.
ReceiptDispatchable(r) ==
    /\ owner
    /\ guard[dec[r]].state = "running"
    /\ guard[dec[r]].plan = r
    /\ plan[r] = "running"
    /\ settings # "paused"

\* Mutant: a paused owner's receipt is not closed.
ReceiptUndispatchedUnpaused(r) == ReceiptDispatchable(r) /\ result[r] \in {"none", "failed"}

\* markExecutionFailedBeforeDispatchForDecision: a known no-effect failure.
ReceiptUndispatched(r) ==
    /\ owner
    /\ guard[dec[r]].state = "running"
    /\ guard[dec[r]].plan = r
    /\ plan[r] = "running"
    /\ result[r] \in {"none", "failed"}

\* Mutant: the receipt is handed back for another attempt.
RetryReceipt(r) ==
    /\ ReceiptUndispatched(r)
    /\ result' = [result EXCEPT ![r] = "failed"]
    /\ plan' = [plan EXCEPT ![r] = "failed"]
    /\ guard' = [guard EXCEPT ![dec[r]].state = "ready"]
    /\ UNCHANGED <<saved, approval, barrier, lease>>

FailReceiptBeforeDispatch(r) ==
    /\ ReceiptUndispatched(r)
    /\ result' = [result EXCEPT ![r] = "failed"]
    /\ plan' = [plan EXCEPT ![r] = "failed"]
    /\ guard' = [guard EXCEPT ![dec[r]].state = "failed"]
    /\ UNCHANGED <<saved, approval, barrier, lease>>

\* executionRepository.updatePlanStatus: unconditional UPDATE by plan id.
UpdatePlanStatus(r, status) ==
    /\ plan' = IF plan[r] = "none" THEN plan ELSE [plan EXCEPT ![r] = status]
    /\ UNCHANGED <<saved, guard, approval, barrier, result, lease>>

\* executionRepository.createResult: plain INSERT, unique on plan_id.
CreateResult(r, status) ==
    /\ plan[r] # "none"
    /\ result[r] = "none"
    /\ result' = [result EXCEPT ![r] = status]
    /\ UNCHANGED <<saved, guard, approval, barrier, plan, lease>>

\* markExecutionTerminalForDecision: the guard follows the plan and the result.
MarkExecutionTerminal(r, status) ==
    /\ guard[dec[r]].state = "running"
    /\ guard[dec[r]].plan = r
    /\ plan[r] = status
    /\ result[r] = status
    /\ guard' = [guard EXCEPT ![dec[r]].state = status]
    /\ UNCHANGED <<saved, approval, barrier, plan, result, lease>>

(***************************************************************************)
(* Approvals: confirmation, response, denial and admission.                *)
(***************************************************************************)

\* approvalRepository.recordFirstConfirmation: the token is minted once.
FirstConfirmable(d) ==
    /\ approval[d].status = "pending"
    /\ approval[d].level = "dual"
    /\ approval[d].first = "none"

RecordFirstConfirmation(d) ==
    /\ FirstConfirmable(d)
    /\ approval' = [approval EXCEPT ![d].first = "fresh"]
    /\ UNCHANGED <<saved, guard, barrier, plan, result, lease>>

\* approvalRepository.respond: pending and unexpired by the database clock.
RespondTo(d, status) ==
    /\ approval[d].status = "pending"
    /\ approval' = [approval EXCEPT ![d].status = status]
    /\ UNCHANGED <<saved, guard, barrier, plan, result, lease>>

\* Mutant: the sweep looks at the expiry only, not at the status.
ExpireAnswered ==
    /\ \E d \in Decisions : approval[d].status \in {"lapsed", "approved"}
    /\ approval' = [d \in Decisions |->
          IF approval[d].status \in {"lapsed", "approved"}
          THEN [approval[d] EXCEPT !.status = "expired"] ELSE approval[d]]
    /\ UNCHANGED <<saved, guard, barrier, plan, result, lease>>

\* approvalRepository.expirePending: every pending row past its expiry.
ExpirePending ==
    /\ \E d \in Decisions : approval[d].status = "lapsed"
    /\ approval' = [d \in Decisions |->
          IF approval[d].status = "lapsed" THEN [approval[d] EXCEPT !.status = "expired"]
                                           ELSE approval[d]]
    /\ UNCHANGED <<saved, guard, barrier, plan, result, lease>>

\* deleteStaleEscalations: the stale rows whose action only asked the user are
\* soft-deleted.  The type of an action is not modelled: any of them may be such.
StaleApprovals == {d \in Decisions : approval[d].status \in {"lapsed", "expired"}}

CleanEscalations(escalations) ==
    /\ escalations \subseteq StaleApprovals
    /\ approval' = [d \in Decisions |->
          IF d \in escalations THEN [approval[d] EXCEPT !.status = "cleaned"]
                               ELSE approval[d]]
    /\ UNCHANGED <<saved, guard, barrier, plan, result, lease>>

\* recordPolicyDenial, scope approval: the approved row is consumed.
Deniable(d) ==
    /\ owner
    /\ approval[d].status = "approved"
    /\ ~approval[d].denied
    /\ barrier[d] = NoBarrier

DenyApproved(d) ==
    /\ Deniable(d)
    /\ approval' = [approval EXCEPT ![d].denied = TRUE]
    /\ UNCHANGED <<saved, guard, barrier, plan, result, lease>>

\* admitApprovalExecution: an approved, undenied row whose receipt was never
\* claimed gets one barrier, bound to this request's plan and policy verdict.
Admissible(r) ==
    LET d == dec[r] IN
    /\ owner
    /\ guard[d].state = "non_effect"
    /\ guard[d].kind = "approval"
    /\ guard[d].plan = NoPlan
    /\ guard[d].level # "none"
    /\ barrier[d] = NoBarrier
    /\ approval[d].status = "approved"
    /\ ~approval[d].denied

AdmitApprovalExecution(r, verdict) ==
    /\ Admissible(r)
    /\ plan' = [plan EXCEPT ![r] = "running"]
    /\ barrier' = [barrier EXCEPT ![dec[r]] =
          [status |-> "in_progress", plan |-> r, policy |-> verdict]]
    /\ UNCHANGED <<saved, guard, approval, result, lease>>

\* isDispatchable, the SELECT: exact barrier and plan, owner not paused.  The
\* comparison of policy snapshots that precedes it throws: SnapshotMatches.
AdmissionDispatchable(r) ==
    /\ owner
    /\ barrier[dec[r]].status = "in_progress"
    /\ barrier[dec[r]].plan = r
    /\ plan[r] = "running"
    /\ settings # "paused"

\* assertExactAdmission, as isDispatchable calls it: the admitted policy
\* snapshot must equal the one just evaluated, its reason included.
SnapshotMatches(r, verdict) == barrier[dec[r]].policy = verdict

\* failBeforeDispatch: closes an admitted plan no adapter was invoked for.
AdmissionUndispatched(r) ==
    /\ owner
    /\ barrier[dec[r]].plan = r
    /\ barrier[dec[r]].status = "in_progress"
    /\ plan[r] = "running"
    /\ result[r] \in {"none", "failed"}

FailAdmissionBeforeDispatch(r) ==
    /\ AdmissionUndispatched(r)
    /\ result' = [result EXCEPT ![r] = "failed"]
    /\ plan' = [plan EXCEPT ![r] = "failed"]
    /\ barrier' = [barrier EXCEPT ![dec[r]].status = "failed"]
    /\ UNCHANGED <<saved, guard, approval, lease>>

\* observeTerminal: the first observation of an in-progress barrier wins.
ObserveTerminal(r, status) ==
    /\ barrier[dec[r]].plan = r
    /\ barrier[dec[r]].status = "in_progress"
    /\ barrier' = [barrier EXCEPT ![dec[r]].status = status]
    /\ UNCHANGED <<saved, guard, approval, plan, result, lease>>

\* finalizeAdmittedPlan: the plan and its result follow the observation; the
\* barrier may still be in progress when the observation itself was lost.
FinalizeAdmittedPlan(r, status) ==
    /\ barrier[dec[r]].plan = r
    /\ barrier[dec[r]].status \in {"in_progress", status}
    /\ plan[r] \in {"running", status}
    /\ result[r] \in {"none", status}
    /\ result' = [result EXCEPT ![r] = status]
    /\ plan' = [plan EXCEPT ![r] = status]
    /\ UNCHANGED <<saved, guard, approval, barrier, lease>>

(***************************************************************************)
(* The request-start lease: the last fence before an adapter is called.    *)
(***************************************************************************)

\* The durable row that authorises this plan: an in-progress barrier or a
\* running receipt, each with its plan still running.
HoldsAuthority(r) ==
    /\ plan[r] = "running"
    /\ \/ barrier[dec[r]].plan = r /\ barrier[dec[r]].status = "in_progress"
       \/ guard[dec[r]].plan = r /\ guard[dec[r]].state = "running"

\* Mutant: an ambiguous lease no longer occupies its provider.
ProviderStarted(r) ==
    /\ dec[r] \in Credentialed
    /\ \E q \in Requests :
          q # r /\ dec[q] \in Credentialed /\ lease[q] = "request_started"

\* An unresolved lease of the same provider refuses the next one.
ProviderBusy(r) ==
    /\ dec[r] \in Credentialed
    /\ \E q \in Requests :
          q # r /\ dec[q] \in Credentialed /\ lease[q] \in Unresolved

\* Mutant: the grant compares the user revision only.
StartableUserOnly(r, u, p) ==
    /\ owner
    /\ lease[r] = "none"
    /\ settings # "paused"
    /\ userRev = u
    /\ HoldsAuthority(r)
    /\ ~ProviderBusy(r)

\* credentialDispatchLeaseRepository.start, its refusals negated.
\* u and p are the revisions the request saw when it evaluated the policy.
Startable(r, u, p) ==
    /\ owner
    /\ lease[r] = "none"
    /\ settings # "paused"
    /\ userRev = u
    /\ polRev = p
    /\ HoldsAuthority(r)
    /\ ~ProviderBusy(r)

\* Mutant: the sweep does not look at the state of a lease.
LeasesEverStarted == {q \in Requests : lease[q] # "none"}

StartedLeases == {q \in Requests : lease[q] = "request_started"}

\* Mutant: an overdue lease gets a state of its own.
SweptExpired(overdue) ==
    [q \in Requests |-> IF q \in overdue THEN "expired" ELSE lease[q]]

\* markOverdueLeasesAmbiguous: elapsed time never makes a lease reusable.  It
\* is part of every start, granted or refused, and of every bind and credential
\* mutation.  The clock is not modelled: any started lease may be overdue.
Swept(overdue) ==
    [q \in Requests |-> IF q \in overdue THEN "ambiguous" ELSE lease[q]]

SweepOverdue(overdue) ==
    /\ overdue \subseteq StartedLeases
    /\ lease' = Swept(overdue)
    /\ UNCHANGED <<saved, guard, approval, barrier, plan, result>>

StartLease(r, u, p, overdue) ==
    /\ Startable(r, u, p)
    /\ overdue \subseteq StartedLeases
    /\ lease' = [Swept(overdue) EXCEPT ![r] = "request_started"]
    /\ UNCHANGED <<saved, guard, approval, barrier, plan, result>>

\* terminalize: known truth resolves a started or an ambiguous lease, never a
\* resolved one; recordAmbiguityWithClient retains an unresolved lease.
TerminalizeLease(r, state) ==
    /\ lease[r] \in Unresolved
    /\ lease' = [lease EXCEPT ![r] = state]
    /\ UNCHANGED <<saved, guard, approval, barrier, plan, result>>

(***************************************************************************)
(* The owner's and the operator's own operations.                          *)
(***************************************************************************)

\* Mutant: the settings change without a new revision.
UpdateSettingsUnfenced(s) ==
    /\ owner
    /\ settings' = s
    /\ UNCHANGED <<owner, userRev, policies, polRev>>

\* updateAutonomySettings, updateTrustTier: a new revision in the same UPDATE.
UpdateSettings(s) ==
    /\ owner
    /\ settings' = s
    /\ userRev' = userRev + 1
    /\ UNCHANGED <<owner, policies, polRev>>

\* policyRepository create, update, disable, delete: the installation-wide
\* revision is bumped in the transaction of the mutation.
UpdatePolicies(p) ==
    /\ owner
    /\ policies' = p
    /\ polRev' = polRev + 1
    /\ UNCHANGED <<owner, settings, userRev>>

\* Mutant: only recorded ambiguity holds the purge back.
NothingAmbiguous ==
    /\ \A d \in Decisions : barrier[d].status # "ambiguous"
    /\ \A r \in Requests : lease[r] # "ambiguous"

\* assertNoActiveExecutionsWithClient.
NoActiveExecution ==
    /\ \A d \in Decisions :
          /\ barrier[d].status \notin {"in_progress", "ambiguous"}
          /\ guard[d].state # "running"
    /\ \A r \in Requests :
          /\ lease[r] \notin Unresolved
          /\ plan[r] = "running" =>
                barrier[dec[r]].plan = r \/ guard[dec[r]].plan = r

\* purgeUserWithClient: refused while an execution is active or ambiguous,
\* otherwise every row of the owner goes; removing a policy row bumps the
\* policy revision ("auto" stands for no policy rows).
PurgeUser ==
    /\ owner
    /\ NoActiveExecution
    /\ owner' = FALSE
    /\ saved' = {}
    /\ guard' = [d \in Decisions |-> NoGuard]
    /\ approval' = [d \in Decisions |-> NoApproval]
    /\ barrier' = [d \in Decisions |-> NoBarrier]
    /\ plan' = [r \in Requests |-> "none"]
    /\ result' = [r \in Requests |-> "none"]
    /\ lease' = [r \in Requests |-> "none"]
    /\ policies' = "auto"
    /\ polRev' = IF policies = "auto" THEN polRev ELSE polRev + 1
    /\ UNCHANGED <<settings, userRev>>
=============================================================================
