----------------------------- MODULE GmailArchive -----------------------------
(***************************************************************************)
(* The dedicated pipeline that archives one Gmail message after the owner   *)
(* approved it: the gmail-archive-*-repository.ts transactions over the     *)
(* pre-effect barrier, the caller kernel and the inbox mutation port that   *)
(* execute an approval, and the recovery lease under which an abandoned     *)
(* attempt is observed and closed.                                          *)
(*                                                                         *)
(* One approval: every row of the pipeline belongs to one, so approvals do  *)
(* not interact.  The execution plan, its result and the receipt revisions  *)
(* are written in the transactions that write the barrier and follow it.    *)
(* The clock appears as what the code asks of it: whether a phase is older  *)
(* than the grace period (aged), whether a lease and an observation         *)
(* deadline still run.  Renewing a running lease moves neither.             *)
(***************************************************************************)
EXTENDS Integers, FiniteSets

CONSTANTS
    Executors,  \* calls of executeApproved
    Recoverers, \* recovery passes over the same approval
    None,
    MaxEdits,   \* bound: changes of the account, the policy and the mailbox
    MaxGen      \* bound: generations of the recovery lease

ASSUME ArchiveConstants ==
    /\ None \notin Executors
    /\ MaxEdits \in Nat
    /\ MaxGen \in Nat

VARIABLES
    approval,   \* the approval row, and whether its feedback was applied
    barrier,    \* the event_execution row of pre_effect_barriers
    aged,       \* the barrier's phase is older than the recovery grace
    lease,      \* the row of gmail_archive_recovery_leases, or NoLease
    ex,         \* what each executor is doing
    rec,        \* what each recoverer is doing
    account,    \* the connected account and its credential revision
    policy,     \* the owner's policies: an edition and its verdict
    inbox,      \* external: Gmail shows the message in the inbox
    wire,       \* external: the modify request of an executor
    edits,      \* changes made to the environment so far
    claimant,   \* history: the executor that was handed the claim
    entered,    \* history: the credential revision the dispatch gate admitted
    permits     \* history: observation permits issued

vars == <<approval, barrier, aged, lease, ex, rec, account, policy, inbox,
          wire, edits, claimant, entered, permits>>

rows    == <<approval, barrier, aged, lease>>
outside == <<account, policy, inbox, edits>>
history == <<claimant, entered, permits>>

Open     == {"reserved", "prepared", "in_progress"}
Executed == {"succeeded", "failed", "unknown"}
Confirmed == {"changed", "already_in_state", "reconciled"}
KnownFailures == {"not_admitted", "admission_unavailable", "credentials_unavailable",
                  "preflight_unavailable", "remote_rejected"}
Results == Confirmed \cup KnownFailures \cup {"remote_outcome_unknown"}
Sights  == {"inbox", "archived", "unavailable"}

Editions  == 0 .. MaxEdits
Revisions == 0 .. MaxEdits + Cardinality(Executors) + MaxGen

BarrierRows == [status: {"none", "blocked"} \cup Open \cup Executed,
                phase: {"none", "pre_dispatch", "dispatch_may_have_started"},
                edition: Editions \cup {-1},
                result: {"none", "interrupted_before_dispatch"} \cup Results \cup Sights]
Stages == [status: Open, phase: {"none", "pre_dispatch", "dispatch_may_have_started"}]
LeaseRows == [stage: Stages, gen: 1 .. MaxGen, live: BOOLEAN,
              observation: {"not_started", "started", "evidence_recorded"},
              attempt: 0 .. MaxGen, timely: BOOLEAN, evidence: Sights \cup {"none"}]
ExecutorRows == [at: {"idle", "resolve", "credential", "reresolve", "preflight", "recheck",
                      "gate", "post", "posted", "readback", "terminalize", "done"},
                 token: Revisions, target: Revisions, result: Results \cup {"none"}]
RecovererRows == [at: {"idle", "held", "checking", "permitted", "asking", "evident",
                       "recording", "reconciling"},
                  stage: Stages, gen: 0 .. MaxGen, sight: Sights \cup {"none"}]

NoLease == [gen |-> 0]
NoStage == [status |-> "reserved", phase |-> "none"]
NoHold  == [at |-> "idle", stage |-> NoStage, gen |-> 0, sight |-> "none"]

TypeOK ==
    /\ approval \in [status: {"pending", "approved", "rejected", "expired"}, applied: BOOLEAN]
    /\ barrier \in BarrierRows
    /\ aged \in BOOLEAN
    /\ lease \in LeaseRows \cup {NoLease}
    /\ ex \in [Executors -> ExecutorRows]
    /\ rec \in [Recoverers -> RecovererRows]
    /\ account \in [connected: BOOLEAN, revision: Revisions]
    /\ policy \in [edition: Editions, verdict: {"single", "denied", "other"}]
    /\ inbox \in BOOLEAN
    /\ wire \in [Executors -> {"none", "flying", "landed", "refused", "lost"}]
    /\ edits \in 0 .. MaxEdits
    /\ claimant \in Executors \cup {None}
    /\ entered \in Revisions \cup {-1}
    /\ permits \in 0 .. MaxGen

Init ==
    /\ approval = [status |-> "pending", applied |-> FALSE]
    /\ barrier = [status |-> "none", phase |-> "none", edition |-> -1, result |-> "none"]
    /\ aged = FALSE
    /\ lease = NoLease
    /\ ex = [e \in Executors |-> [at |-> "idle", token |-> 0, target |-> 0, result |-> "none"]]
    /\ rec = [r \in Recoverers |-> NoHold]
    /\ account = [connected |-> TRUE, revision |-> 0]
    /\ policy = [edition |-> 0, verdict |-> "single"]
    /\ inbox \in BOOLEAN
    /\ wire = [e \in Executors |-> "none"]
    /\ edits = 0
    /\ claimant = None
    /\ entered = -1
    /\ permits = 0
-------------------------------------------------------------------------------
(* The approval and the preparation of its admission                          *)

\* A pending approval is answered; an approval reserves the barrier with it.
Respond(answer) ==
    /\ approval.status = "pending"
    /\ approval' = [approval EXCEPT !.status = answer]
    /\ barrier' = IF answer = "approved" THEN [barrier EXCEPT !.status = "reserved"]
                  ELSE barrier
    /\ UNCHANGED <<aged, lease, ex, rec, outside, wire, history>>

\* expirePending
Expire ==
    /\ approval.status = "pending"
    /\ approval' = [approval EXCEPT !.status = "expired"]
    /\ UNCHANGED <<barrier, aged, lease, ex, rec, outside, wire, history>>

\* The twin learns from the answer, once; preparation waits for it.
ApplyFeedback ==
    /\ approval.status \in {"approved", "rejected"}
    /\ ~approval.applied
    /\ approval' = [approval EXCEPT !.applied = TRUE]
    /\ UNCHANGED <<barrier, aged, lease, ex, rec, outside, wire, history>>

\* prepare: the policies are read again and their snapshot kept; a verdict that
\* would not ask the owner once is refused as a broken invariant.
Prepare ==
    /\ approval.status = "approved" /\ approval.applied
    /\ barrier.status = "reserved"
    /\ account.connected
    /\ policy.verdict # "other"
    /\ barrier' = [barrier EXCEPT
                     !.status = IF policy.verdict = "denied" THEN "blocked" ELSE "prepared",
                     !.edition = policy.edition]
    /\ aged' = FALSE
    /\ UNCHANGED <<approval, lease, ex, rec, outside, wire, history>>
-------------------------------------------------------------------------------
(* executeApproved: claim, mutate, terminalize                                *)

At(e, point) == ex[e].at = point
Goto(e, point) == ex' = [ex EXCEPT ![e].at = point]
Conclude(e, result) == ex' = [ex EXCEPT ![e].at = "terminalize", ![e].result = result]
\* The call returns; only the credential it used is remembered, for the properties.
Return(e) == ex' = [ex EXCEPT ![e].at = "done", ![e].target = 0, ![e].result = "none"]

\* currentPolicyDecision, compared with the snapshot of the preparation.
PolicyStands == policy.verdict = "single" /\ policy.edition = barrier.edition

\* Mutant: the claim also answers for an attempt already in progress.
ClaimableAgain ==
    barrier.status \in {"prepared", "in_progress"} /\ account.connected /\ PolicyStands
Claimable == barrier.status = "prepared" /\ account.connected /\ PolicyStands

\* The claim; when its answer is lost nobody executes it.
Claim(e, lost) ==
    /\ At(e, "idle")
    /\ Claimable
    /\ barrier' = [barrier EXCEPT !.status = "in_progress", !.phase = "pre_dispatch"]
    /\ aged' = FALSE
    /\ IF lost THEN Return(e) ELSE Goto(e, "resolve")
    /\ claimant' = IF lost THEN claimant ELSE e
    /\ UNCHANGED <<approval, lease, rec, outside, wire, entered, permits>>

\* not ready, in progress, terminal, stale policy, or the call failed.
NotClaimed(e) ==
    /\ At(e, "idle")
    /\ Return(e)
    /\ UNCHANGED <<rows, rec, outside, wire, history>>

\* resolveInboxMutationTarget: the attempt has not dispatched, the account is there.
Target ==
    /\ barrier.status = "in_progress" /\ barrier.phase = "pre_dispatch"
    /\ account.connected

Resolve(e) ==
    /\ At(e, "resolve")
    /\ \/ Target /\ Goto(e, "credential")
       \/ ~Target /\ Conclude(e, "not_admitted")
       \/ Conclude(e, "admission_unavailable")
    /\ UNCHANGED <<rows, rec, outside, wire, history>>

\* refreshIfExpiredWithRevision may rotate the credential it returns.
Materialize(e) ==
    /\ At(e, "credential")
    /\ \/ /\ \E rotated \in {0, 1} :
               /\ account' = [account EXCEPT !.revision = @ + rotated]
               /\ ex' = [ex EXCEPT ![e].at = "reresolve",
                                   ![e].token = account.revision + rotated]
       \/ Conclude(e, "credentials_unavailable") /\ UNCHANGED account
    /\ UNCHANGED <<rows, rec, policy, inbox, edits, wire, history>>

\* Mutant: only the resource is compared.
SameResource(e) == TRUE
\* The credential in hand is the one the database still names.
SameCredential(e) == account.revision = ex[e].token

Reresolve(e) ==
    /\ At(e, "reresolve")
    /\ \/ /\ Target /\ SameCredential(e)
          /\ ex' = [ex EXCEPT ![e].at = "preflight", ![e].target = account.revision]
       \/ ~(Target /\ SameCredential(e)) /\ Conclude(e, "not_admitted")
       \/ Conclude(e, "admission_unavailable")
    /\ UNCHANGED <<rows, rec, outside, wire, history>>

\* The read before the write: a message already archived needs no request.
Preflight(e) ==
    /\ At(e, "preflight")
    /\ \/ inbox /\ Goto(e, "recheck")
       \/ ~inbox /\ Conclude(e, "already_in_state")
       \/ Conclude(e, "preflight_unavailable")
       \/ Conclude(e, "remote_rejected")
    /\ UNCHANGED <<rows, rec, outside, wire, history>>

SameTarget(e) == Target /\ account.revision = ex[e].target

Recheck(e) ==
    /\ At(e, "recheck")
    /\ \/ SameTarget(e) /\ Goto(e, "gate")
       \/ ~SameTarget(e) /\ Conclude(e, "not_admitted")
       \/ Conclude(e, "admission_unavailable")
    /\ UNCHANGED <<rows, rec, outside, wire, history>>

\* The dispatch gate: the durable mark that a request may follow.  When its
\* answer is lost the port does not send.
EnterGate(e, lost) ==
    /\ At(e, "gate")
    /\ SameTarget(e)
    /\ barrier' = [barrier EXCEPT !.phase = "dispatch_may_have_started"]
    /\ aged' = FALSE
    /\ entered' = account.revision
    /\ IF lost THEN Conclude(e, "admission_unavailable") ELSE Goto(e, "post")
    /\ UNCHANGED <<approval, lease, rec, outside, wire, claimant, permits>>

GateRefuses(e) ==
    /\ At(e, "gate")
    /\ \/ ~SameTarget(e) /\ Conclude(e, "not_admitted")
       \/ Conclude(e, "admission_unavailable")
    /\ UNCHANGED <<rows, rec, outside, wire, history>>

\* The only request that changes the mailbox.
Post(e) ==
    /\ At(e, "post")
    /\ wire' = [wire EXCEPT ![e] = "flying"]
    /\ Goto(e, "posted")
    /\ UNCHANGED <<rows, rec, outside, history>>

\* The answer, or none: a refusal is final, everything else is read back once.
PostAnswered(e) ==
    /\ At(e, "posted")
    /\ \/ wire[e] = "landed" /\ Conclude(e, "changed")
       \/ wire[e] = "refused" /\ Conclude(e, "remote_rejected")
       \/ wire[e] # "refused" /\ Goto(e, "readback")
    /\ UNCHANGED <<rows, rec, outside, wire, history>>

ReadBack(e) ==
    /\ At(e, "readback")
    /\ \/ ~inbox /\ Conclude(e, "reconciled")
       \/ Conclude(e, "remote_outcome_unknown")
    /\ UNCHANGED <<rows, rec, outside, wire, history>>

\* gmailArchiveResultAllowedForAttemptPhase
AllowedForPhase(result, phase) ==
    CASE result \in {"remote_rejected", "admission_unavailable"} -> TRUE
      [] result \in {"changed", "reconciled", "remote_outcome_unknown"} ->
           phase = "dispatch_may_have_started"
      [] OTHER -> phase = "pre_dispatch"

Disposition(result) ==
    CASE result \in Confirmed -> "succeeded"
      [] result \in KnownFailures -> "failed"
      [] OTHER -> "unknown"

\* Mutant: the lease is left to expire.
RetiredLater == lease
\* retireGmailArchiveRecoveryLeaseForTerminalInTransaction
Retired == NoLease

\* Only an attempt still in progress is closed by its executor; a lost answer
\* changes nothing, the kernel then reads the status.
Terminalize(e) ==
    /\ At(e, "terminalize")
    /\ IF barrier.status = "in_progress" /\ AllowedForPhase(ex[e].result, barrier.phase)
       THEN /\ barrier' = [barrier EXCEPT !.status = Disposition(ex[e].result),
                                          !.result = ex[e].result]
            /\ lease' = Retired
       ELSE UNCHANGED <<barrier, lease>>
    /\ Return(e)
    /\ UNCHANGED <<approval, aged, rec, outside, wire, history>>

\* The process dies, or a call throws and the kernel answers unverified.
Crash(e) ==
    /\ ex[e].at \notin {"idle", "done"}
    /\ Return(e)
    /\ UNCHANGED <<rows, rec, outside, wire, history>>
-------------------------------------------------------------------------------
(* Recovery of an abandoned attempt                                            *)

AtR(r, point) == rec[r].at = point
GotoR(r, point) == rec' = [rec EXCEPT ![r].at = point]
LetGo(r) == rec' = [rec EXCEPT ![r] = NoHold]

Stage == [status |-> barrier.status, phase |-> barrier.phase]

\* classifyStage: an open barrier whose phase outlived the grace period.
Eligible == barrier.status \in Open /\ aged

\* Mutant: the attempt's phase is not compared.
FencedByGeneration(r) ==
    lease # NoLease /\ lease.gen = rec[r].gen /\ barrier.status = "in_progress"
\* rowMatchesFence with the stage of the barrier as it is now.
Fenced(r) ==
    /\ lease # NoLease
    /\ lease.gen = rec[r].gen /\ lease.stage = rec[r].stage
    /\ rec[r].stage = Stage

SameStage == lease # NoLease /\ lease.stage = Stage

\* A started observation lives until its deadline, any other lease until it expires.
Held == SameStage /\ IF lease.observation = "started" THEN lease.timely ELSE lease.live

NoObservation == [observation |-> "not_started", attempt |-> 0, evidence |-> "none"]
Recorded(sight) ==
    [observation |-> "evidence_recorded", attempt |-> lease.attempt, evidence |-> sight]
\* Mutant: an observation that ran out of time is begun again.
InheritedUnlessLapsed ==
    IF SameStage /\ lease.observation = "evidence_recorded" THEN Recorded(lease.evidence)
    ELSE NoObservation
\* Mutant: whatever was recorded, a take-over writes unavailable.
InheritedUnavailable ==
    IF SameStage /\ lease.observation # "not_started" THEN Recorded("unavailable")
    ELSE NoObservation
\* What a take-over keeps: recorded evidence stands, and an observation that ran
\* out of time is recorded as unavailable, never begun again.
Inherited ==
    IF SameStage /\ lease.observation # "not_started"
    THEN Recorded(IF lease.observation = "started" THEN "unavailable" ELSE lease.evidence)
    ELSE NoObservation

Acquire(r) ==
    /\ AtR(r, "idle")
    /\ Eligible
    /\ ~Held
    /\ lease.gen < MaxGen
    /\ LET kept == Inherited IN
       lease' = [stage |-> Stage, gen |-> lease.gen + 1, live |-> TRUE,
                 observation |-> kept.observation, attempt |-> kept.attempt,
                 timely |-> FALSE, evidence |-> kept.evidence]
    /\ rec' = [rec EXCEPT ![r] = [at |-> "held", stage |-> Stage,
                                  gen |-> lease.gen + 1, sight |-> "none"]]
    /\ UNCHANGED <<approval, barrier, aged, ex, outside, wire, history>>

\* reconcile: an attempt that never reached the gate is closed as failed.
ReconcilePreDispatch(r) ==
    /\ AtR(r, "held")
    /\ rec[r].stage.phase = "pre_dispatch"
    /\ IF Eligible /\ Fenced(r) /\ lease.observation = "not_started"
       THEN /\ barrier' = [barrier EXCEPT !.status = "failed",
                                          !.result = "interrupted_before_dispatch"]
            /\ lease' = NoLease
       ELSE UNCHANGED <<barrier, lease>>
    /\ LetGo(r)
    /\ UNCHANGED <<approval, aged, ex, outside, wire, history>>

Beginnable(r) == Eligible /\ Fenced(r) /\ lease.observation = "not_started" /\ lease.live

\* beginObservation: one permit for the attempt; when its answer is lost it is
\* never used.
Begin(r, lost) ==
    /\ AtR(r, "held")
    /\ rec[r].stage.phase = "dispatch_may_have_started"
    /\ IF Beginnable(r)
       THEN /\ lease' = [lease EXCEPT !.observation = "started", !.attempt = lease.gen,
                                      !.timely = TRUE]
            /\ permits' = permits + 1
            /\ GotoR(r, IF lost THEN "reconciling" ELSE "checking")
       ELSE UNCHANGED <<lease, permits>> /\ GotoR(r, "reconciling")
    /\ UNCHANGED <<approval, barrier, aged, ex, outside, wire, claimant, entered>>

Permitted(r) ==
    /\ lease # NoLease /\ lease.gen = rec[r].gen /\ lease.stage = rec[r].stage
    /\ lease.observation = "started" /\ lease.attempt = rec[r].gen

\* liveCapability after the commit, and expireObservationAfterCommit when the
\* permit ran out before it could be handed over.
CheckPermit(r) ==
    /\ AtR(r, "checking")
    /\ IF Permitted(r) /\ lease.live /\ lease.timely
       THEN GotoR(r, "permitted") /\ UNCHANGED lease
       ELSE /\ lease' = IF Permitted(r)
                        THEN [lease EXCEPT !.observation = "evidence_recorded",
                                           !.evidence = "unavailable"]
                        ELSE lease
            /\ GotoR(r, "reconciling")
    /\ UNCHANGED <<approval, barrier, aged, ex, outside, wire, history>>

Sees(r, sight) == rec' = [rec EXCEPT ![r].at = "evident", ![r].sight = sight]

\* The coordinator resolves the target under the permit, before and after it
\* takes a credential that the refresh may rotate.
SelectTarget(r) ==
    /\ AtR(r, "permitted")
    /\ \E rotated \in {0, 1} : account' = [account EXCEPT !.revision = @ + rotated]
    /\ \/ /\ Permitted(r) /\ lease.live /\ lease.timely
          /\ Stage = rec[r].stage /\ account.connected
          /\ GotoR(r, "asking")
       \/ Sees(r, "unavailable")
    /\ UNCHANGED <<rows, ex, policy, inbox, edits, wire, history>>

\* The only read of an observation.
Look(r) ==
    /\ AtR(r, "asking")
    /\ Sees(r, IF inbox THEN "inbox" ELSE "archived") \/ Sees(r, "unavailable")
    /\ UNCHANGED <<rows, ex, outside, wire, history>>

\* The database clock is read before the evidence is written; a write that
\* then waits for locks is still timely.
SampleClock(r) ==
    /\ AtR(r, "evident")
    /\ GotoR(r, IF Permitted(r) /\ lease.timely THEN "recording" ELSE "reconciling")
    /\ UNCHANGED <<rows, ex, outside, wire, history>>

\* recordObservation
Record(r) ==
    /\ AtR(r, "recording")
    /\ lease' = IF Eligible /\ Fenced(r) /\ Permitted(r)
                THEN [lease EXCEPT !.observation = "evidence_recorded",
                                   !.evidence = rec[r].sight]
                ELSE lease
    /\ GotoR(r, "reconciling")
    /\ UNCHANGED <<approval, barrier, aged, ex, outside, wire, history>>

\* reconcileRecordedObservation: whatever was seen, the outcome of the request
\* itself stays unknown.
ReconcileRecorded(r) ==
    /\ AtR(r, "reconciling")
    /\ IF Eligible /\ Fenced(r) /\ lease.observation = "evidence_recorded"
       THEN /\ barrier' = [barrier EXCEPT !.status = "unknown", !.result = lease.evidence]
            /\ lease' = NoLease
       ELSE UNCHANGED <<barrier, lease>>
    /\ LetGo(r)
    /\ UNCHANGED <<approval, aged, ex, outside, wire, history>>

\* The recoverer dies, finds its lease lapsed, or its acquisition answer was
\* lost; a lease on preparation or claim only lets it call those.
GiveUp(r) ==
    /\ ~AtR(r, "idle")
    /\ LetGo(r)
    /\ UNCHANGED <<rows, ex, outside, wire, history>>
-------------------------------------------------------------------------------
(* Time, Gmail and the owner                                                   *)

PhaseAges ==
    /\ barrier.status \in Open /\ ~aged
    /\ aged' = TRUE
    /\ UNCHANGED <<approval, barrier, lease, ex, rec, outside, wire, history>>

LeaseLapses ==
    /\ lease # NoLease
    /\ \/ lease.live /\ lease' = [lease EXCEPT !.live = FALSE]
       \/ lease.timely /\ lease' = [lease EXCEPT !.timely = FALSE]
    /\ UNCHANGED <<approval, barrier, aged, ex, rec, outside, wire, history>>

\* The request reaches Gmail, late perhaps, or is refused, or lost on the way.
Deliver(e) ==
    /\ wire[e] = "flying"
    /\ \/ /\ wire' = [wire EXCEPT ![e] = "landed"]
          /\ inbox' = FALSE
       \/ /\ \E fate \in {"refused", "lost"} : wire' = [wire EXCEPT ![e] = fate]
          /\ UNCHANGED inbox
    /\ UNCHANGED <<rows, ex, rec, account, policy, edits, history>>

\* The owner edits policies, disconnects and reconnects, or moves the message.
Edit ==
    /\ edits < MaxEdits
    /\ edits' = edits + 1
    /\ \/ /\ \E verdict \in {"single", "denied", "other"} :
               policy' = [edition |-> policy.edition + 1, verdict |-> verdict]
          /\ UNCHANGED <<account, inbox>>
       \/ /\ account' = IF account.connected THEN [account EXCEPT !.connected = FALSE]
                        ELSE [connected |-> TRUE, revision |-> account.revision + 1]
          /\ UNCHANGED <<policy, inbox>>
       \/ account' = [account EXCEPT !.revision = @ + 1] /\ UNCHANGED <<policy, inbox>>
       \/ inbox' = ~inbox /\ UNCHANGED <<account, policy>>
    /\ UNCHANGED <<rows, ex, rec, wire, history>>
-------------------------------------------------------------------------------
Execute(e) ==
    \/ \E lost \in BOOLEAN : Claim(e, lost) \/ EnterGate(e, lost)
    \/ NotClaimed(e) \/ Resolve(e) \/ Materialize(e) \/ Reresolve(e)
    \/ Preflight(e) \/ Recheck(e) \/ GateRefuses(e)
    \/ Post(e) \/ PostAnswered(e) \/ ReadBack(e) \/ Terminalize(e) \/ Crash(e)

Recover(r) ==
    \/ \E lost \in BOOLEAN : Begin(r, lost)
    \/ Acquire(r) \/ ReconcilePreDispatch(r) \/ CheckPermit(r) \/ SelectTarget(r)
    \/ Look(r) \/ SampleClock(r) \/ Record(r) \/ ReconcileRecorded(r) \/ GiveUp(r)

Next ==
    \/ \E answer \in {"approved", "rejected"} : Respond(answer)
    \/ Expire \/ ApplyFeedback \/ Prepare
    \/ \E e \in Executors : Execute(e) \/ Deliver(e)
    \/ \E r \in Recoverers : Recover(r)
    \/ PhaseAges \/ LeaseLapses \/ Edit

Spec == Init /\ [][Next]_vars
-------------------------------------------------------------------------------
Sent == {e \in Executors : wire[e] # "none"}

\* The terminal row never contradicts Gmail, not even when a request lands after
\* the row was closed: failed means that no request of this approval changed the
\* mailbox, changed means that one did, already_in_state that none was sent and
\* reconciled that one was (terminalize, reconcile, the dispatch gate).
TerminalTellsTheTruth ==
    /\ barrier.status = "failed" => \A e \in Executors : wire[e] # "landed"
    /\ barrier.status = "failed" => \A e \in Executors : wire[e] # "flying"
    /\ barrier.result = "changed" => \E e \in Executors : wire[e] = "landed"
    /\ barrier.result = "already_in_state" => Sent = {}
    /\ barrier.result = "reconciled" => Sent # {}

\* A request goes out with the credential whose revision the dispatch gate
\* admitted, although refreshes, disconnects and reconnects rotate it at any
\* await of mutate.
PostUsesAdmittedCredential ==
    \A e \in Sent : ex[e].token = entered

\* A dispatched attempt is observed under one permit at most: take-overs, lapsed
\* deadlines and lost answers never start a second observation (beginObservation).
ObservedOnce == permits <= 1

\* No recovery capability outlives the terminal truth of its attempt.
LeaseDiesWithAttempt == barrier.status \in Executed => lease = NoLease

\* Recorded evidence and terminal rows are final: no step of a late executor, a
\* superseded recoverer or a take-over rewrites them.
EvidenceIsFinal ==
    [][/\ barrier.status \in Executed \cup {"blocked"} => barrier' = barrier
       /\ (lease # NoLease /\ lease.gen > 0 /\ lease' # NoLease)
             => lease.evidence \in {"none", lease'.evidence}]_vars

\* One executor is handed the claim, and at most one request is sent, by it: the
\* pipeline implements OneShotEffect (claim, dispatch gate, mutate).
OneShot == INSTANCE OneShotEffect WITH
    Decisions <- {"archive"},
    Requests <- Executors,
    holder <- [d \in {"archive"} |-> claimant],
    acted <- [d \in {"archive"} |-> Sent]
ArchiveIsOneShot == OneShot!Spec
===============================================================================
