----------------------- MODULE ExecutionRoutes_proofs ------------------------
(***************************************************************************)
(* Proofs, for any decisions, any requests and any number of changes of    *)
(* settings and policies, of the safety of ExecutionLedger and             *)
(* ExecutionRoutes.                                                        *)
(*                                                                         *)
(* First, every transaction of the ledger preserves LedgerInv: the rows    *)
(* keep their types, a claimed receipt and an admission barrier never      *)
(* coexist, and a lease belongs to the holder of its decision's authority. *)
(* Then the routes: a step of a request is a transaction of the ledger and *)
(* a move of the request.  Most moves lead to a quiet location, about      *)
(* which the invariant says nothing: they share the lemmas QuietMove,      *)
(* FinishMove, EvaluateMove and GotoMove.                                  *)
(***************************************************************************)
EXTENDS ExecutionInvariants, TLAPS

USE DEF authority, rows, inputs, process

-----------------------------------------------------------------------------
(* The transactions of the ledger.                                         *)


\* No lease disappears, and only the one of request r is resolved.
LeasesKept(r) ==
    \A q \in Requests :
        /\ lease[q] # "none" => lease'[q] # "none"
        /\ q # r /\ lease[q] \in Unresolved => lease'[q] \in Unresolved

\* A step that leaves the rows alone.
LEMMA RowsUnchangedInv ==
    ASSUME LedgerInv, UNCHANGED <<rows, authority, inputs>>
    PROVE  LedgerInv' /\ UNCHANGED lease
  BY DEF LedgerInv, LedgerTypeOK, AuthoritiesExclude, LeasesHoldAuthority

(***************************************************************************)
(* Event ingestion: the decision, its receipt and its approval.            *)
(***************************************************************************)

\* A new decision row carries no authority.
LEMMA SaveDecisionInv ==
    ASSUME LedgerInv, NEW d \in Decisions,
           SaveDecision(d), UNCHANGED <<authority, inputs>>
    PROVE  LedgerInv' /\ UNCHANGED lease
<1>1. saved' \subseteq Decisions
  BY DEF LedgerInv, LedgerTypeOK, SaveDecision
<1>2. LedgerTypeOK'
  BY <1>1 DEF LedgerInv, LedgerTypeOK, SaveDecision
<1>3. AuthoritiesExclude'
  BY <1>1 DEF LedgerInv, LedgerTypeOK, AuthoritiesExclude, SaveDecision, GuardRows,
     ApprovalRows, BarrierRows
<1>4. LeasesHoldAuthority'
  BY <1>1 DEF LedgerInv, LedgerTypeOK, LeasesHoldAuthority, AuthoritiesExclude,
     SaveDecision, GuardRows, BarrierRows
<1> QED BY <1>2, <1>3, <1>4 DEF LedgerInv, SaveDecision

\* A receipt is captured unclaimed, and only where there was none.
LEMMA CreateReceiptsInv ==
    ASSUME LedgerInv, NEW d \in Decisions, NEW kind \in Kinds, NEW level \in Levels,
           CreateReceipts(d, kind, level), UNCHANGED <<authority, inputs>>
    PROVE  LedgerInv' /\ UNCHANGED lease
<1>1. guard' \in [Decisions -> GuardRows]
  BY DEF LedgerInv, LedgerTypeOK, CreateReceipts, GuardRows, GuardStates, Kinds, Levels,
     Plans
<1>2. LedgerTypeOK'
  BY <1>1 DEF LedgerInv, LedgerTypeOK, CreateReceipts
<1>3. AuthoritiesExclude'
  BY <1>1 DEF LedgerInv, LedgerTypeOK, AuthoritiesExclude, CreateReceipts, Capturable,
     NoGuard, GuardRows, ApprovalRows, BarrierRows
<1>4. LeasesHoldAuthority'
  BY <1>1 DEF LedgerInv, LedgerTypeOK, LeasesHoldAuthority, AuthoritiesExclude,
     CreateReceipts, Capturable, NoGuard, GuardRows, BarrierRows
<1> QED BY <1>2, <1>3, <1>4 DEF LedgerInv, CreateReceipts

\* A new approval is pending: no barrier can stand on it yet.
LEMMA CreateApprovalInv ==
    ASSUME LedgerInv, NEW d \in Decisions,
           CreateApproval(d), UNCHANGED <<authority, inputs>>
    PROVE  LedgerInv' /\ UNCHANGED lease
<1>1. approval' \in [Decisions -> ApprovalRows]
  BY DEF LedgerInv, LedgerTypeOK, CreateApproval, PendingApproval, GuardRows,
     ApprovalRows, ApprovalStates, Confirmations
<1>2. LedgerTypeOK'
  BY <1>1 DEF LedgerInv, LedgerTypeOK, CreateApproval
<1>3. AuthoritiesExclude'
  BY <1>1 DEF LedgerInv, LedgerTypeOK, AuthoritiesExclude, CreateApproval,
     PendingApproval, NoApproval, GuardRows, ApprovalRows, BarrierRows
<1>4. LeasesHoldAuthority'
  BY <1>1 DEF LedgerInv, LedgerTypeOK, LeasesHoldAuthority, AuthoritiesExclude,
     CreateApproval, PendingApproval, NoApproval, GuardRows, BarrierRows
<1> QED BY <1>2, <1>3, <1>4 DEF LedgerInv, CreateApproval

\* A ready receipt is unclaimed, so closing it takes no authority away.
LEMMA ClosePreparationInv ==
    ASSUME LedgerInv, NEW d \in Decisions, NEW ambiguous \in BOOLEAN,
           ClosePreparation(d, ambiguous), UNCHANGED <<authority, inputs>>
    PROVE  LedgerInv' /\ UNCHANGED lease
<1>1. guard' \in [Decisions -> GuardRows]
  BY DEF LedgerInv, LedgerTypeOK, ClosePreparation, GuardRows, GuardStates
<1>2. LedgerTypeOK'
  BY <1>1 DEF LedgerInv, LedgerTypeOK, ClosePreparation
<1>3. AuthoritiesExclude'
  BY <1>1 DEF LedgerInv, LedgerTypeOK, AuthoritiesExclude, ClosePreparation, Ready,
     GuardRows, ApprovalRows, BarrierRows
<1>4. LeasesHoldAuthority'
  BY <1>1 DEF LedgerInv, LedgerTypeOK, LeasesHoldAuthority, AuthoritiesExclude,
     ClosePreparation, Ready, GuardRows, BarrierRows
<1> QED BY <1>2, <1>3, <1>4 DEF LedgerInv, ClosePreparation

\* A ready receipt is unclaimed, so denying it takes no authority away.
LEMMA DenyReceiptInv ==
    ASSUME LedgerInv, NEW d \in Decisions,
           DenyReceipt(d), UNCHANGED <<authority, inputs>>
    PROVE  LedgerInv' /\ UNCHANGED lease
<1>1. guard' \in [Decisions -> GuardRows]
  BY DEF LedgerInv, LedgerTypeOK, DenyReceipt, GuardRows, GuardStates
<1>2. LedgerTypeOK'
  BY <1>1 DEF LedgerInv, LedgerTypeOK, DenyReceipt
<1>3. AuthoritiesExclude'
  BY <1>1 DEF LedgerInv, LedgerTypeOK, AuthoritiesExclude, DenyReceipt, GuardRows,
     ApprovalRows, BarrierRows
<1>4. LeasesHoldAuthority'
  BY <1>1 DEF LedgerInv, LedgerTypeOK, LeasesHoldAuthority, AuthoritiesExclude,
     DenyReceipt, GuardRows, BarrierRows
<1> QED BY <1>2, <1>3, <1>4 DEF LedgerInv, DenyReceipt

\* The receipt that becomes an approval was ready, hence unclaimed.
LEMMA EscalateExecutionToApprovalInv ==
    ASSUME LedgerInv, NEW d \in Decisions, NEW level \in {"single", "dual"},
           EscalateExecutionToApproval(d, level), UNCHANGED <<authority, inputs>>
    PROVE  LedgerInv' /\ UNCHANGED lease
<1>1. guard' \in [Decisions -> GuardRows]
  BY DEF LedgerInv, LedgerTypeOK, EscalateExecutionToApproval, GuardRows, GuardStates,
     Kinds, Levels, Plans
<1>2. approval' \in [Decisions -> ApprovalRows]
  BY DEF LedgerInv, LedgerTypeOK, EscalateExecutionToApproval, PendingApproval,
     ApprovalRows, ApprovalStates, Levels, Confirmations
<1>3. LedgerTypeOK'
  BY <1>1, <1>2 DEF LedgerInv, LedgerTypeOK, EscalateExecutionToApproval
<1>4. AuthoritiesExclude'
  BY <1>1, <1>2 DEF LedgerInv, LedgerTypeOK, AuthoritiesExclude,
     EscalateExecutionToApproval, Escalatable, Ready, PendingApproval, GuardRows,
     ApprovalRows, BarrierRows
<1>5. LeasesHoldAuthority'
  BY <1>1, <1>2 DEF LedgerInv, LedgerTypeOK, LeasesHoldAuthority, AuthoritiesExclude,
     EscalateExecutionToApproval, Escalatable, Ready, PendingApproval, GuardRows,
     BarrierRows
<1> QED BY <1>3, <1>4, <1>5 DEF LedgerInv, EscalateExecutionToApproval

\* A ready receipt has neither a plan nor a barrier: the claim creates the
\* decision's only authority.
LEMMA ClaimExecutionInv ==
    ASSUME LedgerInv, NEW r \in Requests, route[r] = "ingest",
           ClaimExecution(r), UNCHANGED <<authority, inputs>>
    PROVE  LedgerInv' /\ UNCHANGED lease
<1>1. guard' \in [Decisions -> GuardRows]
  BY DEF LedgerInv, LedgerTypeOK, ClaimExecution, GuardRows, GuardStates, Plans
<1>2. plan' \in [Requests -> PlanStates]
  BY DEF LedgerInv, LedgerTypeOK, ClaimExecution, PlanStates
<1>3. LedgerTypeOK'
  BY <1>1, <1>2 DEF LedgerInv, LedgerTypeOK, ClaimExecution
<1>4. AuthoritiesExclude'
  BY <1>1, <1>2, LedgerConstants DEF LedgerInv, LedgerTypeOK, AuthoritiesExclude,
     ClaimExecution, Ready, GuardRows, ApprovalRows, BarrierRows
<1>5. LeasesHoldAuthority'
  BY <1>1, <1>2 DEF LedgerInv, LedgerTypeOK, LeasesHoldAuthority, AuthoritiesExclude,
     ClaimExecution, Ready, GuardRows, BarrierRows
<1> QED BY <1>3, <1>4, <1>5 DEF LedgerInv, ClaimExecution

\* A receipt closed before dispatch keeps naming its plan.
LEMMA FailReceiptBeforeDispatchInv ==
    ASSUME LedgerInv, NEW r \in Requests,
           FailReceiptBeforeDispatch(r), UNCHANGED <<authority, inputs>>
    PROVE  LedgerInv' /\ UNCHANGED lease
<1>1. guard' \in [Decisions -> GuardRows]
  BY DEF LedgerInv, LedgerTypeOK, FailReceiptBeforeDispatch, GuardRows, GuardStates
<1>2. plan' \in [Requests -> PlanStates]
  BY DEF LedgerInv, LedgerTypeOK, FailReceiptBeforeDispatch, PlanStates
<1>3. result' \in [Requests -> ResultStates]
  BY DEF LedgerInv, LedgerTypeOK, FailReceiptBeforeDispatch, ResultStates
<1>4. LedgerTypeOK'
  BY <1>1, <1>2, <1>3 DEF LedgerInv, LedgerTypeOK, FailReceiptBeforeDispatch
<1>5. AuthoritiesExclude'
  BY <1>1, <1>2, <1>3 DEF LedgerInv, LedgerTypeOK, AuthoritiesExclude,
     FailReceiptBeforeDispatch, ReceiptUndispatched, GuardRows, ApprovalRows,
     BarrierRows
<1>6. LeasesHoldAuthority'
  BY <1>1, <1>2, <1>3 DEF LedgerInv, LedgerTypeOK, LeasesHoldAuthority,
     AuthoritiesExclude, FailReceiptBeforeDispatch, ReceiptUndispatched, GuardRows,
     BarrierRows
<1> QED BY <1>4, <1>5, <1>6 DEF LedgerInv, FailReceiptBeforeDispatch

\* The plan status is not an authority.
LEMMA UpdatePlanStatusInv ==
    ASSUME LedgerInv, NEW r \in Requests, NEW status \in Terminal,
           UpdatePlanStatus(r, status), UNCHANGED <<authority, inputs>>
    PROVE  LedgerInv' /\ UNCHANGED lease
<1>1. plan' \in [Requests -> PlanStates]
  BY DEF LedgerInv, LedgerTypeOK, UpdatePlanStatus, PlanStates, Terminal
<1>2. LedgerTypeOK'
  BY <1>1 DEF LedgerInv, LedgerTypeOK, UpdatePlanStatus
<1>3. AuthoritiesExclude'
  BY <1>1 DEF LedgerInv, LedgerTypeOK, AuthoritiesExclude, UpdatePlanStatus, GuardRows,
     ApprovalRows, BarrierRows
<1>4. LeasesHoldAuthority'
  BY <1>1 DEF LedgerInv, LedgerTypeOK, LeasesHoldAuthority, AuthoritiesExclude,
     UpdatePlanStatus, GuardRows, BarrierRows
<1> QED BY <1>2, <1>3, <1>4 DEF LedgerInv, UpdatePlanStatus

\* A result is not an authority.
LEMMA CreateResultInv ==
    ASSUME LedgerInv, NEW r \in Requests, NEW status \in Terminal,
           CreateResult(r, status), UNCHANGED <<authority, inputs>>
    PROVE  LedgerInv' /\ UNCHANGED lease
<1>1. result' \in [Requests -> ResultStates]
  BY DEF LedgerInv, LedgerTypeOK, CreateResult, ResultStates, Terminal
<1>2. LedgerTypeOK'
  BY <1>1 DEF LedgerInv, LedgerTypeOK, CreateResult
<1>3. AuthoritiesExclude'
  BY <1>1 DEF LedgerInv, LedgerTypeOK, AuthoritiesExclude, CreateResult, GuardRows,
     ApprovalRows, BarrierRows
<1>4. LeasesHoldAuthority'
  BY <1>1 DEF LedgerInv, LedgerTypeOK, LeasesHoldAuthority, AuthoritiesExclude,
     CreateResult, GuardRows, BarrierRows
<1> QED BY <1>2, <1>3, <1>4 DEF LedgerInv, CreateResult

\* A terminal receipt keeps naming its plan.
LEMMA MarkExecutionTerminalInv ==
    ASSUME LedgerInv, NEW r \in Requests, NEW status \in Terminal,
           MarkExecutionTerminal(r, status), UNCHANGED <<authority, inputs>>
    PROVE  LedgerInv' /\ UNCHANGED lease
<1>1. guard' \in [Decisions -> GuardRows]
  BY DEF LedgerInv, LedgerTypeOK, MarkExecutionTerminal, GuardRows, GuardStates,
     Terminal
<1>2. LedgerTypeOK'
  BY <1>1 DEF LedgerInv, LedgerTypeOK, MarkExecutionTerminal
<1>3. AuthoritiesExclude'
  BY <1>1 DEF LedgerInv, LedgerTypeOK, AuthoritiesExclude, MarkExecutionTerminal,
     Terminal, GuardRows, ApprovalRows, BarrierRows
<1>4. LeasesHoldAuthority'
  BY <1>1 DEF LedgerInv, LedgerTypeOK, LeasesHoldAuthority, AuthoritiesExclude,
     MarkExecutionTerminal, Terminal, GuardRows, BarrierRows
<1> QED BY <1>2, <1>3, <1>4 DEF LedgerInv, MarkExecutionTerminal

(***************************************************************************)
(* Approvals: confirmation, response, denial and admission.                *)
(***************************************************************************)

\* A first confirmation leaves the status of the approval alone.
LEMMA RecordFirstConfirmationInv ==
    ASSUME LedgerInv, NEW d \in Decisions,
           RecordFirstConfirmation(d), UNCHANGED <<authority, inputs>>
    PROVE  LedgerInv' /\ UNCHANGED lease
<1>1. approval' \in [Decisions -> ApprovalRows]
  BY DEF LedgerInv, LedgerTypeOK, RecordFirstConfirmation, ApprovalRows, Confirmations
<1>2. LedgerTypeOK'
  BY <1>1 DEF LedgerInv, LedgerTypeOK, RecordFirstConfirmation
<1>3. AuthoritiesExclude'
  BY <1>1 DEF LedgerInv, LedgerTypeOK, AuthoritiesExclude, RecordFirstConfirmation,
     GuardRows, ApprovalRows, BarrierRows
<1>4. LeasesHoldAuthority'
  BY <1>1 DEF LedgerInv, LedgerTypeOK, LeasesHoldAuthority, AuthoritiesExclude,
     RecordFirstConfirmation, GuardRows, BarrierRows
<1> QED BY <1>2, <1>3, <1>4 DEF LedgerInv, RecordFirstConfirmation

\* A response consumes a pending row, which no barrier stands on.
LEMMA RespondToInv ==
    ASSUME LedgerInv, NEW d \in Decisions, NEW status \in {"approved", "rejected"},
           RespondTo(d, status), UNCHANGED <<authority, inputs>>
    PROVE  LedgerInv' /\ UNCHANGED lease
<1>1. approval' \in [Decisions -> ApprovalRows]
  BY DEF LedgerInv, LedgerTypeOK, RespondTo, ApprovalRows, ApprovalStates
<1>2. LedgerTypeOK'
  BY <1>1 DEF LedgerInv, LedgerTypeOK, RespondTo
<1>3. AuthoritiesExclude'
  BY <1>1 DEF LedgerInv, LedgerTypeOK, AuthoritiesExclude, RespondTo, GuardRows,
     ApprovalRows, BarrierRows
<1>4. LeasesHoldAuthority'
  BY <1>1 DEF LedgerInv, LedgerTypeOK, LeasesHoldAuthority, AuthoritiesExclude,
     RespondTo, GuardRows, BarrierRows
<1> QED BY <1>2, <1>3, <1>4 DEF LedgerInv, RespondTo

\* Only lapsed rows expire; a barrier stands on an approved one.
LEMMA ExpirePendingInv ==
    ASSUME LedgerInv,
           ExpirePending, UNCHANGED <<authority, inputs>>
    PROVE  LedgerInv' /\ UNCHANGED lease
<1>1. approval' \in [Decisions -> ApprovalRows]
  BY DEF LedgerInv, LedgerTypeOK, ExpirePending, ApprovalRows, ApprovalStates
<1>2. LedgerTypeOK'
  BY <1>1 DEF LedgerInv, LedgerTypeOK, ExpirePending
<1>3. AuthoritiesExclude'
  BY <1>1 DEF LedgerInv, LedgerTypeOK, AuthoritiesExclude, ExpirePending, GuardRows,
     ApprovalRows, BarrierRows
<1>4. LeasesHoldAuthority'
  BY <1>1 DEF LedgerInv, LedgerTypeOK, LeasesHoldAuthority, AuthoritiesExclude,
     ExpirePending, GuardRows, BarrierRows
<1> QED BY <1>2, <1>3, <1>4 DEF LedgerInv, ExpirePending

\* The clean-up of stale rows leaves answered ones alone.
LEMMA CleanEscalationsInv ==
    ASSUME LedgerInv, NEW escalations,
           CleanEscalations(escalations), UNCHANGED <<authority, inputs>>
    PROVE  LedgerInv' /\ UNCHANGED lease
<1>1. /\ approval' \in [Decisions -> ApprovalRows]
      /\ \A d \in Decisions : approval[d].status = "approved" => approval'[d] = approval[d]
  BY DEF LedgerInv, LedgerTypeOK, CleanEscalations, StaleApprovals, ApprovalRows, ApprovalStates
<1>2. LedgerTypeOK'
  BY <1>1 DEF LedgerInv, LedgerTypeOK, CleanEscalations
<1>3. AuthoritiesExclude'
  BY <1>1 DEF LedgerInv, AuthoritiesExclude, CleanEscalations
<1>4. LeasesHoldAuthority'
  BY DEF LedgerInv, LeasesHoldAuthority, CleanEscalations
<1> QED BY <1>2, <1>3, <1>4 DEF LedgerInv, CleanEscalations

\* A denial consumes an approved row that has no barrier.
LEMMA DenyApprovedInv ==
    ASSUME LedgerInv, NEW d \in Decisions,
           DenyApproved(d), UNCHANGED <<authority, inputs>>
    PROVE  LedgerInv' /\ UNCHANGED lease
<1>1. approval' \in [Decisions -> ApprovalRows]
  BY DEF LedgerInv, LedgerTypeOK, DenyApproved, ApprovalRows
<1>2. LedgerTypeOK'
  BY <1>1 DEF LedgerInv, LedgerTypeOK, DenyApproved
<1>3. AuthoritiesExclude'
  BY <1>1 DEF LedgerInv, LedgerTypeOK, AuthoritiesExclude, DenyApproved, Deniable,
     GuardRows, ApprovalRows, BarrierRows
<1>4. LeasesHoldAuthority'
  BY <1>1 DEF LedgerInv, LedgerTypeOK, LeasesHoldAuthority, AuthoritiesExclude,
     DenyApproved, Deniable, GuardRows, BarrierRows
<1> QED BY <1>2, <1>3, <1>4 DEF LedgerInv, DenyApproved

\* The barrier is created where there is neither a barrier nor a claimed receipt.
LEMMA AdmitApprovalExecutionInv ==
    ASSUME LedgerInv, NEW r \in Requests, NEW verdict \in Verdicts, route[r] = "respond",
           AdmitApprovalExecution(r, verdict), UNCHANGED <<authority, inputs>>
    PROVE  LedgerInv' /\ UNCHANGED lease
<1>1. barrier' \in [Decisions -> BarrierRows]
  BY DEF LedgerInv, LedgerTypeOK, AdmitApprovalExecution, BarrierRows, BarrierStates,
     Plans
<1>2. plan' \in [Requests -> PlanStates]
  BY DEF LedgerInv, LedgerTypeOK, AdmitApprovalExecution, PlanStates
<1>3. LedgerTypeOK'
  BY <1>1, <1>2 DEF LedgerInv, LedgerTypeOK, AdmitApprovalExecution
<1>4. AuthoritiesExclude'
  BY <1>1, <1>2, LedgerConstants DEF LedgerInv, LedgerTypeOK, AuthoritiesExclude,
     AdmitApprovalExecution, Admissible, NoBarrier, GuardRows, ApprovalRows, BarrierRows
<1>5. LeasesHoldAuthority'
  BY <1>1, <1>2 DEF LedgerInv, LedgerTypeOK, LeasesHoldAuthority, AuthoritiesExclude,
     AdmitApprovalExecution, Admissible, NoBarrier, GuardRows, BarrierRows
<1> QED BY <1>3, <1>4, <1>5 DEF LedgerInv, AdmitApprovalExecution

\* A barrier closed before dispatch keeps naming its plan.
LEMMA FailAdmissionBeforeDispatchInv ==
    ASSUME LedgerInv, NEW r \in Requests,
           FailAdmissionBeforeDispatch(r), UNCHANGED <<authority, inputs>>
    PROVE  LedgerInv' /\ UNCHANGED lease
<1>1. barrier' \in [Decisions -> BarrierRows]
  BY DEF LedgerInv, LedgerTypeOK, FailAdmissionBeforeDispatch, BarrierRows,
     BarrierStates
<1>2. plan' \in [Requests -> PlanStates]
  BY DEF LedgerInv, LedgerTypeOK, FailAdmissionBeforeDispatch, PlanStates
<1>3. result' \in [Requests -> ResultStates]
  BY DEF LedgerInv, LedgerTypeOK, FailAdmissionBeforeDispatch, ResultStates
<1>4. LedgerTypeOK'
  BY <1>1, <1>2, <1>3 DEF LedgerInv, LedgerTypeOK, FailAdmissionBeforeDispatch
<1>5. AuthoritiesExclude'
  BY <1>1, <1>2, <1>3 DEF LedgerInv, LedgerTypeOK, AuthoritiesExclude,
     FailAdmissionBeforeDispatch, AdmissionUndispatched, NoBarrier, GuardRows,
     ApprovalRows, BarrierRows
<1>6. LeasesHoldAuthority'
  BY <1>1, <1>2, <1>3 DEF LedgerInv, LedgerTypeOK, LeasesHoldAuthority,
     AuthoritiesExclude, FailAdmissionBeforeDispatch, AdmissionUndispatched, NoBarrier,
     GuardRows, BarrierRows
<1> QED BY <1>4, <1>5, <1>6 DEF LedgerInv, FailAdmissionBeforeDispatch

\* An observed barrier keeps naming its plan.
LEMMA ObserveTerminalInv ==
    ASSUME LedgerInv, NEW r \in Requests, NEW status \in Terminal \cup {"ambiguous"},
           ObserveTerminal(r, status), UNCHANGED <<authority, inputs>>
    PROVE  LedgerInv' /\ UNCHANGED lease
<1>1. barrier' \in [Decisions -> BarrierRows]
  BY DEF LedgerInv, LedgerTypeOK, ObserveTerminal, BarrierRows, BarrierStates, Terminal
<1>2. LedgerTypeOK'
  BY <1>1 DEF LedgerInv, LedgerTypeOK, ObserveTerminal
<1>3. AuthoritiesExclude'
  BY <1>1 DEF LedgerInv, LedgerTypeOK, AuthoritiesExclude, ObserveTerminal, NoBarrier,
     GuardRows, ApprovalRows, BarrierRows
<1>4. LeasesHoldAuthority'
  BY <1>1 DEF LedgerInv, LedgerTypeOK, LeasesHoldAuthority, AuthoritiesExclude,
     ObserveTerminal, NoBarrier, GuardRows, BarrierRows
<1> QED BY <1>2, <1>3, <1>4 DEF LedgerInv, ObserveTerminal

\* Neither the plan status nor the result is an authority.
LEMMA FinalizeAdmittedPlanInv ==
    ASSUME LedgerInv, NEW r \in Requests, NEW status \in Terminal,
           FinalizeAdmittedPlan(r, status), UNCHANGED <<authority, inputs>>
    PROVE  LedgerInv' /\ UNCHANGED lease
<1>1. plan' \in [Requests -> PlanStates]
  BY DEF LedgerInv, LedgerTypeOK, FinalizeAdmittedPlan, PlanStates, Terminal
<1>2. result' \in [Requests -> ResultStates]
  BY DEF LedgerInv, LedgerTypeOK, FinalizeAdmittedPlan, ResultStates, Terminal
<1>3. LedgerTypeOK'
  BY <1>1, <1>2 DEF LedgerInv, LedgerTypeOK, FinalizeAdmittedPlan
<1>4. AuthoritiesExclude'
  BY <1>1, <1>2 DEF LedgerInv, LedgerTypeOK, AuthoritiesExclude, FinalizeAdmittedPlan,
     GuardRows, ApprovalRows, BarrierRows
<1>5. LeasesHoldAuthority'
  BY <1>1, <1>2 DEF LedgerInv, LedgerTypeOK, LeasesHoldAuthority, AuthoritiesExclude,
     FinalizeAdmittedPlan, GuardRows, BarrierRows
<1> QED BY <1>3, <1>4, <1>5 DEF LedgerInv, FinalizeAdmittedPlan

(***************************************************************************)
(* The request-start lease.                                                *)
(***************************************************************************)

\* The lease goes to the holder of the decision's authority.
LEMMA StartLeaseInv ==
    ASSUME LedgerInv, NEW r \in Requests, NEW u \in Nat, NEW p \in Nat, NEW overdue,
           StartLease(r, u, p, overdue), UNCHANGED <<authority, inputs>>
    PROVE  LedgerInv' /\ LeasesKept(r) /\ lease'[r] = "request_started"
<1>1. /\ lease' \in [Requests -> LeaseStates] /\ lease'[r] = "request_started"
      /\ \A q \in Requests : q # r => lease'[q] = Swept(overdue)[q]
  BY DEF LedgerInv, LedgerTypeOK, StartLease, Swept, LeaseStates
<1>2. LedgerTypeOK'
  BY <1>1 DEF LedgerInv, LedgerTypeOK, StartLease
<1>3. AuthoritiesExclude'
  BY DEF LedgerInv, AuthoritiesExclude, StartLease
<1>4. lease[r] = "none" /\ owner /\ (guard[dec[r]].plan = r \/ barrier[dec[r]].plan = r)
  BY DEF StartLease, Startable, HoldsAuthority
<1>5. \A q \in Requests : q # r =>
         /\ lease'[q] # "none" <=> lease[q] # "none"
         /\ lease[q] \in Unresolved => lease'[q] \in Unresolved
  BY <1>1 DEF StartLease, Swept, StartedLeases, Unresolved
<1>6. LeasesHoldAuthority'
  BY <1>4, <1>5 DEF LedgerInv, LeasesHoldAuthority, StartLease
<1>7. LeasesKept(r)
  BY <1>4, <1>5 DEF LeasesKept
<1> QED BY <1>1, <1>2, <1>3, <1>6, <1>7 DEF LedgerInv

\* Only an existing lease is resolved.
LEMMA TerminalizeLeaseInv ==
    ASSUME LedgerInv, NEW r \in Requests, NEW state \in Terminal \cup {"ambiguous"},
           TerminalizeLease(r, state), UNCHANGED <<authority, inputs>>
    PROVE  LedgerInv' /\ LeasesKept(r)
<1>1. lease' \in [Requests -> LeaseStates]
  BY DEF LedgerInv, LedgerTypeOK, TerminalizeLease, LeaseStates, Terminal
<1>2. LedgerTypeOK'
  BY <1>1 DEF LedgerInv, LedgerTypeOK, TerminalizeLease
<1>3. AuthoritiesExclude'
  BY <1>1 DEF LedgerInv, LedgerTypeOK, AuthoritiesExclude, TerminalizeLease, Unresolved,
     Terminal, GuardRows, ApprovalRows, BarrierRows
<1>4. LeasesHoldAuthority'
  BY <1>1 DEF LedgerInv, LedgerTypeOK, LeasesHoldAuthority, AuthoritiesExclude,
     TerminalizeLease, Unresolved, Terminal, GuardRows, BarrierRows
<1>5. LeasesKept(r)
  BY DEF LedgerInv, LedgerTypeOK, LeasesKept, TerminalizeLease, Unresolved, Terminal
<1> QED BY <1>2, <1>3, <1>4, <1>5 DEF LedgerInv

\* Only a started lease becomes ambiguous, and it stays unresolved.
LEMMA SweepOverdueInv ==
    ASSUME LedgerInv, NEW overdue, SweepOverdue(overdue), UNCHANGED <<authority, inputs>>
    PROVE  /\ LedgerInv'
           /\ \A q \in Requests : lease'[q] # "none" <=> lease[q] # "none"
           /\ \A q \in Requests : lease[q] \in Unresolved => lease'[q] \in Unresolved
<1>1. lease' \in [Requests -> LeaseStates]
  BY DEF LedgerInv, LedgerTypeOK, SweepOverdue, Swept, LeaseStates
<1>2. LedgerTypeOK'
  BY <1>1 DEF LedgerInv, LedgerTypeOK, SweepOverdue
<1>3. AuthoritiesExclude'
  BY DEF LedgerInv, AuthoritiesExclude, SweepOverdue
<1>4. \A q \in Requests :
         /\ lease'[q] # "none" <=> lease[q] # "none"
         /\ lease[q] \in Unresolved => lease'[q] \in Unresolved
  BY DEF SweepOverdue, Swept, StartedLeases, Unresolved
<1>5. LeasesHoldAuthority'
  BY <1>4 DEF LedgerInv, LeasesHoldAuthority, SweepOverdue
<1> QED BY <1>2, <1>3, <1>4, <1>5 DEF LedgerInv

(***************************************************************************)
(* The owner, the clock and the purge.                                     *)
(***************************************************************************)

\* A change of the settings touches no row that grants authority.
LEMMA UpdateSettingsInv ==
    ASSUME LedgerInv, NEW s \in Settings, UpdateSettings(s), UNCHANGED <<rows, inputs>>
    PROVE  LedgerInv'
  BY DEF LedgerInv, LedgerTypeOK, AuthoritiesExclude, LeasesHoldAuthority, UpdateSettings

\* A change of the policies touches no row that grants authority.
LEMMA UpdatePoliciesInv ==
    ASSUME LedgerInv, NEW p \in Policies, UpdatePolicies(p), UNCHANGED <<rows, inputs>>
    PROVE  LedgerInv'
  BY DEF LedgerInv, LedgerTypeOK, AuthoritiesExclude, LeasesHoldAuthority, UpdatePolicies

\* The purge removes every authority together with every lease.
LEMMA PurgeUserInv ==
    ASSUME LedgerInv, PurgeUser, UNCHANGED inputs
    PROVE  LedgerInv'
<1>1. /\ guard' \in [Decisions -> GuardRows]
      /\ approval' \in [Decisions -> ApprovalRows]
      /\ barrier' \in [Decisions -> BarrierRows]
  BY DEF PurgeUser, NoGuard, NoApproval, NoBarrier, GuardRows, ApprovalRows, BarrierRows,
     GuardStates, Kinds, Levels, Plans, ApprovalStates, Confirmations, BarrierStates, Verdicts
<1>2. LedgerTypeOK'
  <2>1. owner' \in BOOLEAN
    BY Zenon DEF PurgeUser
  <2>2. /\ plan' \in [Requests -> PlanStates]
        /\ result' \in [Requests -> ResultStates]
        /\ lease' \in [Requests -> LeaseStates]
    BY DEF PurgeUser, PlanStates, ResultStates, LeaseStates
  <2>3. polRev' \in Nat /\ policies' \in Policies /\ saved' \subseteq Decisions
    BY DEF LedgerInv, LedgerTypeOK, PurgeUser, Policies
  <2>4. UNCHANGED <<settings, userRev, dec, route>>
    BY DEF PurgeUser
  <2> QED BY <1>1, <2>1, <2>2, <2>3, <2>4 DEF LedgerInv, LedgerTypeOK
<1>3. \A d \in Decisions : guard'[d].plan = NoPlan /\ barrier'[d] = NoBarrier
  BY DEF PurgeUser, NoGuard
<1>4. AuthoritiesExclude'
  BY <1>3 DEF AuthoritiesExclude, NoBarrier
<1>5. LeasesHoldAuthority'
  BY DEF LeasesHoldAuthority, PurgeUser
<1> QED BY <1>2, <1>4, <1>5 DEF LedgerInv

-----------------------------------------------------------------------------
(* The routes.                                                             *)


\* Locations at which a request relies neither on what it read, nor on a lease,
\* nor on a known outcome.
Quiet == Locations \ (Writing \cup {"read_revision", "read_policies", "decide", "start",
                                   "call", "await", "settle"})

\* The verdict of the policy evaluator is one of the five it distinguishes.
LEMMA EvaluateType ==
    ASSUME NEW s \in Settings, NEW p \in Policies
    PROVE  Evaluate(s, p) \in Verdicts
  BY DEF Evaluate, Settings, Policies, Verdicts

\* What a request starts with, and keeps when it ends, is well typed.
LEMMA ForgottenType ==
    /\ Forgotten \in Memories
    /\ Forgotten.userRev = 0
    /\ Forgotten.polRev = 0
  BY DEF Forgotten, Memories, Phases, Settings, Verdicts, Outcomes

\* Effects stay covered as long as no lease disappears.
LEMMA EffectsKept ==
    ASSUME IndInv, NEW r \in Requests, LeasesKept(r) \/ UNCHANGED lease,
           UNCHANGED <<owner, inputs, sent>>
    PROVE  EffectsHaveLeases' /\ AtMostOneEffect'
<1>1. EffectsHaveLeases'
  <2> SUFFICES ASSUME NEW q \in sent', owner' PROVE lease'[q] # "none"
    BY DEF EffectsHaveLeases
  <2>1. q \in sent /\ q \in Requests /\ owner
    BY DEF IndInv, ProcessInv, ProcessTypeOK
  <2>2. lease[q] # "none"
    BY <2>1 DEF IndInv, EffectsHaveLeases
  <2> QED BY <2>1, <2>2 DEF LeasesKept
<1>2. AtMostOneEffect'
  BY DEF IndInv, AtMostOneEffect
<1> QED BY <1>1, <1>2

\* What every move of request r leaves alone for the others.
LEMMA OthersKept ==
    ASSUME IndInv, NEW r \in Requests, NEW where \in Locations, NEW memory \in Memories,
           Goto(r, where), local' = [local EXCEPT ![r] = memory],
           LeasesKept(r) \/ UNCHANGED lease, UNCHANGED <<authority, inputs>>
    PROVE  /\ pc' \in [Requests -> Locations]
           /\ local' \in [Requests -> Memories]
           /\ pc'[r] = where /\ local'[r] = memory
           /\ \A q \in Requests : q # r => CallersHoldLeases!(q)'
           /\ \A q \in Requests : q # r => RevisionsFence!(q)'
           /\ \A q \in Requests : q # r => StartersArePermitted!(q)'
           /\ \A q \in Requests : q # r => WritersKnowTheOutcome!(q)'
<1> USE DEF IndInv, ProcessInv, ProcessTypeOK
<1>1. /\ pc' \in [Requests -> Locations] /\ local' \in [Requests -> Memories]
      /\ pc'[r] = where /\ local'[r] = memory
      /\ \A q \in Requests : q # r => pc'[q] = pc[q] /\ local'[q] = local[q]
  BY DEF Goto
<1>2. \A q \in Requests : q # r => CallersHoldLeases!(q)'
  BY <1>1 DEF CallersHoldLeases, LeasesKept
<1>3. \A q \in Requests : q # r => RevisionsFence!(q)'
  BY <1>1 DEF RevisionsFence, NeedsRevision
<1>4. \A q \in Requests : q # r => StartersArePermitted!(q)'
  BY <1>1 DEF StartersArePermitted
<1>5. \A q \in Requests : q # r => WritersKnowTheOutcome!(q)'
  BY <1>1 DEF WritersKnowTheOutcome
<1> QED BY <1>1, <1>2, <1>3, <1>4, <1>5

\* The invariant of the requests, from what a move does to the one that moves.
LEMMA MoveInv ==
    ASSUME IndInv, LedgerInv', NEW r \in Requests, NEW where \in Locations,
           NEW memory \in Memories,
           Goto(r, where), local' = [local EXCEPT ![r] = memory],
           LeasesKept(r) \/ UNCHANGED lease, UNCHANGED <<authority, inputs, sent>>,
           CallersHoldLeases!(r)', RevisionsFence!(r)', StartersArePermitted!(r)',
           WritersKnowTheOutcome!(r)'
    PROVE  IndInv'
<1>1. ProcessTypeOK'
  BY OthersKept DEF IndInv, ProcessInv, ProcessTypeOK
<1>2. CallersHoldLeases'
  BY OthersKept DEF CallersHoldLeases
<1>3. RevisionsFence'
  BY OthersKept DEF RevisionsFence
<1>4. StartersArePermitted'
  BY OthersKept DEF StartersArePermitted
<1>5. WritersKnowTheOutcome'
  BY OthersKept DEF WritersKnowTheOutcome
<1>6. EffectsHaveLeases' /\ AtMostOneEffect'
  BY EffectsKept
<1> QED BY <1>1, <1>2, <1>3, <1>4, <1>5, <1>6 DEF IndInv, ProcessInv

\* A request that moves to a quiet location preserves the invariant if its
\* transaction preserves the ledger's.
LEMMA QuietMove ==
    ASSUME IndInv, LedgerInv', NEW r \in Requests, NEW where \in Quiet,
           NEW memory \in Memories, memory.userRev <= userRev, memory.polRev <= polRev,
           Goto(r, where), local' = [local EXCEPT ![r] = memory],
           LeasesKept(r) \/ UNCHANGED lease, UNCHANGED <<authority, inputs, sent>>
    PROVE  IndInv'
<1>1. where \in Locations
  BY DEF Quiet
<1>2. pc'[r] = where /\ local'[r] = memory
  BY <1>1, OthersKept
<1>3. /\ CallersHoldLeases!(r)' /\ RevisionsFence!(r)'
      /\ StartersArePermitted!(r)' /\ WritersKnowTheOutcome!(r)'
  BY <1>2 DEF Quiet
<1> QED BY <1>1, <1>3, MoveInv

\* A request that ends.
LEMMA FinishMove ==
    ASSUME IndInv, LedgerInv', NEW r \in Requests, Finish(r),
           LeasesKept(r) \/ UNCHANGED lease,
           UNCHANGED <<authority, inputs, sent>>
    PROVE  IndInv'
<1>1. "done" \in Quiet
  BY DEF Quiet, Locations, Writing
<1>2. 0 <= userRev /\ 0 <= polRev
  BY DEF IndInv, LedgerInv, LedgerTypeOK
<1> QED BY <1>1, <1>2, QuietMove, ForgottenType DEF Finish

\* A request that begins a policy evaluation.
LEMMA EvaluateMove ==
    ASSUME IndInv, LedgerInv', NEW r \in Requests, NEW phase \in Phases,
           EvaluatePolicy(r, phase),
           LeasesKept(r) \/ UNCHANGED lease,
           UNCHANGED <<authority, inputs, sent>>
    PROVE  IndInv'
<1> DEFINE memory == [Forgotten EXCEPT !.phase = phase]
<1>1. "read_user" \in Quiet
  BY DEF Quiet, Locations, Writing
<1>2. memory \in Memories /\ memory.userRev = 0 /\ memory.polRev = 0
  BY ForgottenType DEF Memories
<1>3. 0 <= userRev /\ 0 <= polRev
  BY DEF IndInv, LedgerInv, LedgerTypeOK
<1>4. Goto(r, "read_user") /\ local' = [local EXCEPT ![r] = memory]
  BY DEF EvaluatePolicy
<1> HIDE DEF memory
<1> QED BY <1>1, <1>2, <1>3, <1>4, QuietMove

\* A request that keeps what it holds and moves to a quiet location.
LEMMA GotoMove ==
    ASSUME IndInv, LedgerInv', NEW r \in Requests, NEW where \in Quiet,
           Goto(r, where), UNCHANGED local,
           LeasesKept(r) \/ UNCHANGED lease,
           UNCHANGED <<authority, inputs, sent>>
    PROVE  IndInv'
<1>1. /\ local[r] \in Memories
      /\ local[r].userRev <= userRev /\ local[r].polRev <= polRev
      /\ local' = [local EXCEPT ![r] = local[r]]
  BY DEF IndInv, ProcessInv, ProcessTypeOK, RevisionsFence
<1> QED BY <1>1, QuietMove

(***************************************************************************)
(* Requests: arrival.                                                      *)
(***************************************************************************)

\* A signal or an answer that arrives, and where a known signal resumes.
LEMMA ArriveInv ==
    ASSUME IndInv, NEW r \in Requests, Arrive(r)
    PROVE  IndInv'
<1>0. CASE OnlyProcess
  <2>1. LedgerInv' /\ UNCHANGED lease
    BY <1>0, RowsUnchangedInv DEF IndInv, OnlyProcess
  <2>2. CASE IngestLookup(r)
    <3>1. PICK where \in Quiet : Goto(r, where)
      BY <2>2 DEF IngestLookup, ResumePoint, Quiet, Locations, Writing
    <3> QED BY <1>0, <2>1, <2>2, <3>1, GotoMove DEF IngestLookup, OnlyProcess
  <2>3. CASE RespondApprove(r)
    <3>1. CASE EvaluatePolicy(r, "preflight")
      BY <1>0, <2>1, <3>1, EvaluateMove DEF OnlyProcess, Phases
    <3>2. CASE Goto(r, "first_confirm") /\ UNCHANGED local
      BY <1>0, <2>1, <3>2, GotoMove DEF OnlyProcess, Quiet, Locations, Writing
    <3>3. CASE Finish(r)
      BY <1>0, <2>1, <3>3, FinishMove DEF OnlyProcess
    <3> QED BY <2>3, <3>1, <3>2, <3>3 DEF RespondApprove
  <2>4. CASE RespondReject(r)
    BY <1>0, <2>1, <2>4, GotoMove DEF RespondReject, OnlyProcess, Quiet, Locations, Writing
  <2> QED BY <2>2, <2>3, <2>4 DEF Arrive
<1> QED BY <1>0 DEF Arrive, IngestLookup, RespondApprove, RespondReject

(***************************************************************************)
(* Requests: ingestion up to the claim.                                    *)
(***************************************************************************)

\* The steps of an ingesting request preserve the invariant.
LEMMA IngestInv ==
    ASSUME IndInv, NEW r \in Requests,
           \/ IngestSave(r) \/ IngestCapture(r) \/ IngestApproval(r) \/ IngestPrepare(r)
           \/ IngestUnprepared(r) \/ IngestDenied(r) \/ IngestEscalate(r) \/ IngestClaim(r)
    PROVE  IndInv'
<1>1. LedgerInv /\ dec[r] \in Decisions
  BY DEF IndInv, LedgerInv, LedgerTypeOK
<1>2. UNCHANGED rows /\ UNCHANGED <<authority, inputs>> => LedgerInv' /\ UNCHANGED lease
  BY <1>1, RowsUnchangedInv
<1>3. CASE IngestSave(r)
  <2>1. LedgerInv' /\ UNCHANGED lease
    BY <1>1, <1>2, <1>3, SaveDecisionInv DEF IngestSave, OnlyRows
  <2>2. PICK where \in Quiet : Goto(r, where)
    BY <1>3 DEF IngestSave, ResumePoint, Quiet, Locations, Writing
  <2> QED BY <1>3, <2>1, <2>2, GotoMove DEF IngestSave, OnlyRows
<1>4. CASE IngestCapture(r)
  <2>1. LedgerInv' /\ UNCHANGED lease
    <3>1. CASE UNCHANGED rows
      BY <1>2, <1>4, <3>1 DEF IngestCapture, OnlyRows
    <3>2. CASE \E kind \in Kinds, level \in Levels : CreateReceipts(dec[r], kind, level)
      BY <1>1, <1>4, <3>2, CreateReceiptsInv DEF IngestCapture, OnlyRows
    <3> QED BY <1>4, <3>1, <3>2 DEF IngestCapture, Kinds, Levels
  <2>2. PICK where \in Quiet : Goto(r, where)
    BY <1>4 DEF IngestCapture, Kinds, Quiet, Locations, Writing
  <2> QED BY <1>4, <2>1, <2>2, GotoMove DEF IngestCapture, OnlyRows
<1>5. CASE IngestApproval(r)
  <2>1. LedgerInv' /\ UNCHANGED lease
    BY <1>1, <1>2, <1>5, CreateApprovalInv DEF IngestApproval, OnlyRows
  <2> QED BY <1>5, <2>1, FinishMove DEF IngestApproval, OnlyRows
<1>6. CASE IngestPrepare(r)
  <2>1. LedgerInv' /\ UNCHANGED lease
    BY <1>2, <1>6 DEF IngestPrepare, OnlyProcess
  <2> QED BY <1>6, <2>1, EvaluateMove DEF IngestPrepare, OnlyProcess, Phases
<1>7. CASE IngestUnprepared(r)
  <2>1. LedgerInv' /\ UNCHANGED lease
    BY <1>1, <1>2, <1>7, EscalateExecutionToApprovalInv, ClosePreparationInv
       DEF IngestUnprepared, OnlyRows
  <2> QED BY <1>7, <2>1, FinishMove DEF IngestUnprepared, OnlyRows
<1>8. CASE IngestDenied(r)
  <2>1. LedgerInv' /\ UNCHANGED lease
    BY <1>1, <1>2, <1>8, DenyReceiptInv DEF IngestDenied, OnlyRows
  <2> QED BY <1>8, <2>1, FinishMove DEF IngestDenied, OnlyRows
<1>9. CASE IngestEscalate(r)
  <2>1. LedgerInv' /\ UNCHANGED lease
    BY <1>1, <1>2, <1>9, EscalateExecutionToApprovalInv DEF IngestEscalate, OnlyRows
  <2> QED BY <1>9, <2>1, FinishMove DEF IngestEscalate, OnlyRows
<1>10. CASE IngestClaim(r)
  <2>1. LedgerInv' /\ UNCHANGED lease
    BY <1>1, <1>2, <1>10, ClaimExecutionInv DEF IngestClaim, Decides, OnlyRows
  <2>2. EvaluatePolicy(r, "dispatch") \/ Finish(r)
    BY <1>10 DEF IngestClaim
  <2> QED BY <1>10, <2>1, <2>2, EvaluateMove, FinishMove DEF IngestClaim, OnlyRows, Phases
<1> QED BY <1>3, <1>4, <1>5, <1>6, <1>7, <1>8, <1>9, <1>10

(***************************************************************************)
(* Requests: the policy evaluation and the two rechecks.                   *)
(***************************************************************************)

\* Reading the users row: the settings belong to the revision.
LEMMA ReadUserInv ==
    ASSUME IndInv, NEW r \in Requests, ReadUser(r)
    PROVE  IndInv'
<1> DEFINE memory == [local[r] EXCEPT !.settings = IF owner THEN settings ELSE "observer",
                                      !.userRev  = userRev]
           where  == IF route[r] = "ingest" /\ ~owner THEN "decide"
                     ELSE IF NeedsRevision(r) THEN "read_revision" ELSE "read_policies"
<1>1. /\ local[r] \in Memories /\ settings \in Settings /\ "observer" \in Settings
      /\ userRev \in Nat /\ local[r].polRev <= polRev
  BY DEF IndInv, LedgerInv, LedgerTypeOK, ProcessInv, ProcessTypeOK, RevisionsFence, Settings
<1>2. /\ memory \in Memories /\ memory.userRev = userRev /\ memory.polRev = local[r].polRev
      /\ owner => memory.settings = settings
  BY <1>1 DEF Memories
<1>3. local' = [local EXCEPT ![r] = memory] /\ Goto(r, where) /\ OnlyProcess
  BY DEF ReadUser
<1>4. /\ where \in Locations \ (Writing \cup {"start", "call", "await", "settle"})
      /\ where = "decide" => ~owner
  BY DEF Locations, Writing
<1> HIDE DEF memory, where
<1>5. LedgerInv' /\ UNCHANGED lease
  BY <1>3, RowsUnchangedInv DEF IndInv, OnlyProcess
<1>6. pc'[r] = where /\ local'[r] = memory
  BY <1>2, <1>3, <1>4, <1>5, OthersKept DEF OnlyProcess
<1>7. CallersHoldLeases!(r)' /\ StartersArePermitted!(r)' /\ WritersKnowTheOutcome!(r)'
  BY <1>4, <1>6
<1>8. RevisionsFence!(r)'
  BY <1>1, <1>2, <1>3, <1>4, <1>6 DEF OnlyProcess, authority
<1> QED BY <1>2, <1>3, <1>4, <1>5, <1>7, <1>8, MoveInv DEF OnlyProcess

\* Reading the policy revision: the policies are read after it.
LEMMA ReadRevisionInv ==
    ASSUME IndInv, NEW r \in Requests, ReadRevision(r)
    PROVE  IndInv'
<1> DEFINE memory == [local[r] EXCEPT !.polRev = polRev]
<1>1. local[r] \in Memories /\ polRev \in Nat /\ RevisionsFence!(r)
  BY DEF IndInv, LedgerInv, LedgerTypeOK, ProcessInv, ProcessTypeOK, RevisionsFence
<1>2. /\ memory \in Memories /\ memory.polRev = polRev
      /\ memory.userRev = local[r].userRev /\ memory.settings = local[r].settings
  BY <1>1 DEF Memories
<1>3. /\ local' = [local EXCEPT ![r] = memory] /\ Goto(r, "read_policies") /\ OnlyProcess
      /\ "read_policies" \in Locations /\ pc[r] = "read_revision"
  BY DEF ReadRevision, At, Locations
<1> HIDE DEF memory
<1>4. LedgerInv' /\ UNCHANGED lease
  BY <1>3, RowsUnchangedInv DEF IndInv, OnlyProcess
<1>5. pc'[r] = "read_policies" /\ local'[r] = memory
  BY <1>2, <1>3, <1>4, OthersKept DEF OnlyProcess
<1>6. CallersHoldLeases!(r)' /\ StartersArePermitted!(r)' /\ WritersKnowTheOutcome!(r)'
  BY <1>5 DEF Writing
<1>7. RevisionsFence!(r)'
  BY <1>1, <1>2, <1>3, <1>5 DEF OnlyProcess
<1> QED BY <1>2, <1>3, <1>4, <1>6, <1>7, MoveInv DEF OnlyProcess

\* Reading the policies: if neither revision has moved, the verdict is the one
\* the current settings and policies give.
LEMMA ReadPoliciesInv ==
    ASSUME IndInv, NEW r \in Requests, ReadPolicies(r)
    PROVE  IndInv'
<1> DEFINE memory == [local[r] EXCEPT !.verdict = Evaluate(local[r].settings, policies)]
<1>1. local[r] \in Memories /\ policies \in Policies /\ RevisionsFence!(r)
  BY DEF IndInv, LedgerInv, LedgerTypeOK, ProcessInv, ProcessTypeOK, RevisionsFence
<1>2. Evaluate(local[r].settings, policies) \in Verdicts
  BY <1>1, EvaluateType DEF Memories
<1>3. /\ memory \in Memories /\ memory.verdict = Evaluate(local[r].settings, policies)
      /\ memory.userRev = local[r].userRev /\ memory.polRev = local[r].polRev
      /\ memory.settings = local[r].settings
  BY <1>1, <1>2 DEF Memories
<1>4. /\ local' = [local EXCEPT ![r] = memory] /\ Goto(r, "decide") /\ OnlyProcess
      /\ "decide" \in Locations /\ pc[r] = "read_policies"
  BY DEF ReadPolicies, At, Locations
<1> HIDE DEF memory
<1>5. LedgerInv' /\ UNCHANGED lease
  BY <1>4, RowsUnchangedInv DEF IndInv, OnlyProcess
<1>6. pc'[r] = "decide" /\ local'[r] = memory
  BY <1>3, <1>4, <1>5, OthersKept DEF OnlyProcess
<1>7. CallersHoldLeases!(r)' /\ StartersArePermitted!(r)' /\ WritersKnowTheOutcome!(r)'
  BY <1>6 DEF Writing
<1>8. RevisionsFence!(r)'
  BY <1>1, <1>3, <1>4, <1>6 DEF OnlyProcess
<1> QED BY <1>3, <1>4, <1>5, <1>7, <1>8, MoveInv DEF OnlyProcess

\* A recheck that passes goes to the lease with a verdict that permits it.
LEMMA RecheckMove ==
    ASSUME IndInv, NEW r \in Requests, pc[r] = "decide", local[r].phase = "dispatch",
           route[r] = "ingest" => local[r].verdict = "auto",
           route[r] = "respond" => Allowed(local[r].verdict) /\ local[r].settings # "paused",
           Goto(r, "start"), OnlyProcess, UNCHANGED local
    PROVE  IndInv'
<1>1. /\ local[r] \in Memories /\ local' = [local EXCEPT ![r] = local[r]]
      /\ "start" \in Locations /\ RevisionsFence!(r)
  BY DEF IndInv, ProcessInv, ProcessTypeOK, RevisionsFence, Locations
<1>2. LedgerInv' /\ UNCHANGED lease
  BY RowsUnchangedInv DEF IndInv, OnlyProcess
<1>3. pc'[r] = "start" /\ local'[r] = local[r]
  BY <1>1, <1>2, OthersKept DEF OnlyProcess
<1>4. CallersHoldLeases!(r)' /\ StartersArePermitted!(r)' /\ WritersKnowTheOutcome!(r)'
  BY <1>3 DEF OnlyProcess, Writing
<1>5. RevisionsFence!(r)'
  BY <1>1, <1>3 DEF OnlyProcess, NeedsRevision
<1> QED BY <1>1, <1>2, <1>4, <1>5, MoveInv DEF OnlyProcess

\* The two rechecks go to the lease, to the abort, or end the request.
LEMMA RecheckInv ==
    ASSUME IndInv, NEW r \in Requests, IngestRecheck(r) \/ RespondRecheck(r)
    PROVE  IndInv'
<1>1. /\ pc[r] = "decide" /\ local[r].phase = "dispatch" /\ OnlyProcess
      /\ "abort" \in Quiet
  BY DEF IngestRecheck, RespondRecheck, Decides, At, Quiet, Locations, Writing
<1>2. LedgerInv' /\ UNCHANGED lease
  BY <1>1, RowsUnchangedInv DEF IndInv, OnlyProcess
<1>3. CASE Goto(r, "abort") /\ UNCHANGED local
  BY <1>1, <1>2, <1>3, GotoMove DEF OnlyProcess
<1>4. CASE Finish(r)
  BY <1>1, <1>2, <1>4, FinishMove DEF OnlyProcess
<1>5. CASE IngestRecheck(r) /\ Goto(r, "start") /\ local[r].verdict = "auto"
  BY <1>1, <1>5, RecheckMove DEF IngestRecheck, Decides
<1>6. CASE RespondRecheck(r) /\ Goto(r, "start") /\ SamePermission(r) /\ UNCHANGED local
  BY <1>1, <1>6, RecheckMove DEF RespondRecheck, Decides, SamePermission, Paused
<1>7. CASE IngestRecheck(r)
  BY <1>3, <1>5, <1>7 DEF IngestRecheck
<1>8. CASE RespondRecheck(r)
  BY <1>3, <1>4, <1>6, <1>8 DEF RespondRecheck
<1> QED BY <1>7, <1>8

(***************************************************************************)
(* Requests: the response to an approval.                                  *)
(***************************************************************************)

\* The steps of a responding request up to the admission.
LEMMA RespondInv ==
    ASSUME IndInv, NEW r \in Requests,
           \/ FirstConfirm(r) \/ Rejected(r) \/ PreflightBlocked(r) \/ Approved(r)
           \/ AdmissionDenied(r) \/ Admitted(r)
    PROVE  IndInv'
<1>1. LedgerInv /\ dec[r] \in Decisions /\ local[r].verdict \in Verdicts
  BY DEF IndInv, LedgerInv, LedgerTypeOK, ProcessInv, ProcessTypeOK, Memories
<1>2. UNCHANGED rows /\ UNCHANGED <<authority, inputs>> => LedgerInv' /\ UNCHANGED lease
  BY <1>1, RowsUnchangedInv
<1>3. CASE FirstConfirm(r)
  <2>1. LedgerInv' /\ UNCHANGED lease
    BY <1>1, <1>2, <1>3, RecordFirstConfirmationInv DEF FirstConfirm, OnlyRows
  <2> QED BY <1>3, <2>1, FinishMove DEF FirstConfirm, OnlyRows
<1>4. CASE Rejected(r)
  <2>1. LedgerInv' /\ UNCHANGED lease
    BY <1>1, <1>2, <1>4, RespondToInv DEF Rejected, OnlyRows
  <2> QED BY <1>4, <2>1, FinishMove DEF Rejected, OnlyRows
<1>5. CASE PreflightBlocked(r)
  <2>1. LedgerInv' /\ UNCHANGED lease
    BY <1>2, <1>5 DEF PreflightBlocked, OnlyProcess
  <2> QED BY <1>5, <2>1, FinishMove DEF PreflightBlocked, OnlyProcess
<1>6. CASE Approved(r)
  <2>1. LedgerInv' /\ UNCHANGED lease
    BY <1>1, <1>2, <1>6, RespondToInv DEF Approved, OnlyRows
  <2>2. EvaluatePolicy(r, "admit") \/ Finish(r)
    BY <1>6 DEF Approved
  <2> QED BY <1>6, <2>1, <2>2, EvaluateMove, FinishMove DEF Approved, OnlyRows, Phases
<1>7. CASE AdmissionDenied(r)
  <2>1. LedgerInv' /\ UNCHANGED lease
    BY <1>1, <1>2, <1>7, DenyApprovedInv DEF AdmissionDenied, OnlyRows
  <2> QED BY <1>7, <2>1, FinishMove DEF AdmissionDenied, OnlyRows
<1>8. CASE Admitted(r)
  <2>1. LedgerInv' /\ UNCHANGED lease
    BY <1>1, <1>2, <1>8, AdmitApprovalExecutionInv DEF Admitted, Decides, OnlyRows
  <2>2. EvaluatePolicy(r, "dispatch") \/ Finish(r)
    BY <1>8 DEF Admitted
  <2> QED BY <1>8, <2>1, <2>2, EvaluateMove, FinishMove DEF Admitted, OnlyRows, Phases
<1> QED BY <1>3, <1>4, <1>5, <1>6, <1>7, <1>8

(***************************************************************************)
(* Requests: dispatch.                                                     *)
(***************************************************************************)

\* An ambiguous outcome is a quiet move.
LEMMA DoubtMove ==
    ASSUME IndInv, LedgerInv', NEW r \in Requests, Doubt(r),
           LeasesKept(r) \/ UNCHANGED lease, UNCHANGED <<authority, inputs, sent>>
    PROVE  IndInv'
<1> DEFINE memory == [Forgotten EXCEPT !.outcome =
                         IF route[r] = "ingest" THEN "none" ELSE "unclear"]
           where  == IF route[r] = "ingest" THEN "done" ELSE "observe"
<1>1. where \in Quiet
  BY DEF Quiet, Locations, Writing
<1>2. memory \in Memories /\ memory.userRev = 0 /\ memory.polRev = 0
  BY ForgottenType DEF Memories, Outcomes
<1>3. 0 <= userRev /\ 0 <= polRev
  BY DEF IndInv, LedgerInv, LedgerTypeOK
<1>4. Goto(r, where) /\ local' = [local EXCEPT ![r] = memory]
  BY DEF Doubt
<1> HIDE DEF memory, where
<1> QED BY <1>1, <1>2, <1>3, <1>4, QuietMove

\* A request that asks for its lease gets it, or is refused and aborts.
LEMMA StartDispatchInv ==
    ASSUME IndInv, NEW r \in Requests, StartDispatch(r)
    PROVE  IndInv'
<1>1. /\ LedgerInv /\ local[r] \in Memories /\ local' = [local EXCEPT ![r] = local[r]]
      /\ local[r].userRev \in Nat /\ local[r].polRev \in Nat
      /\ "call" \in Locations /\ "abort" \in Quiet /\ OnlyRows /\ UNCHANGED local
      /\ lease \in [Requests -> LeaseStates] /\ RevisionsFence!(r)
  BY DEF IndInv, LedgerInv, LedgerTypeOK, ProcessInv, ProcessTypeOK, Memories, RevisionsFence,
     StartDispatch, Locations, Quiet, Writing
<1>2. ASSUME NEW overdue, StartLease(r, local[r].userRev, local[r].polRev, overdue),
             Goto(r, "call")
      PROVE  IndInv'
  <2>1. LedgerInv' /\ LeasesKept(r) /\ lease'[r] = "request_started"
    BY <1>1, <1>2, StartLeaseInv DEF OnlyRows
  <2>2. pc'[r] = "call" /\ local'[r] = local[r] /\ lease'[r] = "request_started"
    BY <1>1, <1>2, <2>1, OthersKept DEF OnlyRows
  <2>3. CallersHoldLeases!(r)' /\ StartersArePermitted!(r)' /\ WritersKnowTheOutcome!(r)'
    BY <2>2 DEF Unresolved, Writing
  <2>4. RevisionsFence!(r)'
    BY <1>1, <2>2 DEF OnlyRows
  <2> QED BY <1>1, <1>2, <2>1, <2>3, <2>4, MoveInv DEF OnlyRows
<1>3. ASSUME NEW overdue, SweepOverdue(overdue), Goto(r, "abort")
      PROVE  IndInv'
  <2>1. LedgerInv' /\ LeasesKept(r)
    BY <1>1, <1>3, SweepOverdueInv DEF OnlyRows, LeasesKept
  <2> QED BY <1>1, <1>3, <2>1, GotoMove DEF OnlyRows
<1> QED BY <1>2, <1>3 DEF StartDispatch

\* The call: the caller holds an unresolved lease, hence the decision's only
\* authority; an earlier effect of the decision would have had that authority
\* too, so it was the caller's own.
LEMMA CallAdapterInv ==
    ASSUME IndInv, NEW r \in Requests, CallAdapter(r)
    PROVE  IndInv'
<1> USE DEF CallAdapter
<1>1. /\ local[r] \in Memories /\ local' = [local EXCEPT ![r] = local[r]]
      /\ "await" \in Locations /\ RevisionsFence!(r) /\ LedgerInv /\ sent \subseteq Requests
      /\ Goto(r, "await")
  BY DEF IndInv, ProcessInv, ProcessTypeOK, RevisionsFence, Locations
<1>2. LedgerInv' /\ UNCHANGED lease
  BY <1>1, RowsUnchangedInv
<1>3. lease[r] \in Unresolved
  BY DEF At, IndInv, ProcessInv, CallersHoldLeases
<1>4. pc'[r] = "await" /\ local'[r] = local[r]
  BY <1>1, <1>2, OthersKept
<1>5. /\ CallersHoldLeases!(r)' /\ StartersArePermitted!(r)' /\ RevisionsFence!(r)'
      /\ WritersKnowTheOutcome!(r)'
  BY <1>1, <1>2, <1>3, <1>4 DEF Writing
<1>6. ProcessInv'
  <2>1. ProcessTypeOK'
    BY <1>1, <1>2, OthersKept DEF ProcessTypeOK
  <2>2. CallersHoldLeases'
    BY <1>1, <1>2, <1>5, OthersKept DEF CallersHoldLeases
  <2>3. RevisionsFence'
    BY <1>1, <1>2, <1>5, OthersKept DEF RevisionsFence
  <2>4. StartersArePermitted'
    BY <1>1, <1>2, <1>5, OthersKept DEF StartersArePermitted
  <2>5. WritersKnowTheOutcome'
    BY <1>1, <1>2, <1>5, OthersKept DEF WritersKnowTheOutcome
  <2> QED BY <2>1, <2>2, <2>3, <2>4, <2>5 DEF ProcessInv
<1>7. lease[r] # "none" /\ owner
  BY <1>1, <1>3 DEF Unresolved, LedgerInv, LeasesHoldAuthority
<1>8. EffectsHaveLeases'
  BY <1>2, <1>7 DEF IndInv, EffectsHaveLeases
<1>9. AtMostOneEffect'
  <2>1. ASSUME NEW q \in sent, dec[q] = dec[r] PROVE q = r
    <3>1. lease[q] # "none"
      BY <1>7, <2>1 DEF IndInv, EffectsHaveLeases
    <3>2. /\ guard[dec[r]].plan = q \/ barrier[dec[r]].plan = q
          /\ guard[dec[r]].plan = r \/ barrier[dec[r]].plan = r
      BY <1>1, <1>7, <2>1, <3>1 DEF LedgerInv, LeasesHoldAuthority
    <3>3. q # NoPlan /\ r # NoPlan /\ dec[r] \in Decisions
      BY <1>1, <2>1, LedgerConstants DEF LedgerInv, LedgerTypeOK
    <3>4. guard[dec[r]].plan # NoPlan => barrier[dec[r]].plan = NoPlan
      BY <1>1, <3>3 DEF LedgerInv, AuthoritiesExclude, NoBarrier
    <3> QED BY <3>2, <3>3, <3>4
  <2> QED BY <2>1 DEF IndInv, AtMostOneEffect
<1> QED BY <1>2, <1>6, <1>8, <1>9 DEF IndInv

\* The adapter's answer: the lease is still unresolved.
LEMMA AdapterAnswerInv ==
    ASSUME IndInv, NEW r \in Requests, AdapterAnswer(r)
    PROVE  IndInv'
<1>1. PICK outcome \in {"completed", "failed", "unclear"} :
         local' = [local EXCEPT ![r].outcome = outcome]
  BY DEF AdapterAnswer
<1> DEFINE memory == [local[r] EXCEPT !.outcome = outcome]
<1>2. local[r] \in Memories /\ RevisionsFence!(r) /\ lease[r] \in Unresolved
  BY DEF IndInv, ProcessInv, ProcessTypeOK, RevisionsFence, CallersHoldLeases, AdapterAnswer, At
<1>3. /\ memory \in Memories /\ memory.userRev = local[r].userRev
      /\ memory.polRev = local[r].polRev
  BY <1>2 DEF Memories, Outcomes
<1>4. /\ local' = [local EXCEPT ![r] = memory] /\ Goto(r, "settle") /\ OnlyProcess
      /\ "settle" \in Locations
  BY <1>1 DEF AdapterAnswer, Locations
<1> HIDE DEF memory
<1>5. LedgerInv' /\ UNCHANGED lease
  BY <1>4, RowsUnchangedInv DEF IndInv, OnlyProcess
<1>6. pc'[r] = "settle" /\ local'[r] = memory
  BY <1>3, <1>4, <1>5, OthersKept DEF OnlyProcess
<1>7. CallersHoldLeases!(r)' /\ StartersArePermitted!(r)' /\ WritersKnowTheOutcome!(r)'
  BY <1>2, <1>5, <1>6 DEF Writing
<1>8. RevisionsFence!(r)'
  BY <1>2, <1>3, <1>4, <1>6 DEF OnlyProcess
<1> QED BY <1>3, <1>4, <1>5, <1>7, <1>8, MoveInv DEF OnlyProcess

\* A request that goes on to write an outcome it knows.
LEMMA WriterMove ==
    ASSUME IndInv, LedgerInv', NEW r \in Requests, NEW where \in Writing,
           local[r].outcome \in Terminal, Goto(r, where), UNCHANGED local,
           LeasesKept(r) \/ UNCHANGED lease, UNCHANGED <<authority, inputs, sent>>
    PROVE  IndInv'
<1>1. /\ local[r] \in Memories /\ local' = [local EXCEPT ![r] = local[r]]
      /\ where \in Locations /\ RevisionsFence!(r)
  BY DEF IndInv, ProcessInv, ProcessTypeOK, RevisionsFence, Locations, Writing
<1>2. pc'[r] = where /\ local'[r] = local[r]
  BY <1>1, OthersKept
<1>3. CallersHoldLeases!(r)' /\ StartersArePermitted!(r)' /\ WritersKnowTheOutcome!(r)'
  BY <1>2 DEF Writing
<1>4. RevisionsFence!(r)'
  BY <1>1, <1>2 DEF Writing
<1> QED BY <1>1, <1>3, <1>4, MoveInv

\* The steps of a dispatch that end it: the abort, the settlement of the lease
\* and the writes of the terminal truth.
LEMMA SettleInv ==
    ASSUME IndInv, NEW r \in Requests,
           \/ Abort(r) \/ SettleLease(r) \/ SettleUnclear(r)
           \/ IngestPlanStatus(r) \/ IngestResult(r) \/ IngestTerminal(r)
           \/ RespondObserve(r) \/ RespondFinalize(r)
    PROVE  IndInv'
<1>1. LedgerInv /\ "ambiguous" \in Terminal \cup {"ambiguous"} /\ "observe" \in Quiet
  BY DEF IndInv, Quiet, Locations, Writing
<1>2. UNCHANGED rows /\ UNCHANGED <<authority, inputs>> => LedgerInv' /\ UNCHANGED lease
  BY <1>1, RowsUnchangedInv
<1>3. pc[r] \in Writing => local[r].outcome \in Terminal
  BY DEF IndInv, ProcessInv, WritersKnowTheOutcome
<1>4. CASE Abort(r)
  <2>1. LedgerInv' /\ UNCHANGED lease
    BY <1>1, <1>2, <1>4, FailReceiptBeforeDispatchInv, FailAdmissionBeforeDispatchInv
       DEF Abort, OnlyRows
  <2> QED BY <1>4, <2>1, FinishMove DEF Abort, OnlyRows
<1>5. CASE SettleLease(r)
  <2>1. LedgerInv' /\ LeasesKept(r)
    BY <1>1, <1>5, TerminalizeLeaseInv DEF SettleLease, OnlyRows
  <2>2. CASE Goto(r, "plan_status")
    BY <1>5, <2>1, <2>2, WriterMove DEF SettleLease, OnlyRows, Writing
  <2>3. CASE Goto(r, "observe")
    BY <1>1, <1>5, <2>1, <2>3, GotoMove DEF SettleLease, OnlyRows
  <2> QED BY <1>5, <2>2, <2>3 DEF SettleLease
<1>6. CASE SettleUnclear(r)
  <2>1. LedgerInv' /\ LeasesKept(r)
    BY <1>1, <1>6, TerminalizeLeaseInv DEF SettleUnclear, OnlyRows
  <2> QED BY <1>6, <2>1, DoubtMove DEF SettleUnclear, OnlyRows
<1>7. CASE IngestPlanStatus(r)
  <2>1. local[r].outcome \in Terminal
    BY <1>3, <1>7 DEF IngestPlanStatus, At, Writing
  <2>2. LedgerInv' /\ UNCHANGED lease
    BY <1>1, <1>7, <2>1, UpdatePlanStatusInv DEF IngestPlanStatus, OnlyRows
  <2> QED BY <1>7, <2>1, <2>2, WriterMove DEF IngestPlanStatus, OnlyRows, Writing
<1>8. CASE IngestResult(r)
  <2>1. local[r].outcome \in Terminal
    BY <1>3, <1>8 DEF IngestResult, At, Writing
  <2>2. LedgerInv' /\ UNCHANGED lease
    BY <1>1, <1>8, <2>1, CreateResultInv DEF IngestResult, OnlyRows
  <2> QED BY <1>8, <2>1, <2>2, WriterMove DEF IngestResult, OnlyRows, Writing
<1>9. CASE IngestTerminal(r)
  <2>1. local[r].outcome \in Terminal
    BY <1>3, <1>9 DEF IngestTerminal, At, Writing
  <2>2. LedgerInv' /\ UNCHANGED lease
    BY <1>1, <1>9, <2>1, MarkExecutionTerminalInv DEF IngestTerminal, OnlyRows
  <2> QED BY <1>9, <2>2, FinishMove DEF IngestTerminal, OnlyRows
<1>10. CASE RespondObserve(r)
  <2>1. LedgerInv' /\ UNCHANGED lease
    BY <1>1, <1>10, ObserveTerminalInv DEF RespondObserve, OnlyRows
  <2>2. CASE local[r].outcome \in Terminal /\ Goto(r, "finalize") /\ UNCHANGED local
    BY <1>10, <2>1, <2>2, WriterMove DEF RespondObserve, OnlyRows, Writing
  <2>3. CASE Finish(r)
    BY <1>10, <2>1, <2>3, FinishMove DEF RespondObserve, OnlyRows
  <2> QED BY <1>10, <2>2, <2>3 DEF RespondObserve
<1>11. CASE RespondFinalize(r)
  <2>1. local[r].outcome \in Terminal
    BY <1>3, <1>11 DEF RespondFinalize, At, Writing
  <2>2. LedgerInv' /\ UNCHANGED lease
    BY <1>1, <1>2, <1>11, <2>1, FinalizeAdmittedPlanInv DEF RespondFinalize, OnlyRows
  <2> QED BY <1>11, <2>2, FinishMove DEF RespondFinalize, OnlyRows
<1> QED BY <1>4, <1>5, <1>6, <1>7, <1>8, <1>9, <1>10, <1>11

(***************************************************************************)
(* Faults, and everything that is not a request.                           *)
(***************************************************************************)

\* Lost commit responses and crashes preserve the invariant.
LEMMA FaultInv ==
    ASSUME IndInv, NEW r \in Requests, Fault(r)
    PROVE  IndInv'
<1>1. /\ LedgerInv /\ local[r].verdict \in Verdicts
      /\ local[r].userRev \in Nat /\ local[r].polRev \in Nat
      /\ "ambiguous" \in Terminal \cup {"ambiguous"}
  BY DEF IndInv, ProcessInv, ProcessTypeOK, Memories
<1>2. UNCHANGED rows /\ UNCHANGED <<authority, inputs>> => LedgerInv' /\ UNCHANGED lease
  BY <1>1, RowsUnchangedInv
<1>3. CASE IngestClaimLost(r)
  <2>1. LedgerInv' /\ UNCHANGED lease
    BY <1>1, <1>3, ClaimExecutionInv DEF IngestClaimLost, Decides, OnlyRows
  <2> QED BY <1>3, <2>1, FinishMove DEF IngestClaimLost, OnlyRows
<1>4. CASE AdmittedLost(r)
  <2>1. LedgerInv' /\ UNCHANGED lease
    BY <1>1, <1>4, AdmitApprovalExecutionInv DEF AdmittedLost, Decides, OnlyRows
  <2> QED BY <1>4, <2>1, FinishMove DEF AdmittedLost, OnlyRows
<1>5. CASE StartDispatchLost(r)
  <2>1. PICK overdue : \/ StartLease(r, local[r].userRev, local[r].polRev, overdue)
                      \/ SweepOverdue(overdue)
    BY <1>5 DEF StartDispatchLost
  <2>2. LedgerInv' /\ LeasesKept(r)
    BY <1>1, <1>5, <2>1, StartLeaseInv, SweepOverdueInv
       DEF StartDispatchLost, OnlyRows, LeasesKept
  <2> QED BY <1>5, <2>2, DoubtMove DEF StartDispatchLost, OnlyRows
<1>6. CASE SettleLost(r)
  <2>1. LedgerInv' /\ (LeasesKept(r) \/ UNCHANGED lease)
    BY <1>1, <1>2, <1>6, TerminalizeLeaseInv DEF SettleLost, OnlyRows
  <2> QED BY <1>6, <2>1, DoubtMove DEF SettleLost, OnlyRows
<1>7. CASE RespondObserveLost(r)
  <2>1. LedgerInv' /\ UNCHANGED lease
    BY <1>2, <1>7 DEF RespondObserveLost, OnlyProcess
  <2>2. CASE local[r].outcome \in Terminal /\ Goto(r, "finalize") /\ UNCHANGED local
    BY <1>7, <2>1, <2>2, WriterMove DEF RespondObserveLost, OnlyProcess, Writing
  <2>3. CASE Finish(r)
    BY <1>7, <2>1, <2>3, FinishMove DEF RespondObserveLost, OnlyProcess
  <2> QED BY <1>7, <2>2, <2>3 DEF RespondObserveLost
<1>8. CASE Crash(r)
  <2>1. LedgerInv' /\ UNCHANGED lease
    BY <1>2, <1>8 DEF Crash, OnlyProcess
  <2> QED BY <1>8, <2>1, FinishMove DEF Crash, OnlyProcess
<1> QED BY <1>3, <1>4, <1>5, <1>6, <1>7, <1>8 DEF Fault

\* A change of the settings: whatever was read belongs to an older revision.
LEMMA ChangeSettingsInv ==
    ASSUME IndInv, ChangeSettings
    PROVE  IndInv'
<1>1. PICK s \in Settings : UpdateSettings(s)
  BY DEF ChangeSettings
<1>2. LedgerInv'
  BY <1>1, UpdateSettingsInv DEF IndInv, ChangeSettings
<1>3. userRev' = userRev + 1 /\ UNCHANGED <<owner, policies, polRev, rows, inputs, process>>
  BY <1>1 DEF ChangeSettings, UpdateSettings
<1>4. userRev \in Nat /\ \A r \in Requests : local[r].userRev \in Nat
  BY DEF IndInv, LedgerInv, LedgerTypeOK, ProcessInv, ProcessTypeOK, Memories
<1>5. RevisionsFence'
  BY <1>3, <1>4 DEF IndInv, ProcessInv, RevisionsFence
<1> QED
  BY <1>2, <1>3, <1>5 DEF IndInv, ProcessInv, ProcessTypeOK, CallersHoldLeases,
     StartersArePermitted, WritersKnowTheOutcome, EffectsHaveLeases, AtMostOneEffect

\* A change of the policies: whatever was read belongs to an older revision.
LEMMA ChangePoliciesInv ==
    ASSUME IndInv, ChangePolicies
    PROVE  IndInv'
<1>1. PICK p \in Policies : UpdatePolicies(p)
  BY DEF ChangePolicies
<1>2. LedgerInv'
  BY <1>1, UpdatePoliciesInv DEF IndInv, ChangePolicies
<1>3. polRev' = polRev + 1 /\ UNCHANGED <<owner, settings, userRev, rows, inputs, process>>
  BY <1>1 DEF ChangePolicies, UpdatePolicies
<1>4. polRev \in Nat /\ \A r \in Requests : local[r].polRev \in Nat
  BY DEF IndInv, LedgerInv, LedgerTypeOK, ProcessInv, ProcessTypeOK, Memories
<1>5. RevisionsFence'
  BY <1>3, <1>4 DEF IndInv, ProcessInv, RevisionsFence, NeedsRevision
<1> QED
  BY <1>2, <1>3, <1>5 DEF IndInv, ProcessInv, ProcessTypeOK, CallersHoldLeases,
     StartersArePermitted, WritersKnowTheOutcome, EffectsHaveLeases, AtMostOneEffect

\* The purge: it is refused while a lease is unresolved, so no caller loses one.
LEMMA PurgeInv ==
    ASSUME IndInv, Purge
    PROVE  IndInv'
<1>1. LedgerInv'
  BY PurgeUserInv DEF IndInv, Purge
<1>2. /\ ~owner' /\ UNCHANGED <<settings, userRev, inputs, process>>
      /\ polRev' = polRev \/ polRev' = polRev + 1
      /\ \A r \in Requests : lease[r] \notin Unresolved
  BY DEF Purge, PurgeUser, NoActiveExecution
<1>3. polRev \in Nat /\ \A r \in Requests : local[r].polRev \in Nat
  BY DEF IndInv, LedgerInv, LedgerTypeOK, ProcessInv, ProcessTypeOK, Memories
<1>4. CallersHoldLeases'
  BY <1>2 DEF IndInv, ProcessInv, CallersHoldLeases
<1>5. RevisionsFence'
  BY <1>2, <1>3 DEF IndInv, ProcessInv, RevisionsFence
<1> QED
  BY <1>1, <1>2, <1>4, <1>5 DEF IndInv, ProcessInv, ProcessTypeOK, StartersArePermitted,
     WritersKnowTheOutcome, EffectsHaveLeases, AtMostOneEffect

\* The clock lapses and expires approvals that have no barrier, and makes leases
\* ambiguous, which keeps them.
LEMMA ClockInv ==
    ASSUME IndInv, Elapse \/ Expire \/ Clean \/ Overdue
    PROVE  IndInv'
<1>1. CASE Elapse
  <2>1. UNCHANGED <<authority, saved, guard, barrier, plan, result, lease, inputs, process>>
    BY <1>1 DEF Elapse
  <2>2. approval \in [Decisions -> ApprovalRows]
    BY DEF IndInv, LedgerInv, LedgerTypeOK
  <2>3. /\ approval' \in [Decisions -> ApprovalRows]
        /\ \A e \in Decisions : approval[e].status = "approved" =>
              approval'[e].status = "approved" /\ approval'[e].denied = approval[e].denied
    <3>1. ASSUME NEW d \in Decisions, approval[d].status = "pending",
                 approval' = [approval EXCEPT ![d].status = "lapsed"]
          PROVE  <2>3
      BY <2>2, <3>1 DEF ApprovalRows, ApprovalStates
    <3>2. ASSUME NEW d \in Decisions, approval' = [approval EXCEPT ![d].first = "stale"]
          PROVE  <2>3
      BY <2>2, <3>2 DEF ApprovalRows, Confirmations
    <3> QED BY <1>1, <3>1, <3>2 DEF Elapse
  <2>4. LedgerTypeOK' /\ AuthoritiesExclude'
    BY <2>1, <2>3 DEF IndInv, LedgerInv, LedgerTypeOK, AuthoritiesExclude
  <2>5. LeasesHoldAuthority'
    BY <2>1 DEF IndInv, LedgerInv, LeasesHoldAuthority
  <2> QED
    BY <2>1, <2>4, <2>5 DEF IndInv, LedgerInv, ProcessInv, ProcessTypeOK,
       CallersHoldLeases, RevisionsFence, NeedsRevision, StartersArePermitted,
       WritersKnowTheOutcome, EffectsHaveLeases, AtMostOneEffect
<1>2. CASE Expire \/ Clean
  <2>1. LedgerInv' /\ UNCHANGED <<lease, authority, inputs, process>>
    BY <1>2, ExpirePendingInv, CleanEscalationsInv DEF Expire, Clean, IndInv
  <2> QED
    BY <2>1 DEF IndInv, ProcessInv, ProcessTypeOK, CallersHoldLeases, RevisionsFence,
       NeedsRevision, StartersArePermitted, WritersKnowTheOutcome, EffectsHaveLeases,
       AtMostOneEffect
<1>3. CASE Overdue
  <2>1. PICK overdue : SweepOverdue(overdue)
    BY <1>3 DEF Overdue
  <2>2. /\ LedgerInv' /\ UNCHANGED <<authority, inputs, process>>
        /\ \A q \in Requests : lease'[q] # "none" <=> lease[q] # "none"
        /\ \A q \in Requests : lease[q] \in Unresolved => lease'[q] \in Unresolved
    BY <1>3, <2>1, SweepOverdueInv DEF Overdue, IndInv
  <2>3. CallersHoldLeases'
    BY <2>2 DEF IndInv, ProcessInv, CallersHoldLeases
  <2>4. EffectsHaveLeases' /\ AtMostOneEffect'
    BY <2>2 DEF IndInv, ProcessInv, ProcessTypeOK, EffectsHaveLeases, AtMostOneEffect
  <2> QED
    BY <2>2, <2>3, <2>4 DEF IndInv, ProcessInv, ProcessTypeOK, RevisionsFence, NeedsRevision,
       StartersArePermitted, WritersKnowTheOutcome
<1> QED BY <1>1, <1>2, <1>3

(***************************************************************************)
(* The theorems.                                                           *)
(***************************************************************************)

\* The invariant holds before the first request.
LEMMA InitInv == Init => IndInv
<1> SUFFICES ASSUME Init PROVE IndInv
  OBVIOUS
<1> USE DEF Init, LedgerInit
<1>1. LedgerInv
  <2>1. LedgerTypeOK
    BY DEF LedgerTypeOK, NoGuard, NoApproval, NoBarrier, GuardRows, ApprovalRows, BarrierRows,
       GuardStates, Kinds, Levels, Plans, ApprovalStates, Confirmations, BarrierStates,
       Verdicts, PlanStates, ResultStates, LeaseStates, Settings, Policies
  <2>2. AuthoritiesExclude
    BY DEF AuthoritiesExclude, NoGuard
  <2>3. LeasesHoldAuthority
    BY DEF LeasesHoldAuthority
  <2> QED BY <2>1, <2>2, <2>3 DEF LedgerInv
<1>2. ProcessTypeOK
  BY ForgottenType DEF ProcessTypeOK, Locations
<1>3. RevisionsFence
  BY ForgottenType DEF RevisionsFence
<1>4. CallersHoldLeases /\ StartersArePermitted /\ WritersKnowTheOutcome
  BY DEF CallersHoldLeases, StartersArePermitted, WritersKnowTheOutcome, Writing
<1> QED BY <1>1, <1>2, <1>3, <1>4 DEF IndInv, ProcessInv, EffectsHaveLeases, AtMostOneEffect

\* Every step of a request preserves the invariant.
LEMMA StepInv ==
    ASSUME IndInv, NEW r \in Requests, Step(r)
    PROVE  IndInv'
  BY IngestInv, ReadUserInv, ReadRevisionInv, ReadPoliciesInv, RecheckInv, RespondInv,
     StartDispatchInv, CallAdapterInv, AdapterAnswerInv, SettleInv DEF Step

\* Every step of the system preserves the invariant.
LEMMA NextInv == IndInv /\ [Next]_vars => IndInv'
<1> SUFFICES ASSUME IndInv, [Next]_vars PROVE IndInv'
  OBVIOUS
<1>1. CASE UNCHANGED vars
  <2>1. LedgerInv' /\ UNCHANGED <<lease, authority, inputs, process>>
    BY <1>1, RowsUnchangedInv DEF IndInv, vars
  <2> QED
    BY <2>1 DEF IndInv, ProcessInv, ProcessTypeOK, CallersHoldLeases, RevisionsFence,
       NeedsRevision, StartersArePermitted, WritersKnowTheOutcome, EffectsHaveLeases,
       AtMostOneEffect
<1>2. CASE Environment
  BY <1>2, ChangeSettingsInv, ChangePoliciesInv, PurgeInv, ClockInv DEF Environment
<1>3. CASE \E r \in Requests : Arrive(r) \/ Step(r) \/ Fault(r)
  BY <1>3, ArriveInv, StepInv, FaultInv
<1> QED BY <1>1, <1>2, <1>3 DEF Next

\* The inductive invariant holds in every reachable state.
THEOREM Invariance == Spec => []IndInv
  BY InitInv, NextInv, PTL DEF Spec

\* Every row, revision and request-local value of the two routes stays in its
\* domain.
THEOREM TypeCorrect == Spec => []TypeOK
<1>1. IndInv => TypeOK
  BY DEF IndInv, LedgerInv, ProcessInv, TypeOK
<1> QED BY <1>1, Invariance, PTL

\* No decision is acted upon twice, however often its signal is ingested or its
\* approval answered, whatever crashes and whichever commit response is lost.
THEOREM OneEffect == Spec => []AtMostOneEffect
<1>1. IndInv => AtMostOneEffect
  BY DEF IndInv
<1> QED BY <1>1, Invariance, PTL

\* Whatever reached an adapter had the durable authority of its decision: the
\* claimed receipt, or the barrier of an approved and undenied request.
THEOREM EffectsAreAuthorized == Spec => []EffectHasAuthority
<1>1. IndInv => EffectHasAuthority
  <2> SUFFICES ASSUME IndInv, NEW r \in sent, owner PROVE EffectHasAuthority!(r)!2
    BY DEF EffectHasAuthority
  <2>1. r \in Requests /\ dec[r] \in Decisions /\ r # NoPlan
    BY LedgerConstants DEF IndInv, LedgerInv, LedgerTypeOK, ProcessInv, ProcessTypeOK
  <2>2. guard[dec[r]].plan = r \/ barrier[dec[r]].plan = r
    BY <2>1 DEF IndInv, LedgerInv, LeasesHoldAuthority, EffectsHaveLeases
  <2>3. CASE guard[dec[r]].plan = r
    BY <2>1, <2>3 DEF IndInv, LedgerInv, AuthoritiesExclude
  <2>4. CASE barrier[dec[r]].plan = r
    BY <2>1, <2>4 DEF IndInv, LedgerInv, AuthoritiesExclude, NoBarrier
  <2> QED BY <2>2, <2>3, <2>4
<1> QED BY <1>1, Invariance, PTL

\* No account is purged under a request that may still reach the world.
THEOREM PurgeIsSafe == Spec => []PurgeWaitsForEffects
<1>1. IndInv => PurgeWaitsForEffects
  BY DEF IndInv, LedgerInv, LeasesHoldAuthority, ProcessInv, CallersHoldLeases, Unresolved,
     PurgeWaitsForEffects
<1> QED BY <1>1, Invariance, PTL
=============================================================================
