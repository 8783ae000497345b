--------------------- MODULE ExecutionRefinement_proofs ----------------------
(***************************************************************************)
(* What follows from the inductive invariant of ExecutionRoutes: a lease is *)
(* granted only under the authority in force; every step is a step of       *)
(* OneShotEffect or leaves it unchanged; one lease per provider is          *)
(* unresolved; terminal truth is final; the ledgers tell the truth; and an  *)
(* approval that needs two confirmations has them.                          *)
(***************************************************************************)
EXTENDS ExecutionRoutes_proofs

USE DEF authority, rows, inputs, process

(***************************************************************************)
(* Grants of leases.                                                       *)
(***************************************************************************)

\* No lease comes into being.
NoGrant == \A q \in Requests : lease[q] = "none" => lease'[q] = "none"

\* The arrival of a request and the reads of a policy evaluation touch no row.
LEMMA ReadsGrantNothing ==
    ASSUME NEW r \in Requests,
           \/ Arrive(r) \/ IngestPrepare(r) \/ ReadUser(r) \/ ReadRevision(r) \/ ReadPolicies(r)
           \/ IngestRecheck(r) \/ PreflightBlocked(r) \/ RespondRecheck(r) \/ CallAdapter(r)
           \/ AdapterAnswer(r) \/ RespondObserveLost(r) \/ Crash(r)
    PROVE  UNCHANGED rows
  BY DEF Arrive, IngestLookup, RespondApprove, RespondReject, IngestPrepare, ReadUser,
     ReadRevision, ReadPolicies, IngestRecheck, PreflightBlocked, RespondRecheck, CallAdapter,
     AdapterAnswer, RespondObserveLost, Crash, OnlyProcess

\* Neither do ingestion up to the claim and the response up to the admission
\* touch a lease.
LEMMA RowsGrantNothing ==
    ASSUME NEW r \in Requests,
           \/ IngestSave(r) \/ IngestCapture(r) \/ IngestApproval(r) \/ IngestUnprepared(r)
           \/ IngestDenied(r) \/ IngestEscalate(r) \/ IngestClaim(r) \/ IngestClaimLost(r)
           \/ FirstConfirm(r) \/ Rejected(r) \/ Approved(r) \/ AdmissionDenied(r)
           \/ Admitted(r) \/ AdmittedLost(r) \/ Abort(r)
           \/ IngestPlanStatus(r) \/ IngestResult(r) \/ IngestTerminal(r)
           \/ RespondObserve(r) \/ RespondFinalize(r)
    PROVE  UNCHANGED lease
<1>1. ASSUME \/ IngestSave(r) \/ IngestCapture(r) \/ IngestApproval(r) \/ IngestUnprepared(r)
             \/ IngestDenied(r) \/ IngestEscalate(r) \/ IngestClaim(r) \/ IngestClaimLost(r)
      PROVE  UNCHANGED lease
  BY <1>1 DEF IngestSave, SaveDecision, IngestCapture, CreateReceipts, IngestApproval,
     CreateApproval, IngestUnprepared, ClosePreparation, IngestDenied, DenyReceipt,
     IngestEscalate, EscalateExecutionToApproval, IngestClaim, IngestClaimLost, ClaimExecution
<1>2. ASSUME \/ FirstConfirm(r) \/ Rejected(r) \/ Approved(r) \/ AdmissionDenied(r)
             \/ Admitted(r) \/ AdmittedLost(r)
      PROVE  UNCHANGED lease
  BY <1>2 DEF FirstConfirm, RecordFirstConfirmation, Rejected, Approved, RespondTo,
     AdmissionDenied, DenyApproved, Admitted, AdmittedLost, AdmitApprovalExecution
<1>3. ASSUME \/ Abort(r) \/ IngestPlanStatus(r) \/ IngestResult(r) \/ IngestTerminal(r)
             \/ RespondObserve(r) \/ RespondFinalize(r)
      PROVE  UNCHANGED lease
  BY <1>3 DEF Abort, FailReceiptBeforeDispatch, FailAdmissionBeforeDispatch, IngestPlanStatus,
     UpdatePlanStatus, IngestResult, CreateResult, IngestTerminal, MarkExecutionTerminal,
     RespondObserve, ObserveTerminal, RespondFinalize, FinalizeAdmittedPlan
<1> QED BY <1>1, <1>2, <1>3

\* Settling a lease, and everything that is not a request, grants none.
LEMMA SettlingGrantsNothing ==
    ASSUME LedgerTypeOK,
           \/ \E r \in Requests : SettleLease(r) \/ SettleUnclear(r) \/ SettleLost(r)
           \/ Environment
    PROVE  NoGrant
<1>1. ASSUME NEW r \in Requests, SettleLease(r) \/ SettleUnclear(r) \/ SettleLost(r)
      PROVE  NoGrant
  BY <1>1 DEF SettleLease, SettleUnclear, SettleLost, TerminalizeLease, Unresolved, NoGrant,
     LedgerTypeOK
<1>2. CASE ChangeSettings \/ ChangePolicies \/ Elapse \/ Expire \/ Clean
  BY <1>2 DEF ChangeSettings, ChangePolicies, Elapse, Expire, ExpirePending, Clean,
     CleanEscalations, NoGrant
<1>3. CASE Purge
  BY <1>3 DEF Purge, PurgeUser, NoGrant
<1>4. CASE Overdue
  BY <1>4 DEF Overdue, SweepOverdue, Swept, StartedLeases, NoGrant
<1> QED BY <1>1, <1>2, <1>3, <1>4 DEF Environment

\* A new lease is the work of startDispatch, for the request that asked.
LEMMA OnlyStartGrants ==
    ASSUME IndInv, [Next]_vars, NEW q \in Requests, lease[q] = "none", lease'[q] # "none"
    PROVE  pc[q] = "start" /\ Startable(q, local[q].userRev, local[q].polRev)
<1>1. LedgerTypeOK /\ ~NoGrant /\ ~UNCHANGED lease
  BY DEF IndInv, LedgerInv, NoGrant
<1>2. PICK r \in Requests : StartDispatch(r) \/ StartDispatchLost(r)
  BY <1>1, ReadsGrantNothing, RowsGrantNothing, SettlingGrantsNothing
     DEF Next, vars, Step, Fault
<1>3. PICK overdue : \/ StartLease(r, local[r].userRev, local[r].polRev, overdue)
                    \/ SweepOverdue(overdue)
  BY <1>2 DEF StartDispatch, StartDispatchLost
<1>4. ~SweepOverdue(overdue)
  BY DEF SweepOverdue, Swept, StartedLeases
<1>5. q = r
  BY <1>3, <1>4 DEF StartLease, Swept, StartedLeases
<1> QED BY <1>2, <1>3, <1>4, <1>5 DEF StartLease, StartDispatch, StartDispatchLost, At

\* A lease is granted only if the settings and the policies in force at that
\* moment permit the action: what startDispatch compares, the two revisions,
\* is enough to know that nothing changed since they were read.
THEOREM GrantsAreCurrent == Spec => GrantedUnderCurrentAuthority
<1>1. ASSUME IndInv, [Next]_vars, NEW r \in Requests, lease[r] = "none", lease'[r] # "none"
      PROVE  owner /\ Permits(r, settings, policies)
  <2>1. pc[r] = "start" /\ Startable(r, local[r].userRev, local[r].polRev)
    BY <1>1, OnlyStartGrants
  <2>2. owner /\ local[r].userRev = userRev /\ local[r].polRev = polRev
    BY <2>1 DEF Startable
  <2>3. StartersArePermitted!(r) /\ RevisionsFence!(r)
    BY <1>1 DEF IndInv, ProcessInv, StartersArePermitted, RevisionsFence
  <2>4. local[r].settings = settings /\ local[r].verdict = Evaluate(settings, policies)
    BY <2>1, <2>2, <2>3 DEF NeedsRevision
  <2>5. route[r] \in {"ingest", "respond"}
    BY <1>1 DEF IndInv, LedgerInv, LedgerTypeOK
  <2> QED BY <2>1, <2>2, <2>3, <2>4, <2>5 DEF Permits
<1>2. IndInv /\ [Next]_vars =>
        \A r \in Requests :
           lease[r] = "none" /\ lease'[r] # "none" => owner /\ Permits(r, settings, policies)
  BY <1>1
<1> QED BY <1>2, Invariance, PTL DEF Spec, GrantedUnderCurrentAuthority

(***************************************************************************)
(* The refinement.                                                         *)
(***************************************************************************)

\* No decision's authority changes hands.
HoldersKept ==
    \A d \in Decisions : guard'[d].plan = guard[d].plan /\ barrier'[d].plan = barrier[d].plan

\* Ingestion before the claim creates and closes receipts that name no plan.
LEMMA IngestKeepsHolders ==
    ASSUME LedgerInv, NEW d \in Decisions,
           \/ SaveDecision(d) \/ CreateApproval(d) \/ DenyReceipt(d)
           \/ \E level : EscalateExecutionToApproval(d, level)
           \/ \E kind \in Kinds, level \in Levels : CreateReceipts(d, kind, level)
           \/ \E ambiguous \in BOOLEAN : ClosePreparation(d, ambiguous)
    PROVE  HoldersKept
<1> USE DEF HoldersKept, LedgerInv, LedgerTypeOK, GuardRows
<1>1. CASE SaveDecision(d) \/ CreateApproval(d)
  BY <1>1 DEF SaveDecision, CreateApproval
<1>2. CASE DenyReceipt(d)
  BY <1>2 DEF DenyReceipt
<1>3. CASE \E level : EscalateExecutionToApproval(d, level)
  BY <1>3 DEF EscalateExecutionToApproval, Escalatable, Ready, AuthoritiesExclude
<1>4. CASE \E kind \in Kinds, level \in Levels : CreateReceipts(d, kind, level)
  BY <1>4 DEF CreateReceipts, Capturable, NoGuard
<1>5. CASE \E ambiguous \in BOOLEAN : ClosePreparation(d, ambiguous)
  BY <1>5 DEF ClosePreparation
<1> QED BY <1>1, <1>2, <1>3, <1>4, <1>5

\* Approvals and leases, and the records of an outcome, name no new plan.
LEMMA OutcomesKeepHolders ==
    ASSUME LedgerInv, NEW r \in Requests, NEW status,
           \/ RecordFirstConfirmation(dec[r]) \/ RespondTo(dec[r], status)
           \/ DenyApproved(dec[r]) \/ FailReceiptBeforeDispatch(r)
           \/ FailAdmissionBeforeDispatch(r) \/ UpdatePlanStatus(r, status)
           \/ CreateResult(r, status) \/ MarkExecutionTerminal(r, status)
           \/ ObserveTerminal(r, status) \/ FinalizeAdmittedPlan(r, status)
           \/ TerminalizeLease(r, status)
           \/ UNCHANGED <<guard, barrier>>
    PROVE  HoldersKept
<1> USE DEF HoldersKept, LedgerInv, LedgerTypeOK, GuardRows, BarrierRows
<1>1. dec[r] \in Decisions
  OBVIOUS
<1>2. CASE \/ RecordFirstConfirmation(dec[r]) \/ RespondTo(dec[r], status)
           \/ DenyApproved(dec[r]) \/ UpdatePlanStatus(r, status) \/ CreateResult(r, status)
           \/ FinalizeAdmittedPlan(r, status) \/ TerminalizeLease(r, status)
           \/ UNCHANGED <<guard, barrier>>
  BY <1>2 DEF RecordFirstConfirmation, RespondTo, DenyApproved, UpdatePlanStatus, CreateResult,
     FinalizeAdmittedPlan, TerminalizeLease
<1>3. CASE FailReceiptBeforeDispatch(r)
  BY <1>1, <1>3 DEF FailReceiptBeforeDispatch
<1>4. CASE MarkExecutionTerminal(r, status)
  BY <1>1, <1>4 DEF MarkExecutionTerminal
<1>5. CASE FailAdmissionBeforeDispatch(r) \/ ObserveTerminal(r, status)
  BY <1>1, <1>5 DEF FailAdmissionBeforeDispatch, ObserveTerminal
<1> QED BY <1>2, <1>3, <1>4, <1>5

\* A step that keeps the holders and sends nothing is a stutter of OneShotEffect.
LEMMA StutterMaps ==
    ASSUME HoldersKept \/ UNCHANGED rows, UNCHANGED <<sent, dec>>
    PROVE  UNCHANGED OneShot!effects
<1>1. \A d \in Decisions : AuthorityHolder(d)' = AuthorityHolder(d) /\ EffectsOf(d)' = EffectsOf(d)
  BY DEF HoldersKept, AuthorityHolder, EffectsOf
<1> QED BY <1>1 DEF OneShot!effects

\* A request with an unclaimed, unadmitted decision finds no earlier effect.
LEMMA NoHolderNoEffect ==
    ASSUME IndInv, owner, NEW d \in Decisions, AuthorityHolder(d) = NoPlan
    PROVE  EffectsOf(d) = {}
<1>1. ASSUME NEW r \in sent, dec[r] = d PROVE FALSE
  <2>1. r \in Requests /\ r # NoPlan /\ lease[r] # "none"
    BY <1>1, LedgerConstants DEF IndInv, ProcessInv, ProcessTypeOK, EffectsHaveLeases
  <2>2. guard[d].plan = r \/ barrier[d].plan = r
    BY <1>1, <2>1 DEF IndInv, LedgerInv, LeasesHoldAuthority
  <2> QED BY <2>1, <2>2 DEF AuthorityHolder
<1> QED BY <1>1 DEF EffectsOf

\* Claiming the receipt grants the decision's authority.
LEMMA ClaimMaps ==
    ASSUME IndInv, NEW r \in Requests, ClaimExecution(r), UNCHANGED <<sent, dec>>
    PROVE  OneShot!Grant(dec[r], r)
<1>1. dec[r] \in Decisions /\ guard \in [Decisions -> GuardRows] /\ r # NoPlan
  BY LedgerConstants DEF IndInv, LedgerInv, LedgerTypeOK
<1>2. owner /\ guard[dec[r]].plan = NoPlan /\ barrier[dec[r]] = NoBarrier
  BY <1>1 DEF ClaimExecution, Ready, IndInv, LedgerInv, AuthoritiesExclude
<1>3. AuthorityHolder(dec[r]) = NoPlan
  BY <1>2 DEF AuthorityHolder, NoBarrier
<1>4. EffectsOf(dec[r]) = {}
  BY <1>1, <1>2, <1>3, NoHolderNoEffect
<1>5. \A d \in Decisions :
        /\ guard'[d].plan = IF d = dec[r] THEN r ELSE guard[d].plan
        /\ barrier'[d] = barrier[d]
  BY <1>1 DEF ClaimExecution, GuardRows
<1>6. \A d \in Decisions :
        /\ AuthorityHolder(d)' = IF d = dec[r] THEN r ELSE AuthorityHolder(d)
        /\ EffectsOf(d)' = EffectsOf(d)
  BY <1>1, <1>5 DEF AuthorityHolder, EffectsOf
<1> QED BY <1>1, <1>3, <1>4, <1>6 DEF OneShot!Grant

\* Admitting the approval grants the decision's authority.
LEMMA AdmitMaps ==
    ASSUME IndInv, NEW r \in Requests, NEW verdict, AdmitApprovalExecution(r, verdict),
           UNCHANGED <<sent, dec>>
    PROVE  OneShot!Grant(dec[r], r)
<1>1. dec[r] \in Decisions /\ barrier \in [Decisions -> BarrierRows] /\ r # NoPlan
  BY LedgerConstants DEF IndInv, LedgerInv, LedgerTypeOK
<1>2. owner /\ guard[dec[r]].plan = NoPlan /\ barrier[dec[r]] = NoBarrier
  BY DEF AdmitApprovalExecution, Admissible
<1>3. AuthorityHolder(dec[r]) = NoPlan
  BY <1>2 DEF AuthorityHolder, NoBarrier
<1>4. EffectsOf(dec[r]) = {}
  BY <1>1, <1>2, <1>3, NoHolderNoEffect
<1>5. \A d \in Decisions :
        /\ barrier'[d].plan = IF d = dec[r] THEN r ELSE barrier[d].plan
        /\ guard'[d] = guard[d]
  BY <1>1 DEF AdmitApprovalExecution
<1>6. \A d \in Decisions :
        /\ AuthorityHolder(d)' = IF d = dec[r] THEN r ELSE AuthorityHolder(d)
        /\ EffectsOf(d)' = EffectsOf(d)
  BY <1>1, <1>2, <1>5 DEF AuthorityHolder, EffectsOf
<1> QED BY <1>1, <1>3, <1>4, <1>6 DEF OneShot!Grant

\* Calling the adapter is the holder's one act.
LEMMA CallMaps ==
    ASSUME IndInv, NEW r \in Requests, CallAdapter(r), r \notin sent
    PROVE  OneShot!Act(dec[r])
<1>1. /\ dec[r] \in Decisions /\ r # NoPlan /\ lease[r] # "none"
      /\ sent \subseteq Requests /\ dec \in [Requests -> Decisions]
  BY LedgerConstants DEF IndInv, LedgerInv, LedgerTypeOK, ProcessInv, ProcessTypeOK,
     CallersHoldLeases, CallAdapter, At, Unresolved
<1>2. guard[dec[r]].plan = r \/ barrier[dec[r]].plan = r
  BY <1>1 DEF IndInv, LedgerInv, LeasesHoldAuthority
<1>3. guard[dec[r]].plan # NoPlan => barrier[dec[r]].plan = NoPlan
  BY <1>1 DEF IndInv, LedgerInv, AuthoritiesExclude, NoBarrier
<1>4. AuthorityHolder(dec[r]) = r
  BY <1>1, <1>2, <1>3 DEF AuthorityHolder
<1>5. EffectsOf(dec[r]) = {}
  <2>1. \A q \in sent : dec[q] # dec[r]
    BY CallAdapterInv DEF IndInv, AtMostOneEffect, CallAdapter
  <2> QED BY <2>1 DEF EffectsOf
<1>6. \A d \in Decisions :
        /\ AuthorityHolder(d)' = AuthorityHolder(d)
        /\ EffectsOf(d)' = IF d = dec[r] THEN {r} ELSE EffectsOf(d)
  BY <1>5 DEF AuthorityHolder, EffectsOf, CallAdapter
<1> QED BY <1>1, <1>4, <1>5, <1>6 DEF OneShot!Act

\* The purge takes every authority back and forgets no effect.
LEMMA PurgeMaps ==
    ASSUME Purge
    PROVE  OneShot!Forget
<1>1. \A d \in Decisions : guard'[d].plan = NoPlan /\ barrier'[d].plan = NoPlan
  BY DEF Purge, PurgeUser, NoGuard, NoBarrier
<1>2. \A d \in Decisions : AuthorityHolder(d)' = NoPlan /\ EffectsOf(d)' = EffectsOf(d)
  BY <1>1 DEF AuthorityHolder, EffectsOf, Purge
<1> QED BY <1>2 DEF OneShot!Forget

\* Every step of a request but the call maps to a grant or a stutter.
LEMMA RequestMaps ==
    ASSUME IndInv, NEW r \in Requests, Arrive(r) \/ Step(r) \/ Fault(r), ~CallAdapter(r)
    PROVE  OneShot!Grant(dec[r], r) \/ UNCHANGED OneShot!effects
<1> DEFINE Goal == OneShot!Grant(dec[r], r) \/ UNCHANGED OneShot!effects
<1> SUFFICES Goal
  OBVIOUS
<1>1. /\ LedgerInv /\ dec[r] \in Decisions
      /\ local[r].userRev \in Nat /\ local[r].polRev \in Nat
  BY DEF IndInv, LedgerInv, LedgerTypeOK, ProcessInv, ProcessTypeOK, Memories
<1>2. UNCHANGED <<sent, dec>>
  BY DEF Arrive, Step, Fault, IngestLookup, RespondApprove, RespondReject, IngestSave,
     IngestCapture, IngestApproval, IngestPrepare, IngestUnprepared, ReadUser, ReadRevision,
     ReadPolicies, IngestDenied, IngestEscalate, IngestClaim, IngestRecheck, FirstConfirm,
     Rejected, PreflightBlocked, Approved, AdmissionDenied, Admitted, RespondRecheck, Abort,
     StartDispatch, AdapterAnswer, SettleLease, SettleUnclear, IngestPlanStatus, IngestResult,
     IngestTerminal, RespondObserve, RespondFinalize, IngestClaimLost, AdmittedLost,
     StartDispatchLost, SettleLost, RespondObserveLost, Crash, OnlyProcess, OnlyRows
<1>3. UNCHANGED rows \/ HoldersKept => Goal
  BY <1>2, StutterMaps
<1>4. ClaimExecution(r) => Goal
  BY <1>2, ClaimMaps
<1>5. ASSUME NEW verdict, AdmitApprovalExecution(r, verdict) PROVE Goal
  BY <1>2, <1>5, AdmitMaps
<1> HIDE DEF Goal
<1>6. CASE \/ Arrive(r) \/ IngestPrepare(r) \/ ReadUser(r) \/ ReadRevision(r)
           \/ ReadPolicies(r) \/ IngestRecheck(r) \/ PreflightBlocked(r) \/ RespondRecheck(r)
           \/ AdapterAnswer(r) \/ RespondObserveLost(r) \/ Crash(r)
  BY <1>3, <1>6, ReadsGrantNothing
<1>7. CASE \/ IngestSave(r) \/ IngestApproval(r) \/ IngestUnprepared(r)
           \/ IngestDenied(r) \/ IngestEscalate(r)
  BY <1>1, <1>3, <1>7, IngestKeepsHolders DEF IngestSave, IngestApproval,
     IngestUnprepared, IngestDenied, IngestEscalate
<1>8. CASE IngestCapture(r)
  <2>1. UNCHANGED rows \/ \E kind \in Kinds, level \in Levels : CreateReceipts(dec[r], kind, level)
    BY <1>8 DEF IngestCapture, Levels
  <2> QED BY <1>1, <1>3, <2>1, IngestKeepsHolders
<1>9. CASE IngestClaim(r) \/ IngestClaimLost(r)
  BY <1>3, <1>4, <1>9 DEF IngestClaim, IngestClaimLost
<1>10. CASE Admitted(r) \/ AdmittedLost(r)
  BY <1>3, <1>5, <1>10 DEF Admitted, AdmittedLost
<1>11. CASE FirstConfirm(r) \/ Rejected(r) \/ Approved(r) \/ AdmissionDenied(r) \/ Abort(r)
  BY <1>1, <1>3, <1>11, OutcomesKeepHolders DEF FirstConfirm, Rejected, Approved,
     AdmissionDenied, Abort
<1>12. CASE StartDispatch(r) \/ StartDispatchLost(r)
  <2>1. UNCHANGED <<guard, barrier>>
    BY <1>12 DEF StartDispatch, StartDispatchLost, StartLease, SweepOverdue
  <2> QED BY <1>1, <1>3, <2>1, OutcomesKeepHolders
<1>13. CASE SettleLease(r) \/ SettleUnclear(r) \/ SettleLost(r)
  BY <1>1, <1>3, <1>13, OutcomesKeepHolders DEF SettleLease, SettleUnclear, SettleLost
<1>14. CASE \/ IngestPlanStatus(r) \/ IngestResult(r) \/ IngestTerminal(r)
            \/ RespondObserve(r) \/ RespondFinalize(r)
  BY <1>1, <1>3, <1>14, OutcomesKeepHolders DEF IngestPlanStatus, IngestResult, IngestTerminal,
     RespondObserve, RespondFinalize
<1> QED
  BY <1>6, <1>7, <1>8, <1>9, <1>10, <1>11, <1>12, <1>13, <1>14 DEF Step, Fault

\* The two routes implement the one-shot effect: for each decision one request
\* at most is handed the authority, and only that request acts, once.
THEOREM Refinement == Spec => ImplementsOneShotEffect
<1>1. Init => OneShot!Init
  <2> SUFFICES ASSUME Init PROVE OneShot!Init
    OBVIOUS
  <2>1. \A d \in Decisions : AuthorityHolder(d) = NoPlan /\ EffectsOf(d) = {}
    BY DEF Init, LedgerInit, AuthorityHolder, EffectsOf, NoGuard, NoBarrier
  <2> QED BY <2>1 DEF OneShot!Init
<1>2. IndInv /\ [Next]_vars => [OneShot!Next]_OneShot!effects
  <2> SUFFICES ASSUME IndInv, [Next]_vars PROVE OneShot!Next \/ UNCHANGED OneShot!effects
    OBVIOUS
  <2>1. CASE UNCHANGED vars
    BY <2>1, StutterMaps DEF vars
  <2>2. ASSUME NEW r \in Requests, Arrive(r) \/ Step(r) \/ Fault(r)
        PROVE  OneShot!Next \/ UNCHANGED OneShot!effects
    <3>1. dec[r] \in Decisions
      BY DEF IndInv, LedgerInv, LedgerTypeOK
    <3>2. CASE CallAdapter(r) /\ r \notin sent
      BY <3>1, <3>2, CallMaps DEF OneShot!Next
    <3>3. CASE CallAdapter(r) /\ r \in sent
      BY <3>3, StutterMaps DEF CallAdapter
    <3>4. CASE ~CallAdapter(r)
      BY <2>2, <3>1, <3>4, RequestMaps DEF OneShot!Next
    <3> QED BY <3>2, <3>3, <3>4
  <2>3. CASE ChangeSettings \/ ChangePolicies \/ Elapse \/ Expire \/ Clean \/ Overdue
    <3>1. HoldersKept /\ UNCHANGED <<sent, dec>>
      BY <2>3 DEF ChangeSettings, ChangePolicies, Elapse, Expire, ExpirePending, Clean,
         CleanEscalations, Overdue, SweepOverdue, HoldersKept
    <3> QED BY <3>1, StutterMaps
  <2>4. CASE Purge
    BY <2>4, PurgeMaps DEF OneShot!Next
  <2> QED BY <2>1, <2>2, <2>3, <2>4 DEF Next, Environment
<1> QED BY <1>1, <1>2, Invariance, PTL DEF Spec, ImplementsOneShotEffect, OneShot!Spec

(***************************************************************************)
(* One unresolved lease per provider.                                      *)
(***************************************************************************)

\* No lease becomes unresolved.
NoneBegun == \A q \in Requests : lease'[q] \in Unresolved => lease[q] \in Unresolved

\* Only startDispatch makes a lease unresolved, and then only the lease of the
\* request that asked: the sweep and the settlement keep or resolve what is there.
LEMMA LeasesBegin ==
    ASSUME IndInv, [Next]_vars
    PROVE  \/ NoneBegun
           \/ \E r \in Requests : \E overdue :
                 StartLease(r, local[r].userRev, local[r].polRev, overdue)
<1>1. LedgerTypeOK
  BY DEF IndInv, LedgerInv
<1>2. UNCHANGED lease => NoneBegun
  BY DEF NoneBegun
<1>3. ASSUME NEW r \in Requests, SettleLease(r) \/ SettleUnclear(r) \/ SettleLost(r)
      PROVE  NoneBegun
  BY <1>1, <1>3 DEF SettleLease, SettleUnclear, SettleLost, TerminalizeLease, Unresolved,
     NoneBegun, LedgerTypeOK
<1>4. ASSUME NEW overdue, SweepOverdue(overdue) PROVE NoneBegun
  BY <1>4 DEF SweepOverdue, Swept, StartedLeases, Unresolved, NoneBegun
<1>5. CASE Environment
  <2>1. CASE ChangeSettings \/ ChangePolicies \/ Elapse \/ Expire \/ Clean
    BY <2>1, <1>2 DEF ChangeSettings, ChangePolicies, Elapse, Expire, ExpirePending, Clean,
       CleanEscalations
  <2>2. CASE Purge
    BY <2>2 DEF Purge, PurgeUser, NoneBegun, Unresolved
  <2> QED BY <1>4, <1>5, <2>1, <2>2 DEF Environment, Overdue
<1>6. ASSUME NEW r \in Requests, StartDispatch(r) \/ StartDispatchLost(r)
      PROVE  NoneBegun \/ \E overdue : StartLease(r, local[r].userRev, local[r].polRev, overdue)
  BY <1>4, <1>6 DEF StartDispatch, StartDispatchLost
<1> QED
  BY <1>2, <1>3, <1>5, <1>6, ReadsGrantNothing, RowsGrantNothing DEF Next, vars, Step, Fault

\* What a request is about, and where it was sent, never changes.
LEMMA DecKept ==
    ASSUME [Next]_vars
    PROVE  UNCHANGED inputs
<1>1. ASSUME NEW r \in Requests, Arrive(r) \/ Step(r) \/ Fault(r)
      PROVE  UNCHANGED inputs
  BY <1>1 DEF Arrive, Step, Fault, IngestLookup, RespondApprove, RespondReject, IngestSave,
     IngestCapture, IngestApproval, IngestPrepare, IngestUnprepared, ReadUser, ReadRevision,
     ReadPolicies, IngestDenied, IngestEscalate, IngestClaim, IngestRecheck, FirstConfirm,
     Rejected, PreflightBlocked, Approved, AdmissionDenied, Admitted, RespondRecheck, Abort,
     StartDispatch, CallAdapter, AdapterAnswer, SettleLease, SettleUnclear, IngestPlanStatus,
     IngestResult, IngestTerminal, RespondObserve, RespondFinalize, IngestClaimLost,
     AdmittedLost, StartDispatchLost, SettleLost, RespondObserveLost, Crash, OnlyProcess,
     OnlyRows
<1>2. CASE Environment
  BY <1>2 DEF Environment, ChangeSettings, ChangePolicies, Purge, Elapse, Expire, Clean, Overdue
<1> QED BY <1>1, <1>2 DEF Next, vars

\* Two credentialed requests are never unresolved at the same time: the grant
\* looks at every unresolved lease of the provider, swept ones included.
THEOREM ProviderIsExclusive == Spec => []OneUnresolvedPerProvider
<1>1. Init => OneUnresolvedPerProvider
  BY DEF Init, LedgerInit, OneUnresolvedPerProvider, Unresolved
<1>2. ASSUME IndInv, OneUnresolvedPerProvider, [Next]_vars
      PROVE  OneUnresolvedPerProvider'
  <2>1. dec' = dec
    BY <1>2, DecKept
  <2>2. CASE NoneBegun
    BY <1>2, <2>1, <2>2 DEF NoneBegun, OneUnresolvedPerProvider
  <2>3. ASSUME NEW r \in Requests, NEW overdue,
               StartLease(r, local[r].userRev, local[r].polRev, overdue)
        PROVE  OneUnresolvedPerProvider'
    <3>1. /\ ~ProviderBusy(r)
          /\ \A q \in Requests : q # r /\ lease'[q] \in Unresolved => lease[q] \in Unresolved
      BY <1>2, <2>3 DEF StartLease, Startable, Swept, StartedLeases, Unresolved
    <3> QED BY <1>2, <2>1, <3>1 DEF ProviderBusy, OneUnresolvedPerProvider
  <2> QED BY <1>2, <2>2, <2>3, LeasesBegin
<1> QED BY <1>1, <1>2, Invariance, PTL DEF Spec

(***************************************************************************)
(* Terminal truth is final.                                                *)
(***************************************************************************)

\* The four parts of TerminalIsFinal, as facts about a step.
ReceiptsFinal ==
    \A d \in Decisions : guard[d].state \in Terminal => guard'[d] = guard[d]
BarriersFinal ==
    \A d \in Decisions :
        barrier[d].status \in Terminal \cup {"ambiguous"} => barrier'[d] = barrier[d]
LeasesFinal == \A r \in Requests : lease[r] \in Terminal => lease'[r] = lease[r]
ResultsFinal == \A r \in Requests : result[r] # "none" => result'[r] = result[r]

\* A receipt changes while it is absent, ready or running, never later.
LEMMA ReceiptsStay ==
    ASSUME LedgerTypeOK, NEW r \in Requests, Arrive(r) \/ Step(r) \/ Fault(r)
    PROVE  ReceiptsFinal
<1>1. dec[r] \in Decisions /\ guard \in [Decisions -> GuardRows]
  BY DEF LedgerTypeOK
<1>2. UNCHANGED guard => ReceiptsFinal
  BY DEF ReceiptsFinal
<1>3. ASSUME NEW kind, NEW level, CreateReceipts(dec[r], kind, level) PROVE ReceiptsFinal
  BY <1>1, <1>3 DEF CreateReceipts, Capturable, NoGuard, Terminal, ReceiptsFinal
<1>4. ASSUME \/ DenyReceipt(dec[r]) \/ \E level : EscalateExecutionToApproval(dec[r], level)
             \/ ClaimExecution(r) \/ \E ambiguous \in BOOLEAN : ClosePreparation(dec[r], ambiguous)
      PROVE  ReceiptsFinal
  BY <1>1, <1>4 DEF DenyReceipt, EscalateExecutionToApproval, Escalatable, ClaimExecution,
     ClosePreparation, Ready, Terminal, ReceiptsFinal
<1>5. ASSUME FailReceiptBeforeDispatch(r) \/ \E status : MarkExecutionTerminal(r, status)
      PROVE  ReceiptsFinal
  BY <1>1, <1>5 DEF FailReceiptBeforeDispatch, ReceiptUndispatched, MarkExecutionTerminal,
     Terminal, ReceiptsFinal
<1>6. CASE \/ IngestSave(r) \/ IngestCapture(r) \/ IngestApproval(r) \/ IngestUnprepared(r)
           \/ IngestDenied(r) \/ IngestEscalate(r) \/ IngestClaim(r) \/ IngestClaimLost(r)
  BY <1>2, <1>3, <1>4, <1>6 DEF IngestSave, SaveDecision, IngestCapture, IngestApproval,
     CreateApproval, IngestUnprepared, IngestDenied, IngestEscalate, IngestClaim,
     IngestClaimLost
<1>7. CASE \/ FirstConfirm(r) \/ Rejected(r) \/ Approved(r) \/ AdmissionDenied(r)
           \/ Admitted(r) \/ AdmittedLost(r)
  BY <1>2, <1>7 DEF FirstConfirm, RecordFirstConfirmation, Rejected, Approved, RespondTo,
     AdmissionDenied, DenyApproved, Admitted, AdmittedLost, AdmitApprovalExecution
<1>8. CASE \/ Abort(r) \/ IngestPlanStatus(r) \/ IngestResult(r) \/ IngestTerminal(r)
           \/ RespondObserve(r) \/ RespondFinalize(r)
  BY <1>2, <1>5, <1>8 DEF Abort, FailAdmissionBeforeDispatch, IngestPlanStatus,
     UpdatePlanStatus, IngestResult, CreateResult, IngestTerminal, RespondObserve,
     ObserveTerminal, RespondFinalize, FinalizeAdmittedPlan
<1>9. CASE \/ StartDispatch(r) \/ StartDispatchLost(r) \/ SettleLease(r) \/ SettleUnclear(r)
           \/ SettleLost(r)
  BY <1>2, <1>9 DEF StartDispatch, StartDispatchLost, StartLease, SweepOverdue, SettleLease,
     SettleUnclear, SettleLost, TerminalizeLease
<1> QED BY <1>2, <1>6, <1>7, <1>8, <1>9, ReadsGrantNothing DEF Step, Fault

\* A barrier changes while it is absent or in progress, never later.
LEMMA BarriersStay ==
    ASSUME LedgerTypeOK, NEW r \in Requests, Arrive(r) \/ Step(r) \/ Fault(r)
    PROVE  BarriersFinal
<1>1. dec[r] \in Decisions /\ barrier \in [Decisions -> BarrierRows]
  BY DEF LedgerTypeOK
<1>2. UNCHANGED barrier => BarriersFinal
  BY DEF BarriersFinal
<1>3. ASSUME NEW verdict, AdmitApprovalExecution(r, verdict) PROVE BarriersFinal
  BY <1>1, <1>3 DEF AdmitApprovalExecution, Admissible, NoBarrier, Terminal, BarriersFinal
<1>4. ASSUME FailAdmissionBeforeDispatch(r) \/ \E status : ObserveTerminal(r, status)
      PROVE  BarriersFinal
  BY <1>1, <1>4 DEF FailAdmissionBeforeDispatch, AdmissionUndispatched, ObserveTerminal,
     Terminal, BarriersFinal
<1>5. CASE \/ IngestSave(r) \/ IngestCapture(r) \/ IngestApproval(r) \/ IngestUnprepared(r)
           \/ IngestDenied(r) \/ IngestEscalate(r) \/ IngestClaim(r) \/ IngestClaimLost(r)
  BY <1>2, <1>5 DEF IngestSave, SaveDecision, IngestCapture, CreateReceipts, IngestApproval,
     CreateApproval, IngestUnprepared, ClosePreparation, IngestDenied, DenyReceipt,
     IngestEscalate, EscalateExecutionToApproval, IngestClaim, IngestClaimLost, ClaimExecution
<1>6. CASE \/ FirstConfirm(r) \/ Rejected(r) \/ Approved(r) \/ AdmissionDenied(r)
           \/ Admitted(r) \/ AdmittedLost(r)
  BY <1>2, <1>3, <1>6 DEF FirstConfirm, RecordFirstConfirmation, Rejected, Approved, RespondTo,
     AdmissionDenied, DenyApproved, Admitted, AdmittedLost
<1>7. CASE \/ Abort(r) \/ IngestPlanStatus(r) \/ IngestResult(r) \/ IngestTerminal(r)
           \/ RespondObserve(r) \/ RespondFinalize(r)
  BY <1>2, <1>4, <1>7 DEF Abort, FailReceiptBeforeDispatch, IngestPlanStatus,
     UpdatePlanStatus, IngestResult, CreateResult, IngestTerminal, MarkExecutionTerminal,
     RespondObserve, RespondFinalize, FinalizeAdmittedPlan
<1>8. CASE \/ StartDispatch(r) \/ StartDispatchLost(r) \/ SettleLease(r) \/ SettleUnclear(r)
           \/ SettleLost(r)
  BY <1>2, <1>8 DEF StartDispatch, StartDispatchLost, StartLease, SweepOverdue, SettleLease,
     SettleUnclear, SettleLost, TerminalizeLease
<1> QED BY <1>2, <1>5, <1>6, <1>7, <1>8, ReadsGrantNothing DEF Step, Fault

\* A result is inserted once; a retry writes the status that is already there.
\* A lease is settled while it is unresolved, and swept while it is started.
LEMMA ResultsAndLeasesStay ==
    ASSUME LedgerTypeOK, NEW r \in Requests, Arrive(r) \/ Step(r) \/ Fault(r)
    PROVE  ResultsFinal /\ LeasesFinal
<1>1. result \in [Requests -> ResultStates] /\ lease \in [Requests -> LeaseStates]
  BY DEF LedgerTypeOK
<1>2. UNCHANGED result => ResultsFinal
  BY DEF ResultsFinal
<1>3. UNCHANGED lease => LeasesFinal
  BY DEF LeasesFinal
<1>4. CASE \/ IngestSave(r) \/ IngestCapture(r) \/ IngestApproval(r) \/ IngestUnprepared(r)
           \/ IngestDenied(r) \/ IngestEscalate(r) \/ IngestClaim(r) \/ IngestClaimLost(r)
  BY <1>2, <1>3, <1>4, RowsGrantNothing DEF IngestSave, SaveDecision, IngestCapture,
     CreateReceipts, IngestApproval, CreateApproval, IngestUnprepared, ClosePreparation,
     IngestDenied, DenyReceipt, IngestEscalate, EscalateExecutionToApproval, IngestClaim,
     IngestClaimLost, ClaimExecution
<1>5. CASE \/ FirstConfirm(r) \/ Rejected(r) \/ Approved(r) \/ AdmissionDenied(r)
           \/ Admitted(r) \/ AdmittedLost(r)
  BY <1>2, <1>3, <1>5, RowsGrantNothing DEF FirstConfirm, RecordFirstConfirmation, Rejected,
     Approved, RespondTo, AdmissionDenied, DenyApproved, Admitted, AdmittedLost,
     AdmitApprovalExecution
<1>6. CASE \/ Abort(r) \/ IngestPlanStatus(r) \/ IngestResult(r) \/ IngestTerminal(r)
           \/ RespondObserve(r) \/ RespondFinalize(r)
  <2>1. UNCHANGED lease
    BY <1>6, RowsGrantNothing
  <2>2. CASE Abort(r)
    BY <1>1, <1>2, <1>3, <2>1, <2>2 DEF Abort, FailReceiptBeforeDispatch, ReceiptUndispatched,
       FailAdmissionBeforeDispatch, AdmissionUndispatched, ResultsFinal
  <2>3. CASE IngestPlanStatus(r) \/ IngestTerminal(r) \/ RespondObserve(r)
    BY <1>2, <1>3, <2>1, <2>3 DEF IngestPlanStatus, UpdatePlanStatus, IngestTerminal,
       MarkExecutionTerminal, RespondObserve, ObserveTerminal
  <2>4. CASE IngestResult(r)
    BY <1>1, <1>3, <2>1, <2>4 DEF IngestResult, CreateResult, ResultsFinal
  <2>5. CASE RespondFinalize(r)
    BY <1>1, <1>2, <1>3, <2>1, <2>5 DEF RespondFinalize, FinalizeAdmittedPlan, ResultsFinal
  <2> QED BY <1>6, <2>2, <2>3, <2>4, <2>5
<1>7. CASE StartDispatch(r) \/ StartDispatchLost(r)
  <2>1. PICK overdue : \/ StartLease(r, local[r].userRev, local[r].polRev, overdue)
                      \/ SweepOverdue(overdue)
    BY <1>7 DEF StartDispatch, StartDispatchLost
  <2> QED
    BY <1>1, <1>2, <2>1 DEF StartLease, Startable, SweepOverdue, Swept, StartedLeases, Terminal,
       LeasesFinal
<1>8. CASE SettleLease(r) \/ SettleUnclear(r) \/ SettleLost(r)
  <2>1. UNCHANGED lease \/ \E state : TerminalizeLease(r, state)
    BY <1>8 DEF SettleLease, SettleUnclear, SettleLost
  <2>2. UNCHANGED result
    BY <1>8 DEF SettleLease, SettleUnclear, SettleLost, TerminalizeLease
  <2> QED
    BY <1>1, <1>2, <1>3, <2>1, <2>2 DEF TerminalizeLease, Unresolved, Terminal, LeasesFinal
<1> QED BY <1>2, <1>3, <1>4, <1>5, <1>6, <1>7, <1>8, ReadsGrantNothing DEF Step, Fault

\* No late answer, retry or sweep rewrites a terminal receipt, a settled barrier,
\* a resolved lease or a result, as long as the account exists.
THEOREM TruthIsFinal == Spec => TerminalIsFinal
<1> DEFINE Final == ReceiptsFinal /\ BarriersFinal /\ LeasesFinal /\ ResultsFinal
<1>1. ASSUME IndInv, [Next]_vars, owner' PROVE Final
  <2>1. LedgerTypeOK
    BY <1>1 DEF IndInv, LedgerInv
  <2>2. UNCHANGED <<guard, barrier, lease, result>> => Final
    BY DEF ReceiptsFinal, BarriersFinal, LeasesFinal, ResultsFinal
  <2>3. CASE UNCHANGED vars \/ ChangeSettings \/ ChangePolicies \/ Elapse \/ Expire \/ Clean
    BY <2>2, <2>3 DEF vars, ChangeSettings, ChangePolicies, Elapse, Expire, ExpirePending, Clean,
       CleanEscalations
  <2>4. CASE Overdue
    BY <2>4 DEF Overdue, SweepOverdue, Swept, StartedLeases, Terminal, ReceiptsFinal,
       BarriersFinal, LeasesFinal, ResultsFinal
  <2>5. ~Purge
    BY <1>1 DEF Purge, PurgeUser
  <2>6. ASSUME NEW r \in Requests, Arrive(r) \/ Step(r) \/ Fault(r) PROVE Final
    BY <2>1, <2>6, ReceiptsStay, BarriersStay, ResultsAndLeasesStay
  <2> QED BY <1>1, <2>3, <2>4, <2>5, <2>6 DEF Next, Environment
<1>2. IndInv /\ [Next]_vars =>
        (owner' =>
            /\ \A d \in Decisions :
                  /\ guard[d].state \in Terminal => guard'[d] = guard[d]
                  /\ barrier[d].status \in Terminal \cup {"ambiguous"} => barrier'[d] = barrier[d]
            /\ \A r \in Requests :
                  /\ lease[r] \in Terminal => lease'[r] = lease[r]
                  /\ result[r] # "none" => result'[r] = result[r])
  BY <1>1 DEF ReceiptsFinal, BarriersFinal, LeasesFinal, ResultsFinal
<1> QED BY <1>2, Invariance, PTL DEF Spec, TerminalIsFinal

(***************************************************************************)
(* The ledgers tell the truth.  TruthInv speaks of each request by itself: *)
(* of the rows that name it and of the place it is at.                     *)
(***************************************************************************)

\* What the rows say of a request, and what its place says of the rows.
RowsAreTrue(q) ==
    /\ plan[q] = "completed" => lease[q] = "completed" /\ q \in sent
    /\ guard[dec[q]].plan = q /\ guard[dec[q]].state \in Terminal =>
          plan[q] = guard[dec[q]].state /\ result[q] = guard[dec[q]].state
    /\ barrier[dec[q]].plan = q /\ barrier[dec[q]].status \in Terminal /\ lease[q] # "none" =>
          lease[q] = barrier[dec[q]].status

PlaceIsTrue(q) ==
    /\ pc[q] \in Unleased => lease[q] = "none"
    /\ pc[q] \in {"await", "settle"} => q \in sent
    /\ owner /\ Knows(q) => q \in sent /\ lease[q] = local[q].outcome
    /\ owner /\ route[q] = "ingest" /\ pc[q] \in Ingesting =>
          guard[dec[q]].plan = q /\ guard[dec[q]].state = "running"

\* TruthInv, request by request; that what was never leased was never sent is
\* part of the inductive invariant.
LEMMA TruthByRequest ==
    ASSUME IndInv
    PROVE  TruthInv <=> \A q \in Requests : PlaceIsTrue(q) /\ (owner => RowsAreTrue(q))
<1>1. owner => \A q \in Requests : lease[q] = "none" => q \notin sent
  BY DEF IndInv, EffectsHaveLeases
<1> QED
  BY <1>1 DEF TruthInv, AbortersHaveNoLease, AnswersFollowCalls, KnownIsRecorded, ReceiptsWait,
     LedgersTellTheTruth, PlaceIsTrue, RowsAreTrue

\* The same of the state after a step.
LEMMA TrueNext ==
    ASSUME IndInv', \A q \in Requests : PlaceIsTrue(q)' /\ (owner' => RowsAreTrue(q)')
    PROVE  TruthInv'
<1>1. owner' => \A q \in Requests : lease'[q] = "none" => q \notin sent'
  BY DEF IndInv, EffectsHaveLeases
<1> QED
  BY <1>1 DEF TruthInv, AbortersHaveNoLease, AnswersFollowCalls, KnownIsRecorded, ReceiptsWait,
     LedgersTellTheTruth, PlaceIsTrue, RowsAreTrue

\* The rows that name a request stay, except that its lease may be swept.
Kept(q) ==
    /\ plan'[q] = plan[q] /\ result'[q] = result[q]
    /\ lease'[q] = lease[q] \/ (lease[q] = "request_started" /\ lease'[q] = "ambiguous")
    /\ guard[dec[q]].plan = q \/ guard'[dec[q]].plan = q => guard'[dec[q]] = guard[dec[q]]
    /\ barrier[dec[q]].plan = q \/ barrier'[dec[q]].plan = q =>
          barrier'[dec[q]] = barrier[dec[q]]

\* Kept rows stay true: the sweep touches no settled lease.
LEMMA KeptRows ==
    ASSUME NEW q \in Requests, Kept(q), RowsAreTrue(q), UNCHANGED inputs, q \in sent => q \in sent'
    PROVE  RowsAreTrue(q)'
  BY DEF Kept, RowsAreTrue, Terminal

\* So does the place of a request that does not move.
LEMMA KeptPlace ==
    ASSUME IndInv, NEW q \in Requests, Kept(q), PlaceIsTrue(q), UNCHANGED inputs,
           owner' => owner, q \in sent => q \in sent',
           pc'[q] = pc[q], local'[q] = local[q]
    PROVE  PlaceIsTrue(q)'
<1>1. Knows(q) => local[q].outcome \in Terminal
  BY DEF IndInv, ProcessInv, WritersKnowTheOutcome, Knows
<1>2. Knows(q)' <=> Knows(q)
  BY DEF Knows
<1> QED BY <1>1, <1>2 DEF Kept, PlaceIsTrue, Terminal

\* A request that has no lease and goes where it needs none, or one that ends.
LEMMA QuietPlace ==
    ASSUME NEW r \in Requests, Kept(r), PlaceIsTrue(r),
           pc'[r] = "done" \/ (pc[r] \in Unleased /\ pc'[r] \in Unleased)
    PROVE  PlaceIsTrue(r)'
  BY DEF Kept, PlaceIsTrue, Unleased, Knows, Writing, Ingesting

\* Ingestion and answers before the authority is granted: what changes names no
\* plan.
LEMMA NeutralKeeps ==
    ASSUME LedgerInv, NEW d \in Decisions, UNCHANGED inputs,
           \/ SaveDecision(d) \/ CreateApproval(d) \/ DenyReceipt(d)
           \/ \E level : EscalateExecutionToApproval(d, level)
           \/ \E kind \in Kinds, level \in Levels : CreateReceipts(d, kind, level)
           \/ \E ambiguous \in BOOLEAN : ClosePreparation(d, ambiguous)
           \/ RecordFirstConfirmation(d) \/ DenyApproved(d)
           \/ \E status : RespondTo(d, status)
           \/ UNCHANGED rows
           \/ \E overdue : SweepOverdue(overdue)
    PROVE  \A q \in Requests : Kept(q)
<1> USE DEF Kept
<1>1. /\ guard \in [Decisions -> GuardRows] /\ dec \in [Requests -> Decisions]
      /\ \A q \in Requests : q # NoPlan
      /\ guard[d].state \in {"none", "ready"} => guard[d].plan = NoPlan
  BY LedgerConstants DEF LedgerInv, LedgerTypeOK, AuthoritiesExclude
<1>2. CASE SaveDecision(d) \/ CreateApproval(d) \/ RecordFirstConfirmation(d)
  BY <1>2 DEF SaveDecision, CreateApproval, RecordFirstConfirmation
<1>3. CASE DenyApproved(d) \/ (\E status : RespondTo(d, status)) \/ UNCHANGED rows
  BY <1>3 DEF DenyApproved, RespondTo
<1>4. CASE \E overdue : SweepOverdue(overdue)
  BY <1>4 DEF SweepOverdue, Swept, StartedLeases
<1>5. ASSUME guard[d].state \in {"none", "ready"}, guard'[d].plan = NoPlan,
             \A e \in Decisions : e # d => guard'[e] = guard[e],
             UNCHANGED <<barrier, plan, result, lease>>
      PROVE  \A q \in Requests : Kept(q)
  BY <1>1, <1>5
<1>6. CASE DenyReceipt(d)
  BY <1>1, <1>5, <1>6 DEF DenyReceipt
<1>7. CASE \E level : EscalateExecutionToApproval(d, level)
  BY <1>1, <1>5, <1>7 DEF EscalateExecutionToApproval, Escalatable, Ready
<1>8. CASE \E kind \in Kinds, level \in Levels : CreateReceipts(d, kind, level)
  BY <1>1, <1>5, <1>8 DEF CreateReceipts, Capturable, NoGuard
<1>9. CASE \E ambiguous \in BOOLEAN : ClosePreparation(d, ambiguous)
  BY <1>1, <1>5, <1>9 DEF ClosePreparation, Ready
<1> QED BY <1>2, <1>3, <1>4, <1>6, <1>7, <1>8, <1>9

\* The transactions of a request's own plan, receipt, barrier and lease leave
\* what names the others.
LEMMA OwnKeepsOthers ==
    ASSUME LedgerInv, NEW r \in Requests, UNCHANGED inputs, NEW status,
           \/ ClaimExecution(r) \/ AdmitApprovalExecution(r, status)
           \/ FailReceiptBeforeDispatch(r) \/ FailAdmissionBeforeDispatch(r)
           \/ UpdatePlanStatus(r, status) \/ CreateResult(r, status)
           \/ MarkExecutionTerminal(r, status) \/ ObserveTerminal(r, status)
           \/ FinalizeAdmittedPlan(r, status) \/ TerminalizeLease(r, status)
           \/ \E u, p, overdue : StartLease(r, u, p, overdue)
    PROVE  \A q \in Requests : q # r => Kept(q)
<1> USE DEF Kept
<1>1. /\ guard \in [Decisions -> GuardRows] /\ barrier \in [Decisions -> BarrierRows]
      /\ dec \in [Requests -> Decisions] /\ plan \in [Requests -> PlanStates]
      /\ result \in [Requests -> ResultStates] /\ lease \in [Requests -> LeaseStates]
      /\ \A q \in Requests : q # NoPlan
      /\ guard[dec[r]].state = "ready" => guard[dec[r]].plan = NoPlan
  BY LedgerConstants DEF LedgerInv, LedgerTypeOK, AuthoritiesExclude
<1>2. CASE ClaimExecution(r)
  BY <1>1, <1>2 DEF ClaimExecution, Ready
<1>3. CASE AdmitApprovalExecution(r, status)
  BY <1>1, <1>3 DEF AdmitApprovalExecution, Admissible, NoBarrier
<1>4. CASE FailReceiptBeforeDispatch(r)
  BY <1>1, <1>4 DEF FailReceiptBeforeDispatch, ReceiptUndispatched
<1>5. CASE FailAdmissionBeforeDispatch(r)
  BY <1>1, <1>5 DEF FailAdmissionBeforeDispatch, AdmissionUndispatched
<1>6. CASE UpdatePlanStatus(r, status) \/ CreateResult(r, status)
  BY <1>1, <1>6 DEF UpdatePlanStatus, CreateResult
<1>7. CASE MarkExecutionTerminal(r, status)
  BY <1>1, <1>7 DEF MarkExecutionTerminal
<1>8. CASE ObserveTerminal(r, status)
  BY <1>1, <1>8 DEF ObserveTerminal
<1>9. CASE FinalizeAdmittedPlan(r, status) \/ TerminalizeLease(r, status)
  BY <1>1, <1>9 DEF FinalizeAdmittedPlan, TerminalizeLease
<1>10. CASE \E u, p, overdue : StartLease(r, u, p, overdue)
  BY <1>1, <1>10 DEF StartLease, Swept, StartedLeases
<1> QED BY <1>2, <1>3, <1>4, <1>5, <1>6, <1>7, <1>8, <1>9, <1>10

\* A step of request r moves no other request.
LEMMA MovesAlone ==
    ASSUME IndInv, NEW r \in Requests, Arrive(r) \/ Step(r) \/ Fault(r)
    PROVE  /\ UNCHANGED <<owner, inputs>>
           /\ sent \subseteq sent'
           /\ \A q \in Requests : q # r => pc'[q] = pc[q] /\ local'[q] = local[q]
<1> USE DEF Goto, OnlyProcess, OnlyRows
<1>1. pc \in [Requests -> Locations] /\ local \in [Requests -> Memories]
  BY DEF IndInv, ProcessInv, ProcessTypeOK
<1>2. Finish(r) \/ (\E phase : EvaluatePolicy(r, phase)) \/ Doubt(r) =>
        \A q \in Requests : q # r => pc'[q] = pc[q] /\ local'[q] = local[q]
  BY <1>1 DEF Finish, EvaluatePolicy, Doubt
<1>3. CASE \/ Arrive(r) \/ IngestSave(r) \/ IngestCapture(r) \/ IngestApproval(r)
           \/ IngestPrepare(r) \/ IngestUnprepared(r)
  BY <1>1, <1>2, <1>3 DEF Arrive, IngestLookup, RespondApprove, RespondReject, IngestSave,
     IngestCapture, IngestApproval, IngestPrepare, IngestUnprepared
<1>4. CASE \/ ReadUser(r) \/ ReadRevision(r) \/ ReadPolicies(r)
           \/ IngestDenied(r) \/ IngestEscalate(r) \/ IngestClaim(r) \/ IngestRecheck(r)
  BY <1>1, <1>2, <1>4 DEF ReadUser, ReadRevision, ReadPolicies, IngestDenied, IngestEscalate,
     IngestClaim, IngestRecheck
<1>5. CASE \/ FirstConfirm(r) \/ Rejected(r) \/ PreflightBlocked(r) \/ Approved(r)
           \/ AdmissionDenied(r) \/ Admitted(r) \/ RespondRecheck(r)
  BY <1>1, <1>2, <1>5 DEF FirstConfirm, Rejected, PreflightBlocked, Approved,
     AdmissionDenied, Admitted, RespondRecheck
<1>6. CASE \/ Abort(r) \/ StartDispatch(r) \/ CallAdapter(r) \/ AdapterAnswer(r)
           \/ SettleLease(r) \/ SettleUnclear(r)
  BY <1>1, <1>2, <1>6 DEF Abort, StartDispatch, CallAdapter, AdapterAnswer, SettleLease,
     SettleUnclear
<1>7. CASE \/ IngestPlanStatus(r) \/ IngestResult(r) \/ IngestTerminal(r)
           \/ RespondObserve(r) \/ RespondFinalize(r)
  BY <1>1, <1>2, <1>7 DEF IngestPlanStatus, IngestResult, IngestTerminal, RespondObserve,
     RespondFinalize
<1>8. CASE Fault(r)
  BY <1>1, <1>2, <1>8 DEF Fault, IngestClaimLost, AdmittedLost, StartDispatchLost, SettleLost,
     RespondObserveLost, Crash
<1> QED BY <1>3, <1>4, <1>5, <1>6, <1>7, <1>8 DEF Step

\* What request r owes after its step; the others are kept.
Truthful(r) ==
    /\ \A q \in Requests : q # r => Kept(q)
    /\ PlaceIsTrue(r)'
    /\ owner => RowsAreTrue(r)'

\* Every step up to the grant of the authority, and every step that only ends a
\* request, changes rows that name no plan.
LEMMA QuietTruth ==
    ASSUME IndInv, NEW r \in Requests, PlaceIsTrue(r), owner => RowsAreTrue(r),
           \/ Arrive(r) \/ IngestSave(r) \/ IngestCapture(r) \/ IngestApproval(r)
           \/ IngestPrepare(r) \/ IngestUnprepared(r) \/ ReadUser(r) \/ ReadRevision(r)
           \/ ReadPolicies(r) \/ IngestDenied(r) \/ IngestEscalate(r) \/ IngestRecheck(r)
           \/ FirstConfirm(r) \/ Rejected(r) \/ PreflightBlocked(r) \/ Approved(r)
           \/ AdmissionDenied(r) \/ RespondRecheck(r) \/ Crash(r)
    PROVE  Truthful(r)
<1>1. LedgerInv /\ dec[r] \in Decisions /\ pc \in [Requests -> Locations]
  BY DEF IndInv, LedgerInv, LedgerTypeOK, ProcessInv, ProcessTypeOK
<1>2. UNCHANGED <<owner, inputs>> /\ sent \subseteq sent'
  BY MovesAlone DEF Step, Fault
<1>3. UNCHANGED rows => \A q \in Requests : Kept(q)
  BY <1>1, <1>2, NeutralKeeps
<1>4. \A q \in Requests : Kept(q)
  <2>1. CASE \/ Arrive(r) \/ IngestPrepare(r) \/ ReadUser(r) \/ ReadRevision(r)
             \/ ReadPolicies(r) \/ IngestRecheck(r) \/ PreflightBlocked(r) \/ RespondRecheck(r)
             \/ Crash(r)
    BY <1>3, <2>1, ReadsGrantNothing
  <2>2. CASE \/ IngestSave(r) \/ IngestApproval(r) \/ IngestUnprepared(r)
             \/ IngestDenied(r) \/ IngestEscalate(r)
    BY <1>1, <1>2, <1>3, <2>2, NeutralKeeps DEF IngestSave, IngestApproval, IngestUnprepared,
       IngestDenied, IngestEscalate
  <2>3. CASE IngestCapture(r)
    <3>1. UNCHANGED rows \/ \E kind \in Kinds, level \in Levels : CreateReceipts(dec[r], kind, level)
      BY <2>3 DEF IngestCapture, Levels
    <3> QED BY <1>1, <1>2, <1>3, <3>1, NeutralKeeps
  <2>4. CASE FirstConfirm(r) \/ Rejected(r) \/ Approved(r) \/ AdmissionDenied(r)
    BY <1>1, <1>2, <1>3, <2>4, NeutralKeeps DEF FirstConfirm, Rejected, Approved, AdmissionDenied
  <2> QED BY <2>1, <2>2, <2>3, <2>4
<1>5. pc'[r] = "done" \/ (pc[r] \in Unleased /\ pc'[r] \in Unleased)
  <2> USE DEF Goto, At, Unleased
  <2>1. /\ Finish(r) => pc'[r] = "done"
        /\ \A phase : EvaluatePolicy(r, phase) => pc'[r] = "read_user"
    BY <1>1 DEF Finish, EvaluatePolicy
  <2>2. CASE \/ Arrive(r) \/ IngestSave(r) \/ IngestCapture(r) \/ IngestApproval(r)
             \/ IngestPrepare(r) \/ IngestUnprepared(r)
    BY <1>1, <2>1, <2>2 DEF Arrive, IngestLookup, RespondApprove, RespondReject, IngestSave,
       IngestCapture, IngestApproval, IngestPrepare, IngestUnprepared, ResumePoint, Kinds
  <2>3. CASE \/ ReadUser(r) \/ ReadRevision(r) \/ ReadPolicies(r) \/ IngestDenied(r)
             \/ IngestEscalate(r) \/ IngestRecheck(r)
    BY <1>1, <2>1, <2>3 DEF ReadUser, ReadRevision, ReadPolicies, IngestDenied, IngestEscalate,
       IngestRecheck, Decides
  <2>4. CASE \/ FirstConfirm(r) \/ Rejected(r) \/ PreflightBlocked(r) \/ Approved(r)
             \/ AdmissionDenied(r) \/ RespondRecheck(r) \/ Crash(r)
    BY <1>1, <2>1, <2>4 DEF FirstConfirm, Rejected, PreflightBlocked, Approved,
       AdmissionDenied, RespondRecheck, Crash, Decides
  <2> QED BY <2>2, <2>3, <2>4
<1> QED BY <1>2, <1>4, <1>5, QuietPlace, KeptRows DEF Truthful

\* A new authority has a running plan and no lease yet.
LEMMA GrantTruth ==
    ASSUME IndInv, NEW r \in Requests, PlaceIsTrue(r), owner => RowsAreTrue(r),
           IngestClaim(r) \/ IngestClaimLost(r) \/ Admitted(r) \/ AdmittedLost(r)
    PROVE  Truthful(r)
<1>1. /\ LedgerInv /\ dec[r] \in Decisions /\ pc \in [Requests -> Locations]
      /\ guard \in [Decisions -> GuardRows] /\ plan \in [Requests -> PlanStates]
      /\ barrier \in [Decisions -> BarrierRows] /\ r # NoPlan
  BY LedgerConstants DEF IndInv, LedgerInv, LedgerTypeOK, ProcessInv, ProcessTypeOK
<1>2. UNCHANGED <<owner, inputs>> /\ sent \subseteq sent'
  BY MovesAlone DEF Step, Fault
<1>3. pc[r] = "decide" /\ pc'[r] \in {"read_user", "done"} /\ lease[r] = "none" /\ UNCHANGED lease
  <2>1. pc[r] = "decide" /\ pc'[r] \in {"read_user", "done"}
    BY <1>1 DEF IngestClaim, IngestClaimLost, Admitted, AdmittedLost, Decides, At, Goto,
       EvaluatePolicy, Finish
  <2> QED BY <2>1, RowsGrantNothing DEF PlaceIsTrue, Unleased
<1>4. PlaceIsTrue(r)'
  BY <1>3 DEF PlaceIsTrue, Unleased, Knows, Writing, Ingesting
<1>5. CASE UNCHANGED rows
  BY <1>1, <1>2, <1>4, <1>5, NeutralKeeps, KeptRows DEF Truthful
<1>6. CASE ClaimExecution(r)
  <2>1. barrier[dec[r]] = NoBarrier
    BY <1>1, <1>6 DEF ClaimExecution, Ready, LedgerInv, AuthoritiesExclude
  <2>2. RowsAreTrue(r)'
    BY <1>1, <1>2, <1>6, <2>1 DEF ClaimExecution, RowsAreTrue, Terminal, NoBarrier
  <2> QED BY <1>1, <1>2, <1>4, <1>6, <2>2, OwnKeepsOthers DEF Truthful
<1>7. ASSUME NEW verdict, AdmitApprovalExecution(r, verdict) PROVE Truthful(r)
  <2>1. RowsAreTrue(r)'
    BY <1>1, <1>2, <1>7 DEF AdmitApprovalExecution, Admissible, RowsAreTrue, Terminal
  <2> QED BY <1>1, <1>2, <1>4, <1>7, <2>1, OwnKeepsOthers DEF Truthful
<1> QED
  BY <1>5, <1>6, <1>7 DEF IngestClaim, IngestClaimLost, Admitted, AdmittedLost

\* An abort closes what has no lease.
LEMMA AbortTruth ==
    ASSUME IndInv, NEW r \in Requests, PlaceIsTrue(r), owner => RowsAreTrue(r), Abort(r)
    PROVE  Truthful(r)
<1>1. /\ LedgerInv /\ dec[r] \in Decisions /\ pc \in [Requests -> Locations]
      /\ guard \in [Decisions -> GuardRows] /\ plan \in [Requests -> PlanStates]
      /\ barrier \in [Decisions -> BarrierRows] /\ result \in [Requests -> ResultStates]
      /\ r # NoPlan
  BY LedgerConstants DEF IndInv, LedgerInv, LedgerTypeOK, ProcessInv, ProcessTypeOK
<1>2. UNCHANGED <<owner, inputs>> /\ sent \subseteq sent'
  BY MovesAlone DEF Step
<1>3. lease[r] = "none" /\ UNCHANGED lease /\ pc'[r] = "done"
  BY <1>1, RowsGrantNothing DEF Abort, At, PlaceIsTrue, Unleased, Finish, Goto
<1>4. PlaceIsTrue(r)'
  BY <1>3 DEF PlaceIsTrue, Unleased, Knows, Writing, Ingesting
<1>5. CASE UNCHANGED rows
  BY <1>1, <1>2, <1>4, <1>5, NeutralKeeps, KeptRows DEF Truthful
<1>6. CASE FailReceiptBeforeDispatch(r)
  <2>1. RowsAreTrue(r)'
    BY <1>1, <1>2, <1>3, <1>6 DEF FailReceiptBeforeDispatch, RowsAreTrue, Terminal
  <2> QED BY <1>1, <1>2, <1>4, <1>6, <2>1, OwnKeepsOthers DEF Truthful
<1>7. CASE FailAdmissionBeforeDispatch(r)
  <2>1. guard[dec[r]].plan = NoPlan
    BY <1>1, <1>7 DEF FailAdmissionBeforeDispatch, AdmissionUndispatched, LedgerInv,
       AuthoritiesExclude, NoBarrier
  <2>2. RowsAreTrue(r)'
    BY <1>1, <1>2, <1>3, <1>7, <2>1 DEF FailAdmissionBeforeDispatch, RowsAreTrue, Terminal
  <2> QED BY <1>1, <1>2, <1>4, <1>7, <2>2, OwnKeepsOthers DEF Truthful
<1> QED BY <1>5, <1>6, <1>7 DEF Abort

\* A request in doubt is at no place that knows an outcome.
LEMMA DoubtPlace ==
    ASSUME IndInv, NEW r \in Requests, Doubt(r)
    PROVE  PlaceIsTrue(r)'
<1>1. pc \in [Requests -> Locations] /\ local \in [Requests -> Memories]
  BY DEF IndInv, ProcessInv, ProcessTypeOK
<1>2. pc'[r] = "done" \/ (pc'[r] = "observe" /\ local'[r].outcome = "unclear")
  BY <1>1, ForgottenType DEF Doubt, Goto, Memories, Forgotten
<1> QED BY <1>2 DEF PlaceIsTrue, Unleased, Knows, Writing, Ingesting, Terminal

\* The grant of a lease goes to the holder of a receipt or a barrier that is not
\* settled; a refusal leaves the request without a lease.
LEMMA StartTruth ==
    ASSUME IndInv, NEW r \in Requests, PlaceIsTrue(r), owner => RowsAreTrue(r),
           StartDispatch(r) \/ StartDispatchLost(r)
    PROVE  Truthful(r)
<1>1. /\ LedgerInv /\ dec[r] \in Decisions /\ pc \in [Requests -> Locations]
      /\ lease \in [Requests -> LeaseStates] /\ r # NoPlan
  BY LedgerConstants DEF IndInv, LedgerInv, LedgerTypeOK, ProcessInv, ProcessTypeOK
<1>2. UNCHANGED <<owner, inputs>> /\ sent \subseteq sent'
  BY MovesAlone DEF Step, Fault
<1>3. pc[r] = "start" /\ lease[r] = "none"
  BY DEF StartDispatch, StartDispatchLost, At, PlaceIsTrue, Unleased
<1>4. ASSUME NEW overdue, SweepOverdue(overdue), Goto(r, "abort") \/ Doubt(r)
      PROVE  Truthful(r)
  <2>1. \A q \in Requests : Kept(q)
    BY <1>1, <1>2, <1>4, NeutralKeeps
  <2>2. CASE Goto(r, "abort")
    <3>1. pc'[r] = "abort"
      BY <1>1, <2>2 DEF Goto
    <3> QED BY <1>2, <1>3, <2>1, <3>1, QuietPlace, KeptRows DEF Truthful, Unleased
  <2>3. CASE Doubt(r)
    BY <1>2, <2>1, <2>3, DoubtPlace, KeptRows DEF Truthful
  <2> QED BY <1>4, <2>2, <2>3
<1>5. ASSUME NEW overdue, StartLease(r, local[r].userRev, local[r].polRev, overdue),
             Goto(r, "call") \/ Doubt(r)
      PROVE  Truthful(r)
  <2>1. /\ HoldsAuthority(r) /\ lease'[r] = "request_started"
        /\ UNCHANGED <<guard, barrier, plan, result>>
    BY <1>1, <1>5 DEF StartLease, Startable, Swept
  <2>2. /\ guard[dec[r]].plan = r => route[r] = "ingest" /\ barrier[dec[r]].plan = NoPlan
        /\ barrier[dec[r]].plan = r => route[r] = "respond" /\ guard[dec[r]].plan = NoPlan
    BY <1>1 DEF LedgerInv, AuthoritiesExclude, NoBarrier
  <2>3. RowsAreTrue(r)'
    BY <1>1, <1>2, <2>1, <2>2 DEF HoldsAuthority, RowsAreTrue, Terminal
  <2>4. PlaceIsTrue(r)'
    <3>1. CASE Goto(r, "call")
      <4>1. pc'[r] = "call"
        BY <1>1, <3>1 DEF Goto
      <4>2. route[r] = "ingest" => guard[dec[r]].plan = r /\ guard[dec[r]].state = "running"
        BY <2>1, <2>2 DEF HoldsAuthority
      <4> QED BY <1>2, <2>1, <4>1, <4>2 DEF PlaceIsTrue, Unleased, Knows, Writing
    <3> QED BY <1>5, <3>1, DoubtPlace
  <2>5. \A q \in Requests : q # r => Kept(q)
    BY <1>1, <1>2, <1>5, OwnKeepsOthers
  <2> QED BY <2>3, <2>4, <2>5 DEF Truthful
<1> QED BY <1>4, <1>5 DEF StartDispatch, StartDispatchLost

\* The call and the answer: the request has acted, and its rows stay.
LEMMA CallTruth ==
    ASSUME IndInv, NEW r \in Requests, PlaceIsTrue(r), owner => RowsAreTrue(r),
           CallAdapter(r) \/ AdapterAnswer(r)
    PROVE  Truthful(r)
<1>1. /\ LedgerInv /\ dec[r] \in Decisions /\ pc \in [Requests -> Locations]
  BY DEF IndInv, LedgerInv, LedgerTypeOK, ProcessInv, ProcessTypeOK
<1>2. UNCHANGED <<owner, inputs>> /\ sent \subseteq sent'
  BY MovesAlone DEF Step
<1>3. UNCHANGED rows /\ \A q \in Requests : Kept(q)
  BY <1>1, <1>2, ReadsGrantNothing, NeutralKeeps
<1>4. pc[r] \in Ingesting /\ pc'[r] \in {"await", "settle"} /\ r \in sent'
  BY <1>1, <1>2 DEF CallAdapter, AdapterAnswer, At, Goto, PlaceIsTrue, Ingesting
<1>5. PlaceIsTrue(r)'
  BY <1>2, <1>3, <1>4 DEF PlaceIsTrue, Unleased, Knows, Writing, Ingesting
<1> QED BY <1>2, <1>3, <1>5, KeptRows DEF Truthful

\* The settlement of a lease: until then no row spoke of an outcome.
LEMMA SettleTruth ==
    ASSUME IndInv, NEW r \in Requests, PlaceIsTrue(r), owner => RowsAreTrue(r),
           SettleLease(r) \/ SettleUnclear(r) \/ SettleLost(r)
    PROVE  Truthful(r)
<1>1. /\ LedgerInv /\ dec[r] \in Decisions /\ pc \in [Requests -> Locations]
      /\ lease \in [Requests -> LeaseStates] /\ owner
  BY DEF IndInv, LedgerInv, LedgerTypeOK, ProcessInv, ProcessTypeOK, CallersHoldLeases,
     LeasesHoldAuthority, Unresolved, SettleLease, SettleUnclear, SettleLost, At
<1>2. UNCHANGED <<owner, inputs>> /\ sent \subseteq sent'
  BY MovesAlone DEF Step, Fault
<1>3. pc[r] = "settle" /\ r \in sent
  BY DEF SettleLease, SettleUnclear, SettleLost, At, PlaceIsTrue
<1>4. ASSUME NEW state, TerminalizeLease(r, state)
      PROVE  /\ RowsAreTrue(r)' /\ lease'[r] = state
             /\ UNCHANGED guard
             /\ \A q \in Requests : q # r => Kept(q)
  <2>1. plan[r] # "completed"
    BY <1>1, <1>4 DEF TerminalizeLease, Unresolved, RowsAreTrue
  <2>2. ~(barrier[dec[r]].plan = r /\ barrier[dec[r]].status \in Terminal)
    BY <1>1, <1>4 DEF TerminalizeLease, Unresolved, RowsAreTrue, Terminal
  <2>3. RowsAreTrue(r)'
    BY <1>1, <1>2, <1>4, <2>1, <2>2 DEF TerminalizeLease, RowsAreTrue
  <2> QED BY <1>1, <1>2, <1>4, <2>3, OwnKeepsOthers DEF TerminalizeLease
<1>5. CASE SettleLease(r)
  <2>1. /\ pc'[r] \in {"plan_status", "observe"} /\ UNCHANGED local
        /\ TerminalizeLease(r, local[r].outcome)
    BY <1>1, <1>5 DEF SettleLease, Goto
  <2>2. PlaceIsTrue(r)'
    BY <1>1, <1>2, <1>3, <1>4, <2>1 DEF PlaceIsTrue, Unleased, Knows, Ingesting
  <2> QED BY <1>4, <2>1, <2>2 DEF Truthful
<1>6. CASE SettleUnclear(r) \/ SettleLost(r)
  <2>1. PlaceIsTrue(r)'
    BY <1>6, DoubtPlace DEF SettleUnclear, SettleLost
  <2>2. CASE UNCHANGED rows
    BY <1>1, <1>2, <2>1, <2>2, NeutralKeeps, KeptRows DEF Truthful
  <2>3. CASE \E state : TerminalizeLease(r, state)
    BY <1>4, <2>1, <2>3 DEF Truthful
  <2> QED BY <1>6, <2>2, <2>3 DEF SettleUnclear, SettleLost
<1> QED BY <1>5, <1>6

\* Ingestion writes the outcome of its own settled lease while its receipt is
\* still running; the receipt follows the plan and the result.
LEMMA IngestWritesTruth ==
    ASSUME IndInv, NEW r \in Requests, PlaceIsTrue(r), owner => RowsAreTrue(r),
           IngestPlanStatus(r) \/ IngestResult(r) \/ IngestTerminal(r)
    PROVE  Truthful(r)
<1>1. /\ LedgerInv /\ dec[r] \in Decisions /\ pc \in [Requests -> Locations]
      /\ guard \in [Decisions -> GuardRows] /\ plan \in [Requests -> PlanStates]
      /\ result \in [Requests -> ResultStates] /\ r # NoPlan
  BY LedgerConstants DEF IndInv, LedgerInv, LedgerTypeOK, ProcessInv, ProcessTypeOK
<1>2. UNCHANGED <<owner, inputs>> /\ sent \subseteq sent'
  BY MovesAlone DEF Step
<1>3. pc[r] \in {"plan_status", "create_result", "mark_terminal"} /\ Knows(r)
  BY DEF IngestPlanStatus, IngestResult, IngestTerminal, At, Knows, Writing
<1>4. owner => r \in sent /\ lease[r] = local[r].outcome
  BY <1>3 DEF PlaceIsTrue
<1>5. owner /\ guard[dec[r]].plan = r => guard[dec[r]].state = "running"
  BY <1>1, <1>3 DEF PlaceIsTrue, Ingesting, LedgerInv, AuthoritiesExclude
<1>6. UNCHANGED lease
  BY RowsGrantNothing
<1>7. CASE IngestPlanStatus(r)
  <2>1. pc'[r] = "create_result" /\ UNCHANGED <<local, guard, barrier, result>>
    BY <1>1, <1>7 DEF IngestPlanStatus, Goto, UpdatePlanStatus
  <2>2. plan'[r] \in {plan[r], local[r].outcome}
    BY <1>1, <1>7 DEF IngestPlanStatus, UpdatePlanStatus
  <2>3. PlaceIsTrue(r)'
    BY <1>2, <1>3, <1>6, <2>1 DEF PlaceIsTrue, Unleased, Knows, Writing, Ingesting
  <2>4. owner => RowsAreTrue(r)'
    BY <1>2, <1>4, <1>5, <1>6, <2>1, <2>2 DEF RowsAreTrue, Terminal
  <2> QED BY <1>1, <1>2, <1>7, <2>3, <2>4, OwnKeepsOthers DEF Truthful, IngestPlanStatus
<1>8. CASE IngestResult(r)
  <2>1. pc'[r] = "mark_terminal" /\ UNCHANGED <<local, guard, barrier, plan>>
    BY <1>1, <1>8 DEF IngestResult, Goto, CreateResult
  <2>2. PlaceIsTrue(r)'
    BY <1>2, <1>3, <1>6, <2>1 DEF PlaceIsTrue, Unleased, Knows, Writing, Ingesting
  <2>3. owner => RowsAreTrue(r)'
    BY <1>2, <1>4, <1>5, <1>6, <2>1 DEF RowsAreTrue, Terminal
  <2> QED BY <1>1, <1>2, <1>8, <2>2, <2>3, OwnKeepsOthers DEF Truthful, IngestResult
<1>9. CASE IngestTerminal(r)
  <2>1. pc'[r] = "done" /\ UNCHANGED <<barrier, plan, result>>
    BY <1>1, <1>9 DEF IngestTerminal, Finish, Goto, MarkExecutionTerminal
  <2>2. PlaceIsTrue(r)'
    BY <2>1 DEF PlaceIsTrue, Unleased, Knows, Writing, Ingesting
  <2>3. plan[r] = guard'[dec[r]].state /\ result[r] = guard'[dec[r]].state
    BY <1>1, <1>9 DEF IngestTerminal, MarkExecutionTerminal
  <2>4. owner => RowsAreTrue(r)'
    BY <1>2, <1>6, <2>1, <2>3 DEF RowsAreTrue
  <2> QED BY <1>1, <1>2, <1>9, <2>2, <2>4, OwnKeepsOthers DEF Truthful, IngestTerminal
<1> QED BY <1>7, <1>8, <1>9

\* The approval route writes the outcome of its own settled lease.
LEMMA RespondWritesTruth ==
    ASSUME IndInv, NEW r \in Requests, PlaceIsTrue(r), owner => RowsAreTrue(r),
           RespondObserve(r) \/ RespondObserveLost(r) \/ RespondFinalize(r)
    PROVE  Truthful(r)
<1>1. /\ LedgerInv /\ dec[r] \in Decisions /\ pc \in [Requests -> Locations]
      /\ barrier \in [Decisions -> BarrierRows] /\ plan \in [Requests -> PlanStates]
      /\ result \in [Requests -> ResultStates] /\ r # NoPlan
  BY LedgerConstants DEF IndInv, LedgerInv, LedgerTypeOK, ProcessInv, ProcessTypeOK
<1>2. UNCHANGED <<owner, inputs>> /\ sent \subseteq sent'
  BY MovesAlone DEF Step, Fault
<1>3. /\ local[r].outcome \in Terminal => Knows(r)
      /\ owner /\ Knows(r) => r \in sent /\ lease[r] = local[r].outcome
  BY DEF RespondObserve, RespondObserveLost, RespondFinalize, At, Knows, Writing, PlaceIsTrue
<1>4. barrier[dec[r]].plan = r => guard[dec[r]].plan = NoPlan
  BY <1>1 DEF LedgerInv, AuthoritiesExclude, NoBarrier
<1>5. UNCHANGED lease
  BY RowsGrantNothing, ReadsGrantNothing
<1>6. PlaceIsTrue(r)'
  <2>1. CASE pc'[r] = "done"
    BY <2>1 DEF PlaceIsTrue, Unleased, Knows, Writing, Ingesting
  <2>2. CASE pc'[r] = "finalize" /\ UNCHANGED local /\ local[r].outcome \in Terminal
    BY <1>2, <1>3, <1>5, <2>2 DEF PlaceIsTrue, Unleased, Knows, Writing, Ingesting
  <2> QED
    BY <1>1, <2>1, <2>2 DEF RespondObserve, RespondObserveLost, RespondFinalize, Goto, Finish
<1>7. CASE UNCHANGED rows
  BY <1>1, <1>2, <1>6, <1>7, NeutralKeeps, KeptRows DEF Truthful
<1>8. CASE RespondObserve(r)
  <2>1. PICK status : /\ ObserveTerminal(r, status)
                      /\ status \in Terminal => status = local[r].outcome
    BY <1>8 DEF RespondObserve, Terminal
  <2>2. /\ barrier[dec[r]].plan = r /\ barrier'[dec[r]].status = status
        /\ UNCHANGED <<guard, plan, result>>
    BY <1>1, <2>1 DEF ObserveTerminal, BarrierRows
  <2>3. owner => RowsAreTrue(r)'
    BY <1>1, <1>2, <1>3, <1>4, <1>5, <2>1, <2>2 DEF RowsAreTrue
  <2> QED BY <1>1, <1>2, <1>6, <2>1, <2>3, OwnKeepsOthers DEF Truthful
<1>9. CASE FinalizeAdmittedPlan(r, local[r].outcome) /\ RespondFinalize(r)
  <2>1. /\ barrier[dec[r]].plan = r /\ plan'[r] = local[r].outcome
        /\ UNCHANGED <<guard, barrier>>
    BY <1>1, <1>9 DEF FinalizeAdmittedPlan
  <2>2. local[r].outcome \in Terminal
    BY <1>9 DEF IndInv, ProcessInv, WritersKnowTheOutcome, RespondFinalize, At, Writing
  <2>3. owner => RowsAreTrue(r)'
    BY <1>1, <1>2, <1>3, <1>4, <1>5, <2>1, <2>2 DEF RowsAreTrue
  <2> QED BY <1>1, <1>2, <1>6, <1>9, <2>3, OwnKeepsOthers DEF Truthful
<1> QED BY <1>7, <1>8, <1>9, ReadsGrantNothing DEF RespondFinalize

\* Everything that is not a request, and the purge, which leaves no row to lie.
LEMMA EnvironmentTruth ==
    ASSUME IndInv, Environment, NEW q \in Requests, PlaceIsTrue(q), owner => RowsAreTrue(q)
    PROVE  PlaceIsTrue(q)' /\ (owner' => RowsAreTrue(q)')
<1>1. LedgerInv /\ UNCHANGED process /\ UNCHANGED inputs
  BY DEF IndInv, Environment, ChangeSettings, ChangePolicies, Purge, Elapse, Expire, Clean,
     Overdue
<1>2. CASE Purge
  BY <1>1, <1>2 DEF Purge, PurgeUser, PlaceIsTrue, Knows
<1>3. CASE ~Purge
  <2>1. owner' => owner
    BY <1>3 DEF Environment, ChangeSettings, UpdateSettings, ChangePolicies, UpdatePolicies,
       Elapse, Expire, Clean, Overdue
  <2>2. Kept(q)
    <3>1. CASE ChangeSettings \/ ChangePolicies \/ Elapse \/ Expire \/ Clean
      BY <3>1 DEF ChangeSettings, ChangePolicies, Elapse, Expire, ExpirePending, Clean,
         CleanEscalations, Kept
    <3>2. CASE Overdue
      BY <1>1, <3>2 DEF Overdue, SweepOverdue, Swept, StartedLeases, Kept
    <3> QED BY <1>3, <3>1, <3>2 DEF Environment
  <2> QED BY <1>1, <2>1, <2>2, KeptRows, KeptPlace
<1> QED BY <1>2, <1>3

\* Every step of a request keeps the ledgers true.
LEMMA RequestTruth ==
    ASSUME IndInv, IndInv', TruthInv, NEW r \in Requests, Arrive(r) \/ Step(r) \/ Fault(r)
    PROVE  TruthInv'
<1>1. \A q \in Requests : PlaceIsTrue(q) /\ (owner => RowsAreTrue(q))
  BY TruthByRequest
<1>2. /\ UNCHANGED <<owner, inputs>> /\ sent \subseteq sent'
      /\ \A q \in Requests : q # r => pc'[q] = pc[q] /\ local'[q] = local[q]
  BY MovesAlone
<1>3. Truthful(r)
  BY <1>1, QuietTruth, GrantTruth, AbortTruth, StartTruth, CallTruth, SettleTruth,
     IngestWritesTruth, RespondWritesTruth DEF Step, Fault
<1>4. ASSUME NEW q \in Requests, q # r PROVE PlaceIsTrue(q)' /\ (owner => RowsAreTrue(q)')
  BY <1>1, <1>2, <1>3, <1>4, KeptRows, KeptPlace DEF Truthful
<1>5. \A q \in Requests : PlaceIsTrue(q)' /\ (owner' => RowsAreTrue(q)')
  BY <1>2, <1>3, <1>4 DEF Truthful
<1> QED BY <1>5, TrueNext

\* The step from one truthful state to the next.
LEMMA TruthStep ==
    ASSUME IndInv, IndInv', TruthInv, [Next]_vars
    PROVE  TruthInv'
<1>1. CASE UNCHANGED vars
  BY <1>1 DEF vars, TruthInv, AbortersHaveNoLease, AnswersFollowCalls, KnownIsRecorded, Knows,
     ReceiptsWait, LedgersTellTheTruth
<1>2. CASE Environment
  BY <1>2, TruthByRequest, EnvironmentTruth, TrueNext
<1> QED BY <1>1, <1>2, RequestTruth DEF Next

\* The strengthening is an invariant.
LEMMA TruthInvariance == Spec => []TruthInv
<1>1. Init => TruthInv
  BY DEF Init, LedgerInit, TruthInv, AbortersHaveNoLease, AnswersFollowCalls, KnownIsRecorded,
     Knows, Writing, ReceiptsWait, Ingesting, LedgersTellTheTruth, NoGuard, NoBarrier, Terminal
<1>2. IndInv /\ IndInv' /\ TruthInv /\ [Next]_vars => TruthInv'
  BY TruthStep
<1> QED BY <1>1, <1>2, Invariance, PTL DEF Spec

\* A plan closed before dispatch was never sent, and a receipt or a barrier that
\* reports a terminal status repeats what the lease recorded, wherever a request
\* stopped between its writes.
THEOREM LedgersAreTrue == Spec => []LedgersTellTheTruth
<1>1. TruthInv => LedgersTellTheTruth
  BY DEF TruthInv
<1> QED BY <1>1, TruthInvariance, PTL

(***************************************************************************)
(* Dual confirmation.                                                      *)
(***************************************************************************)

\* A row, once there, keeps its level and its first confirmation and is not
\* approved; only an existing owner gets a new one.
RowKept(d) ==
    /\ approval[d] # NoApproval =>
          /\ approval'[d] # NoApproval
          /\ approval'[d].level = approval[d].level
          /\ approval[d].first # "none" => approval'[d].first # "none"
    /\ approval'[d].status = "approved" => approval[d].status = "approved"
    /\ approval[d] = NoApproval => owner \/ approval'[d] = NoApproval

\* Every transaction on approvals but the approval itself keeps the rows.
LEMMA ApprovalsKept ==
    ASSUME LedgerInv, NEW d \in Decisions,
           \/ CreateApproval(d) \/ RecordFirstConfirmation(d)
           \/ \E level \in Levels : EscalateExecutionToApproval(d, level)
           \/ RespondTo(d, "rejected") \/ DenyApproved(d) \/ Elapse \/ ExpirePending
           \/ \E escalations : CleanEscalations(escalations)
           \/ UNCHANGED approval
    PROVE  \A e \in Decisions : RowKept(e)
<1>1. /\ approval \in [Decisions -> ApprovalRows]
      /\ NoApproval.status = "none" /\ NoApproval.denied = FALSE
  BY DEF LedgerInv, LedgerTypeOK, NoApproval
<1>2. CASE \/ CreateApproval(d)
           \/ \E level \in Levels : EscalateExecutionToApproval(d, level)
  BY <1>1, <1>2 DEF CreateApproval, EscalateExecutionToApproval, Escalatable, Ready,
     PendingApproval, ApprovalRows, RowKept
<1>3. CASE RecordFirstConfirmation(d)
  <2>1. /\ approval'[d].status = "pending" /\ approval'[d].level = approval[d].level
        /\ approval'[d].first = "fresh"
        /\ \A e \in Decisions : e # d => approval'[e] = approval[e]
    BY <1>1, <1>3 DEF RecordFirstConfirmation, FirstConfirmable, ApprovalRows
  <2> QED BY <1>1, <1>3, <2>1 DEF RowKept, RecordFirstConfirmation, FirstConfirmable
<1>4. CASE RespondTo(d, "rejected")
  <2>1. /\ approval'[d].status = "rejected" /\ approval'[d].level = approval[d].level
        /\ approval'[d].first = approval[d].first /\ approval[d].status = "pending"
        /\ \A e \in Decisions : e # d => approval'[e] = approval[e]
    BY <1>1, <1>4 DEF RespondTo, ApprovalRows
  <2> QED BY <1>1, <2>1 DEF RowKept
<1>5. CASE DenyApproved(d)
  <2>1. /\ approval'[d].status = "approved" /\ approval'[d].level = approval[d].level
        /\ approval'[d].first = approval[d].first /\ approval[d].status = "approved"
        /\ \A e \in Decisions : e # d => approval'[e] = approval[e]
    BY <1>1, <1>5 DEF DenyApproved, Deniable, ApprovalRows
  <2> QED BY <1>1, <2>1 DEF RowKept
<1>6. CASE Elapse
  <2>1. PICK f \in Decisions :
           /\ approval[f].status = "pending"
           /\ \/ approval' = [approval EXCEPT ![f].status = "lapsed"]
              \/ approval' = [approval EXCEPT ![f].first = "stale"]
    BY <1>6 DEF Elapse
  <2>2. /\ approval'[f].status \in {"pending", "lapsed"}
        /\ approval'[f].level = approval[f].level
        /\ approval'[f].first \in {approval[f].first, "stale"}
        /\ \A e \in Decisions : e # f => approval'[e] = approval[e]
    BY <1>1, <2>1 DEF ApprovalRows
  <2> QED BY <1>1, <2>1, <2>2 DEF RowKept
<1>7. CASE ExpirePending
  <2>1. \A e \in Decisions :
           \/ approval'[e] = approval[e]
           \/ /\ approval[e].status = "lapsed" /\ approval'[e].status = "expired"
              /\ approval'[e].level = approval[e].level /\ approval'[e].first = approval[e].first
    BY <1>1, <1>7 DEF ExpirePending, ApprovalRows
  <2> QED BY <1>1, <2>1 DEF RowKept
<1>8. CASE \E escalations : CleanEscalations(escalations)
  <2>1. \A e \in Decisions :
           \/ approval'[e] = approval[e]
           \/ /\ approval[e].status \in {"lapsed", "expired"} /\ approval'[e].status = "cleaned"
              /\ approval'[e].level = approval[e].level /\ approval'[e].first = approval[e].first
    BY <1>1, <1>8 DEF CleanEscalations, StaleApprovals, ApprovalRows
  <2> QED BY <1>1, <2>1 DEF RowKept
<1>9. CASE UNCHANGED approval
  BY <1>9 DEF RowKept
<1> QED BY <1>2, <1>3, <1>4, <1>5, <1>6, <1>7, <1>8, <1>9

\* A request begins to evaluate an answer only with a row that has the first
\* confirmation it needs (classifyDualConfirmStep), and the reads do not end it.
LEMMA AnsweringBegins ==
    ASSUME IndInv, NEW r \in Requests, Arrive(r) \/ Step(r) \/ Fault(r), Answering(r)'
    PROVE  \/ Answering(r)
           \/ /\ UNCHANGED rows
              /\ approval[dec[r]] # NoApproval
              /\ approval[dec[r]].level = "dual" => approval[dec[r]].first # "none"
<1>1. pc \in [Requests -> Locations] /\ local \in [Requests -> Memories]
  BY DEF IndInv, ProcessInv, ProcessTypeOK
<1>2. /\ Finish(r) => pc'[r] = "done"
      /\ \A phase : EvaluatePolicy(r, phase) => local'[r].phase = phase
      /\ Doubt(r) => pc'[r] \in {"done", "observe"}
      /\ \A where : Goto(r, where) => pc'[r] = where
  BY <1>1, ForgottenType DEF Finish, EvaluatePolicy, Doubt, Goto, Memories
<1>3. CASE IngestLookup(r) \/ RespondReject(r)
  BY <1>2, <1>3 DEF IngestLookup, RespondReject, ResumePoint, Answering
<1>4. CASE RespondApprove(r)
  BY <1>2, <1>4 DEF RespondApprove, DualStep, Answering, OnlyProcess
<1>5. CASE \/ IngestSave(r) \/ IngestCapture(r) \/ IngestApproval(r)
           \/ IngestPrepare(r) \/ IngestUnprepared(r)
  BY <1>2, <1>5 DEF IngestSave, IngestCapture, IngestApproval, IngestPrepare, IngestUnprepared,
     ResumePoint, Kinds, Answering
<1>6. CASE ReadUser(r) \/ ReadRevision(r) \/ ReadPolicies(r)
  <2>1. local'[r].phase = local[r].phase
    BY <1>1, <1>6 DEF ReadUser, ReadRevision, ReadPolicies, Memories
  <2> QED BY <1>6, <2>1 DEF ReadUser, ReadRevision, ReadPolicies, At, Answering
<1>7. CASE \/ IngestDenied(r) \/ IngestEscalate(r) \/ IngestClaim(r) \/ IngestRecheck(r)
  BY <1>2, <1>7 DEF IngestDenied, IngestEscalate, IngestClaim, IngestRecheck, Answering
<1>8. CASE \/ FirstConfirm(r) \/ Rejected(r) \/ PreflightBlocked(r) \/ Approved(r)
           \/ AdmissionDenied(r) \/ Admitted(r) \/ RespondRecheck(r)
  BY <1>2, <1>8 DEF FirstConfirm, Rejected, PreflightBlocked, Approved, AdmissionDenied,
     Admitted, RespondRecheck, Answering
<1>9. CASE \/ Abort(r) \/ StartDispatch(r) \/ CallAdapter(r) \/ AdapterAnswer(r)
           \/ SettleLease(r) \/ SettleUnclear(r)
  BY <1>2, <1>9 DEF Abort, StartDispatch, CallAdapter, AdapterAnswer, SettleLease, SettleUnclear,
     Answering
<1>10. CASE \/ IngestPlanStatus(r) \/ IngestResult(r) \/ IngestTerminal(r)
            \/ RespondObserve(r) \/ RespondFinalize(r) \/ Fault(r)
  BY <1>2, <1>10 DEF IngestPlanStatus, IngestResult, IngestTerminal, RespondObserve,
     RespondFinalize, Fault, IngestClaimLost, AdmittedLost, StartDispatchLost, SettleLost,
     RespondObserveLost, Crash, Answering
<1> QED BY <1>3, <1>4, <1>5, <1>6, <1>7, <1>8, <1>9, <1>10 DEF Arrive, Step

\* The approval, or a step that keeps every row.
LEMMA ApprovalSteps ==
    ASSUME IndInv, NEW r \in Requests, Arrive(r) \/ Step(r) \/ Fault(r)
    PROVE  \/ \A d \in Decisions : RowKept(d)
           \/ Answering(r) /\ RespondTo(dec[r], "approved") /\ ~Answering(r)'
<1>1. LedgerInv /\ dec[r] \in Decisions /\ local \in [Requests -> Memories]
  BY DEF IndInv, LedgerInv, LedgerTypeOK, ProcessInv, ProcessTypeOK
<1>2. UNCHANGED approval => \A d \in Decisions : RowKept(d)
  BY <1>1, ApprovalsKept
<1>3. CASE Approved(r)
  <2>1. RespondTo(dec[r], "approved") /\ EvaluatePolicy(r, "admit") => ~Answering(r)'
    BY <1>1, ForgottenType DEF EvaluatePolicy, Answering, Memories
  <2> QED BY <1>2, <1>3, <2>1 DEF Approved, Decides, At, Answering
<1>4. CASE \/ IngestSave(r) \/ IngestCapture(r) \/ IngestApproval(r) \/ IngestUnprepared(r)
           \/ IngestDenied(r) \/ IngestEscalate(r) \/ IngestClaim(r) \/ IngestClaimLost(r)
  <2>1. (\E level \in Levels : EscalateExecutionToApproval(dec[r], level)) =>
            \A d \in Decisions : RowKept(d)
    BY <1>1, ApprovalsKept
  <2>2. IngestUnprepared(r) \/ IngestEscalate(r) =>
            \/ \E level \in Levels : EscalateExecutionToApproval(dec[r], level)
            \/ UNCHANGED approval
    BY DEF IngestUnprepared, IngestEscalate, ClosePreparation, Levels
  <2> QED BY <1>1, <1>2, <1>4, <2>1, <2>2, ApprovalsKept DEF IngestSave, SaveDecision,
     IngestCapture, CreateReceipts, IngestApproval, IngestDenied, DenyReceipt, IngestClaim,
     IngestClaimLost, ClaimExecution
<1>5. CASE FirstConfirm(r) \/ Rejected(r) \/ AdmissionDenied(r) \/ Admitted(r) \/ AdmittedLost(r)
  BY <1>1, <1>2, <1>5, ApprovalsKept DEF FirstConfirm, Rejected, AdmissionDenied, Admitted,
     AdmittedLost, AdmitApprovalExecution
<1>6. CASE \/ Abort(r) \/ IngestPlanStatus(r) \/ IngestResult(r) \/ IngestTerminal(r)
           \/ RespondObserve(r) \/ RespondFinalize(r)
  BY <1>2, <1>6 DEF Abort, FailReceiptBeforeDispatch, FailAdmissionBeforeDispatch,
     IngestPlanStatus, UpdatePlanStatus, IngestResult, CreateResult, IngestTerminal,
     MarkExecutionTerminal, RespondObserve, ObserveTerminal, RespondFinalize,
     FinalizeAdmittedPlan
<1>7. CASE \/ StartDispatch(r) \/ StartDispatchLost(r) \/ SettleLease(r) \/ SettleUnclear(r)
           \/ SettleLost(r)
  BY <1>2, <1>7 DEF StartDispatch, StartDispatchLost, StartLease, SweepOverdue, SettleLease,
     SettleUnclear, SettleLost, TerminalizeLease
<1> QED BY <1>2, <1>3, <1>4, <1>5, <1>6, <1>7, ReadsGrantNothing DEF Step, Fault

\* The step from one state with confirmed answers to the next.
LEMMA ConsentStep ==
    ASSUME IndInv, ConsentInv, [Next]_vars
    PROVE  ConsentInv'
<1> USE DEF ConsentInv
<1>1. /\ approval \in [Decisions -> ApprovalRows] /\ dec \in [Requests -> Decisions]
      /\ UNCHANGED inputs /\ LedgerInv /\ NoApproval.status = "none" /\ NoApproval.level = "none"
  BY DecKept DEF IndInv, LedgerInv, LedgerTypeOK, NoApproval
<1>2. ASSUME owner' <=> owner, \A d \in Decisions : RowKept(d)
      PROVE  PurgedHaveNoApprovals' /\ DualNeedsTwoConfirmations'
  BY <1>1, <1>2 DEF RowKept, PurgedHaveNoApprovals, DualNeedsTwoConfirmations
<1>3. ASSUME owner' <=> owner, \A d \in Decisions : RowKept(d),
             \A q \in Requests : Answering(q)' => Answering(q)
      PROVE  AnswersAreConfirmed'
  BY <1>1, <1>3 DEF RowKept, AnswersAreConfirmed
<1>4. CASE Purge
  BY <1>1, <1>4 DEF Purge, PurgeUser, AnswersAreConfirmed, PurgedHaveNoApprovals,
     DualNeedsTwoConfirmations
<1>5. CASE UNCHANGED vars \/ (Environment /\ ~Purge)
  <2>1. UNCHANGED <<owner, process>>
    BY <1>5 DEF vars, Environment, ChangeSettings, UpdateSettings, ChangePolicies,
       UpdatePolicies, Elapse, Expire, Clean, Overdue
  <2>2. UNCHANGED approval => \A d \in Decisions : RowKept(d)
    BY <1>1 DEF RowKept
  <2>3. \A d \in Decisions : RowKept(d)
    BY <1>1, <1>5, <2>2, ApprovalsKept DEF vars, Environment, ChangeSettings, ChangePolicies,
       Expire, Clean, Overdue, SweepOverdue
  <2> QED BY <1>2, <1>3, <2>1, <2>3 DEF Answering
<1>6. ASSUME NEW r \in Requests, Arrive(r) \/ Step(r) \/ Fault(r)
      PROVE  ConsentInv'
  <2>1. owner' = owner /\ \A q \in Requests : q # r => Answering(q)' <=> Answering(q)
    BY <1>6, MovesAlone DEF Answering
  <2>2. CASE \A d \in Decisions : RowKept(d)
    <3>1. CASE Answering(r)' => Answering(r)
      BY <1>2, <1>3, <2>1, <2>2, <3>1
    <3>2. CASE Answering(r)' /\ ~Answering(r)
      <4>1. /\ UNCHANGED rows /\ approval[dec[r]] # NoApproval
            /\ approval[dec[r]].level = "dual" => approval[dec[r]].first # "none"
        BY <1>6, <3>2, AnsweringBegins
      <4>2. AnswersAreConfirmed'
        BY <1>1, <2>1, <4>1 DEF AnswersAreConfirmed
      <4> QED BY <1>2, <2>1, <2>2, <4>2
    <3> QED BY <3>1, <3>2
  <2>3. CASE Answering(r) /\ RespondTo(dec[r], "approved") /\ ~Answering(r)'
    <3>1. /\ approval[dec[r]].status = "pending" /\ approval'[dec[r]].status = "approved"
          /\ approval'[dec[r]].level = approval[dec[r]].level
          /\ approval'[dec[r]].first = approval[dec[r]].first
          /\ \A e \in Decisions : e # dec[r] => approval'[e] = approval[e]
      BY <1>1, <2>3 DEF RespondTo, ApprovalRows
    <3>2. owner /\ dec[r] \in Decisions
      BY <1>1, <3>1 DEF PurgedHaveNoApprovals
    <3>3. DualNeedsTwoConfirmations'
      BY <1>1, <2>3, <3>1, <3>2 DEF DualNeedsTwoConfirmations, AnswersAreConfirmed
    <3>4. PurgedHaveNoApprovals'
      BY <2>1, <3>2 DEF PurgedHaveNoApprovals
    <3>5. AnswersAreConfirmed'
      BY <1>1, <2>1, <2>3, <3>1, <3>2 DEF AnswersAreConfirmed
    <3> QED BY <3>3, <3>4, <3>5
  <2> QED BY <1>6, <2>2, <2>3, ApprovalSteps
<1> QED BY <1>4, <1>5, <1>6 DEF Next

\* The strengthening is an invariant.
LEMMA ConsentInvariance == Spec => []ConsentInv
<1>1. Init => ConsentInv
  BY DEF Init, LedgerInit, ConsentInv, AnswersAreConfirmed, Answering, PurgedHaveNoApprovals,
     DualNeedsTwoConfirmations, NoApproval
<1>2. IndInv /\ ConsentInv /\ [Next]_vars => ConsentInv'
  BY ConsentStep
<1> QED BY <1>1, <1>2, Invariance, PTL DEF Spec

\* A request that needs two confirmations is never approved with one, although
\* the token is checked on a row that was read some awaits earlier.
THEOREM DualIsDual == Spec => []DualNeedsTwoConfirmations
<1>1. ConsentInv => DualNeedsTwoConfirmations
  BY DEF ConsentInv
<1> QED BY <1>1, ConsentInvariance, PTL

\* Everything RouteInv says of the two routes holds in every reachable state.
THEOREM RouteInvariance == Spec => []RouteInv
<1>1. IndInv /\ TruthInv /\ ConsentInv /\ OneUnresolvedPerProvider => RouteInv
  BY DEF RouteInv
<1> QED BY <1>1, Invariance, TruthInvariance, ConsentInvariance, ProviderIsExclusive, PTL
=============================================================================
