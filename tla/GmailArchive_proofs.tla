------------------------- MODULE GmailArchive_proofs -------------------------
(***************************************************************************)
(* Proofs about GmailArchive, for any sets of executors and recoverers and  *)
(* any bounds.                                                              *)
(*                                                                         *)
(* The inductive invariant has three parts.  Rows relates the columns of    *)
(* the barrier to each other and to what was sent.  Places says what an     *)
(* executor knows at each await of mutate: it alone holds the claim, and    *)
(* past the gate the phase says so.  Leases says that an observation that   *)
(* was begun belongs to the stage the barrier is in, so that no take-over   *)
(* can begin another.                                                       *)
(***************************************************************************)
EXTENDS GmailArchive, TLAPS

USE DEF rows, outside, history

Phases == {"none", "pre_dispatch", "dispatch_may_have_started"}
Observations == {"not_started", "started", "evidence_recorded"}

\* The shape of the rows.  Revisions, editions and generations are numbers of
\* any size: their bounds in TypeOK count steps and are left to TLC.
Attempts == [status: {"none", "blocked"} \cup Open \cup Executed, phase: Phases, edition: Int,
             result: {"none", "interrupted_before_dispatch"} \cup Results \cup Sights]
LiveLeases == [stage: Stages, gen: Nat \ {0}, live: BOOLEAN, observation: Observations,
               attempt: Nat, timely: BOOLEAN, evidence: Sights \cup {"none"}]
Points == {"idle", "resolve", "credential", "reresolve", "preflight", "recheck", "gate", "post",
           "posted", "readback", "terminalize", "done"}
Executions == [at: Points, token: Int, target: Int, result: Results \cup {"none"}]
Steps == {"idle", "held", "checking", "permitted", "asking", "evident", "recording",
          "reconciling"}
Recoveries == [at: Steps, stage: Stages, gen: Nat, sight: Sights \cup {"none"}]
Shaped ==
    /\ approval \in [status: {"pending", "approved", "rejected", "expired"}, applied: BOOLEAN]
    /\ barrier \in Attempts
    /\ lease \in LiveLeases \cup {NoLease}
    /\ ex \in [Executors -> Executions]
    /\ rec \in [Recoverers -> Recoveries]
    /\ account \in [connected: BOOLEAN, revision: Int]
    /\ policy \in [edition: Int, verdict: {"single", "denied", "other"}]
    /\ wire \in [Executors -> {"none", "flying", "landed", "refused", "lost"}]
    /\ claimant \in Executors \cup {None}
    /\ permits \in Nat

Undecided == {"none", "blocked", "reserved", "prepared"}

\* The columns of the barrier agree with each other, and the outcome with Gmail.
Rows ==
    /\ approval.status = "pending" => barrier.status = "none"
    /\ barrier.status \in Undecided =>
          barrier.phase = "none" /\ claimant = None /\ barrier.result = "none"
    /\ barrier.status \notin Undecided => barrier.phase # "none"
    /\ barrier.status = "in_progress" => barrier.result = "none"
    /\ barrier.result = "already_in_state" => barrier.phase = "pre_dispatch"
    /\ barrier.result = "changed" => \E e \in Executors : wire[e] = "landed"
    /\ barrier.result = "reconciled" => \E e \in Executors : wire[e] # "none"
    /\ barrier.status = "failed" =>
          \A e \in Executors : wire[e] \in {"none", "refused"} /\ ~At(e, "post")

\* What an executor may rely on at a place, and what its request says of it.
Place(e) ==
    /\ ex[e].at \notin {"idle", "done"} => claimant = e
    /\ ex[e].at \notin {"posted", "readback", "terminalize", "done"} => wire[e] = "none"
    /\ ex[e].at \in {"posted", "readback"} => wire[e] # "none"
    /\ ex[e].at \in {"preflight", "recheck", "gate"} => ex[e].target = ex[e].token
    /\ ex[e].at = "post" \/ wire[e] # "none" =>
          /\ claimant = e
          /\ barrier.phase = "dispatch_may_have_started"
          /\ ex[e].token = entered
    /\ ex[e].at = "terminalize" =>
          /\ ex[e].result \in KnownFailures => wire[e] \in {"none", "refused"}
          /\ ex[e].result = "changed" => wire[e] = "landed"
          /\ ex[e].result = "reconciled" => wire[e] # "none"
Places == \A e \in Executors : Place(e)

\* A begun observation is of the stage the barrier is in, and was permitted once.
Leases ==
    /\ LeaseDiesWithAttempt
    /\ lease # NoLease =>
          /\ lease.observation # "not_started" =>
                /\ barrier.status = "in_progress"
                /\ barrier.phase = "dispatch_may_have_started"
                /\ lease.stage = Stage
          /\ lease.evidence # "none" => lease.observation = "evidence_recorded"
    /\ permits <= 1
    /\ permits # 0 =>
          /\ barrier.phase = "dispatch_may_have_started"
          /\ \/ barrier.status \in Executed
             \/ lease # NoLease /\ lease.observation # "not_started"

IndInv == Shaped /\ Rows /\ Places /\ Leases

LEMMA InitIndInv == Init => IndInv
<1> SUFFICES ASSUME Init PROVE IndInv
  OBVIOUS
<1> USE DEF Init
<1>1. Shaped
  <2>1. barrier \in Attempts
    BY DEF Attempts, Phases
  <2>2. ex \in [Executors -> Executions]
    BY DEF Executions, Points
  <2>3. rec \in [Recoverers -> Recoveries]
    BY DEF Recoveries, Steps, NoHold, NoStage, Stages, Open
  <2> QED BY <2>1, <2>2, <2>3 DEF Shaped
<1>2. Rows
  BY DEF Rows, Undecided
<1>3. Places
  BY DEF Places, Place
<1>4. Leases
  BY DEF Leases, LeaseDiesWithAttempt, Executed
<1> QED BY <1>1, <1>2, <1>3, <1>4 DEF IndInv

\* Every executor but one, every recoverer but one, stays as it is.
Others(e) == \A f \in Executors : f # e => ex'[f] = ex[f]
OthersR(r) == \A q \in Recoverers : q # r => rec'[q] = rec[q]

\* A new row for one executor leaves the others alone.
LEMMA ExecutorMoves ==
    ASSUME Shaped, NEW e \in Executors, NEW row \in Executions, ex' = [ex EXCEPT ![e] = row]
    PROVE  ex' \in [Executors -> Executions] /\ ex'[e] = row /\ Others(e)
BY DEF Shaped, Others

\* An executor goes on to its next await.
LEMMA GotoMoves ==
    ASSUME Shaped, NEW e \in Executors, NEW point \in Points, Goto(e, point)
    PROVE  /\ ex' \in [Executors -> Executions] /\ Others(e)
           /\ ex'[e].at = point /\ ex'[e].token = ex[e].token
           /\ ex'[e].target = ex[e].target /\ ex'[e].result = ex[e].result
<1> DEFINE row == [ex[e] EXCEPT !.at = point]
<1>1. ex[e] \in Executions
  BY DEF Shaped
<1>2. row \in Executions
  BY <1>1 DEF Executions
<1>3. /\ row.at = point /\ row.token = ex[e].token
      /\ row.target = ex[e].target /\ row.result = ex[e].result
  BY <1>1 DEF Executions
<1>4. ex' = [ex EXCEPT ![e] = row]
  BY DEF Goto
<1> HIDE DEF row
<1> QED BY <1>2, <1>3, <1>4, ExecutorMoves

\* An executor has the result of its mutation.
LEMMA ConcludeMoves ==
    ASSUME Shaped, NEW e \in Executors, NEW result \in Results, Conclude(e, result)
    PROVE  /\ ex' \in [Executors -> Executions] /\ Others(e)
           /\ ex'[e].at = "terminalize" /\ ex'[e].token = ex[e].token
           /\ ex'[e].result = result
<1> DEFINE row == [ex[e] EXCEPT !.at = "terminalize", !.result = result]
<1>1. ex[e] \in Executions
  BY DEF Shaped
<1>2. row \in Executions
  BY <1>1 DEF Executions, Points
<1>3. row.at = "terminalize" /\ row.token = ex[e].token /\ row.result = result
  BY <1>1 DEF Executions
<1>4. ex' = [ex EXCEPT ![e] = row]
  BY DEF Conclude
<1> HIDE DEF row
<1> QED BY <1>2, <1>3, <1>4, ExecutorMoves

\* An executor returns to its caller.
LEMMA ReturnMoves ==
    ASSUME Shaped, NEW e \in Executors, Return(e)
    PROVE  /\ ex' \in [Executors -> Executions] /\ Others(e)
           /\ ex'[e].at = "done" /\ ex'[e].token = ex[e].token
<1> DEFINE gone == [ex[e] EXCEPT !.at = "done"]
           idle == [gone EXCEPT !.target = 0]
           row  == [idle EXCEPT !.result = "none"]
<1>1. ex[e] \in Executions
  BY DEF Shaped
<1>2. gone \in Executions /\ gone.at = "done" /\ gone.token = ex[e].token
  BY <1>1 DEF Executions, Points
<1> HIDE DEF gone
<1>3. idle \in Executions /\ idle.at = "done" /\ idle.token = ex[e].token
  BY <1>2 DEF Executions
<1> HIDE DEF idle
<1>4. row \in Executions /\ row.at = "done" /\ row.token = ex[e].token
  BY <1>3 DEF Executions
<1>5. ex' = [ex EXCEPT ![e] = row]
  BY DEF Return, gone, idle
<1> HIDE DEF row
<1> QED BY <1>4, <1>5, ExecutorMoves

\* An executor has a credential, or the target that it was compared with.
Holds(e, revision) == ex' = [ex EXCEPT ![e].at = "reresolve", ![e].token = revision]
Aims(e) == ex' = [ex EXCEPT ![e].at = "preflight", ![e].target = account.revision]

LEMMA HoldsMoves ==
    ASSUME Shaped, NEW e \in Executors, NEW revision \in Int, Holds(e, revision)
    PROVE  ex' \in [Executors -> Executions] /\ Others(e) /\ ex'[e].at = "reresolve"
<1> DEFINE row == [ex[e] EXCEPT !.at = "reresolve", !.token = revision]
<1>1. ex[e] \in Executions
  BY DEF Shaped
<1>2. row \in Executions
  BY <1>1 DEF Executions, Points
<1>3. row.at = "reresolve"
  BY <1>1 DEF Executions
<1>4. ex' = [ex EXCEPT ![e] = row]
  BY DEF Holds
<1> HIDE DEF row
<1> QED BY <1>2, <1>3, <1>4, ExecutorMoves

LEMMA AimsMoves ==
    ASSUME Shaped, NEW e \in Executors, Aims(e)
    PROVE  /\ ex' \in [Executors -> Executions] /\ Others(e)
           /\ ex'[e].at = "preflight" /\ ex'[e].token = ex[e].token
           /\ ex'[e].target = account.revision
<1> DEFINE row == [ex[e] EXCEPT !.at = "preflight", !.target = account.revision]
<1>1. ex[e] \in Executions /\ account.revision \in Int
  BY DEF Shaped
<1>2. row \in Executions
  BY <1>1 DEF Executions, Points
<1>3. row.at = "preflight" /\ row.token = ex[e].token /\ row.target = account.revision
  BY <1>1 DEF Executions
<1>4. ex' = [ex EXCEPT ![e] = row]
  BY DEF Aims
<1> HIDE DEF row
<1> QED BY <1>2, <1>3, <1>4, ExecutorMoves

\* A recoverer's row stays one.
LEMMA RecovererMoves ==
    ASSUME Shaped, NEW r \in Recoverers,
           \/ \E point \in Steps : GotoR(r, point)
           \/ \E sight \in Sights : Sees(r, sight)
           \/ LetGo(r)
    PROVE  rec' \in [Recoverers -> Recoveries]
<1>1. rec[r] \in Recoveries /\ rec \in [Recoverers -> Recoveries]
  BY DEF Shaped
<1>2. ASSUME NEW point \in Steps, GotoR(r, point) PROVE rec' \in [Recoverers -> Recoveries]
  <2> DEFINE row == [rec[r] EXCEPT !.at = point]
  <2>1. row \in Recoveries
    BY <1>1 DEF Recoveries
  <2>2. rec' = [rec EXCEPT ![r] = row]
    BY <1>2 DEF GotoR
  <2> HIDE DEF row
  <2> QED BY <1>1, <2>1, <2>2
<1>3. ASSUME NEW sight \in Sights, Sees(r, sight) PROVE rec' \in [Recoverers -> Recoveries]
  <2> DEFINE row == [rec[r] EXCEPT !.at = "evident", !.sight = sight]
  <2>1. row \in Recoveries
    BY <1>1 DEF Recoveries, Steps
  <2>2. rec' = [rec EXCEPT ![r] = row]
    BY <1>3 DEF Sees
  <2> HIDE DEF row
  <2> QED BY <1>1, <2>1, <2>2
<1>4. CASE LetGo(r)
  <2>1. NoHold \in Recoveries
    BY DEF NoHold, NoStage, Recoveries, Steps, Stages, Open
  <2> QED BY <1>1, <1>4, <2>1 DEF LetGo
<1> QED BY <1>2, <1>3, <1>4

\* The next status, phase or result of the barrier, the rest of its row kept.
Enters(status, phase) == barrier' = [barrier EXCEPT !.status = status, !.phase = phase]
Closes(status, result) == barrier' = [barrier EXCEPT !.status = status, !.result = result]

LEMMA EntersMoves ==
    ASSUME Shaped, NEW status \in {"none", "blocked"} \cup Open \cup Executed,
           NEW phase \in Phases, Enters(status, phase)
    PROVE  /\ barrier' \in Attempts
           /\ barrier'.status = status /\ barrier'.phase = phase
           /\ barrier'.result = barrier.result
BY DEF Shaped, Attempts, Enters

LEMMA ClosesMoves ==
    ASSUME Shaped, NEW status \in Executed,
           NEW result \in {"none", "interrupted_before_dispatch"} \cup Results \cup Sights,
           Closes(status, result)
    PROVE  /\ barrier' \in Attempts
           /\ barrier'.status = status /\ barrier'.phase = barrier.phase
           /\ barrier'.result = result
BY DEF Shaped, Attempts, Closes

\* What a step of an executor before the end does to its own row, whatever it
\* reads: it moves on, or has a result, or returns.
LEMMA ExecutorShape ==
    ASSUME Shaped, NEW e \in Executors,
           \/ \E point \in Points : Goto(e, point)
           \/ \E result \in Results : Conclude(e, result)
           \/ Return(e)
           \/ \E revision \in Int : Holds(e, revision)
           \/ Aims(e)
    PROVE  ex' \in [Executors -> Executions]
BY GotoMoves, ConcludeMoves, ReturnMoves, HoldsMoves, AimsMoves

LEMMA ExecutorKeepsShape ==
    ASSUME Shaped, NEW e \in Executors, Execute(e)
    PROVE  Shaped'
<1>0. Points = {"idle", "resolve", "credential", "reresolve", "preflight", "recheck", "gate",
                "post", "posted", "readback", "terminalize", "done"}
      /\ {"not_admitted", "admission_unavailable", "credentials_unavailable",
          "preflight_unavailable", "remote_rejected", "changed", "already_in_state",
          "reconciled", "remote_outcome_unknown"} = Results
  BY DEF Points, Results, KnownFailures, Confirmed
<1>1. ASSUME NEW lost \in BOOLEAN, Claim(e, lost) PROVE Shaped'
  <2>1. ex' \in [Executors -> Executions]
    BY <1>0, <1>1, ExecutorShape DEF Claim
  <2>2. barrier' \in Attempts
    BY <1>1 DEF Claim, Shaped, Attempts, Open, Phases
  <2>3. claimant' \in Executors \cup {None}
    BY <1>1 DEF Claim, Shaped
  <2> QED BY <1>1, <2>1, <2>2, <2>3 DEF Claim, Shaped
<1>2. ASSUME NEW lost \in BOOLEAN, EnterGate(e, lost) PROVE Shaped'
  <2>1. ex' \in [Executors -> Executions]
    BY <1>0, <1>2, ExecutorShape DEF EnterGate
  <2>2. barrier' \in Attempts
    BY <1>2 DEF EnterGate, Shaped, Attempts, Phases
  <2> QED BY <1>2, <2>1, <2>2 DEF EnterGate, Shaped
<1>3. CASE NotClaimed(e) \/ Crash(e)
  <2>1. ex' \in [Executors -> Executions]
    BY <1>3, ExecutorShape DEF NotClaimed, Crash
  <2> QED BY <1>3, <2>1 DEF NotClaimed, Crash, Shaped
<1>4. CASE Resolve(e) \/ Preflight(e) \/ Recheck(e) \/ GateRefuses(e)
  <2>1. ex' \in [Executors -> Executions]
    BY <1>0, <1>4, ExecutorShape DEF Resolve, Preflight, Recheck, GateRefuses
  <2> QED BY <1>4, <2>1 DEF Resolve, Preflight, Recheck, GateRefuses, Shaped
<1>5. CASE Materialize(e)
  <2>1. account.revision \in Int /\ account.revision + 0 \in Int /\ account.revision + 1 \in Int
    BY DEF Shaped
  <2>2. ex' \in [Executors -> Executions]
    BY <1>0, <1>5, <2>1, ExecutorShape DEF Materialize, Holds
  <2>3. account' \in [connected: BOOLEAN, revision: Int]
    BY <1>5 DEF Materialize, Shaped
  <2>4. UNCHANGED <<rows, rec, policy, wire, claimant, permits>>
    BY <1>5 DEF Materialize
  <2> QED BY <2>2, <2>3, <2>4 DEF Shaped
<1>6. CASE Reresolve(e)
  <2>1. ex' \in [Executors -> Executions]
    BY <1>0, <1>6, ExecutorShape DEF Reresolve, Aims
  <2> QED BY <1>6, <2>1 DEF Reresolve, Shaped
<1>7. CASE Post(e)
  <2>1. ex' \in [Executors -> Executions]
    BY <1>0, <1>7, ExecutorShape DEF Post
  <2> QED BY <1>7, <2>1 DEF Post, Shaped
<1>8. CASE PostAnswered(e) \/ ReadBack(e)
  <2>1. ex' \in [Executors -> Executions]
    BY <1>0, <1>8, ExecutorShape DEF PostAnswered, ReadBack
  <2> QED BY <1>8, <2>1 DEF PostAnswered, ReadBack, Shaped
<1>9. CASE Terminalize(e)
  <2>1. ex' \in [Executors -> Executions]
    BY <1>9, ExecutorShape DEF Terminalize
  <2>2. barrier' \in Attempts /\ lease' \in LiveLeases \cup {NoLease}
    <3>1. CASE UNCHANGED <<barrier, lease>>
      BY <3>1 DEF Shaped
    <3>2. CASE Closes(Disposition(ex[e].result), ex[e].result) /\ lease' = Retired
      <4>1. ex[e].result \in Results \cup {"none"}
        BY DEF Shaped, Executions
      <4>2. Disposition(ex[e].result) \in Executed
        BY DEF Disposition, Executed
      <4> QED BY <3>2, <4>1, <4>2, ClosesMoves DEF Retired
    <3> QED BY <1>9, <3>1, <3>2 DEF Terminalize, Closes
  <2> QED BY <1>9, <2>1, <2>2 DEF Terminalize, Shaped
<1> QED BY <1>1, <1>2, <1>3, <1>4, <1>5, <1>6, <1>7, <1>8, <1>9 DEF Execute

\* The stage of an open barrier is one a lease can be of.
LEMMA StageShape ==
    ASSUME Shaped, Eligible
    PROVE  Stage \in Stages
BY DEF Shaped, Attempts, Eligible, Stage, Stages, Phases

\* The columns of a lease that a recovery or the clock writes.
LEMMA LeaseShape ==
    ASSUME Shaped, lease # NoLease,
           \/ \E evidence \in Sights \cup {"none"} :
                 lease' = [lease EXCEPT !.observation = "evidence_recorded", !.evidence = evidence]
           \/ lease' = [lease EXCEPT !.observation = "started", !.attempt = lease.gen,
                                     !.timely = TRUE]
           \/ lease' = [lease EXCEPT !.live = FALSE]
           \/ lease' = [lease EXCEPT !.timely = FALSE]
    PROVE  lease' \in LiveLeases
<1>1. lease \in LiveLeases
  BY DEF Shaped
<1>2. ASSUME NEW evidence \in Sights \cup {"none"},
             lease' = [lease EXCEPT !.observation = "evidence_recorded", !.evidence = evidence]
      PROVE  lease' \in LiveLeases
  BY <1>1, <1>2 DEF LiveLeases, Observations
<1>3. CASE lease' = [lease EXCEPT !.observation = "started", !.attempt = lease.gen,
                                  !.timely = TRUE]
  BY <1>1, <1>3 DEF LiveLeases, Observations
<1>4. CASE lease' = [lease EXCEPT !.live = FALSE] \/ lease' = [lease EXCEPT !.timely = FALSE]
  BY <1>1, <1>4 DEF LiveLeases
<1> QED BY <1>2, <1>3, <1>4

LEMMA RecovererKeepsShape ==
    ASSUME Shaped, NEW r \in Recoverers, Recover(r)
    PROVE  Shaped'
<1>0. Steps = {"idle", "held", "checking", "permitted", "asking", "evident", "recording",
               "reconciling"} /\ Sights = {"inbox", "archived", "unavailable"}
  BY DEF Steps, Sights
<1>r. rec[r].sight \in Sights \cup {"none"}
  BY DEF Shaped, Recoveries
<1>1. ASSUME NEW lost \in BOOLEAN, Begin(r, lost) PROVE Shaped'
  <2>1. rec' \in [Recoverers -> Recoveries]
    BY <1>0, <1>1, RecovererMoves DEF Begin
  <2>2. lease' \in LiveLeases \cup {NoLease}
    <3>1. CASE Beginnable(r)
      BY <1>1, <3>1, LeaseShape DEF Begin, Beginnable, Fenced
    <3>2. CASE ~Beginnable(r)
      BY <1>1, <3>2 DEF Begin, Shaped
    <3> QED BY <3>1, <3>2
  <2>3. permits' \in Nat
    BY <1>1 DEF Begin, Shaped
  <2>4. UNCHANGED <<approval, barrier, ex, account, policy, wire, claimant>>
    BY <1>1 DEF Begin
  <2> QED BY <2>1, <2>2, <2>3, <2>4 DEF Shaped
<1>2. CASE Acquire(r)
  <2>0. Stage \in Stages
    BY <1>2, StageShape DEF Acquire
  <2>1. lease.gen \in Nat
    BY DEF Shaped, NoLease, LiveLeases
  <2>2. /\ Inherited.observation \in Observations
        /\ Inherited.attempt \in Nat
        /\ Inherited.evidence \in Sights \cup {"none"}
    <3>1. CASE SameStage /\ lease.observation # "not_started"
      <4>1. lease \in LiveLeases
        BY <3>1 DEF SameStage, Shaped
      <4>2. lease.attempt \in Nat /\ lease.evidence \in Sights \cup {"none"}
        BY <4>1 DEF LiveLeases
      <4> QED BY <3>1, <4>2 DEF Inherited, Recorded, Observations, Sights
    <3>2. CASE ~(SameStage /\ lease.observation # "not_started")
      BY <3>2 DEF Inherited, NoObservation, Observations
    <3> QED BY <3>1, <3>2
  <2>3. lease' \in LiveLeases
    BY <1>2, <2>0, <2>1, <2>2 DEF Acquire, LiveLeases
  <2>4. rec' \in [Recoverers -> Recoveries]
    <3>1. [at |-> "held", stage |-> Stage, gen |-> lease.gen + 1, sight |-> "none"] \in Recoveries
      BY <2>0, <2>1 DEF Recoveries, Steps
    <3> QED BY <1>2, <3>1 DEF Acquire, Shaped
  <2> QED BY <1>2, <2>3, <2>4 DEF Acquire, Shaped
<1>3. CASE ReconcilePreDispatch(r) \/ ReconcileRecorded(r)
  <2>1. rec' \in [Recoverers -> Recoveries]
    BY <1>3, RecovererMoves DEF ReconcilePreDispatch, ReconcileRecorded
  <2>2. barrier' \in Attempts /\ lease' \in LiveLeases \cup {NoLease}
    <3>1. CASE UNCHANGED <<barrier, lease>>
      BY <3>1 DEF Shaped
    <3>2. CASE Closes("failed", "interrupted_before_dispatch") /\ lease' = NoLease
      BY <3>2, ClosesMoves DEF Executed
    <3>3. CASE /\ Closes("unknown", lease.evidence) /\ lease' = NoLease
               /\ lease # NoLease
      <4>1. lease.evidence \in Sights \cup {"none"}
        BY <3>3 DEF Shaped, LiveLeases
      <4> QED BY <3>3, <4>1, ClosesMoves DEF Executed
    <3> QED BY <1>3, <3>1, <3>2, <3>3
            DEF ReconcilePreDispatch, ReconcileRecorded, Closes, Fenced
  <2> QED BY <1>3, <2>1, <2>2 DEF ReconcilePreDispatch, ReconcileRecorded, Shaped
<1>4. CASE CheckPermit(r) \/ Record(r)
  <2>1. rec' \in [Recoverers -> Recoveries]
    BY <1>0, <1>4, RecovererMoves DEF CheckPermit, Record
  <2>2. \/ lease' = lease
        \/ /\ lease # NoLease
           /\ \E evidence \in Sights \cup {"none"} :
                 lease' = [lease EXCEPT !.observation = "evidence_recorded", !.evidence = evidence]
    BY <1>0, <1>4, <1>r DEF CheckPermit, Record, Permitted
  <2>3. lease' \in LiveLeases \cup {NoLease}
    BY <2>2, LeaseShape DEF Shaped
  <2> QED BY <1>4, <2>1, <2>3 DEF CheckPermit, Record, Shaped
<1>5. CASE SelectTarget(r)
  <2>1. rec' \in [Recoverers -> Recoveries]
    BY <1>0, <1>5, RecovererMoves DEF SelectTarget
  <2>2. account' \in [connected: BOOLEAN, revision: Int]
    BY <1>5 DEF SelectTarget, Shaped
  <2>3. UNCHANGED <<rows, ex, policy, wire, claimant, permits>>
    BY <1>5 DEF SelectTarget
  <2> QED BY <2>1, <2>2, <2>3 DEF Shaped
<1>6. CASE Look(r) \/ SampleClock(r) \/ GiveUp(r)
  <2>1. rec' \in [Recoverers -> Recoveries]
    BY <1>0, <1>6, RecovererMoves DEF Look, SampleClock, GiveUp
  <2> QED BY <1>6, <2>1 DEF Look, SampleClock, GiveUp, Shaped
<1> QED BY <1>1, <1>2, <1>3, <1>4, <1>5, <1>6 DEF Recover

LEMMA ShapeStep == Shaped /\ [Next]_vars => Shaped'
<1> SUFFICES ASSUME Shaped, [Next]_vars PROVE Shaped'
  OBVIOUS
<1>1. CASE UNCHANGED vars
  BY <1>1 DEF vars, Shaped
<1>2. ASSUME NEW answer \in {"approved", "rejected"}, Respond(answer) PROVE Shaped'
  <2>1. barrier' \in Attempts
    BY <1>2 DEF Respond, Shaped, Attempts, Open
  <2> QED BY <1>2, <2>1 DEF Respond, Shaped
<1>3. CASE Expire \/ ApplyFeedback
  BY <1>3 DEF Expire, ApplyFeedback, Shaped
<1>4. CASE Prepare
  <2>1. barrier' \in Attempts
    <3>1. policy.edition \in Int
      BY DEF Shaped
    <3> QED BY <1>4, <3>1 DEF Prepare, Shaped, Attempts, Open
  <2> QED BY <1>4, <2>1 DEF Prepare, Shaped
<1>5. ASSUME NEW e \in Executors, Deliver(e) PROVE Shaped'
  BY <1>5 DEF Deliver, Shaped
<1>6. CASE PhaseAges
  BY <1>6 DEF PhaseAges, Shaped
<1>7. CASE LeaseLapses
  <2>1. lease' \in LiveLeases
    BY <1>7, LeaseShape DEF LeaseLapses
  <2> QED BY <1>7, <2>1 DEF LeaseLapses, Shaped
<1>8. CASE Edit
  <2>1. account' \in [connected: BOOLEAN, revision: Int]
    <3>1. \/ account' = account
          \/ account' = [account EXCEPT !.connected = FALSE]
          \/ account' = [connected |-> TRUE, revision |-> account.revision + 1]
          \/ account' = [account EXCEPT !.revision = @ + 1]
      BY <1>8 DEF Edit
    <3>2. account.revision \in Int /\ account.revision + 1 \in Int
      BY DEF Shaped
    <3>3. CASE account' = account \/ account' = [account EXCEPT !.connected = FALSE]
      BY <3>3 DEF Shaped
    <3>4. CASE account' = [connected |-> TRUE, revision |-> account.revision + 1]
      BY <3>2, <3>4
    <3>5. CASE account' = [account EXCEPT !.revision = @ + 1]
      BY <3>5 DEF Shaped
    <3> QED BY <3>1, <3>3, <3>4, <3>5
  <2>2. policy' \in [edition: Int, verdict: {"single", "denied", "other"}]
    BY <1>8 DEF Edit, Shaped
  <2>3. UNCHANGED <<rows, ex, rec, wire, claimant, permits>>
    BY <1>8 DEF Edit
  <2> QED BY <2>1, <2>2, <2>3 DEF Shaped
<1> QED BY <1>1, <1>2, <1>3, <1>4, <1>5, <1>6, <1>7, <1>8,
           ExecutorKeepsShape, RecovererKeepsShape DEF Next

(***************************************************************************)
(* The executor.                                                           *)
(***************************************************************************)

\* The rows mean what they meant when a step touches none of them.
LEMMA LeasesStay ==
    ASSUME Leases, UNCHANGED <<barrier, lease, permits>>
    PROVE  Leases'
BY DEF Leases, LeaseDiesWithAttempt, Stage

LEMMA RowsStay ==
    ASSUME Rows, Places, UNCHANGED <<approval, barrier, ex, wire, claimant, entered>>
    PROVE  Rows' /\ Places'
BY DEF Rows, Places, Place, At

\* An executor moves within what its place promises, and sends nothing.
LEMMA ExecutorAlone ==
    ASSUME Rows, Places, NEW e \in Executors, Others(e), Place(e)', ex'[e].at # "post",
           UNCHANGED <<approval, barrier, wire, claimant, entered>>
    PROVE  Rows' /\ Places'
<1>1. \A f \in Executors : ex'[f].at = "post" => ex[f].at = "post"
  BY DEF Others
<1>2. Rows'
  BY <1>1 DEF Rows, At
<1>3. ASSUME NEW f \in Executors, f # e PROVE Place(f)'
  BY <1>3 DEF Places, Place, Others
<1> QED BY <1>2, <1>3 DEF Places

\* Awaits before the gate, and the ways out.
LEMMA AwaitStep ==
    ASSUME IndInv, NEW e \in Executors,
           \/ NotClaimed(e) \/ Crash(e) \/ Resolve(e) \/ Materialize(e) \/ Reresolve(e)
           \/ Preflight(e) \/ Recheck(e) \/ GateRefuses(e) \/ PostAnswered(e) \/ ReadBack(e)
    PROVE  Rows' /\ Places' /\ Leases'
<1>0. Shaped /\ Rows /\ Places /\ Leases /\ Place(e)
  BY DEF IndInv, Places
<1>1. UNCHANGED <<rows, wire, claimant, entered, permits>>
  BY DEF NotClaimed, Crash, Resolve, Materialize, Reresolve, Preflight, Recheck, GateRefuses,
         PostAnswered, ReadBack
<1>2. Leases'
  BY <1>0, <1>1, LeasesStay
<1>p. {"credential", "reresolve", "recheck", "gate", "readback"} \subseteq Points
  BY DEF Points
<1>q. KnownFailures \subseteq Results /\ Confirmed \subseteq Results
      /\ "remote_outcome_unknown" \in Results
  BY DEF Results
<1>k. KnownFailures = {"not_admitted", "admission_unavailable", "credentials_unavailable",
                       "preflight_unavailable", "remote_rejected"}
      /\ Confirmed = {"changed", "already_in_state", "reconciled"}
  BY DEF KnownFailures, Confirmed
<1>3. ASSUME Others(e), Place(e)', ex'[e].at # "post" PROVE Rows' /\ Places'
  BY <1>0, <1>1, <1>3, ExecutorAlone
<1>4. CASE NotClaimed(e) \/ Crash(e)
  <2>1. Others(e) /\ ex'[e].at = "done" /\ ex'[e].token = ex[e].token
    BY <1>0, <1>4, ReturnMoves DEF NotClaimed, Crash
  <2>2. Place(e)'
    BY <1>0, <1>1, <2>1 DEF Place
  <2> QED BY <1>2, <1>3, <2>1, <2>2
\* A failure that is known is one before the request, or a refusal of it.
<1>5. ASSUME NEW result \in KnownFailures, Conclude(e, result), wire[e] \in {"none", "refused"},
             ex[e].at \notin {"idle", "done"}
      PROVE  Rows' /\ Places'
  <2>1. /\ Others(e) /\ ex'[e].at = "terminalize" /\ ex'[e].token = ex[e].token
        /\ ex'[e].result = result
    BY <1>0, <1>5, <1>q, ConcludeMoves
  <2>2. Place(e)'
    BY <1>0, <1>1, <1>5, <1>k, <2>1 DEF Place
  <2> QED BY <1>3, <2>1, <2>2
<1>6. ASSUME NEW point \in {"credential", "recheck", "gate"}, Goto(e, point),
             wire[e] = "none", ex[e].at \notin {"idle", "done"},
             point = "credential" \/ ex[e].target = ex[e].token
      PROVE  Rows' /\ Places'
  <2>1. /\ Others(e) /\ ex'[e].at = point /\ ex'[e].token = ex[e].token
        /\ ex'[e].target = ex[e].target
    BY <1>0, <1>6, <1>p, GotoMoves
  <2>2. Place(e)'
    BY <1>0, <1>1, <1>6, <2>1 DEF Place
  <2> QED BY <1>3, <1>6, <2>1, <2>2
<1>7. CASE Resolve(e)
  <2>1. ex[e].at = "resolve" /\ wire[e] = "none"
    BY <1>0, <1>7 DEF Resolve, At, Place
  <2> QED BY <1>2, <1>5, <1>6, <1>7, <1>k, <2>1 DEF Resolve
<1>8. CASE Materialize(e)
  <2>1. ex[e].at = "credential" /\ wire[e] = "none"
    BY <1>0, <1>8 DEF Materialize, At, Place
  <2>2. CASE Conclude(e, "credentials_unavailable")
    BY <1>2, <1>5, <1>k, <2>1, <2>2
  <2>3. ASSUME NEW rotated \in {0, 1}, Holds(e, account.revision + rotated)
        PROVE  Rows' /\ Places'
    <3>1. account.revision + rotated \in Int
      BY <1>0 DEF Shaped
    <3>2. Others(e) /\ ex'[e].at = "reresolve"
      BY <1>0, <2>3, <3>1, HoldsMoves
    <3>3. Place(e)'
      BY <1>0, <1>1, <2>1, <3>2 DEF Place
    <3> QED BY <1>3, <3>2, <3>3
  <2> QED BY <1>2, <1>8, <2>2, <2>3 DEF Materialize, Holds
<1>9. CASE Reresolve(e)
  <2>1. ex[e].at = "reresolve" /\ wire[e] = "none"
    BY <1>0, <1>9 DEF Reresolve, At, Place
  <2>2. CASE Conclude(e, "not_admitted") \/ Conclude(e, "admission_unavailable")
    BY <1>2, <1>5, <1>k, <2>1, <2>2
  <2>3. CASE SameCredential(e) /\ Aims(e)
    <3>1. /\ Others(e) /\ ex'[e].at = "preflight" /\ ex'[e].token = ex[e].token
          /\ ex'[e].target = account.revision
      BY <1>0, <2>3, AimsMoves
    <3>2. ex'[e].target = ex'[e].token
      BY <2>3, <3>1 DEF SameCredential
    <3>3. Place(e)'
      BY <1>0, <1>1, <2>1, <3>1, <3>2 DEF Place
    <3> QED BY <1>2, <1>3, <3>1, <3>3
  <2> QED BY <1>9, <2>2, <2>3 DEF Reresolve, Aims
<1>10. CASE Preflight(e)
  <2>1. ex[e].at = "preflight" /\ wire[e] = "none" /\ ex[e].target = ex[e].token
    BY <1>0, <1>10 DEF Preflight, At, Place
  <2>2. CASE Conclude(e, "already_in_state")
    <3>1. /\ Others(e) /\ ex'[e].at = "terminalize" /\ ex'[e].token = ex[e].token
          /\ ex'[e].result = "already_in_state"
      BY <1>0, <2>2, <1>q, <1>k, ConcludeMoves
    <3>2. Place(e)'
      BY <1>0, <1>1, <2>1, <3>1 DEF Place
    <3> QED BY <1>2, <1>3, <3>1, <3>2
  <2> QED BY <1>2, <1>5, <1>6, <1>10, <1>k, <2>1, <2>2 DEF Preflight
<1>11. CASE Recheck(e) \/ GateRefuses(e)
  <2>1. ex[e].at \in {"recheck", "gate"} /\ wire[e] = "none" /\ ex[e].target = ex[e].token
    BY <1>0, <1>11 DEF Recheck, GateRefuses, At, Place
  <2> QED BY <1>2, <1>5, <1>6, <1>11, <1>k, <2>1 DEF Recheck, GateRefuses
<1>12. CASE PostAnswered(e)
  <2>1. ex[e].at = "posted" /\ wire[e] # "none"
    BY <1>0, <1>12 DEF PostAnswered, At, Place
  <2>2. CASE wire[e] = "refused" /\ Conclude(e, "remote_rejected")
    BY <1>2, <1>5, <1>k, <2>1, <2>2
  <2>3. CASE wire[e] = "landed" /\ Conclude(e, "changed")
    <3>1. /\ Others(e) /\ ex'[e].at = "terminalize" /\ ex'[e].token = ex[e].token
          /\ ex'[e].result = "changed"
      BY <1>0, <2>3, <1>q, <1>k, ConcludeMoves
    <3>2. Place(e)'
      BY <1>0, <1>1, <1>k, <2>1, <2>3, <3>1 DEF Place
    <3> QED BY <1>2, <1>3, <3>1, <3>2
  <2>4. CASE Goto(e, "readback")
    <3>1. Others(e) /\ ex'[e].at = "readback" /\ ex'[e].token = ex[e].token
      BY <1>0, <1>p, <2>4, GotoMoves
    <3>2. Place(e)'
      BY <1>0, <1>1, <2>1, <3>1 DEF Place
    <3> QED BY <1>2, <1>3, <3>1, <3>2
  <2> QED BY <1>12, <2>2, <2>3, <2>4 DEF PostAnswered
<1>13. CASE ReadBack(e)
  <2>1. ex[e].at = "readback" /\ wire[e] # "none"
    BY <1>0, <1>13 DEF ReadBack, At, Place
  <2>2. ASSUME NEW result \in {"reconciled", "remote_outcome_unknown"}, Conclude(e, result)
        PROVE  Rows' /\ Places'
    <3>1. /\ Others(e) /\ ex'[e].at = "terminalize" /\ ex'[e].token = ex[e].token
          /\ ex'[e].result = result
      BY <1>0, <2>2, <1>q, <1>k, ConcludeMoves
    <3>2. Place(e)'
      BY <1>0, <1>1, <1>k, <2>1, <2>2, <3>1 DEF Place
    <3> QED BY <1>3, <3>1, <3>2
  <2> QED BY <1>2, <1>13, <2>2 DEF ReadBack
<1> QED BY <1>4, <1>7, <1>8, <1>9, <1>10, <1>11, <1>12, <1>13

\* The claim: the barrier was prepared, so nobody had it.
LEMMA ClaimStep ==
    ASSUME IndInv, NEW e \in Executors, NEW lost \in BOOLEAN, Claim(e, lost)
    PROVE  Rows' /\ Places' /\ Leases'
<1>0. Shaped /\ Rows /\ Places /\ Leases /\ Place(e) /\ ex[e].at = "idle"
  BY DEF IndInv, Places, Claim, At
<1>1. barrier.status = "prepared" /\ UNCHANGED <<approval, lease, wire, entered, permits>>
  BY DEF Claim, Claimable
<1>2. /\ barrier'.status = "in_progress" /\ barrier'.phase = "pre_dispatch"
      /\ barrier'.result = barrier.result
  BY <1>0 DEF Claim, Shaped, Attempts
<1>3. barrier.phase = "none" /\ claimant = None /\ barrier.result = "none"
  BY <1>0, <1>1 DEF Rows, Undecided
<1>4. \A f \in Executors : wire[f] = "none" /\ ex[f].at \in {"idle", "done"}
  BY <1>0, <1>3, ArchiveConstants DEF Places, Place
<1>5. Others(e) /\ \/ ex'[e].at = "done" /\ claimant' = claimant
                   \/ ex'[e].at = "resolve" /\ claimant' = e
  <2>1. CASE Return(e) /\ claimant' = claimant
    BY <1>0, <2>1, ReturnMoves
  <2>2. CASE Goto(e, "resolve") /\ claimant' = e
    BY <1>0, <2>2, GotoMoves DEF Points
  <2> QED BY <2>1, <2>2 DEF Claim
<1>6. Rows'
  BY <1>0, <1>1, <1>2, <1>3, <1>4, <1>5 DEF Rows, Undecided, At
<1>7. Place(e)'
  BY <1>1, <1>4, <1>5 DEF Place
<1>8. ASSUME NEW f \in Executors, f # e PROVE Place(f)'
  BY <1>0, <1>1, <1>4, <1>5, <1>8 DEF Places, Place, Others
<1>9. Leases'
  BY <1>0, <1>1, <1>2, <1>3 DEF Leases, LeaseDiesWithAttempt, Executed
<1> QED BY <1>6, <1>7, <1>8, <1>9 DEF Places

\* The gate: the attempt has not dispatched, and its target is the credential in hand.
LEMMA GateStep ==
    ASSUME IndInv, NEW e \in Executors, NEW lost \in BOOLEAN, EnterGate(e, lost)
    PROVE  Rows' /\ Places' /\ Leases'
<1>0. Shaped /\ Rows /\ Places /\ Leases /\ Place(e) /\ ex[e].at = "gate"
  BY DEF IndInv, Places, EnterGate, At
<1>1. /\ barrier.status = "in_progress" /\ barrier.phase = "pre_dispatch"
      /\ entered' = ex[e].target
      /\ UNCHANGED <<approval, lease, wire, claimant, permits>>
  BY DEF EnterGate, SameTarget, Target
<1>2. /\ barrier'.status = "in_progress" /\ barrier'.phase = "dispatch_may_have_started"
      /\ barrier'.result = barrier.result
  BY <1>0, <1>1 DEF EnterGate, Shaped, Attempts
<1>3. claimant = e /\ ex[e].target = ex[e].token
  BY <1>0 DEF Place
<1>4. \A f \in Executors : wire[f] = "none"
  BY <1>0, <1>1 DEF Places, Place
<1>5. \A f \in Executors : f # e => ex[f].at \in {"idle", "done"}
  BY <1>0, <1>3 DEF Places, Place
<1>6. /\ Others(e) /\ ex'[e].token = ex[e].token
      /\ \/ ex'[e].at = "post"
         \/ ex'[e].at = "terminalize" /\ ex'[e].result = "admission_unavailable"
  <2>1. CASE Goto(e, "post")
    BY <1>0, <2>1, GotoMoves DEF Points
  <2>2. CASE Conclude(e, "admission_unavailable")
    BY <1>0, <2>2, ConcludeMoves DEF Results, KnownFailures
  <2> QED BY <2>1, <2>2 DEF EnterGate
<1>7. Rows'
  BY <1>0, <1>1, <1>2 DEF Rows, Undecided
<1>8. Place(e)'
  BY <1>1, <1>2, <1>3, <1>4, <1>6 DEF Place
<1>9. ASSUME NEW f \in Executors, f # e PROVE Place(f)'
  BY <1>1, <1>4, <1>5, <1>6, <1>9 DEF Place, Others
<1>10. Leases'
  BY <1>0, <1>1, <1>2 DEF Leases, LeaseDiesWithAttempt, Executed
<1> QED BY <1>7, <1>8, <1>9, <1>10 DEF Places

\* The request goes out: the attempt was not closed as failed.
LEMMA PostStep ==
    ASSUME IndInv, NEW e \in Executors, Post(e)
    PROVE  Rows' /\ Places' /\ Leases'
<1>0. Shaped /\ Rows /\ Places /\ Leases /\ Place(e) /\ ex[e].at = "post"
  BY DEF IndInv, Places, Post, At
<1>1. UNCHANGED <<rows, claimant, entered, permits>>
  BY DEF Post
<1>2. wire'[e] = "flying" /\ \A f \in Executors : f # e => wire'[f] = wire[f]
  BY <1>0 DEF Post, Shaped
<1>3. Others(e) /\ ex'[e].at = "posted" /\ ex'[e].token = ex[e].token
  BY <1>0, GotoMoves DEF Post, Points
<1>4. barrier.status # "failed" /\ wire[e] = "none"
  BY <1>0 DEF Rows, At, Place
<1>5. Rows'
  BY <1>0, <1>1, <1>2, <1>4 DEF Rows
<1>6. Place(e)'
  BY <1>0, <1>1, <1>2, <1>3 DEF Place
<1>7. ASSUME NEW f \in Executors, f # e PROVE Place(f)'
  BY <1>0, <1>1, <1>2, <1>3, <1>7 DEF Places, Place, Others
<1> QED BY <1>0, <1>1, <1>5, <1>6, <1>7, LeasesStay DEF Places

\* The executor closes its attempt with what it knows, or finds it closed.
LEMMA TerminalizeStep ==
    ASSUME IndInv, NEW e \in Executors, Terminalize(e)
    PROVE  Rows' /\ Places' /\ Leases'
<1>0. Shaped /\ Rows /\ Places /\ Leases /\ Place(e) /\ ex[e].at = "terminalize"
  BY DEF IndInv, Places, Terminalize, At
<1>1. UNCHANGED <<approval, wire, claimant, entered, permits>>
  BY DEF Terminalize
<1>2. Others(e) /\ ex'[e].at = "done" /\ ex'[e].token = ex[e].token
  BY <1>0, ReturnMoves DEF Terminalize
<1>3. CASE UNCHANGED <<barrier, lease>>
  <2>1. Place(e)'
    BY <1>0, <1>1, <1>2, <1>3 DEF Place
  <2>2. Rows' /\ Places'
    BY <1>0, <1>1, <1>2, <1>3, <2>1, ExecutorAlone
  <2> QED BY <1>0, <1>1, <1>3, <2>2, LeasesStay
<1>4. CASE /\ barrier.status = "in_progress" /\ AllowedForPhase(ex[e].result, barrier.phase)
           /\ Closes(Disposition(ex[e].result), ex[e].result) /\ lease' = Retired
  <2>1. ex[e].result \in Results \cup {"none"}
    BY <1>0 DEF Shaped, Executions
  <2>2. Disposition(ex[e].result) \in Executed
    BY DEF Disposition, Executed
  <2>3. /\ barrier'.status = Disposition(ex[e].result) /\ barrier'.phase = barrier.phase
        /\ barrier'.result = ex[e].result
    BY <1>0, <1>4, <2>1, <2>2, ClosesMoves
  <2>4. claimant = e
    BY <1>0 DEF Place
  <2>5. \A f \in Executors : f # e => wire[f] = "none" /\ ex[f].at \in {"idle", "done"}
    BY <1>0, <2>4 DEF Places, Place
  <2>6. barrier.phase # "none"
    BY <1>0, <1>4 DEF Rows, Undecided
  <2>7. /\ ex[e].result = "already_in_state" => barrier.phase = "pre_dispatch"
        /\ ex[e].result = "changed" => wire[e] = "landed"
        /\ ex[e].result = "reconciled" => wire[e] # "none"
    BY <1>0, <1>4 DEF Place, AllowedForPhase
  <2>8. Disposition(ex[e].result) = "failed" => wire[e] \in {"none", "refused"}
    BY <1>0 DEF Place, Disposition
  <2>9. barrier'.status \notin Undecided /\ barrier'.status # "in_progress"
    BY <2>2, <2>3 DEF Undecided, Executed
  <2>10. approval.status # "pending"
    BY <1>0, <1>4 DEF Rows
  <2>11. Rows'
    BY <1>0, <1>1, <1>2, <2>3, <2>5, <2>6, <2>7, <2>8, <2>9, <2>10 DEF Rows, At, Others
  <2>12. Place(e)'
    BY <1>0, <1>1, <1>2, <2>3 DEF Place
  <2>13. ASSUME NEW f \in Executors, f # e PROVE Place(f)'
    BY <1>1, <1>2, <2>5, <2>13 DEF Place, Others
  <2>14. Leases'
    BY <1>0, <1>1, <1>4, <2>2, <2>3 DEF Leases, LeaseDiesWithAttempt, Retired
  <2> QED BY <2>11, <2>12, <2>13, <2>14 DEF Places
<1> QED BY <1>3, <1>4 DEF Terminalize, Closes

\* A request that was sent arrives, late perhaps: nothing it can contradict is closed.
LEMMA DeliverStep ==
    ASSUME IndInv, NEW e \in Executors, Deliver(e)
    PROVE  Rows' /\ Places' /\ Leases'
<1>0. Shaped /\ Rows /\ Places /\ Leases /\ Place(e) /\ wire[e] = "flying"
  BY DEF IndInv, Places, Deliver
<1>1. UNCHANGED <<rows, ex, claimant, entered, permits>>
  BY DEF Deliver
<1>2. /\ wire'[e] \in {"landed", "refused", "lost"}
      /\ \A f \in Executors : f # e => wire'[f] = wire[f]
  BY <1>0 DEF Deliver, Shaped
<1>3. barrier.status # "failed"
  BY <1>0 DEF Rows
<1>4. Rows'
  BY <1>0, <1>1, <1>2, <1>3 DEF Rows
<1>5. Place(e)'
  BY <1>0, <1>1, <1>2 DEF Place
<1>6. ASSUME NEW f \in Executors, f # e PROVE Place(f)'
  BY <1>0, <1>1, <1>2, <1>6 DEF Places, Place
<1> QED BY <1>0, <1>1, <1>4, <1>5, <1>6, LeasesStay DEF Places

\* The answer of the owner and the preparation: nobody has executed yet.
LEMMA ApprovalStep ==
    ASSUME IndInv,
           \/ \E answer \in {"approved", "rejected"} : Respond(answer)
           \/ Expire \/ ApplyFeedback \/ Prepare
    PROVE  Rows' /\ Places' /\ Leases'
<1>0. Shaped /\ Rows /\ Places /\ Leases
  BY DEF IndInv
<1>1. UNCHANGED <<lease, ex, wire, claimant, entered, permits>>
  BY DEF Respond, Expire, ApplyFeedback, Prepare
<1>2. approval'.status = "pending" => approval.status = "pending" /\ barrier' = barrier
  BY <1>0 DEF Respond, Expire, ApplyFeedback, Prepare, Shaped
<1>3. CASE barrier' = barrier
  <2>1. Rows' /\ Places'
    BY <1>0, <1>1, <1>2, <1>3 DEF Rows, Places, Place, At
  <2> QED BY <1>0, <1>1, <1>3, <2>1, LeasesStay
<1>4. CASE /\ barrier.status \in Undecided
           /\ barrier'.status \in Undecided
           /\ barrier'.phase = barrier.phase /\ barrier'.result = barrier.result
           /\ approval'.status # "pending"
  <2>1. barrier.phase = "none" /\ claimant = None /\ barrier.result = "none"
    BY <1>0, <1>4 DEF Rows
  <2>2. Rows'
    BY <1>1, <1>4, <2>1 DEF Rows, Undecided
  <2>3. Places'
    BY <1>0, <1>1, <1>4 DEF Places, Place
  <2>4. Leases'
    BY <1>0, <1>1, <1>4, <2>1 DEF Leases, LeaseDiesWithAttempt, Undecided, Executed
  <2> QED BY <2>2, <2>3, <2>4
<1>5. CASE Expire \/ ApplyFeedback \/ Respond("rejected")
  BY <1>3, <1>5 DEF Expire, ApplyFeedback, Respond
<1>6. CASE Respond("approved")
  <2>1. barrier.status = "none" /\ approval'.status = "approved"
    BY <1>0, <1>6 DEF Respond, Rows, Shaped
  <2>2. /\ barrier'.status = "reserved" /\ barrier'.phase = barrier.phase
        /\ barrier'.result = barrier.result
    BY <1>0, <1>6 DEF Respond, Shaped, Attempts
  <2> QED BY <1>4, <2>1, <2>2 DEF Undecided
<1>7. CASE Prepare
  <2>1. barrier.status = "reserved" /\ approval'.status = "approved"
    BY <1>7 DEF Prepare
  <2>2. /\ barrier'.status \in {"blocked", "prepared"} /\ barrier'.phase = barrier.phase
        /\ barrier'.result = barrier.result
    BY <1>0, <1>7 DEF Prepare, Shaped, Attempts
  <2> QED BY <1>4, <2>1, <2>2 DEF Undecided
<1> QED BY <1>5, <1>6, <1>7

(***************************************************************************)
(* Recovery.                                                               *)
(***************************************************************************)

\* A lease that is taken over keeps what was begun at the stage it is taken at.
LEMMA AcquireStep ==
    ASSUME IndInv, NEW r \in Recoverers, Acquire(r)
    PROVE  Leases' /\ (lease # NoLease => lease.evidence \in {"none", lease'.evidence})
<1>0. Shaped /\ Rows /\ Leases
  BY DEF IndInv
<1>1. UNCHANGED <<barrier, permits>> /\ barrier.status \in Open
  BY DEF Acquire, Eligible
<1>2. /\ lease'.stage = Stage /\ lease'.gen = lease.gen + 1
      /\ lease'.observation = Inherited.observation
      /\ lease'.evidence = Inherited.evidence
  BY DEF Acquire
<1>3. lease' # NoLease
  <2>1. lease.gen \in Nat
    BY <1>0 DEF Shaped, LiveLeases, NoLease
  <2>2. lease'.gen # 0 /\ NoLease.gen = 0
    BY <1>2, <2>1 DEF NoLease
  <2> QED BY <2>2
<1>4. Stage' = Stage
  BY <1>1 DEF Stage
<1>5. CASE lease # NoLease /\ lease.observation # "not_started"
  <2>1. SameStage /\ barrier.status = "in_progress" /\ barrier.phase = "dispatch_may_have_started"
    BY <1>0, <1>5 DEF Leases, SameStage
  <2>2. /\ lease'.observation = "evidence_recorded"
        /\ lease.observation # "started" => lease'.evidence = lease.evidence
    BY <1>2, <1>5, <2>1 DEF Inherited, Recorded
  <2>3. lease.evidence \in {"none", lease'.evidence}
    BY <1>0, <1>5, <2>2 DEF Leases
  <2>4. Leases'
    BY <1>0, <1>1, <1>2, <1>3, <1>4, <2>1, <2>2 DEF Leases, LeaseDiesWithAttempt, Executed
  <2> QED BY <2>3, <2>4
<1>6. CASE lease = NoLease \/ lease.observation = "not_started"
  <2>1. lease'.observation = "not_started" /\ lease'.evidence = "none"
    BY <1>2, <1>6 DEF Inherited, NoObservation, SameStage
  <2>2. permits = 0
    BY <1>0, <1>1, <1>6 DEF Leases, Open, Executed
  <2>3. lease # NoLease => lease.evidence = "none"
    BY <1>0, <1>6 DEF Leases
  <2>4. Leases'
    BY <1>1, <2>1, <2>2 DEF Leases, LeaseDiesWithAttempt, Open, Executed
  <2> QED BY <2>3, <2>4
<1> QED BY <1>5, <1>6

\* The one permit: nothing was begun at this stage, so nothing was permitted before.
LEMMA BeginStep ==
    ASSUME IndInv, NEW r \in Recoverers, NEW lost \in BOOLEAN, Begin(r, lost)
    PROVE  Leases' /\ (lease # NoLease => lease'.evidence = lease.evidence)
<1>0. Shaped /\ Rows /\ Leases
  BY DEF IndInv
<1>1. UNCHANGED barrier /\ Stage' = Stage
  BY DEF Begin, Stage
<1>2. CASE Beginnable(r)
  <2>1. /\ lease # NoLease /\ lease.observation = "not_started" /\ lease.stage = Stage
        /\ barrier.status \in Open /\ Stage.phase = "dispatch_may_have_started"
    BY <1>2 DEF Beginnable, Fenced, Eligible, Begin
  <2>2. lease \in LiveLeases
    BY <1>0, <2>1 DEF Shaped
  <2>3. lease' = [lease EXCEPT !.observation = "started", !.attempt = lease.gen, !.timely = TRUE]
    BY <1>2 DEF Begin
  <2>4. /\ lease'.observation = "started" /\ lease'.stage = lease.stage
        /\ lease'.evidence = lease.evidence /\ lease'.gen = lease.gen
    BY <2>2, <2>3 DEF LiveLeases
  <2>5. lease' # NoLease
    <3>1. lease'.gen # 0 /\ NoLease.gen = 0
      BY <2>2, <2>4 DEF LiveLeases, NoLease
    <3> QED BY <3>1
  <2>6. barrier.phase = "dispatch_may_have_started"
    BY <2>1 DEF Stage
  <2>7. barrier.status = "in_progress"
    BY <1>0, <2>1, <2>6 DEF Rows, Undecided, Open
  <2>8. permits = 0 /\ lease.evidence = "none"
    BY <1>0, <2>1, <2>7 DEF Leases, Executed
  <2>9. permits' = 1
    BY <1>2, <2>8 DEF Begin
  <2>10. Leases'
    BY <1>1, <2>1, <2>4, <2>5, <2>6, <2>7, <2>8, <2>9 DEF Leases, LeaseDiesWithAttempt, Executed
  <2> QED BY <2>4, <2>10
<1>3. CASE ~Beginnable(r)
  <2>1. UNCHANGED <<lease, permits>>
    BY <1>3 DEF Begin
  <2> QED BY <1>0, <1>1, <2>1, LeasesStay
<1> QED BY <1>2, <1>3

\* Evidence is written over nothing.
LEMMA EvidenceStep ==
    ASSUME IndInv, NEW r \in Recoverers, CheckPermit(r) \/ Record(r)
    PROVE  Leases' /\ (lease # NoLease => lease.evidence \in {"none", lease'.evidence})
<1>0. Shaped /\ Leases
  BY DEF IndInv
<1>1. UNCHANGED <<barrier, permits>> /\ Stage' = Stage
  BY DEF CheckPermit, Record, Stage
<1>2. CASE lease' = lease
  BY <1>0, <1>1, <1>2, LeasesStay
<1>3. ASSUME NEW sight, Permitted(r),
             lease' = [lease EXCEPT !.observation = "evidence_recorded", !.evidence = sight]
      PROVE  Leases' /\ lease.evidence = "none"
  <2>1. lease # NoLease /\ lease.observation = "started" /\ lease \in LiveLeases
    BY <1>0, <1>3 DEF Permitted, Shaped
  <2>2. /\ lease'.observation = "evidence_recorded" /\ lease'.stage = lease.stage
        /\ lease'.gen = lease.gen
    BY <1>3, <2>1 DEF LiveLeases
  <2>3. lease' # NoLease
    <3>1. lease'.gen # 0 /\ NoLease.gen = 0
      BY <2>1, <2>2 DEF LiveLeases, NoLease
    <3> QED BY <3>1
  <2>4. lease.evidence = "none"
    BY <1>0, <2>1 DEF Leases
  <2>5. Leases'
    BY <1>0, <1>1, <2>1, <2>2, <2>3 DEF Leases, LeaseDiesWithAttempt, Executed
  <2> QED BY <2>4, <2>5
<1> QED BY <1>2, <1>3 DEF CheckPermit, Record

\* Time takes a lease and a deadline, not what was seen under them.
LEMMA LapseStep ==
    ASSUME IndInv, LeaseLapses
    PROVE  Leases' /\ lease'.evidence = lease.evidence
<1>0. Shaped /\ Leases /\ lease # NoLease /\ lease \in LiveLeases
  BY DEF IndInv, LeaseLapses, Shaped
<1>1. UNCHANGED <<barrier, permits>> /\ Stage' = Stage
  BY DEF LeaseLapses, Stage
<1>2. /\ lease'.observation = lease.observation /\ lease'.stage = lease.stage
      /\ lease'.evidence = lease.evidence /\ lease'.gen = lease.gen
  BY <1>0 DEF LeaseLapses, LiveLeases
<1>3. lease' # NoLease
  <2>1. lease'.gen # 0 /\ NoLease.gen = 0
    BY <1>0, <1>2 DEF LiveLeases, NoLease
  <2> QED BY <2>1
<1>4. Leases'
  BY <1>0, <1>1, <1>2, <1>3 DEF Leases, LeaseDiesWithAttempt, Executed
<1> QED BY <1>2, <1>4

\* A recoverer closes an open attempt at the stage it holds: failed before the
\* gate, unknown after it.
LEMMA ReconcileStep ==
    ASSUME IndInv, NEW r \in Recoverers, ReconcilePreDispatch(r) \/ ReconcileRecorded(r)
    PROVE  Rows' /\ Places' /\ Leases'
<1>0. Shaped /\ Rows /\ Places /\ Leases
  BY DEF IndInv
<1>1. UNCHANGED <<approval, ex, wire, claimant, entered, permits>>
  BY DEF ReconcilePreDispatch, ReconcileRecorded
<1>2. CASE UNCHANGED <<barrier, lease>>
  BY <1>0, <1>1, <1>2, LeasesStay, RowsStay
<1>3. ASSUME NEW status \in {"failed", "unknown"},
             NEW result \in {"none", "interrupted_before_dispatch"} \cup Sights,
             Closes(status, result), lease' = NoLease, barrier.status \in Open,
             barrier.phase # "none", status = "failed" => barrier.phase = "pre_dispatch"
      PROVE  Rows' /\ Places' /\ Leases'
  <2>1. status \in Executed
    BY DEF Executed
  <2>2. barrier'.status = status /\ barrier'.phase = barrier.phase /\ barrier'.result = result
    BY <1>0, <1>3, <2>1, ClosesMoves
  <2>3. barrier.phase = "pre_dispatch" =>
          \A e \in Executors : wire[e] = "none" /\ ex[e].at # "post"
    BY <1>0 DEF Places, Place
  <2>4. result \notin {"changed", "reconciled", "already_in_state"}
    BY DEF Sights
  <2>5. approval.status # "pending"
    BY <1>0, <1>3 DEF Rows, Open
  <2>6. Rows'
    BY <1>1, <1>3, <2>2, <2>3, <2>4, <2>5 DEF Rows, Undecided, At
  <2>7. Places'
    BY <1>0, <1>1, <2>2 DEF Places, Place
  <2>8. Leases'
    BY <1>0, <1>1, <1>3, <2>1, <2>2 DEF Leases, LeaseDiesWithAttempt
  <2> QED BY <2>6, <2>7, <2>8
<1>4. CASE ReconcilePreDispatch(r) /\ ~UNCHANGED <<barrier, lease>>
  <2>1. /\ Eligible /\ Fenced(r) /\ rec[r].stage.phase = "pre_dispatch" /\ lease' = NoLease
        /\ Closes("failed", "interrupted_before_dispatch")
    BY <1>4 DEF ReconcilePreDispatch, Closes
  <2>2. barrier.phase = "pre_dispatch" /\ barrier.status \in Open
    BY <2>1 DEF Fenced, Stage, Eligible
  <2> QED BY <1>3, <2>1, <2>2
<1>5. CASE ReconcileRecorded(r) /\ ~UNCHANGED <<barrier, lease>>
  <2>1. /\ Eligible /\ Fenced(r) /\ lease.observation = "evidence_recorded" /\ lease' = NoLease
        /\ Closes("unknown", lease.evidence)
    BY <1>5 DEF ReconcileRecorded, Closes
  <2>2. lease # NoLease /\ lease.evidence \in Sights \cup {"none"}
    BY <1>0, <2>1 DEF Fenced, Shaped, LiveLeases
  <2>3. barrier.phase = "dispatch_may_have_started" /\ barrier.status \in Open
    BY <1>0, <2>1, <2>2 DEF Leases, Eligible
  <2> QED BY <1>3, <2>1, <2>2, <2>3
<1> QED BY <1>2, <1>4, <1>5

LEMMA IndInvStep == IndInv /\ [Next]_vars => IndInv'
<1> SUFFICES ASSUME IndInv, [Next]_vars PROVE IndInv'
  OBVIOUS
<1>0. Shaped' /\ Rows /\ Places /\ Leases
  BY ShapeStep DEF IndInv
<1>1. CASE UNCHANGED vars
  BY <1>0, <1>1, LeasesStay, RowsStay DEF vars, IndInv
<1>2. ASSUME NEW e \in Executors, Execute(e) \/ Deliver(e) PROVE IndInv'
  BY <1>0, <1>2, AwaitStep, ClaimStep, GateStep, PostStep, TerminalizeStep, DeliverStep
     DEF Execute, IndInv
<1>3. CASE \/ \E answer \in {"approved", "rejected"} : Respond(answer)
           \/ Expire \/ ApplyFeedback \/ Prepare
  BY <1>0, <1>3, ApprovalStep DEF IndInv
<1>4. CASE PhaseAges \/ Edit
  BY <1>0, <1>4, LeasesStay, RowsStay DEF PhaseAges, Edit, IndInv
<1>5. CASE LeaseLapses
  BY <1>0, <1>5, LapseStep, RowsStay DEF LeaseLapses, IndInv
<1>6. ASSUME NEW r \in Recoverers, Recover(r) PROVE IndInv'
  <2>1. CASE ReconcilePreDispatch(r) \/ ReconcileRecorded(r)
    BY <1>0, <2>1, ReconcileStep DEF IndInv
  <2>2. CASE Acquire(r)
    BY <1>0, <2>2, AcquireStep, RowsStay DEF Acquire, IndInv
  <2>3. ASSUME NEW lost \in BOOLEAN, Begin(r, lost) PROVE IndInv'
    BY <1>0, <2>3, BeginStep, RowsStay DEF Begin, IndInv
  <2>4. CASE CheckPermit(r) \/ Record(r)
    BY <1>0, <2>4, EvidenceStep, RowsStay DEF CheckPermit, Record, IndInv
  <2>5. CASE SelectTarget(r) \/ Look(r) \/ SampleClock(r) \/ GiveUp(r)
    BY <1>0, <2>5, LeasesStay, RowsStay DEF SelectTarget, Look, SampleClock, GiveUp, IndInv
  <2> QED BY <1>6, <2>1, <2>2, <2>3, <2>4, <2>5 DEF Recover
<1> QED BY <1>1, <1>2, <1>3, <1>4, <1>5, <1>6 DEF Next

\* The inductive invariant holds of every behaviour of the pipeline, its recovery,
\* Gmail and the owner.
THEOREM ArchiveInvariance == Spec => []IndInv
<1>1. Init => IndInv
  BY InitIndInv
<1>2. IndInv /\ [Next]_vars => IndInv'
  BY IndInvStep
<1> QED BY <1>1, <1>2, PTL DEF Spec

\* What terminalize and reconcile record never contradicts what Gmail did, not
\* even when the request lands after the row was closed.
THEOREM TerminalIsTrue == Spec => []TerminalTellsTheTruth
<1>1. IndInv => TerminalTellsTheTruth
  <2> SUFFICES ASSUME IndInv PROVE TerminalTellsTheTruth
    OBVIOUS
  <2>1. barrier.result = "already_in_state" => Sent = {}
    BY DEF IndInv, Rows, Places, Place, Sent
  <2> QED BY <2>1 DEF IndInv, Rows, TerminalTellsTheTruth, Sent
<1> QED BY <1>1, ArchiveInvariance, PTL

\* The modify request carries the credential whose revision the dispatch gate
\* admitted, whatever rotates it at the awaits of mutate.
THEOREM CredentialIsAdmitted == Spec => []PostUsesAdmittedCredential
<1>1. IndInv => PostUsesAdmittedCredential
  BY DEF IndInv, Places, Place, PostUsesAdmittedCredential, Sent
<1> QED BY <1>1, ArchiveInvariance, PTL

\* beginObservation issues one permit for an attempt, through any number of
\* take-overs, lapsed deadlines and lost answers.
THEOREM ObservationIsOnce == Spec => []ObservedOnce
<1>1. IndInv => ObservedOnce
  BY DEF IndInv, Leases, ObservedOnce
<1> QED BY <1>1, ArchiveInvariance, PTL

\* retireGmailArchiveRecoveryLeaseForTerminalInTransaction: no lease outlives the
\* terminal row, whoever wrote it.
THEOREM LeaseIsRetired == Spec => []LeaseDiesWithAttempt
<1>1. IndInv => LeaseDiesWithAttempt
  BY DEF IndInv, Leases
<1> QED BY <1>1, ArchiveInvariance, PTL

(***************************************************************************)
(* What no step does, and the abstract promise.                            *)
(***************************************************************************)

\* A terminal row is not written again: who would write it asks for an open one.
LEMMA TerminalStands ==
    ASSUME IndInv, [Next]_vars, barrier.status \in Executed \cup {"blocked"}
    PROVE  barrier' = barrier
<1>0. Rows
  BY DEF IndInv
<1>1. barrier.status \notin Open /\ barrier.status # "none" /\ barrier.status # "prepared"
      /\ barrier.status # "reserved" /\ barrier.status # "in_progress"
  BY DEF Open, Executed
<1>2. CASE UNCHANGED vars
  BY <1>2 DEF vars
<1>3. ASSUME NEW answer \in {"approved", "rejected"}, Respond(answer) PROVE barrier' = barrier
  BY <1>0, <1>1, <1>3 DEF Respond, Rows
<1>4. CASE Expire \/ ApplyFeedback \/ Prepare \/ PhaseAges \/ LeaseLapses \/ Edit
  BY <1>1, <1>4 DEF Expire, ApplyFeedback, Prepare, PhaseAges, LeaseLapses, Edit
<1>5. ASSUME NEW e \in Executors, Execute(e) \/ Deliver(e) PROVE barrier' = barrier
  <2>1. ASSUME NEW lost \in BOOLEAN, Claim(e, lost) \/ EnterGate(e, lost) PROVE barrier' = barrier
    BY <1>1, <2>1 DEF Claim, Claimable, EnterGate, SameTarget, Target
  <2>2. CASE \/ NotClaimed(e) \/ Crash(e) \/ Resolve(e) \/ Materialize(e) \/ Reresolve(e)
             \/ Preflight(e) \/ Recheck(e) \/ GateRefuses(e) \/ PostAnswered(e) \/ ReadBack(e)
             \/ Post(e) \/ Deliver(e)
    BY <2>2 DEF NotClaimed, Crash, Resolve, Materialize, Reresolve, Preflight, Recheck,
                GateRefuses, PostAnswered, ReadBack, Post, Deliver
  <2>3. CASE Terminalize(e)
    BY <1>1, <2>3 DEF Terminalize
  <2> QED BY <1>5, <2>1, <2>2, <2>3 DEF Execute
<1>6. ASSUME NEW r \in Recoverers, Recover(r) PROVE barrier' = barrier
  <2>1. CASE ReconcilePreDispatch(r) \/ ReconcileRecorded(r)
    BY <1>1, <2>1 DEF ReconcilePreDispatch, ReconcileRecorded, Eligible
  <2>2. ASSUME NEW lost \in BOOLEAN, Begin(r, lost) PROVE barrier' = barrier
    BY <2>2 DEF Begin
  <2>3. CASE \/ Acquire(r) \/ CheckPermit(r) \/ SelectTarget(r) \/ Look(r) \/ SampleClock(r)
             \/ Record(r) \/ GiveUp(r)
    BY <2>3 DEF Acquire, CheckPermit, SelectTarget, Look, SampleClock, Record, GiveUp
  <2> QED BY <1>6, <2>1, <2>2, <2>3 DEF Recover
<1> QED BY <1>2, <1>3, <1>4, <1>5, <1>6 DEF Next

\* Recorded evidence is kept by every step that keeps the lease.
LEMMA EvidenceStands ==
    ASSUME IndInv, [Next]_vars, lease # NoLease, lease' # NoLease
    PROVE  lease.evidence \in {"none", lease'.evidence}
<1>2. CASE UNCHANGED vars
  BY <1>2 DEF vars
<1>3. ASSUME NEW answer \in {"approved", "rejected"}, Respond(answer)
      PROVE  lease' = lease
  BY <1>3 DEF Respond
<1>4. CASE Expire \/ ApplyFeedback \/ Prepare \/ PhaseAges \/ Edit
  BY <1>4 DEF Expire, ApplyFeedback, Prepare, PhaseAges, Edit
<1>5. CASE LeaseLapses
  BY <1>5, LapseStep
<1>6. ASSUME NEW e \in Executors, Execute(e) \/ Deliver(e)
      PROVE  lease' = lease
  <2>1. ASSUME NEW lost \in BOOLEAN, Claim(e, lost) \/ EnterGate(e, lost) PROVE lease' = lease
    BY <2>1 DEF Claim, EnterGate
  <2>2. CASE \/ NotClaimed(e) \/ Crash(e) \/ Resolve(e) \/ Materialize(e) \/ Reresolve(e)
             \/ Preflight(e) \/ Recheck(e) \/ GateRefuses(e) \/ PostAnswered(e) \/ ReadBack(e)
             \/ Post(e) \/ Deliver(e)
    BY <2>2 DEF NotClaimed, Crash, Resolve, Materialize, Reresolve, Preflight, Recheck,
                GateRefuses, PostAnswered, ReadBack, Post, Deliver
  <2>3. CASE Terminalize(e)
    BY <2>3 DEF Terminalize, Retired
  <2> QED BY <1>6, <2>1, <2>2, <2>3 DEF Execute
<1>7. ASSUME NEW r \in Recoverers, Recover(r)
      PROVE  lease.evidence \in {"none", lease'.evidence}
  <2>1. CASE ReconcilePreDispatch(r) \/ ReconcileRecorded(r)
    BY <2>1 DEF ReconcilePreDispatch, ReconcileRecorded
  <2>2. ASSUME NEW lost \in BOOLEAN, Begin(r, lost)
        PROVE  lease.evidence \in {"none", lease'.evidence}
    BY <2>2, BeginStep
  <2>3. CASE SelectTarget(r) \/ Look(r) \/ SampleClock(r) \/ GiveUp(r)
    BY <2>3 DEF SelectTarget, Look, SampleClock, GiveUp
  <2>4. CASE Acquire(r)
    BY <2>4, AcquireStep
  <2>5. CASE CheckPermit(r) \/ Record(r)
    BY <2>5, EvidenceStep
  <2> QED BY <1>7, <2>1, <2>2, <2>3, <2>4, <2>5 DEF Recover
<1> QED BY <1>2, <1>3, <1>4, <1>5, <1>6, <1>7 DEF Next

\* Terminal rows and recorded evidence are final: no late executor, superseded
\* recoverer or take-over rewrites them.
THEOREM EvidenceStaysFinal == Spec => EvidenceIsFinal
<1>1. IndInv /\ [Next]_vars =>
        [/\ barrier.status \in Executed \cup {"blocked"} => barrier' = barrier
         /\ (lease # NoLease /\ lease.gen > 0 /\ lease' # NoLease)
               => lease.evidence \in {"none", lease'.evidence}]_vars
  BY TerminalStands, EvidenceStands
<1> QED BY <1>1, ArchiveInvariance, PTL DEF Spec, EvidenceIsFinal

\* A step sends nothing and hands out no claim.
LEMMA UnseenStep ==
    ASSUME UNCHANGED claimant, \A e \in Executors : (wire'[e] # "none") <=> (wire[e] # "none")
    PROVE  UNCHANGED <<claimant, Sent>>
BY DEF Sent

\* Every step is the grant of the one claim, the sending of the one request, or
\* is not seen.
LEMMA ArchiveRefines ==
    ASSUME IndInv, [Next]_vars
    PROVE  \/ OneShot!Act("archive")
           \/ \E e \in Executors : OneShot!Grant("archive", e)
           \/ UNCHANGED <<claimant, Sent>>
<1>1. CASE UNCHANGED vars
  BY <1>1, UnseenStep DEF vars
<1>2. ASSUME NEW answer \in {"approved", "rejected"}, Respond(answer)
      PROVE  UNCHANGED <<claimant, Sent>>
  BY <1>2, UnseenStep DEF Respond
<1>3. CASE Expire \/ ApplyFeedback \/ Prepare \/ PhaseAges \/ LeaseLapses \/ Edit
  BY <1>3, UnseenStep DEF Expire, ApplyFeedback, Prepare, PhaseAges, LeaseLapses, Edit
<1>4. ASSUME NEW r \in Recoverers, Recover(r) PROVE UNCHANGED <<claimant, Sent>>
  <2>1. UNCHANGED <<claimant, wire>>
    BY <1>4 DEF Recover, Begin, Acquire, ReconcilePreDispatch, CheckPermit, SelectTarget, Look,
                SampleClock, Record, ReconcileRecorded, GiveUp
  <2> QED BY <2>1, UnseenStep
<1>5. ASSUME NEW e \in Executors, Deliver(e) PROVE UNCHANGED <<claimant, Sent>>
  <2>1. UNCHANGED claimant /\ wire[e] # "none" /\ wire'[e] # "none"
        /\ \A f \in Executors : f # e => wire'[f] = wire[f]
    BY <1>5 DEF Deliver, IndInv, Shaped
  <2> QED BY <2>1, UnseenStep
<1>6. ASSUME NEW e \in Executors, NEW lost \in BOOLEAN, Claim(e, lost)
      PROVE  OneShot!Grant("archive", e) \/ UNCHANGED <<claimant, Sent>>
  <2>1. claimant = None /\ UNCHANGED wire /\ (claimant' = e \/ claimant' = claimant)
    BY <1>6 DEF IndInv, Rows, Undecided, Claim, Claimable
  <2>2. Sent = {} /\ Sent' = Sent
    BY <2>1, ArchiveConstants DEF IndInv, Places, Place, Sent
  <2>3. CASE claimant' = e
    <3>1. [d \in {"archive"} |-> claimant]' = [[d \in {"archive"} |-> claimant] EXCEPT !["archive"] = e]
      BY <2>3
    <3> QED BY <2>1, <2>2, <3>1 DEF OneShot!Grant
  <2> QED BY <2>1, <2>2, <2>3
<1>7. ASSUME NEW e \in Executors, Post(e) PROVE OneShot!Act("archive")
  <2>1. Place(e) /\ At(e, "post") /\ claimant = e /\ e # None /\ wire[e] = "none"
    BY <1>7, ArchiveConstants DEF IndInv, Places, Place, Post, At
  <2>2. Sent = {}
    BY <2>1 DEF IndInv, Places, Place, Sent
  <2>3. wire'[e] # "none" /\ \A f \in Executors : f # e => wire'[f] = wire[f]
    BY <1>7 DEF IndInv, Shaped, Post
  <2>4. Sent' = {e} /\ claimant' = claimant
    BY <1>7, <2>2, <2>3 DEF Sent, Post
  <2>5. [d \in {"archive"} |-> Sent]' = [[d \in {"archive"} |-> Sent] EXCEPT !["archive"] = {e}]
    BY <2>4
  <2> QED BY <2>1, <2>2, <2>4, <2>5 DEF OneShot!Act
<1>8. ASSUME NEW e \in Executors,
             \/ NotClaimed(e) \/ Crash(e) \/ Resolve(e) \/ Materialize(e) \/ Reresolve(e)
             \/ Preflight(e) \/ Recheck(e) \/ GateRefuses(e) \/ PostAnswered(e) \/ ReadBack(e)
             \/ Terminalize(e)
      PROVE  UNCHANGED <<claimant, Sent>>
  BY <1>8, UnseenStep
     DEF NotClaimed, Crash, Resolve, Materialize, Reresolve, Preflight, Recheck, GateRefuses,
         PostAnswered, ReadBack, Terminalize
<1>9. ASSUME NEW e \in Executors, NEW lost \in BOOLEAN, EnterGate(e, lost)
      PROVE  UNCHANGED <<claimant, Sent>>
  BY <1>9, UnseenStep DEF EnterGate
<1> QED BY <1>1, <1>2, <1>3, <1>4, <1>5, <1>6, <1>7, <1>8, <1>9 DEF Next, Execute

\* One executor is handed the claim, and one request at most is sent, by it, for
\* any number of executors and recoverers (claim, the dispatch gate, mutate).
THEOREM OneArchiveRequest == Spec => ArchiveIsOneShot
<1>1. Init => OneShot!Init
  BY DEF Init, OneShot!Init, Sent
<1>2. IndInv /\ [Next]_vars => [OneShot!Next]_(OneShot!effects)
  <2> SUFFICES ASSUME IndInv, [Next]_vars
               PROVE  OneShot!Next \/ UNCHANGED OneShot!effects
    OBVIOUS
  <2>1. CASE OneShot!Act("archive") \/ \E e \in Executors : OneShot!Grant("archive", e)
    BY <2>1 DEF OneShot!Next
  <2>2. CASE UNCHANGED <<claimant, Sent>>
    BY <2>2 DEF OneShot!effects
  <2> QED BY <2>1, <2>2, ArchiveRefines
<1> QED BY <1>1, <1>2, ArchiveInvariance, PTL DEF Spec, ArchiveIsOneShot, OneShot!Spec
=============================================================================
