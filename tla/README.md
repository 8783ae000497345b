# SkyTwin: a TLA+ verification of its effect ledgers and supervisors

SkyTwin is a personal assistant that observes signals (mail, calendar, chat,
MCP servers), decides what its owner would do, and either does it or asks. This
directory specifies the parts of it that must not go wrong: **the paths from a
decision to an effect on the outside world** (and back, for an undo), the leased
background work beside them, and the desktop supervisor that starts, fences and
stops the processes that do all this. It contains TLA+ modules, TLC
configurations for small instances, and TLAPS proofs for all instances.
`PROJECT.json` is the machine-readable index: the components, the source lines
of every definition, the runs, the mutants, the hazards and the theorems.

## 1. Inventory of the system

### 1.1 The parts around an effect (modelled)

| Part | Source | State it keeps | Operations |
| --- | --- | --- | --- |
| Receipt guard | `packages/db/.../inference-receipt-repository.ts` | `decision_ingest_guards`: effect state, continuation kind, source plan, confirmation level | create with the receipts; claim; close; escalate to approval; deny; fail before dispatch; mark terminal |
| Admission barrier | `execution-admission-repository.ts` | `execution_admission_barriers`: status, plan, policy snapshot | admit an approved row; recheck; fail before dispatch; observe terminal; finalize the plan |
| Plans and results | `execution-repository.ts` | `execution_plans.status`, `execution_results` | create inside a claim or an admission; update status; create result |
| Approval requests | `approval-repository.ts`, `routes/approvals.ts`, `routes/dual-confirm.ts` | status, confirmation level, first-confirmation token, denial | create, first confirmation, approve, reject, expire, clean up |
| Request-start lease | `credential-dispatch-lease-repository.ts` | `credential_dispatch_leases.state` | start (refuse, replay, grant), terminalize, record ambiguity, sweep overdue |
| Execution authority | `user-repository.ts`, `policy-repository.ts`, `policy-evaluator.ts` | autonomy settings and policies, each with a revision | change settings, change policies, evaluate |
| Account purge | `user-purge-repository.ts` | every row of an owner | refuse while something is active, otherwise remove everything |
| Event ingestion | `routes/events.ts` | what one request holds in memory | look up, interpret, save, capture, prepare, claim, recheck, dispatch, settle |
| Approval response | `routes/approvals.ts` | what one request holds in memory | confirm, preflight, respond, admit, recheck, dispatch, settle |
| Execution router | `packages/execution-router/src/execution-router.ts` | none | start a lease, call the adapter, settle the lease, report |
| Memory action loop | `apps/worker/src/jobs/memory-action-loop.ts`, its tick in `apps/worker/src/index.ts`, `memory-action-opportunity-repository.ts`, the memory branch of `routes/approvals.ts` | `memory_action_opportunities`: status, rank, last attempt, decision; the memory-scope barrier | tick, suggest, claim a ranked batch, decide, ask, admit, recheck, dispatch, settle, mark |
| Rollback | `rollback-admission-repository.ts` | `rollback_admissions`, `rollback_terminal_ledger` | admit, claim, expire, terminalize |
| Watch runs | `watch-run-repository.ts`, `jobs/watch-scheduler.ts` | `watches` (status, next and last run), `watch_runs` (window, lease, attempts) | sweep, take over, claim a due slot, complete, fail, prune, pause, delete |
| Gmail archive pipeline, pre-effect barrier | `gmail-archive-*-repository.ts`, `gmail-inbox-mutation-port.ts`, the caller kernel | the `event_execution` barrier, the recovery lease and its observation | answer, apply feedback, prepare, claim, mutate, enter the dispatch gate, terminalize, acquire, observe, record, reconcile |
| Desktop supervisor, worker generation authority | `apps/desktop/src/service-manager.ts` | three child processes, API generations, `worker_generation_authority`, pause intent, restart timers | start, pause, resume, quit, replace, contain, restart, health check |
| Idle pause controller | `apps/desktop/src/idle-pause-controller.ts`, `tray.ts`, the IPC handlers | `autoPausedByIdle`, a promise chain; the tray's label | idle and active edges, preference changes, manual pauses from three entry points |

The routes, the worker loop and the pipelines interact through the database
only: they never talk to each other. An ingestion may end by writing an approval
request that a later response consumes; the memory loop writes an approval that
the approval route answers under the same barrier. The routes call the router,
the router calls the lease repository and then an adapter. The owner's settings,
the policies, the expiry jobs and the purge change rows under the feet of
running requests. The supervisor registers the generation of the worker it
forks, and the worker's database access is fenced by that row; the idle
controller drives the supervisor's `pause()` and `resume()`.

What makes this hard:

* **Concurrency.** One signal may be ingested several times at once, one
  approval answered several times at once; a policy evaluation is three reads
  that are not one transaction; a purge or a settings change can land between
  any two awaits.
* **Failure.** A process may die between a claim and its dispatch, between the
  adapter call and the record of its answer, or between two of the three
  statements that record a terminal result. A commit can succeed while the
  client sees an exception.
* **Ambiguity.** An adapter may answer with an exception, an unbound result or
  nothing. The code must then neither retry nor report a definite outcome.
* **Time.** Approvals, first-confirmation tokens and leases expire while
  somebody is about to use them.

What makes it correct: at most one effect per decision, ever; every effect
backed by one durable authority; the authority checked against the settings and
policies of that very moment; no purge under a live effect; no terminal record
that contradicts another or is rewritten; every claim settled or left visibly
ambiguous.

### 1.2 Not modelled

| Part | Reason |
| --- | --- |
| OAuth, credential vault | token exchange and cryptography; what the execution paths see of it (a credential revision that may rotate, disappear or be refused) is an input of `ExecutionLedger` and `GmailArchive` |
| Policy evaluator's individual checks, spend tracking, trust tiers | pure arithmetic and table look-ups; their verdicts are inputs. Worth a pure module (section 2) |
| Circuit breaker and retry | in-memory objects in front of polls and adapter calls; an open circuit refuses a call, which the modelled dispatch may do anyway |
| Decision receipts | hashing and signatures |
| Worker polling, dedupe, dead letters | only the approval sweeps write rows that are modelled |
| Routines, idle miner, key broker, model downloads, federation, backup | small or bulk-I/O state machines with no authority over an effect; restore ordering is the one candidate |
| Decision engine, twin model, LLM clients, connectors, MCP host | data transformation and I/O; what they return is a nondeterministic input of the modelled parts |
| Web, mobile and assistant front ends, release scripts | user interfaces and build tooling of the API: by far the larger part of the repository's lines, without durable state of their own |

The last two rows are why the map covers a small share of the lines: the
correctness-critical control of this repository is concentrated in a few dozen
files.

## 2. Plan

Done:

1. `ExecutionLedger`, `ExecutionRoutes` and their proofs.
2. `OneShotEffect`, the abstract promise, and the refinement.
3. `MemoryActionLoop`: the worker loop against the approval route; it implements
   `OneShotEffect` per opportunity; with proofs. `OpportunityQueue`: which
   opportunities the loop takes up.
4. `RollbackAdmission`: a one-shot undo, with proofs.
5. `WatchRun`: leases, take-over, attempts, windows, with proofs.
6. `ServiceManager` (supervisor and generation authority) and `IdlePause` above
   it, both with proofs.
7. `GmailArchive`: the pipeline on the pre-effect barrier with its recovery, with
   proofs.

Left, in order:

1. A pure `PolicyRules` module: the evaluator against a declarative reference,
   quiet hours across midnight, trust tiers and spend limits.
2. The binding of a credential in the request-start lease, OAuth authority,
   the circuit breaker.
3. Dead letters, the receipt chain's append, the model download.

## 3. Modules

```
                       OneShotEffect                 the abstract promise
      ^                  ^        ^        ^         implemented by
ExecutionRoutes  MemoryActionLoop |   GmailArchive
                          RollbackAdmission

ExecutionLedger  <-  ExecutionRoutes  <-  ExecutionRefinement  <-  ExecutionInvariants
      (rows)            (requests)          (refinement map)       (inductive invariants)

ServiceManager  ..promise of pause and resume..>  IdlePause          WatchRun

OpportunityQueue  ..which row is claimed, and when..>  MemoryActionLoop

MC<Module>           each module for TLC
<Module>_proofs      ExecutionRoutes -> ExecutionRefinement, MemoryActionLoop,
                     RollbackAdmission, WatchRun, ServiceManager, IdlePause,
                     GmailArchive
```

**`ExecutionLedger`**: the durable rows as variables and one operator per SQL
transaction. A transaction locks the owner's `users` row first, or is a single
statement, so each is one atomic step. The guard of an operator is the
transaction's `WHERE` clauses and early returns; an operator that is not enabled
is a transaction that refuses or throws. `Capturable`, `Ready`, `Escalatable`,
`Admissible`, `Startable`, ... name these guards so that the routes can say what
happens when they fail.

**`ExecutionRoutes`**: each request runs `routes/events.ts` or
`routes/approvals.ts`. Between two awaits a request is at a location `pc[r]` and
remembers `local[r]`: what it read and concluded in the current policy
evaluation and what the adapter reported. One action is one read of shared
rows, one ledger transaction, or one call of an adapter, with the branch the
handler takes on its result. `sent` is the set of requests whose adapter was
called; it belongs to the world, so neither a crash nor a purge forgets it.

| Route | Locations in order |
| --- | --- |
| ingest | `idle`, `interpret`, `capture`, then `approval`, or `prepare` and a policy evaluation for the claim, a second one for the dispatch, `start`, `call`, `await`, `settle`, `plan_status`, `create_result`, `mark_terminal` |
| respond | `idle`, then `reject`, `first_confirm`, or three policy evaluations (preflight, admission, dispatch), `start`, `call`, `await`, `settle`, `observe`, `finalize` |

A policy evaluation is `read_user`, `read_revision` (where the code fences it),
`read_policies`, `decide`. `abort` closes a plan no adapter was called for.
`Environment` is the owner (settings, policies, purge) and the clock and jobs
(expiry, cleanup, overdue leases). `Fault` is a crash at any point, or a commit
whose response is lost.

**`OneShotEffect`**: per decision a holder of the authority and the set of
requests that acted. `ExecutionRefinement` maps the holder to the plan of the
claimed receipt or of the barrier, and the effects to `sent`.

**`MemoryActionLoop`**: the opportunities, and per attempt two processes, the
worker (`"loop"`) and the request that answers the attempt's approval
(`"route"`). `Claim` is one row of a batch; how a batch is chosen is in
`OpportunityQueue`. Each claim of an opportunity is an attempt with its own decision,
approval and plan; the barrier is keyed by the opportunity, so it is what keeps
attempts apart. `Decide`, `Ask` and `Prepare` are `processOpportunity` and
`executeAllowedOpportunity`, `Respond` and `Evaluate` the route; from `Admit` on
both take the same steps. `Mark` is `markStatus`, which asks nothing of the row
it overwrites.

**`OpportunityQueue`**: the worker's tick (single flight, six hours after the
last), an owner's turn of the job (store the suggestions, claim, process one row
after the other) and the claim itself: retryable rows that were not attempted
for a day, in the order of their rank, `ClaimLimit` of them. What processing does
is reduced to the status it ends with. A turn that throws and a job or worker
that dies (`TurnFails`, `JobFails`) differ in when the next tick comes.

**`RollbackAdmission`**: `admit`, `claim` (won, refused, or of an expired claim) and
`terminalizeClaim`, each one transaction, and a caller that does what the
interface suggests: admit, claim, call, report.

**`WatchRun`**: `ClaimRetry`, `ClaimDue` and `ClaimNothing` are the three ends of
`claimNextDueSlot`, each including its opening sweep (`Swept`); `Complete`,
`EvaluationThrows` and `FailSlot` are the rest of one scheduler pass. `watch`
holds the boundary `last_run_at`, `slot` the windows and leases.

**`ServiceManager`**: the children as `child[s]` (live, stopping, dead, none),
API generations, the authority rows, the lifecycle queue and four asynchronous
functions that may be under way at once (`task`): the queue's current operation,
`pause()`, the containment after an API `error`, and the latched worker start.
One action runs from one await to the next. A child exits, a database is lost,
a call fails or its answer is lost at any point, within the bounds.

**`IdlePause`**: the controller's queue and its one running operation, the user's
requests, and `ServiceManager` reduced to what it promises: `pause()` takes
effect at once and returns when the worker is gone, a later pause cancels a
resume. The user has three entry points (`Entries`): the dashboard's IPC
handlers, the application menu, which asks `isPaused()` at the click, and the
tray, whose `label` was captured when its menu was built, at the last status
event. Only the first two call `onManualPauseChange`. `lastPause` is a history
variable: who paused last, and whether the controller kept a claim to a pause of
the user (`"overlooked"`).

**`GmailArchive`**: `approval`, `barrier`, `lease` are rows; executors run
`executeApproved`, through `mutate`'s awaits (resolve, materialise, re-resolve,
preflight, recheck, gate, POST, read back); recoverers acquire the lease,
observe the mailbox under one permit, record and reconcile. `wire` and `inbox`
are Gmail's: a request may be delivered late, or never.

### Abstractions

Of the execution routes:

* One owner. Rows of different owners do not interact, except through the
  installation-wide policy revision, which other owners can only bump (a
  spurious refusal, which `StartDispatch` allows anyway).
* A request draws a fresh UUID for its plan, so the request names the plan.
* Revisions are fresh UUIDs in the code and counters here; only equality is
  compared by the actions. `MaxChanges` bounds how many changes TLC explores;
  the proofs do not depend on it.
* The policy evaluator is reduced to what the routes tell apart: deny,
  ask (and for which reason, because the reason is part of the compared policy
  snapshot) or act. Quiet hours and the operator's installation-wide pause are
  not modelled; the owner's pause is.
* The decision maker, the model behind it and the receipt verification are
  nondeterministic: any continuation, or none.
* Whether an edited action needs a dual confirmation, and whether the
  credential, the MCP server or the execution channel refuse a dispatch, is a
  nondeterministic choice.
* Feedback, evidence, explanation and memory rows written along the way are
  left out; nothing modelled reads them. An exception in them is a `Crash`.
* `approvalRepository.batchRespond` is not an action: no route calls it.

Of the memory loop: the owner exists throughout and the dispatch lease is not
repeated (both are in `ExecutionLedger`); a refusal by the lease is a refusal of
`Dispatch`. An approval that expires leaves `queued_approval` behind, as in the
code. In `OpportunityQueue` a new suggestion may give its row any rank. The six
hours of the tick and the 24 hours of a row are not measured against each other:
a tick may be late by any time (the computer is off, the previous tick is still
in flight), so any number of rows may be due again when it comes. One owner: the
job takes its owners one after the other, and an exception ends the turn of one.
Which owners it takes (at most 500) is left out.

Of rollback: the program does not call the repository at this commit, so the
caller is external. Expiry is judged by each process's clock; clocks may
disagree, so whether a claim has expired is open at every question.

Of watch runs: every claim draws a fresh token and adds one to `attempt_count`,
so the attempt number stands for the token. Durations are not modelled: a lease
or a retry delay passes at any time. A workflow's condition on its active
version is part of a watch being due. A slot that spends its attempts loses its
window, as in the code: its signals are not reported at all.

Of the supervisor: the packaged mode, one `startAll` per launch. The API's
failures are never forgotten (the code forgets them after five minutes), and
whether web or worker still have a restart budget is a choice, as is the exit
code of the worker. One `pause()` and one containment after an error are under
way at a time; identical timers merge; a microtask may be delayed. Provisioning
of sample data and the inside of the key broker are left out.

Of the Gmail archive: one approval (rows of different approvals do not
interact); plan, result and receipt revisions follow the barrier they are
written with. The clock appears as what the code asks of it: whether a phase is
older than the grace period, whether a lease and an observation deadline still
run. Renewing a live lease changes none of these. The generation of a lease
stands for its token. Lost answers are choices. The retry branch for the same
attempt in `beginObservation` is unreachable, because an aborted transaction
(40001) has written nothing. What an executor holds in memory is forgotten when
its call returns.

## 4. What the runs check

| Run | Instance | Question |
| --- | --- | --- |
| `oneDecision` | 1 decision, 3 requests, 3 changes of settings or policies, all faults | every interleaving of three requests, in any mix of routes, on one decision (933 000 states) |
| `twoDecisions` | 2 decisions sharing a provider, 2 requests, 2 changes, faults on one request, weak fairness | decisions sharing a provider; the refinement; the whole inductive invariant; a claim settles (241 000 states) |
| `snapshotConflict` | 1 decision, 2 requests, no faults | expected violation, section 6 |
| `memory` | 1 opportunity, 2 attempts, 1 policy change, 1 fault | one effect per opportunity, consent, truthful status (229 000 states) |
| `memoryQueue` | 3 opportunities, batches of 2, 1 suggestion per tick, 2 faults, weak fairness | a suggestion is taken up unless a full batch outranks it (129 000 states) |
| `memoryAnswered` | 1 opportunity, 1 attempt, no faults | expected violation, section 6 |
| `rollback` | 2 actions, 3 callers | one undo, a truthful and final ledger (1 110 states) |
| `watch` | 1 watch, 2 workers, 2 slots, 2 attempts, 3 ticks, 2 edits | exclusion, disjoint windows, the fence, settlement (321 000 states) |
| `services` | 2 crashes, 1 fault, 1 user request, 2 restarts, weak fairness | no lost handle, no lost authority, a pause holds; containment and replacement (215 000 states) |
| `idle` | 4 edges, 4 user requests, 1 fault | a pause the controller was told of stands, the controller's own ends (200 000 states) |
| `idleTray` | 2 edges, 1 user request, no faults | expected violation, section 6 |
| `gmailArchive` | 2 executors, 2 recoverers, 3 lease generations, 1 edit | one request, one observation, a truthful end (2 900 000 states) |

**Why the bounds suffice.** Every ledger row belongs to one decision, so
conflicts about an authority happen within one decision: two requests race for
it and a third finds the result (ingest, ingest again, respond). Only the
provider lease and the purge look across decisions; two decisions show those.
The policy evaluation reads three times, so one change between two reads already
gives each torn combination; two changes of a kind let it change and change back
(the case in which comparing values instead of revisions would fail), and a third
one is a change of the other kind meanwhile (`MaxChanges` bounds both together). `Credentialed` is empty in `oneDecision` and everything in
`twoDecisions`, so both kinds of lease occur. Requests are symmetric in
`oneDecision` (no property or action orders them); `twoDecisions`, which checks
liveness and the refinement, uses no symmetry. There `Faulty` is one of the two
requests: it may die at any point while the other one works.

* `memory`: with two attempts an opportunity has two decisions, two approvals
  and four processes over one barrier; a third attempt repeats the second. One
  fault kills any of them.
* `memoryQueue`: with three rows and batches of two, one row can be outranked by a
  full batch or by less than one. Two faults are a turn that fails half way and
  a worker that dies over the next.
* `rollback`: three callers are a winner, one that comes during the claim and one
  that comes after it; the second action shows that rows do not mix.
* `watch`: windows conflict pairwise, so two slots suffice; three ticks let a
  window be clamped, be shorter than the limit and be empty; two edits are a
  pause and a resume (or a deletion) at any point; two attempts are a take-over
  and a slot that is spent.
* `services`: two crashes are a child and its successor, or an API and the worker
  it leaves behind; the one request is a pause, a resume or quit at any point;
  `MaxRestarts` 2 reaches both a replacement and a spent budget. Sequences of
  requests are covered by the proofs, which bound nothing.
* `idle`: four edges are two idle periods, the second of which starts while the
  first one's resume may be under way; four requests are a pause, a resume, a
  pause again and a preference change, each from any entry point.
* `gmailArchive`: two executors race for the claim, two recoverers for the lease,
  and a third generation is a take-over of a take-over. Executors and recoverers
  are interchangeable (symmetry); the run has no liveness property.

**Deadlock** is checked in `memoryQueue`, which never stops, and not in the other
runs: requests, attempts, callers and user operations are
finitely many, an account may be purged, a pipeline ends with its terminal row
and an application is quit, so each of these systems may really stop.

**Fairness.** `ExecutionRoutes`: weak fairness of each accepted request's next step. A
handler waits only for the database and for an adapter, and adapter calls are
bounded by timeouts, after which the answer is "unclear". Nothing is assumed of
the owner, the clock or of requests that were never made. A request that died
settles nothing, and the code does not promise that it does: `ClaimSettles` is
about the requests no fault hits (`Requests \ Faulty`), while faults of the others
stay on. `OpportunityQueue`: the worker's poll starts the job when it is due and
the job goes on (weak fairness of `Job`), six hours and a day pass. Nothing is
assumed of which rows a claim takes, of the suggestions or of the owner; crashes
are never required and bounded by `MaxFaults`. `WatchRun`: the worker polls on a
timer (claims are weakly fair), ends what it began, and leases lapse; crashes are
never required and stay on.
`ServiceManager`: each asynchronous
function that can go on does, because the event loop serves every settled
promise and every wait in `stopProcess` has a timeout; timers and health checks
fire; exits, faults and requests are not required. `IdlePause`: the controller's
chain and the manager's promises settle, which is what `ServiceManager`'s
timeouts give. `GmailArchive` claims no liveness: nothing calls its recovery at
this commit, so nothing obliges it to run.

The properties:

* `AtMostOneEffect`: an action runs at most once per decision.
* `EffectHasAuthority`: what was sent is backed by one durable row naming it; an
  approval's effect by an approved, undenied row whose receipt was never claimed.
* `PurgeWaitsForEffects`: no purge under a request that may still reach the world.
* `LedgersTellTheTruth`: plan, result, receipt, barrier and lease agree; a plan
  failed before dispatch was not sent.
* `DualNeedsTwoConfirmations`: no approval of a dual request without a first
  confirmation.
* `GrantedUnderCurrentAuthority` (action property): a lease is granted only if
  the settings and policies stored at that moment permit the action.
* `TerminalIsFinal` (action property): terminal rows and recorded doubt are
  never rewritten.
* `OneUnresolvedPerProvider`: one unresolved dispatch per OAuth provider.
* `ImplementsOneShotEffect`: refinement of the abstract promise.
* `RouteInv`: the whole invariant the proofs establish, with every strengthening
  in it.
* `ClaimSettles` (liveness): what a request that no fault hits has claimed becomes
  terminal, unless the adapter's answer left the lease ambiguous, whatever
  happens to other requests.

Memory loop:

* `OneEffectPerOpportunity`: refinement of `OneShotEffect`; of all attempts one
  acts, and only the one in the barrier.
* `ConsentOrAuto`: an effect has the owner's yes, or was never put to the owner
  and was admitted under a verdict of auto.
* `ReportedDoneIsDone`, `BarrierAgrees`: the status and the barrier do not claim
  what the adapter did not do.
* `SuggestionsAnswered` (liveness, of `OpportunityQueue`): a suggestion is answered
  although turns fail and workers die over it, unless a full batch of retryable
  rows is ranked ahead of it.

Rollback: `UndoneOnce` (refinement), `LedgerTellsTheTruth`, `EndsOnce`.

Watch runs:

* `OneSlotInFlight`, `WindowsDisjoint`: no two slots of a watch at once; no signal
  reported twice.
* `OneHolder`: one worker at most passes the fence; `SettledIsFinal`.
* `SlotsSettle` (liveness): an abandoned slot is taken over until it completes or
  its attempts are spent.

Supervisor:

* `NoStrayDataClient`: no API or worker process without a handle to stop it.
* `AuthorityCanBeRevoked`: a worker that may be alive with an active row is the
  one the class remembers.
* `PausedIsQuiet`: after a pause that returned, no worker until the user resumes.
* `OrphanedWorkerIsContained`, `ApiIsReplaced` (liveness).

Idle pause:

* `NoticedPauseStands` (action property): nothing but the user's resume ends a
  pause the controller was told of, or had no claim to.
* `UserPauseStands` (action property): the same of every pause of the user, as the
  controller's comments promise it; expected to be violated (section 6).
* `AutoPauseEnds` (liveness): the controller's own pause ends when the user is
  back or switches the preference off.

Gmail archive:

* `TerminalTellsTheTruth`: the terminal row does not contradict Gmail, also when
  a request lands after it.
* `PostUsesAdmittedCredential`: the request goes out with the credential the gate
  admitted.
* `ObservedOnce`, `LeaseDiesWithAttempt`, `EvidenceIsFinal`: one observation, no
  capability after the end, nothing rewritten.
* `ArchiveIsOneShot`: refinement of `OneShotEffect`.

Each has a mutant in `PROJECT.json`: a plausible slip in one modelled
transaction or branch (defined next to the definition it changes, marked
"Mutant") under which TLC finds it violated.

## 5. What is proved

### 5.1 The two execution routes

`ExecutionRoutes_proofs` and `ExecutionRefinement_proofs` prove, for any number of
decisions, requests and revisions, with or without faults:

* `Invariance`: `Spec => []IndInv`
* `TypeCorrect`: `Spec => []TypeOK`
* `OneEffect`: `Spec => []AtMostOneEffect`
* `EffectsAreAuthorized`: `Spec => []EffectHasAuthority`
* `PurgeIsSafe`: `Spec => []PurgeWaitsForEffects`
* `GrantsAreCurrent`: `Spec => GrantedUnderCurrentAuthority`
* `Refinement`: `Spec => ImplementsOneShotEffect`
* `ProviderIsExclusive`: `Spec => []OneUnresolvedPerProvider`
* `TruthIsFinal`: `Spec => TerminalIsFinal`
* `LedgersAreTrue`: `Spec => []LedgersTellTheTruth`
* `DualIsDual`: `Spec => []DualNeedsTwoConfirmations`
* `RouteInvariance`: `Spec => []RouteInv`, the conjunction of all invariants

Assumptions: `LedgerConstants` (credentialed decisions are decisions, NULL is
not a plan id) and `RouteConstants` (`MaxChanges` is a number, `Faulty`
are requests).

**The argument.** `AtMostOneEffect` is not inductive: nothing in it prevents a
second request from standing before its call. `IndInv` adds

* `AuthoritiesExclude`: a claimed receipt and a barrier never coexist for a
  decision, and each names a request of its own route and decision. So a
  decision has one holder.
* `LeasesHoldAuthority`: a lease belongs to the holder, of an existing account;
  no transaction takes an authority away from its holder but the purge, which
  waits for leases.
* `CallersHoldLeases`: a request before or in its call has an unresolved lease.
* `EffectsHaveLeases`: while the account exists an effect keeps its lease.

Two effects on one decision would be two lease holders, hence two authorities.
After a purge the argument changes: the account is gone, no lease can be
granted, nobody is before a call (the purge waited), so no effect is added.
`GrantedUnderCurrentAuthority` needs the rest:

* `RevisionsFence`: as long as the stored revisions equal the remembered ones,
  the remembered verdict is the verdict of the stored settings and policies.
  This depends on the order of the reads, the revision before the policies.
* `StartersArePermitted`, `WritersKnowTheOutcome`: what a request has concluded
  when it asks for a lease or writes a result.

`LedgersTellTheTruth` relates five rows that a request writes one after the
other, and it may stop between any two of them. `TruthInv` says what the request
knows at each place:

* `AbortersHaveNoLease`: what an abort closes as failed has no lease, so it was
  not sent.
* `AnswersFollowCalls`: who waits for an answer, or has one, has called.
* `KnownIsRecorded`: a request that writes an outcome has read it off its own
  settled lease, so what it writes repeats that lease.
* `ReceiptsWait`: an ingesting request keeps its receipt running until the plan
  and the result are written, so nobody else settles it meanwhile.

`DualNeedsTwoConfirmations` needs `ConsentInv`: the level of a request is checked
when the answer arrives and used when it is recorded, three reads later.
`AnswersAreConfirmed` says that what was checked still holds then, and
`PurgedHaveNoApprovals` that a purge in between leaves nothing to record.

`ExecutionRoutes_proofs` first shows that each ledger transaction preserves the
parts about rows, then has one lemma per conjunct for the requests' steps and
joins them. `ExecutionRefinement_proofs` maps each kind of step to a grant, an
act, a forget or a stutter, and holds the truth and consent proofs.

### 5.2 The other effects

**`MemoryActionLoop_proofs`** proves, for any opportunities, attempts, policy
changes and faults (assumption `MemoryConstants`: NULL is neither an attempt nor
an opportunity, the bounds are numbers): `MemoryTypeCorrect`, `DoneIsDone`
(`ReportedDoneIsDone`), `BarriersAgree` (`BarrierAgrees`), `ConsentHolds`
(`ConsentOrAuto`) and `OpportunityIsOneShot` (`OneEffectPerOpportunity`). The
barrier is keyed by the opportunity and the two processes of an attempt share the
attempt's plan id, so the barrier alone does not tell them apart:
`HoldersAreBound` says that what acted or may act holds the barrier of its
opportunity, and `OneSideAdmitted` that of the two processes of an attempt one at
most is past its admission. `PlacesAreTrue` says what such a process finds
(nothing sent before its dispatch, its own answer after it), `ConsentIsHeld` what
it was admitted under, and `Begun` that an answer follows a question.

**`GmailArchive_proofs`** proves, for any executors, recoverers and bounds
(assumption `ArchiveConstants`: NULL is not an executor, the bounds are numbers):
`TerminalIsTrue` (`TerminalTellsTheTruth`), `CredentialIsAdmitted`
(`PostUsesAdmittedCredential`), `ObservationIsOnce` (`ObservedOnce`),
`LeaseIsRetired` (`LeaseDiesWithAttempt`), `EvidenceStaysFinal`
(`EvidenceIsFinal`) and `OneArchiveRequest` (`ArchiveIsOneShot`). The invariant is
`Shaped` (types, with numbers of any size), `Rows` (the columns of the barrier
agree with each other and its outcome with what Gmail did), `Places` (at each
await of `mutate` the executor alone holds the claim, and from the gate on the
phase says that a request may be out) and `Leases` (an observation that was begun
belongs to the stage the barrier is in, so no take-over can begin another).

**`RollbackAdmission_proofs`** proves, for any sets of actions and callers
(assuming only that NULL is not a caller): `RollbackTypeCorrect`, `LedgerIsTrue`
(`LedgerTellsTheTruth`), `LedgerEndsOnce` (`EndsOnce`) and `UndoIsOneShot`
(`UndoneOnce`). The truth of the ledger is not inductive: a claim may expire, and
the ledger say "unknown", while its holder is still calling. `RowsAgree` says
that the claim names its winner for ever and that only the winner undoes,
`HoldersKnow` that whoever is between claim and report won it and what it saw is
so, `DefiniteIsOver` that a definite outcome leaves nobody at work.

### 5.3 Background work and the desktop

**`WatchRun_proofs`** proves, for any number of watches, workers, slots, attempts
and ticks (assumption `WatchConstants`: the bounds are numbers, at least one
attempt): `WatchTypeCorrect`, `SlotsExclude` (`OneSlotInFlight`),
`SignalsCountedOnce` (`WindowsDisjoint`), `FenceExcludes` (`OneHolder`) and
`SettledStays` (`SettledIsFinal`). Disjoint windows need the boundary in the
watch: `WindowsBehindBoundary` (every window that may be reported ends at or
before `last_run_at`) and `BoundaryBehindClock`, so a new window starts after all
others. The fence needs `TokensIssued` (no token above the slot's attempts) and
`TokensDiffer` (two claims of a slot never share a token). `Kept` says what any
step leaves alone in a slot it does not create; each action is shown to satisfy
it once, and the invariants follow from it.

**`ServiceManager_proofs`** proves, for any number of crashes, faults, user requests
and restarts (assumption `BoundsAssumption`: the bounds are numbers, at least one
restart): `SupervisorTypeCorrect` (`TypeOK`), `NoDataClientStrays`
(`NoStrayDataClient`), `AuthorityStaysRevocable` (`AuthorityCanBeRevoked`) and
`PauseIsQuiet` (`PausedIsQuiet`), all from `SupervisorInvariance`. The parts of
`SupervisorInv`:

* `Shaped`, `QueueInv`, `TaskInv`: types; queued and running operations remember a
  pause epoch that has existed, and while a pause is in force an older one.
* `ForkInv`: the worker's handle is checked several awaits before the fork, so
  the invariant says that the latched start finds no handle at each place until
  it forks; likewise for the API between the stop of its predecessor and its
  own fork.
* `QuietInv`: while a pause is in force the worker is gone, or `pause()` still
  waits for it, or is about to report a failure; the resume under way is outdated
  and therefore enables nothing.
* `AuthorityInv`: forgetting a registration must not lose a live worker.
  `ForgetInv`: who is about to forget has seen that generation's worker stop, or
  waits for it. `StoppedInv`: what is being stopped is never the current
  generation. `FreshInv`: a generation under registration never had a worker.
  `StartInv`: a worker start under the current generation has it registered.
  `CurrentInv`: the current generation is the one of the API handle.

One lemma per action shows that it keeps `SupervisorInv`; the lemmas before them
say what the shared pieces (moving a task, stopping and waiting, queueing,
forgetting) do to each part.

**`IdlePause_proofs`** proves `NoticedPauseIsKept` (`NoticedPauseStands`) for any
number of idle transitions, requests and failures, from all three entry points.
`PauseHolds` is the strengthening: while the user's last word is a pause that was
noticed, the controller makes no claim to it and every resume under way carries
an older intent, so `IntentCurrent` refuses it. `ControllerIsSerial` (`TypeOK`):
the controller's promise chain has one call to the supervisor under way at most.
`Chained` ties the call that is awaited to the running operation.

### 5.4 Only model-checked

* Liveness (`ClaimSettles`, `SuggestionsAnswered`, `SlotsSettle`,
  `OrphanedWorkerIsContained`, `ApiIsReplaced`, `AutoPauseEnds`): reasoning about
  fairness is beyond the prover.
* The three expected violations of section 6, which are counterexamples.
* The step-counting bounds in the `TypeOK` of `GmailArchive`; the proofs let these
  numbers have any size.

## 6. What the checks found

`snapshotConflict`: `isDispatchable` compares the admitted policy snapshot with
the freshly evaluated one, reason text included, and *throws* on a difference.
If, between admission and recheck, a policy or the trust tier changes so that
the verdict still asks for approval but for another reason, the exception leaves
`routes/approvals.ts` for its outer `catch`, which closes nothing: the barrier
stays `in_progress` and the plan `running` although nothing was dispatched, and
the account can no longer be purged. `failBeforeDispatch` exists for this
("Atomically close an admitted plan when the caller has not invoked the router
yet."), and the ingest route closes its receipt in the same situation, because
it catches the exception around its recheck. Nothing unsafe happens: no effect
is sent.

`memoryAnswered`: the worker creates the approval request and only then writes
`queued_approval` on the opportunity. An answer that arrives in between is
refused its admission (the row is not yet queued for that decision), and the
status it writes is overwritten. The opportunity then waits for ever for an
answer that was given. Again nothing unsafe happens.

`idleTray`: "If the user manually paused the twin (kill switch, tray menu) and then
goes idle, we don't re-pause (already paused). When they come back, we don't
auto-resume either" (`idle-pause-controller.ts:12`), and of
`onManualPauseChange`: "the user manually flipped the pause state via the tray
menu / kill switch. We clear the auto-paused flag so the next active transition
doesn't override the user" (`:100`). The application menu and the IPC handlers
call it; the tray's click handler calls `pause()` alone (`tray.ts:154`). The controller pauses when the machine goes idle and waits for
the worker to exit; no status event has reached the tray yet, so its menu still
offers a pause, which the user clicks. The controller keeps its claim and resumes
at the next active edge, against the user's last word. A pause from the tray that
is not made over a pause of the controller stands, as `NoticedPauseStands` says
(`lastPause` is `"noticed"` when there was no claim to give up).

All the other properties hold of the code as modelled. Some behaviours met on the
way are no contradiction of a stated promise, or are harmless, but worth knowing.
Each can be reproduced:

* *A second web child.* A delayed web restart that fires after a resume has
  started the web child forks another over its handle (`service-manager.ts:1942`,
  `:1909`). Invariant `strays = {}` with 1 crash, 0 faults, 2 user requests.
  API and worker are protected (`NoStrayDataClient`), the web child holds no data.
* *An early replacement.* After an API `error` event, the containment runs outside
  the lifecycle queue, so a queued replacement may fork before the old children
  are gone (`service-manager.ts:1799`). 2 crashes, 0 faults, 1 user request.
* *A low-ranked suggestion.* A claim takes the first rows by novelty and confidence
  (`memory-action-opportunity-repository.ts:134`), and answered rows that stay
  retryable come due again after a day. `ClaimLimit` of them ahead of a suggestion
  can be claimed by every tick that comes a day or more after the last, and the
  suggestion waits for ever: `SuggestionsAnswered` without `Outranked` fails. With
  a tick every six hours four batches fit into a day and the rows are served in
  rotation, up to four batches of them.
* *A row that always throws.* An exception ends the owner's turn with what was
  claimed and not processed, which then waits for a day
  (`memory-action-loop.ts`). Beyond `MaxFaults` such a row at the head of
  every batch can hold back the others of its batch.
* *A stale preparation.* A prepared archive whose policy changed is answered
  `policy_stale` by every claim, and nothing closes its barrier; a `blocked`
  barrier keeps its recovery lease.

## 7. Running

```
tlc -workers 2 -config Routes_oneDecision.cfg MCExecutionRoutes
tlc -workers 2 -config Routes_twoDecisions.cfg MCExecutionRoutes
tlc -workers 2 -config Routes_snapshotConflict.cfg MCExecutionRoutes   # violation
tlc -workers 2 -config Memory_opportunity.cfg MCMemoryActionLoop
tlc -workers 2 -config Memory_queue.cfg MCOpportunityQueue
tlc -workers 2 -config Memory_answered.cfg MCMemoryActionLoop          # violation
tlc -workers 2 -config Rollback_safety.cfg MCRollbackAdmission
tlc -workers 2 -config WatchRun_slots.cfg MCWatchRun
tlc -workers 2 -config Services_supervisor.cfg MCServiceManager
tlc -workers 2 -config Idle_pause.cfg MCIdlePause
tlc -workers 2 -config Idle_tray.cfg MCIdlePause                       # violation
tlc -workers 2 -config Gmail_archive.cfg MCGmailArchive
tlapm ExecutionRoutes_proofs.tla
tlapm ExecutionRefinement_proofs.tla
tlapm RollbackAdmission_proofs.tla
tlapm WatchRun_proofs.tla
tlapm ServiceManager_proofs.tla
tlapm IdlePause_proofs.tla
tlapm MemoryActionLoop_proofs.tla
tlapm GmailArchive_proofs.tla
```
