--------------------------- MODULE ServiceManager ---------------------------
(***************************************************************************)
(* The supervisor of the packaged desktop application: it owns one API,    *)
(* one web and one worker child process and the durable authority row that *)
(* fences the worker's database access.                                    *)
(*                                                                         *)
(* Lifecycle operations run one at a time (runServiceLifecycle); pause(),  *)
(* the containment after an API `error' event, the latched worker start,   *)
(* the restart timers and the children's exits interleave with them at     *)
(* every await.  A generation is one API process and everything bound to   *)
(* it; generation 0 stands for null.                                       *)
(***************************************************************************)
EXTENDS Naturals, Sequences, FiniteSets

CONSTANTS
    MaxCrashes,     \* children that exit, and databases lost, on their own
    MaxFaults,      \* calls that fail or whose answer is lost
    MaxUserOps,     \* pause, resume and quit requests
    MaxRestarts     \* API failures after which it is no longer replaced

ASSUME BoundsAssumption ==
    /\ MaxCrashes \in Nat
    /\ MaxFaults \in Nat
    /\ MaxUserOps \in Nat
    /\ MaxRestarts \in Nat \ {0}

VARIABLES
    child,          \* the ManagedProcess of each service
    strays,         \* live children that no handle points to
    generation,     \* nextApiGeneration, apiGeneration, readyApiGeneration,
                    \* registeredWorkerGeneration, api.failureTimestamps
    recovering,     \* recoveringApiGenerations
    authority,      \* active rows of worker_generation_authority
    db,             \* activeDatabaseStartup and its validity
    intent,         \* paused, pauseIntentEpoch; quiet: a pause is in force
    monitoring,     \* the health check timer runs
    queue,          \* serviceLifecycleTail: operations not yet begun
    task,           \* the asynchronous functions under way
    timers,         \* armed restart timers of web and worker
    budget          \* crashes, faults and user requests so far

\* Changed by few actions.
apart == <<strays, recovering, authority, monitoring, timers>>

vars == <<child, strays, generation, recovering, authority, db, intent,
          monitoring, queue, task, timers, budget>>

Services == {"api", "web", "worker"}
Tasks == {"queue", "pause", "error", "starter"}
Operations == {"none", "start", "recover", "resume", "contain", "lost", "quit"}

NoChild == [gen |-> 0, st |-> "none"]
Running(g) == [gen |-> g, st |-> "live"]
Idle == [pc |-> "idle", op |-> "none", old |-> 0, new |-> 0, epoch |-> 0,
         wait |-> {}, revoking |-> 0, bad |-> FALSE, advanced |-> FALSE]

Op(kind, g) == [op |-> kind, gen |-> g, epoch |-> intent.epoch]

Init ==
    /\ child = [s \in Services |-> NoChild]
    /\ strays = {}
    /\ generation = [next |-> 0, current |-> 0, ready |-> 0, registered |-> 0,
                     failures |-> 0]
    /\ recovering = {}
    /\ authority = {}
    /\ db = "none"
    /\ intent = [paused |-> FALSE, epoch |-> 0, quiet |-> FALSE]
    /\ monitoring = FALSE
    /\ queue = <<[op |-> "start", gen |-> 0, epoch |-> 0]>>
    /\ task = [t \in Tasks |-> Idle]
    /\ timers = {}
    /\ budget = [crashes |-> 0, faults |-> 0, users |-> 0]

-----------------------------------------------------------------------------
(* Predicates and helpers of the class.                                    *)

IsServiceDatabaseCurrent == db = "current"

IsApiGenerationCurrent(g) ==
    /\ g # 0
    /\ generation.current = g
    /\ child.api.gen = g
    /\ child.api.st = "live"

IsApiGenerationReady(g) == generation.ready = g /\ IsApiGenerationCurrent(g)

RevokedApiGeneration(gs, g) ==
    IF g # 0 /\ gs.current = g
    THEN [gs EXCEPT !.current = 0, !.ready = IF @ = g THEN 0 ELSE @]
    ELSE gs

\* guardServiceDatabase after a failed check: the first to notice a loss
\* invalidates the startup and queues the containment of every service.
NoticeLoss(q) ==
    /\ db' = IF db = "lost" THEN "invalid" ELSE db
    /\ queue' = IF db = "lost" THEN Append(q, Op("lost", 0)) ELSE q

Fault == /\ budget.faults < MaxFaults
         /\ budget' = [budget EXCEPT !.faults = @ + 1]

Crash == /\ budget.crashes < MaxCrashes
         /\ budget' = [budget EXCEPT !.crashes = @ + 1]

UserAsks == /\ budget.users < MaxUserOps
            /\ budget' = [budget EXCEPT !.users = @ + 1]

-----------------------------------------------------------------------------
(* Stopping: stopProcess, stopDataServicesOwned and                        *)
(* stopDataServicesForApiGeneration.                                       *)

Held == {s \in Services : child[s].st # "none"}
BoundTo(g) == {s \in Services : child[s].st # "none" /\ child[s].gen = g}

\* The children after stopProcess was called on each of S.  A child that has
\* already exited is released at once.
Stopping(S) ==
    [s \in Services |->
        IF s \notin S THEN child[s]
        ELSE IF child[s].st = "dead" THEN NoChild
        ELSE [child[s] EXCEPT !.st = "stopping"]]

\* stopProcess(api) revokes the generation of the process it stops, unless
\* that process is already being terminated.
GenerationAfterStop(S) ==
    IF "api" \in S /\ child.api.st # "stopping"
    THEN RevokedApiGeneration(generation, child.api.gen)
    ELSE generation

\* Promise.allSettled over the revocation of g and the stops of S: task t
\* continues as u once all of them have settled.
StopAndWait(t, u, S, g) ==
    LET revokes == g # 0 /\ generation.registered = g /\ db = "current"
    IN  /\ child' = Stopping(S)
        /\ generation' = GenerationAfterStop(S)
        /\ task' = [task EXCEPT ![t] =
              [u EXCEPT !.wait = {s \in S : child[s].st # "dead"}
                                 \cup (IF revokes THEN {"revoke"} ELSE {}),
                        !.revoking = g,
                        !.bad = FALSE]]

StopDataServicesOwned(t, u) == StopAndWait(t, u, Held, generation.registered)
StopDataServicesForApiGeneration(t, u, g) == StopAndWait(t, u, BoundTo(g), g)

Settled(t) == task[t].wait = {}

\* The continuation after allSettled: when nothing failed, the registration
\* is forgotten.
Forgotten(t) ==
    [generation EXCEPT !.registered = IF @ = task[t].revoking THEN 0 ELSE @]

\* Mutant: the registration is forgotten although a stop failed.
AfterStopsAnyway(t) == Forgotten(t)

AfterStops(t) == IF task[t].bad THEN generation ELSE Forgotten(t)

\* Mutant: the generation a child was bound to is not reset.
ReleasedHandleOnly(s) == [child EXCEPT ![s].st = "none"]

\* The handle is nulled, and with it the generation the child was bound to.
Released(s) == [child EXCEPT ![s] = NoChild]

\* stopProcessOwned saw the child exit; every caller that joined is told.
StopProven(s) ==
    /\ child[s].st = "stopping"
    /\ child' = Released(s)
    /\ task' = [t \in Tasks |-> [task[t] EXCEPT !.wait = @ \ {s}]]
    /\ UNCHANGED <<apart, generation, db, intent, queue, budget>>

\* No exit within both timeouts: ChildTerminationError, the handle is kept.
StopUnproven(s) ==
    /\ child[s].st = "stopping"
    /\ Fault
    /\ child' = [child EXCEPT ![s].st = "live"]
    /\ task' = [t \in Tasks |->
                  IF s \in task[t].wait
                  THEN [task[t] EXCEPT !.wait = @ \ {s}, !.bad = TRUE]
                  ELSE task[t]]
    /\ UNCHANGED <<apart, generation, db, intent, queue>>

\* revokeWorkerGenerationAuthority commits.
Revoke(t) ==
    /\ "revoke" \in task[t].wait
    /\ db = "current"
    /\ authority' = authority \ {task[t].revoking}
    /\ task' = [task EXCEPT ![t].wait = @ \ {"revoke"}]
    /\ UNCHANGED <<child, strays, generation, recovering, db, intent,
                   monitoring, queue, timers, budget>>

\* It fails because the database is no longer owned, or for another reason,
\* possibly after its commit.
RevokeFails(t) ==
    /\ "revoke" \in task[t].wait
    /\ \/ /\ db # "current"
          /\ UNCHANGED <<authority, budget>>
       \/ /\ db = "current"
          /\ Fault
          /\ \/ UNCHANGED authority
             \/ authority' = authority \ {task[t].revoking}
    /\ task' = [task EXCEPT ![t].wait = @ \ {"revoke"}, ![t].bad = TRUE]
    /\ UNCHANGED <<child, strays, generation, recovering, db, intent,
                   monitoring, queue, timers>>

-----------------------------------------------------------------------------
(* Scheduling, shared by the exit handler, the `error' recovery and a      *)
(* failed replacement.                                                     *)

\* Mutant: a pause or a spent budget only skips the replacement.
ScheduleApiRestartUncontained(g, gs) ==
    IF ~IsServiceDatabaseCurrent
    THEN NoticeLoss(queue) /\ generation' = gs
    ELSE /\ generation' = [gs EXCEPT !.failures = @ + 1]
         /\ queue' = IF gs.failures + 1 >= MaxRestarts \/ intent.paused THEN queue
                     ELSE Append(queue, Op("recover", g))
         /\ UNCHANGED db

\* scheduleApiRestart with the class's generations at gs: contain when paused
\* or when the failure budget is spent, otherwise queue the replacement.
ScheduleApiRestart(g, gs) ==
    IF ~IsServiceDatabaseCurrent
    THEN NoticeLoss(queue) /\ generation' = gs
    ELSE LET failures == IF intent.paused THEN gs.failures ELSE gs.failures + 1
             contain == intent.paused \/ failures >= MaxRestarts
         IN  /\ generation' = [gs EXCEPT !.failures = failures]
             /\ queue' = Append(queue, Op(IF contain THEN "contain" ELSE "recover", g))
             /\ UNCHANGED db

\* api.restartCount has advanced during the lifecycle operation under way.
Advanced(ts) ==
    [ts EXCEPT !.queue.advanced =
        @ \/ (IsServiceDatabaseCurrent /\ ~intent.paused /\ ts.queue.pc # "idle")]

-----------------------------------------------------------------------------
(* registerWorkerGenerationAuthority, called by a lifecycle operation and  *)
(* by the worker start.                                                    *)

To(t, pc) == task' = [task EXCEPT ![t].pc = pc]

\* The capability is retained before the first write.
RegisterBegin(t) ==
    /\ task[t].pc = "register"
    /\ IF generation.registered \in {0, task[t].new}
       THEN /\ generation' = [generation EXCEPT !.registered = task[t].new]
            /\ To(t, "registering")
       ELSE /\ To(t, "caught")
            /\ UNCHANGED generation
    /\ UNCHANGED <<apart, child, db, intent, queue, budget>>

Authorized(g) == IsServiceDatabaseCurrent /\ IsApiGenerationCurrent(g)

\* One transaction: every other row is deactivated, this one activated.
RegisterCommit(t) ==
    /\ task[t].pc = "registering"
    /\ Authorized(task[t].new)
    /\ authority' = {task[t].new}
    /\ To(t, "registered")
    /\ UNCHANGED <<child, strays, generation, recovering, db, intent,
                   monitoring, queue, timers, budget>>

RegisterFails(t) ==
    /\ task[t].pc = "registering"
    /\ \/ /\ ~Authorized(task[t].new)
          /\ UNCHANGED <<authority, budget>>
       \/ /\ Authorized(task[t].new)
          /\ Fault
          /\ \/ UNCHANGED authority
             \/ authority' = {task[t].new}
    /\ To(t, "unregister")
    /\ UNCHANGED <<child, strays, generation, recovering, db, intent,
                   monitoring, queue, timers>>

\* What the caller does next when the registration stands.
AfterRegister(t) == IF t = "queue" THEN "readiness" ELSE "fork"

Registered(t) ==
    /\ task[t].pc = "registered"
    /\ IF ~IsServiceDatabaseCurrent
       THEN /\ db' = IF db = "lost" THEN "invalid" ELSE db
            /\ StopDataServicesOwned(t, [task[t] EXCEPT !.pc = "unmaking"])
       ELSE IF ~IsApiGenerationCurrent(task[t].new)
       THEN /\ StopDataServicesForApiGeneration(t,
                   [task[t] EXCEPT !.pc = "unmaking"], task[t].new)
            /\ UNCHANGED db
       ELSE /\ To(t, AfterRegister(t))
            /\ UNCHANGED <<child, generation, db>>
    /\ UNCHANGED <<apart, intent, queue, budget>>

\* clearInvalidatedDatabaseStartup.
Cleared(gs) ==
    IF db = "invalid" /\ gs.registered = 0 /\ Held = {} THEN "none" ELSE db

\* The check failed and its stops have settled.
Unmade(t) ==
    /\ task[t].pc = "unmaking"
    /\ Settled(t)
    /\ generation' = AfterStops(t)
    /\ db' = IF task[t].bad THEN db ELSE Cleared(generation')
    /\ To(t, "unregister")
    /\ UNCHANGED <<apart, child, intent, queue, budget>>

\* Reconcile by the retained capability, then rethrow.
Unregister(t) ==
    /\ task[t].pc = "unregister"
    /\ task' = [task EXCEPT ![t].pc = "unregistering", ![t].wait = {"revoke"},
                            ![t].revoking = task[t].new, ![t].bad = FALSE]
    /\ UNCHANGED <<apart, child, generation, db, intent, queue, budget>>

Unregistered(t) ==
    /\ task[t].pc = "unregistering"
    /\ Settled(t)
    /\ generation' = AfterStops(t)
    /\ To(t, "caught")
    /\ UNCHANGED <<apart, child, db, intent, queue, budget>>

Register(t) ==
    \/ RegisterBegin(t)
    \/ RegisterCommit(t)
    \/ RegisterFails(t)
    \/ Registered(t)
    \/ Unmade(t)
    \/ Unregister(t)
    \/ Unregistered(t)

-----------------------------------------------------------------------------
(* startWeb and startWorker.                                               *)

\* fork overwrites the handle whatever it holds.
Fork(s, g) ==
    /\ child' = [child EXCEPT ![s] = Running(g)]
    /\ strays' = IF child[s].st \in {"live", "stopping"}
                 THEN strays \cup {<<s, child[s].gen>>}
                 ELSE strays

\* startWeb forks under its generation's ready proof, or returns.
StartWeb(g, q) ==
    IF ~IsServiceDatabaseCurrent
    THEN NoticeLoss(q) /\ UNCHANGED <<child, strays>>
    ELSE /\ IF IsApiGenerationReady(g)
            THEN Fork("web", g)
            ELSE UNCHANGED <<child, strays>>
         /\ queue' = q
         /\ UNCHANGED db

\* The synchronous part of startWorker for generation g, before its first
\* await: the start is begun, refused because a child is retained, or void.
WorkerRetained == child.worker.st # "none"

\* Mutant: a retained worker child does not refuse the start.
WorkerStartableTwice(g) ==
    ~intent.paused /\ IsServiceDatabaseCurrent /\ IsApiGenerationReady(g)

WorkerStartable(g) ==
    /\ ~WorkerRetained
    /\ ~intent.paused
    /\ IsServiceDatabaseCurrent
    /\ IsApiGenerationReady(g)

Starter(g) ==
    [Idle EXCEPT !.pc = IF generation.registered = g THEN "fork" ELSE "register",
                 !.new = g]

\* The latched start settles: the lifecycle operation that joined it goes on.
StarterEnds(bad) ==
    task' = [task EXCEPT !.starter = Idle,
                         !.queue = IF @.pc = "joining"
                                   THEN [@ EXCEPT !.pc = "workerStarted",
                                                  !.bad = bad]
                                   ELSE @]

\* Mutant: the pause is not looked at again after the await.
MayForkPaused(g) == IsServiceDatabaseCurrent /\ IsApiGenerationReady(g)

\* After the last await before the fork, everything is checked again, except
\* whether a handle is held: the latch stands for that.
MayFork(g) ==
    /\ ~intent.paused
    /\ IsServiceDatabaseCurrent
    /\ IsApiGenerationReady(g)

ForkWorker ==
    /\ task.starter.pc = "fork"
    /\ IF MayFork(task.starter.new)
       THEN /\ Fork("worker", task.starter.new)
            /\ To("starter", "attach")
            /\ UNCHANGED <<db, queue>>
       ELSE /\ StarterEnds(FALSE)
            /\ IF intent.paused \/ IsServiceDatabaseCurrent
               THEN UNCHANGED <<db, queue>>
               ELSE NoticeLoss(queue)
            /\ UNCHANGED <<child, strays>>
    /\ UNCHANGED <<generation, recovering, authority, intent, monitoring,
                   timers, budget>>

\* The key broker is attached; authority lost meanwhile stops the child
\* without waiting for it.
WorkerAttached ==
    /\ task.starter.pc = "attach"
    /\ child.worker.gen = task.starter.new
    /\ StarterEnds(FALSE)
    /\ IF IsServiceDatabaseCurrent /\ IsApiGenerationReady(task.starter.new)
       THEN UNCHANGED <<child, db, queue>>
       ELSE /\ child' = Stopping({"worker"})
            /\ IF IsServiceDatabaseCurrent
               THEN UNCHANGED <<db, queue>>
               ELSE NoticeLoss(queue)
    /\ UNCHANGED <<apart, generation, intent, budget>>

\* Attachment fails, or the child is gone: what is left of it is stopped.
WorkerNotAttached ==
    /\ task.starter.pc = "attach"
    /\ \/ /\ child.worker.gen # task.starter.new
          /\ StarterEnds(FALSE)
          /\ UNCHANGED <<child, generation, budget>>
       \/ /\ child.worker.gen = task.starter.new
          /\ Fault
          /\ StopAndWait("starter", [task.starter EXCEPT !.pc = "detaching"],
                         {"worker"}, 0)
    /\ UNCHANGED <<apart, db, intent, queue>>

\* Only an unproven termination leaves the start as an error; an exception of
\* the registration does, too.
StarterSettles ==
    /\ \/ task.starter.pc = "detaching" /\ Settled("starter")
       \/ task.starter.pc = "caught"
    /\ StarterEnds(task.starter.pc = "caught" \/ task.starter.bad)
    /\ UNCHANGED <<apart, child, generation, db, intent, queue, budget>>

-----------------------------------------------------------------------------
(* The lifecycle queue.  Each operation is begun when the one before it    *)
(* has settled.                                                            *)

Q == task.queue
Goto(pc) == To("queue", pc)
Finish == task' = [task EXCEPT !.queue = Idle]
Begun(o) == [Idle EXCEPT !.op = o.op, !.old = o.gen, !.epoch = o.epoch]

Next1(o) == queue # <<>> /\ Q.pc = "idle" /\ Head(queue).op = o

\* startAllOwned, up to the database.
BeginStart ==
    /\ Next1("start")
    /\ db = "none" /\ generation.registered = 0 /\ Held = {}
    /\ intent' = [intent EXCEPT !.paused = FALSE, !.quiet = FALSE]
    /\ task' = [task EXCEPT !.queue = [Begun(Head(queue)) EXCEPT !.pc = "database"]]
    /\ queue' = Tail(queue)
    /\ UNCHANGED <<apart, child, generation, db, budget>>

\* The managed database is started and migrated, or startup throws.
StartDatabase ==
    /\ Q.pc = "database"
    /\ \/ /\ db' = "current"
          /\ Goto("spawn")
          /\ UNCHANGED budget
       \/ /\ Fault
          /\ Finish
          /\ UNCHANGED db
    /\ UNCHANGED <<apart, child, generation, intent, queue>>

\* Mutant: a replacement gives way to nobody, too.
SupersededByNone(g) == generation.current # g

\* A queued replacement yields to a successor that is already there;
\* otherwise it stops what is left of the failed generation.
Superseded(g) == generation.current \notin {0, g}

BeginRecover ==
    /\ Next1("recover")
    /\ LET u == Begun(Head(queue))
       IN  IF Superseded(u.old)
           THEN UNCHANGED <<child, generation, task>>
           ELSE StopDataServicesForApiGeneration("queue",
                    [u EXCEPT !.pc = "contain"], u.old)
    /\ queue' = Tail(queue)
    /\ UNCHANGED <<apart, db, intent, budget>>

\* Containment after a pause, a spent budget or a lost listener identity.
BeginContain ==
    /\ Next1("contain")
    /\ LET u == Begun(Head(queue))
       IN  StopDataServicesForApiGeneration("queue",
               [u EXCEPT !.pc = "contain"], u.old)
    /\ queue' = Tail(queue)
    /\ UNCHANGED <<apart, db, intent, budget>>

\* Containment after the loss of the database, and stopAll.
BeginStopOwned ==
    /\ Next1("lost") \/ Next1("quit")
    /\ StopDataServicesOwned("queue", [Begun(Head(queue)) EXCEPT !.pc = "contain"])
    /\ monitoring' = (monitoring /\ Head(queue).op # "quit")
    /\ queue' = Tail(queue)
    /\ UNCHANGED <<strays, recovering, authority, db, intent, timers, budget>>

\* A generation resume() may build on instead of replacing it.
Reusable ==
    LET g == generation.current
    IN  /\ IsApiGenerationReady(g)
        /\ generation.registered = g
        /\ child.web.st = "none" \/ (child.web.gen = g /\ child.web.st = "live")

\* resumeOwned: refused while a worker is retained; cancelled by a newer
\* pause; otherwise it rebuilds what is missing while still paused.
BeginResume ==
    /\ Next1("resume")
    /\ LET u == [Begun(Head(queue)) EXCEPT !.old = generation.current,
                                           !.new = generation.current]
       IN  IF WorkerRetained
           THEN UNCHANGED <<child, generation, intent, task>>
           ELSE /\ intent' = [intent EXCEPT !.paused = TRUE]
                /\ IF u.epoch # intent.epoch \/ ~IsServiceDatabaseCurrent
                   THEN /\ task' = [task EXCEPT !.queue = [u EXCEPT !.pc = "caught"]]
                        /\ UNCHANGED <<child, generation>>
                   ELSE IF Reusable
                   THEN /\ task' = [task EXCEPT !.queue = [u EXCEPT !.pc = "web"]]
                        /\ UNCHANGED <<child, generation>>
                   ELSE StopDataServicesOwned("queue", [u EXCEPT !.pc = "contain"])
    /\ queue' = Tail(queue)
    /\ UNCHANGED <<apart, db, budget>>

\* The operation no longer has the user's intent behind it.
Cancelled ==
    \/ Q.op = "recover" /\ intent.paused
    \/ Q.op = "resume" /\ Q.epoch # intent.epoch

\* requireServiceDatabaseCurrent with the database gone.
LoseDatabase ==
    /\ db' = IF db = "lost" THEN "invalid" ELSE db
    /\ StopDataServicesOwned("queue", [Q EXCEPT !.pc = "losing"])
    /\ UNCHANGED queue

\* The stops an operation begins with have settled.
ContainFails ==
    /\ Q.pc = "contain" /\ Settled("queue") /\ Q.bad
    /\ IF Q.op \in {"recover", "resume"} THEN Goto("caught") ELSE Finish
    /\ UNCHANGED <<apart, child, generation, db, intent, queue, budget>>

Contained ==
    /\ Q.pc = "contain" /\ Settled("queue") /\ ~Q.bad
    /\ \/ /\ Q.op = "contain"
          /\ generation' = Forgotten("queue")
          /\ IF IsServiceDatabaseCurrent
             THEN UNCHANGED <<db, queue>>
             ELSE NoticeLoss(queue)
          /\ Finish
          /\ UNCHANGED child
       \/ /\ Q.op = "lost"
          /\ generation' = Forgotten("queue")
          /\ db' = Cleared(generation')
          /\ Finish
          /\ UNCHANGED <<child, queue>>
       \/ /\ Q.op = "quit"
          /\ generation' = Forgotten("queue")
          /\ db' = "none"
          /\ Finish
          /\ UNCHANGED <<child, queue>>
       \/ /\ Q.op = "recover"
          /\ generation' = Forgotten("queue")
          /\ IF Cancelled
             THEN Finish /\ UNCHANGED <<db, queue>>
             ELSE IF ~IsServiceDatabaseCurrent
             THEN Finish /\ NoticeLoss(queue)
             ELSE Goto("spawn") /\ UNCHANGED <<db, queue>>
          /\ UNCHANGED child
       \/ /\ Q.op = "resume"
          /\ generation' = Forgotten("queue")
          /\ task' = [task EXCEPT !.queue.new = 0,
                                  !.queue.pc = IF Cancelled THEN "caught" ELSE "spawn"]
          /\ UNCHANGED <<child, db, queue>>
    /\ UNCHANGED <<apart, intent, budget>>

\* startApi stops an API child it still holds before it forks another one.
ClearApi ==
    /\ Q.pc = "spawn"
    /\ ~Cancelled /\ IsServiceDatabaseCurrent
    /\ child.api.st # "none"
    /\ StopAndWait("queue", [Q EXCEPT !.pc = "clearing"], {"api"}, 0)
    /\ UNCHANGED <<apart, db, intent, queue, budget>>

ApiCleared ==
    /\ Q.pc = "clearing" /\ Settled("queue")
    /\ Goto(IF Q.bad THEN "caught" ELSE "respawn")
    /\ UNCHANGED <<apart, child, generation, db, intent, queue, budget>>

\* startApi: a new generation is forked under the current database.
SpawnApi ==
    /\ \/ Q.pc = "spawn" /\ ~Cancelled /\ child.api.st = "none"
       \/ Q.pc = "respawn"
    /\ IsServiceDatabaseCurrent
    /\ LET g == generation.next + 1
       IN  /\ generation' = [generation EXCEPT !.next = g, !.current = g,
                                               !.ready = 0]
           /\ Fork("api", g)
           /\ task' = [task EXCEPT !.queue.pc = "attach", !.queue.new = g]
    /\ UNCHANGED <<recovering, authority, db, intent, monitoring, queue,
                   timers, budget>>

\* The database or the intent went before the fork: a replacement returns, a
\* resume throws, start and resume contain everything without a database.
SpawnRefused ==
    /\ \/ /\ Q.pc = "spawn" /\ Cancelled
          /\ IF Q.op = "recover" THEN Finish ELSE Goto("caught")
          /\ UNCHANGED <<child, generation, db, queue>>
       \/ /\ Q.pc = "spawn" /\ ~Cancelled /\ ~IsServiceDatabaseCurrent
          /\ IF Q.op = "recover"
             THEN NoticeLoss(queue) /\ Finish /\ UNCHANGED <<child, generation>>
             ELSE LoseDatabase
       \/ /\ Q.pc = "respawn" /\ ~IsServiceDatabaseCurrent
          /\ NoticeLoss(queue)
          /\ Goto("spawned")
          /\ UNCHANGED <<child, generation>>
    /\ UNCHANGED <<apart, intent, budget>>

ApiAttached ==
    /\ Q.pc = "attach"
    /\ IsApiGenerationCurrent(Q.new)
    /\ IF IsServiceDatabaseCurrent
       THEN /\ Goto("spawned")
            /\ UNCHANGED <<child, generation, db, queue>>
       ELSE /\ NoticeLoss(queue)
            /\ child' = Stopping({"api"})
            /\ generation' = GenerationAfterStop({"api"})
            /\ task' = [task EXCEPT !.queue.pc = "spawned", !.queue.new = 0]
    /\ UNCHANGED <<apart, intent, budget>>

ApiNotAttached ==
    /\ Q.pc = "attach"
    /\ \/ ~IsApiGenerationCurrent(Q.new) /\ UNCHANGED budget
       \/ IsApiGenerationCurrent(Q.new) /\ Fault
    /\ IF child.api.gen = Q.new
       THEN StopAndWait("queue", [Q EXCEPT !.pc = "detaching"], {"api"}, 0)
       ELSE /\ task' = [task EXCEPT !.queue.pc = "spawned", !.queue.new = 0]
            /\ UNCHANGED <<child, generation>>
    /\ UNCHANGED <<apart, db, intent, queue>>

\* startApi returns null once the child is gone, and throws when it is not.
ApiDetached ==
    /\ Q.pc = "detaching" /\ Settled("queue")
    /\ task' = [task EXCEPT !.queue.new = 0,
                            !.queue.pc = IF Q.bad THEN "caught" ELSE "spawned"]
    /\ UNCHANGED <<apart, child, generation, db, intent, queue, budget>>

\* A paused replacement stops the generation it has just begun.
Abandon ==
    StopDataServicesForApiGeneration("queue", [Q EXCEPT !.pc = "abandoning"], Q.new)

Spawned ==
    /\ Q.pc = "spawned"
    /\ \/ /\ Q.op = "start"
          /\ IF ~IsServiceDatabaseCurrent
             THEN LoseDatabase
             ELSE /\ IF IsApiGenerationCurrent(Q.new)
                     THEN Goto("register") /\ UNCHANGED <<child, generation>>
                     ELSE StopDataServicesOwned("queue", [Q EXCEPT !.pc = "cleaning"])
                  /\ UNCHANGED <<db, queue>>
       \/ /\ Q.op = "recover"
          /\ IF Cancelled
             THEN Abandon
             ELSE /\ Goto(IF Q.new = 0 THEN "caught" ELSE "register")
                  /\ UNCHANGED <<child, generation>>
          /\ UNCHANGED <<db, queue>>
       \/ /\ Q.op = "resume"
          /\ Goto(IF Cancelled \/ ~IsApiGenerationCurrent(Q.new)
                  THEN "caught" ELSE "register")
          /\ UNCHANGED <<child, generation, db, queue>>
    /\ UNCHANGED <<apart, intent, budget>>

\* waitForApi and markApiGenerationReady.
ApiReady ==
    /\ Q.pc = "readiness"
    /\ ~Cancelled
    /\ Authorized(Q.new)
    /\ generation' = [generation EXCEPT !.ready = Q.new,
                                       !.failures = IF Q.op = "start" THEN 0 ELSE @]
    /\ Goto("web")
    /\ UNCHANGED <<apart, child, db, intent, queue, budget>>

ApiNotReady ==
    /\ Q.pc = "readiness"
    /\ \/ (Cancelled \/ ~Authorized(Q.new)) /\ UNCHANGED budget
       \/ ~Cancelled /\ Authorized(Q.new) /\ Fault
    /\ IF Q.op = "start"
       THEN IF ~IsServiceDatabaseCurrent
            THEN LoseDatabase
            ELSE /\ StopDataServicesOwned("queue", [Q EXCEPT !.pc = "cleaning"])
                 /\ UNCHANGED <<db, queue>>
       ELSE /\ IF IsServiceDatabaseCurrent
               THEN UNCHANGED <<db, queue>>
               ELSE NoticeLoss(queue)
            /\ IF Q.op = "recover" /\ Cancelled
               THEN Abandon
               ELSE Goto("caught") /\ UNCHANGED <<child, generation>>
    /\ UNCHANGED <<apart, intent>>

\* resume() keeps a web child it found; the others always start one.
LaunchWeb ==
    /\ Q.pc = "web"
    /\ IF Q.op = "resume" /\ child.web.st # "none"
       THEN UNCHANGED <<child, strays, db, queue>>
       ELSE StartWeb(Q.new, queue)
    /\ Goto("webStarted")
    /\ UNCHANGED <<generation, recovering, authority, intent, monitoring,
                   timers, budget>>

\* A checkpoint after a stage of the operation: cancelled, without its
\* database, without its generation, or on to the next stage.
Checkpoint(needsDb, holds, then) ==
    IF Cancelled /\ Q.op = "recover"
    THEN Abandon /\ UNCHANGED <<db, queue>>
    ELSE IF Cancelled
    THEN Goto("caught") /\ UNCHANGED <<child, generation, db, queue>>
    ELSE IF needsDb /\ ~IsServiceDatabaseCurrent
    THEN LoseDatabase
    ELSE IF ~holds /\ Q.op = "start"
    THEN /\ StopDataServicesForApiGeneration("queue",
                [Q EXCEPT !.pc = "cleaning"], Q.new)
         /\ UNCHANGED <<db, queue>>
    ELSE IF ~holds /\ Q.op = "resume" /\ then = "worker"
    THEN Abandon /\ UNCHANGED <<db, queue>>
    ELSE /\ Goto(IF holds THEN then ELSE "caught")
         /\ UNCHANGED <<child, generation, db, queue>>

WebStarted ==
    /\ Q.pc = "webStarted"
    /\ Checkpoint(TRUE,
                  IF Q.op = "start"
                  THEN IsApiGenerationCurrent(Q.new)
                  ELSE /\ IsApiGenerationReady(Q.new)
                       /\ child.web.st # "none" /\ child.web.gen = Q.new
                       /\ Q.op = "resume" => child.web.st = "live",
                  "worker")
    /\ UNCHANGED <<apart, intent, budget>>

\* resume() enables the worker, unless a newer pause forbids it.
EnableWorker ==
    /\ Q.pc = "worker"
    /\ Q.op = "resume"
    /\ IF Cancelled
       THEN Goto("caught") /\ UNCHANGED <<generation, intent>>
       ELSE /\ Goto("launch")
            /\ generation' = [generation EXCEPT !.failures = 0]
            /\ intent' = [intent EXCEPT !.paused = FALSE]
    /\ UNCHANGED <<apart, child, db, queue, budget>>

\* startWorker: join the start under way, begin one, or return at once.
LaunchWorker ==
    /\ Q.pc = "launch" \/ (Q.pc = "worker" /\ Q.op # "resume")
    /\ IF task.starter.pc # "idle"
       THEN Goto("joining") /\ UNCHANGED <<db, queue>>
       ELSE IF WorkerStartable(Q.new)
       THEN /\ task' = [task EXCEPT !.queue.pc = "joining",
                                    !.starter = Starter(Q.new)]
            /\ UNCHANGED <<db, queue>>
       ELSE /\ task' = [task EXCEPT !.queue.pc = "workerStarted",
                                    !.queue.bad = WorkerRetained]
            /\ IF WorkerRetained \/ intent.paused \/ IsServiceDatabaseCurrent
               THEN UNCHANGED <<db, queue>>
               ELSE NoticeLoss(queue)
    /\ UNCHANGED <<apart, child, generation, intent, budget>>

WorkerStarted ==
    /\ Q.pc = "workerStarted"
    /\ IF Q.bad
       THEN Goto("caught") /\ UNCHANGED <<child, generation, db, queue>>
       ELSE Checkpoint(Q.op # "resume",
                       IF Q.op = "start"
                       THEN IsApiGenerationCurrent(Q.new)
                       ELSE /\ IsApiGenerationReady(Q.new)
                            /\ WorkerRetained /\ child.worker.gen = Q.new,
                       "done")
    /\ UNCHANGED <<apart, intent, budget>>

\* start and recover leave the health monitor running.
Done ==
    /\ Q.pc = "done"
    /\ monitoring' = (monitoring \/ Q.op # "resume")
    /\ Finish
    /\ UNCHANGED <<child, strays, generation, recovering, authority, db,
                   intent, queue, timers, budget>>

\* The containment of a lost database has settled; the operation throws.
Lost ==
    /\ Q.pc = "losing" /\ Settled("queue")
    /\ generation' = AfterStops("queue")
    /\ db' = IF Q.bad THEN db ELSE Cleared(generation')
    /\ Goto("caught")
    /\ UNCHANGED <<apart, child, intent, queue, budget>>

\* The generation a cancelled or refused operation began is contained.
Abandoned ==
    /\ Q.pc = "abandoning" /\ Settled("queue")
    /\ generation' = AfterStops("queue")
    /\ IF Q.op = "recover" /\ ~Q.bad THEN Finish ELSE Goto("caught")
    /\ UNCHANGED <<apart, child, db, intent, queue, budget>>

\* The catch blocks: start has none, recover and resume stop the generation
\* they attempted, and resume is paused again.
Caught ==
    /\ Q.pc = "caught"
    /\ LET g == IF Q.op = "resume" /\ Q.new = 0 THEN Q.old ELSE Q.new
       IN  IF Q.op # "start" /\ g # 0
           THEN StopDataServicesForApiGeneration("queue",
                    [Q EXCEPT !.pc = "cleaning"], g)
           ELSE /\ IF Q.op = "recover" THEN Goto("reschedule") ELSE Finish
                /\ UNCHANGED <<child, generation>>
    /\ intent' = IF Q.op = "resume" THEN [intent EXCEPT !.paused = TRUE] ELSE intent
    /\ UNCHANGED <<apart, db, queue, budget>>

Cleaned ==
    /\ Q.pc = "cleaning" /\ Settled("queue")
    /\ generation' = AfterStops("queue")
    /\ IF Q.op = "recover" /\ ~Q.bad THEN Goto("reschedule") ELSE Finish
    /\ UNCHANGED <<apart, child, db, intent, queue, budget>>

\* A failed replacement schedules the next one, unless the exit handler of
\* its own API child has done so.
Reschedule ==
    /\ Q.pc = "reschedule"
    /\ LET owns == ~Q.advanced /\ Q.new \notin recovering
       IN  IF intent.paused
           THEN UNCHANGED <<recovering, generation, db, queue>>
           ELSE /\ recovering' = IF Q.new = 0 THEN recovering ELSE recovering \cup {Q.new}
                /\ IF owns
                   THEN ScheduleApiRestart(IF Q.new = 0 THEN Q.old ELSE Q.new, generation)
                   ELSE UNCHANGED <<generation, db, queue>>
    /\ Finish
    /\ UNCHANGED <<child, strays, authority, intent, monitoring, timers,
                   budget>>

Lifecycle ==
    \/ BeginStart \/ BeginRecover \/ BeginContain \/ BeginStopOwned \/ BeginResume
    \/ StartDatabase \/ ContainFails \/ Contained
    \/ ClearApi \/ ApiCleared \/ SpawnApi \/ SpawnRefused
    \/ ApiAttached \/ ApiNotAttached \/ ApiDetached
    \/ Spawned \/ ApiReady \/ ApiNotReady
    \/ LaunchWeb \/ WebStarted \/ EnableWorker \/ LaunchWorker \/ WorkerStarted
    \/ Done \/ Lost \/ Abandoned \/ Caught \/ Cleaned \/ Reschedule

-----------------------------------------------------------------------------
(* What interleaves with the queue.                                        *)

\* pause(): the intent is recorded at once; it returns when the worker is
\* known to be gone.
Pause ==
    /\ UserAsks
    /\ task.pause.pc = "idle"
    /\ intent' = [paused |-> TRUE, epoch |-> intent.epoch + 1, quiet |-> TRUE]
    /\ IF WorkerRetained
       THEN StopAndWait("pause", [Idle EXCEPT !.pc = "stopping"], {"worker"}, 0)
       ELSE UNCHANGED <<child, generation, task>>
    /\ UNCHANGED <<apart, db, queue>>

\* A worker that may still be alive is contained by revoking its authority
\* and stopping its generation; the pause then reports its failure.
PauseSettles ==
    /\ task.pause.pc = "stopping" /\ Settled("pause")
    /\ IF task.pause.bad
       THEN /\ StopDataServicesOwned("pause", [task.pause EXCEPT !.pc = "containing"])
            /\ intent' = [intent EXCEPT !.quiet = FALSE]
       ELSE /\ UNCHANGED intent
            /\ task' = [task EXCEPT !.pause = Idle]
            /\ UNCHANGED <<child, generation>>
    /\ UNCHANGED <<apart, db, queue, budget>>

PauseContained ==
    /\ task.pause.pc = "containing" /\ Settled("pause")
    /\ generation' = AfterStops("pause")
    /\ task' = [task EXCEPT !.pause = Idle]
    /\ UNCHANGED <<apart, child, db, intent, queue, budget>>

Resume ==
    /\ UserAsks
    /\ queue' = Append(queue, Op("resume", 0))
    /\ intent' = [intent EXCEPT !.quiet = FALSE]
    /\ UNCHANGED <<apart, child, generation, db, task>>

Quit ==
    /\ UserAsks
    /\ queue' = Append(queue, Op("quit", 0))
    /\ UNCHANGED <<apart, child, generation, db, intent, task>>

\* handleApiExit.  An exit of a generation whose recovery is already claimed
\* leaves the handle to whoever claimed it.
ApiExits ==
    /\ Crash
    /\ child.api.st = "live"
    /\ LET g == child.api.gen
       IN  IF g \in recovering
           THEN /\ child' = [child EXCEPT !.api.st = "dead"]
                /\ UNCHANGED <<generation, recovering, task, db, queue>>
           ELSE /\ recovering' = recovering \cup {g}
                /\ child' = Released("api")
                /\ task' = Advanced(task)
                /\ ScheduleApiRestart(g, RevokedApiGeneration(generation, g))
    /\ UNCHANGED <<strays, authority, intent, monitoring, timers>>

\* recoverFromApiProcessError: no proof of exit, so everything bound to the
\* generation is stopped before a replacement is scheduled.
ApiErrors ==
    /\ Crash
    /\ child.api.st = "live"
    /\ child.api.gen \notin recovering
    /\ task.error.pc = "idle"
    /\ LET g == child.api.gen
       IN  /\ recovering' = recovering \cup {g}
           /\ StopDataServicesForApiGeneration("error",
                   [Idle EXCEPT !.pc = "containing", !.old = g], g)
    /\ UNCHANGED <<strays, authority, db, intent, monitoring, queue, timers>>

ErrorContained ==
    /\ task.error.pc = "containing" /\ Settled("error")
    /\ IF task.error.bad
       THEN /\ task' = [task EXCEPT !.error = Idle]
            /\ UNCHANGED <<generation, db, queue>>
       ELSE /\ task' = Advanced([task EXCEPT !.error = Idle])
            /\ ScheduleApiRestart(task.error.old, Forgotten("error"))
    /\ UNCHANGED <<apart, child, intent, budget>>

\* The exit handlers of web and worker: a failure arms a restart timer while
\* the generation it belongs to is the ready one.
ChildExits(s) ==
    /\ Crash
    /\ child[s].st = "live"
    /\ child' = Released(s)
    /\ \/ UNCHANGED <<timers, db, queue>>       \* exit code 0, or budget spent
       \/ /\ ~intent.paused /\ ~IsServiceDatabaseCurrent
          /\ NoticeLoss(queue)
          /\ UNCHANGED timers
       \/ /\ ~intent.paused /\ IsServiceDatabaseCurrent
          /\ IsApiGenerationReady(child[s].gen)
          /\ timers' = timers \cup {<<s, child[s].gen>>}
          /\ UNCHANGED <<db, queue>>
    /\ UNCHANGED <<strays, generation, recovering, authority, intent,
                   monitoring, task>>

WebTimer(g) ==
    /\ <<"web", g>> \in timers
    /\ timers' = timers \ {<<"web", g>>}
    /\ StartWeb(g, queue)
    /\ UNCHANGED <<generation, recovering, authority, intent, monitoring, task,
                   budget>>

WorkerTimer(g) ==
    /\ <<"worker", g>> \in timers
    /\ timers' = timers \ {<<"worker", g>>}
    /\ IF task.starter.pc = "idle" /\ WorkerStartable(g)
       THEN task' = [task EXCEPT !.starter = Starter(g)]
       ELSE UNCHANGED task
    /\ IF IsServiceDatabaseCurrent THEN UNCHANGED <<db, queue>> ELSE NoticeLoss(queue)
    /\ UNCHANGED <<child, strays, generation, recovering, authority, intent,
                   monitoring, budget>>

\* runHealthCheck finds another listener on the API's port:
\* schedulePackagedApiIdentityLoss contains the generation for good.
ApiIdentityLost ==
    /\ monitoring
    /\ IsServiceDatabaseCurrent
    /\ Fault
    /\ LET g == generation.current
       IN  /\ IsApiGenerationReady(g)
           /\ g \notin recovering
           /\ recovering' = recovering \cup {g}
           /\ generation' = RevokedApiGeneration(generation, g)
           /\ queue' = Append(queue, Op("contain", g))
    /\ UNCHANGED <<child, strays, authority, db, intent, monitoring, task,
                   timers>>

\* The managed database child exits (noticed at once), or its ownership
\* changes, which the next check notices.
DatabaseLost ==
    /\ Crash
    /\ db = "current"
    /\ \/ /\ db' = "invalid"
          /\ queue' = Append(queue, Op("lost", 0))
       \/ /\ db' = "lost"
          /\ UNCHANGED queue
    /\ UNCHANGED <<apart, child, generation, intent, task>>

HealthNoticesLoss ==
    /\ monitoring
    /\ db = "lost"
    /\ NoticeLoss(queue)
    /\ UNCHANGED <<apart, child, generation, intent, task, budget>>

-----------------------------------------------------------------------------
TaskStep(t) ==
    \/ Revoke(t)
    \/ RevokeFails(t)
    \/ CASE t = "queue" -> Lifecycle \/ Register("queue")
         [] t = "starter" -> \/ Register("starter") \/ ForkWorker
                             \/ WorkerAttached \/ WorkerNotAttached
                             \/ StarterSettles
         [] t = "pause" -> PauseSettles \/ PauseContained
         [] t = "error" -> ErrorContained

Stop(s) == StopProven(s) \/ StopUnproven(s)

Timer == \E g \in 1..generation.next : WebTimer(g) \/ WorkerTimer(g)

Environment ==
    \/ Pause \/ Resume \/ Quit
    \/ ApiExits \/ ApiErrors \/ ChildExits("web") \/ ChildExits("worker")
    \/ ApiIdentityLost \/ DatabaseLost

Next ==
    \/ \E t \in Tasks : TaskStep(t)
    \/ \E s \in Services : Stop(s)
    \/ Timer
    \/ HealthNoticesLoss
    \/ Environment

Spec == Init /\ [][Next]_vars

-----------------------------------------------------------------------------
(* Properties.                                                             *)

\* Type correctness; a service without a handle is bound to no generation
\* (webApiGeneration and workerApiGeneration are reset with the handle), and
\* only the API's handle can outlive an exit.
TypeOK ==
    LET Gens == 0..generation.next
    IN  /\ child \in [Services -> [gen : Gens,
                                   st : {"none", "live", "stopping", "dead"}]]
        /\ \A s \in Services : child[s].st = "none" <=> child[s].gen = 0
        /\ child.web.st # "dead" /\ child.worker.st # "dead"
        /\ strays \subseteq Services \X Gens
        /\ generation \in [next : Nat, current : Gens, ready : Gens,
                           registered : Gens, failures : Nat]
        /\ recovering \subseteq Gens /\ authority \subseteq Gens
        /\ db \in {"none", "current", "lost", "invalid"}
        /\ intent \in [paused : BOOLEAN, epoch : Nat, quiet : BOOLEAN]
        /\ monitoring \in BOOLEAN
        /\ timers \subseteq {"web", "worker"} \X Gens

\* No API and no worker is ever forked over a handle that is still held, so
\* every process that can write to the database can also be stopped: the
\* latch of startWorker, the retained-child check and startApi's own stop
\* together, whatever timer, resume or replacement races them.
NoStrayDataClient == \A x \in strays : x[1] = "web"

\* A worker that may be alive and whose authority row is active is the one
\* registeredWorkerGeneration names, so a later containment can revoke it:
\* no failed stop, lost commit or lost database makes the class forget it.
AuthorityCanBeRevoked ==
    child.worker.st # "none" /\ child.worker.gen \in authority
        => generation.registered = child.worker.gen

\* Once pause() has returned without an error, and until the user asks for a
\* resume, no worker child exists, although replacements, restart timers and
\* a resume asked for earlier may be at any of their awaits.
PausedIsQuiet ==
    intent.quiet /\ task.pause.pc = "idle" => child.worker.st = "none"

\* Each asynchronous function that can go on eventually does: the event loop
\* serves every settled promise, stopProcess has a timeout on every wait, and
\* timers fire.  Exits, faults and requests are never required.
Fairness ==
    /\ \A t \in Tasks : WF_vars(TaskStep(t))
    /\ \A s \in Services : WF_vars(Stop(s))
    /\ WF_vars(Timer)
    /\ WF_vars(HealthNoticesLoss)

FairSpec == Spec /\ Fairness

\* A worker that outlived its API generation does not keep its database
\* authority: scheduleApiRestart contains it also when it is paused or has no
\* restart budget left, and one failed stop or revocation does not prevent
\* it.  (A lost database ends the authority with the connection.)
OrphanedWorker ==
    /\ child.worker.st # "none"
    /\ child.worker.gen \in authority
    /\ generation.current # child.worker.gen
OrphanedWorkerIsContained == OrphanedWorker ~> (~OrphanedWorker \/ db # "current")

\* When nothing fails but children that exit, a lost API is replaced and
\* becomes ready again, until the user pauses or its restart budget is spent.
ApiIsReplaced ==
    db = "current" /\ generation.current = 0
        ~> \/ generation.ready # 0
           \/ db # "current"
           \/ intent.paused
           \/ generation.failures >= MaxRestarts
           \/ budget.faults > 0

=============================================================================
