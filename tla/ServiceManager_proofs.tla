----------------------- MODULE ServiceManager_proofs ------------------------
(***************************************************************************)
(* Safety of the desktop supervisor, for any number of crashes, faults,    *)
(* requests and restarts: no worker and no API child is forked over a held *)
(* handle, a pause that has returned leaves no worker, and a worker with   *)
(* active authority is the one a later containment revokes.                *)
(***************************************************************************)
EXTENDS ServiceManager, TLAPS

-----------------------------------------------------------------------------
(* The inductive invariant.                                                *)

Gens == 0..generation.next
Kid == [gen : Gens, st : {"none", "live", "stopping", "dead"}]
Counters == [next : Nat, current : Gens, ready : Gens, registered : Gens,
             failures : Nat]
Pcs == {"idle", "database", "contain", "spawn", "clearing", "respawn", "attach",
        "detaching", "spawned", "register", "registering", "registered",
        "unmaking", "unregister", "unregistering", "readiness", "web",
        "webStarted", "worker", "launch", "joining", "workerStarted", "done",
        "losing", "abandoning", "caught", "cleaning", "reschedule", "fork",
        "stopping", "containing"}
Waits == Services \cup {"revoke"}
TaskRec == [pc : Pcs, op : Operations, old : Gens, new : Gens, epoch : Nat,
            wait : SUBSET Waits, revoking : Gens, bad : BOOLEAN,
            advanced : BOOLEAN]
OpRec == [op : Operations, gen : Gens, epoch : Nat]
DbStates == {"none", "current", "lost", "invalid"}

\* The pcs of registerWorkerGenerationAuthority, of a start that has not forked
\* yet, of a lifecycle operation whose API is not ready yet, of one that has no
\* API yet, and of the waits after which a registration is forgotten.
Registration == {"register", "registering", "registered", "unmaking",
                 "unregister", "unregistering"}
BeforeFork == {"fork"} \cup Registration
Unready == {"attach", "spawned", "readiness"} \cup Registration
BeforeSpawn == {"database", "spawn", "clearing", "respawn"}
StopPhases == {"unmaking", "contain", "losing", "abandoning", "cleaning",
               "containing"}

ChildTypes ==
    /\ child \in [Services -> Kid]
    /\ \A s \in Services : child[s].st = "none" <=> child[s].gen = 0
    /\ child.web.st # "dead" /\ child.worker.st # "dead"

\* Everything but the queue and the tasks has its type.
Shaped ==
    /\ ChildTypes
    /\ strays \subseteq Services \X Gens
    /\ generation \in Counters
    /\ recovering \subseteq Gens /\ authority \subseteq Gens
    /\ db \in DbStates
    /\ intent \in [paused : BOOLEAN, epoch : Nat, quiet : BOOLEAN]
    /\ monitoring \in BOOLEAN
    /\ timers \subseteq {"web", "worker"} \X Gens

\* Queued operations remember a pause intent that has existed; while a pause
\* is in force, a queued resume remembers an older one.
QueueInv ==
    /\ queue \in Seq(OpRec)
    /\ \A i \in 1..Len(queue) :
          /\ queue[i].epoch <= intent.epoch
          /\ intent.quiet /\ queue[i].op = "resume" => queue[i].epoch < intent.epoch

TaskInv ==
    /\ task \in [Tasks -> TaskRec]
    /\ task.pause.pc # "unregistering" /\ task.error.pc # "unregistering"
    /\ task.starter.pc = "idle" <=> task.starter.new = 0
    /\ task.queue.pc = "attach" => task.queue.new # 0
    /\ \/ task.queue.pc \in BeforeSpawn
       \/ task.queue.pc = "contain" /\ task.queue.op = "recover"
       => task.queue.new = 0

\* The two places that fork the API and the worker find no handle.
ForkInv ==
    /\ task.starter.pc \in BeforeFork => child.worker.st = "none"
    /\ task.queue.pc = "clearing" =>
          /\ "api" \in task.queue.wait => child.api.st = "stopping"
          /\ "api" \notin task.queue.wait /\ ~task.queue.bad => child.api.st = "none"
    /\ task.queue.pc = "respawn" => child.api.st = "none"
    /\ \A x \in strays : x[1] = "web"

\* While a pause is in force, the worker is gone, or pause() still waits for
\* it, or pause() is about to report that it failed; and the resume under way
\* is outdated.
QuietInv ==
    /\ task.queue.epoch <= intent.epoch
    /\ intent.quiet =>
          /\ intent.paused
          /\ task.queue.op = "resume" => task.queue.epoch < intent.epoch
          /\ task.pause.pc # "containing"
          /\ task.pause.pc = "idle" => child.worker.st = "none"
          /\ task.pause.pc = "stopping" =>
                \/ child.worker.st = "none"
                \/ task.pause.bad
                \/ "worker" \in task.pause.wait /\ child.worker.st = "stopping"

\* The current generation is the one of the API handle, not yet being stopped.
CurrentInv ==
    generation.current # 0 =>
        child.api.gen = generation.current /\ child.api.st \in {"live", "dead"}

\* A generation whose services are being stopped is never the current one.
StoppedInv ==
    \A t \in Tasks : task[t].pc \in StopPhases =>
        task[t].revoking = 0 \/ task[t].revoking # generation.current

\* The generation a lifecycle operation registers has never had a worker.
FreshInv ==
    task.queue.pc \in Unready /\ task.queue.new # 0 =>
        /\ generation.ready # task.queue.new
        /\ child.worker.gen # task.queue.new
        /\ task.starter.new # task.queue.new

\* Who is about to forget a registration has seen its worker stop, or waits.
ForgetInv ==
    \A t \in Tasks :
        /\ task[t].pc = "unregistering" => task[t].revoking = task[t].new
        /\ /\ task[t].pc \in StopPhases \cup {"unregistering"}
           /\ ~task[t].bad
           /\ child.worker.st # "none"
           /\ child.worker.gen = task[t].revoking
           => "worker" \in task[t].wait

\* A worker start under a current generation has that generation registered.
StartInv ==
    /\ task.starter.pc \in {"registering", "registered", "fork"}
    /\ generation.current = task.starter.new
    => generation.registered = task.starter.new

AuthorityInv ==
    /\ CurrentInv /\ StoppedInv /\ FreshInv /\ ForgetInv /\ StartInv
    /\ AuthorityCanBeRevoked

SupervisorInv ==
    Shaped /\ QueueInv /\ TaskInv /\ ForkInv /\ QuietInv /\ AuthorityInv

-----------------------------------------------------------------------------
(* What the shared pieces of the actions do, field by field.               *)

\* The tasks other than t are as they were.
Others(t) == \A x \in Tasks \ {t} : task'[x] = task[x]

\* A step without a new generation leaves the set of generations alone.
LEMMA SameGens ==
    ASSUME generation'.next = generation.next
    PROVE  /\ Gens' = Gens /\ Kid' = Kid /\ Counters' = Counters
           /\ TaskRec' = TaskRec /\ OpRec' = OpRec
  BY DEF Gens, Kid, Counters, TaskRec, OpRec

\* The resting record of a task is typed.
LEMMA IdleTyped ==
    ASSUME Shaped
    PROVE  /\ 0 \in Gens /\ Idle \in TaskRec
           /\ Idle.pc = "idle" /\ Idle.op = "none" /\ Idle.new = 0
           /\ Idle.epoch = 0 /\ Idle.bad = FALSE /\ Idle.wait = {}
           /\ Idle.revoking = 0
<1>1. 0 \in Gens
  BY DEF Shaped, Counters, Gens
<1>2. Idle \in TaskRec
  BY <1>1 DEF Idle, TaskRec, Pcs, Operations
<1>3. /\ Idle.pc = "idle" /\ Idle.op = "none" /\ Idle.new = 0
      /\ Idle.epoch = 0 /\ Idle.bad = FALSE /\ Idle.wait = {}
      /\ Idle.revoking = 0
  BY DEF Idle
<1> QED
  BY <1>1, <1>2, <1>3

\* A task that moves on changes its place and nothing else.
LEMMA ToEffect ==
    ASSUME task \in [Tasks -> TaskRec], NEW t \in Tasks, NEW pc \in Pcs, To(t, pc)
    PROVE  /\ task' \in [Tasks -> TaskRec]
           /\ Others(t)
           /\ task'[t].pc = pc /\ task'[t].op = task[t].op
           /\ task'[t].old = task[t].old /\ task'[t].new = task[t].new
           /\ task'[t].epoch = task[t].epoch /\ task'[t].wait = task[t].wait
           /\ task'[t].revoking = task[t].revoking /\ task'[t].bad = task[t].bad
  BY DEF To, TaskRec, Others

\* A lifecycle operation that ends leaves an idle record.
LEMMA FinishEffect ==
    ASSUME Shaped, TaskInv, Finish
    PROVE  task' \in [Tasks -> TaskRec] /\ Others("queue") /\ task'.queue = Idle
  BY IdleTyped DEF Finish, Others, TaskInv, Tasks

\* What StopAndWait does.  A child that had exited is released, the others of
\* S are being stopped and waited for; stopping the API revokes its generation.
StopFacts(t, u, S, g) ==
    /\ task' \in [Tasks -> TaskRec] /\ Others(t)
    /\ task'[t].pc = u.pc /\ task'[t].op = u.op /\ task'[t].new = u.new
    /\ task'[t].epoch = u.epoch /\ task'[t].revoking = g /\ task'[t].bad = FALSE
    /\ "worker" \in task'[t].wait <=> "worker" \in S
    /\ "api" \in task'[t].wait <=> "api" \in S /\ child.api.st # "dead"
    /\ ChildTypes'
    /\ child'.worker.gen = child.worker.gen
    /\ child'.worker.st = IF "worker" \in S THEN "stopping" ELSE child.worker.st
    /\ "api" \notin S => child'.api = child.api
    /\ "api" \in S => child'.api.st = IF child.api.st = "dead" THEN "none" ELSE "stopping"
    /\ generation' \in Counters
    /\ generation'.next = generation.next
    /\ generation'.registered = generation.registered
    /\ generation'.ready \in {generation.ready, 0}
    /\ "api" \notin S => generation'.current = generation.current
    /\ "api" \in S => generation'.current = 0

\* The generations after a stop: the API's own is revoked.
LEMMA AfterStopEffect ==
    ASSUME Shaped, CurrentInv, NEW S, generation' = GenerationAfterStop(S)
    PROVE  /\ generation' \in Counters
           /\ generation'.next = generation.next
           /\ generation'.registered = generation.registered
           /\ generation'.ready \in {generation.ready, 0}
           /\ "api" \notin S => generation'.current = generation.current
           /\ "api" \in S => generation'.current = 0
<1>0. generation \in Counters /\ 0 \in Gens
  BY IdleTyped DEF Shaped
<1>1. CASE "api" \in S /\ child.api.st # "stopping" /\ child.api.gen # 0
           /\ generation.current = child.api.gen
  <2>1. generation' = [generation EXCEPT !.current = 0,
                          !.ready = IF @ = child.api.gen THEN 0 ELSE @]
    BY <1>1 DEF GenerationAfterStop, RevokedApiGeneration
  <2> QED
    BY <1>0, <1>1, <2>1 DEF Counters
<1>2. CASE ~("api" \in S /\ child.api.st # "stopping" /\ child.api.gen # 0
             /\ generation.current = child.api.gen)
  <2>1. generation' = generation
    BY <1>2 DEF GenerationAfterStop, RevokedApiGeneration
  <2>2. "api" \in S => generation.current = 0
    BY <1>2 DEF CurrentInv
  <2> QED
    BY <1>0, <2>1, <2>2
<1> QED
  BY <1>1, <1>2

\* The children after stopProcess was called on each of S.
LEMMA StoppingEffect ==
    ASSUME Shaped, NEW S \in SUBSET Held, child' = Stopping(S), Gens' = Gens
    PROVE  /\ ChildTypes'
           /\ child'.worker.gen = child.worker.gen
           /\ child'.worker.st = IF "worker" \in S THEN "stopping" ELSE child.worker.st
           /\ "api" \notin S => child'.api = child.api
           /\ "api" \in S => child'.api.st = IF child.api.st = "dead" THEN "none" ELSE "stopping"
<1>0. /\ child \in [Services -> Kid] /\ Kid' = Kid /\ 0 \in Gens
      /\ \A s \in Services : child[s].st = "none" <=> child[s].gen = 0
      /\ child.web.st # "dead" /\ child.worker.st # "dead"
  BY IdleTyped DEF Shaped, ChildTypes, Kid
<1>1. NoChild \in Kid /\ NoChild.st = "none" /\ NoChild.gen = 0
  BY <1>0 DEF NoChild, Kid
<1>2. ASSUME NEW s \in Services
      PROVE  /\ child'[s] \in Kid
             /\ s \notin S => child'[s] = child[s]
             /\ s \in S /\ child[s].st = "dead" => child'[s] = NoChild
             /\ s \in S /\ child[s].st # "dead" =>
                  child'[s].st = "stopping" /\ child'[s].gen = child[s].gen
  <2>1. s \notin S => child'[s] = child[s]
    BY <1>2 DEF Stopping
  <2>2. s \in S /\ child[s].st = "dead" => child'[s] = NoChild
    BY <1>2 DEF Stopping
  <2>3. s \in S /\ child[s].st # "dead" => child'[s] = [child[s] EXCEPT !.st = "stopping"]
    BY <1>2 DEF Stopping
  <2> QED
    BY <1>0, <1>1, <2>1, <2>2, <2>3 DEF Kid
<1>3. child' \in [Services -> Kid]
  <2>1. child' = [s \in Services |-> child'[s]]
    BY DEF Stopping
  <2> QED
    BY <1>2, <2>1
<1>4. \A s \in S : s \in Services /\ child[s].st # "none"
  BY DEF Held
<1>5. \A s \in Services : child'[s].st = "none" <=> child'[s].gen = 0
  BY <1>0, <1>1, <1>2, <1>4
<1>6. "web" \in Services /\ "worker" \in Services /\ "api" \in Services
  BY DEF Services
<1>7. /\ child'.worker.gen = child.worker.gen
      /\ child'.worker.st = IF "worker" \in S THEN "stopping" ELSE child.worker.st
  BY <1>0, <1>2, <1>6
<1>8. /\ "api" \notin S => child'.api = child.api
      /\ "api" \in S => child'.api.st = IF child.api.st = "dead" THEN "none" ELSE "stopping"
  BY <1>1, <1>2, <1>6
<1>9. child'.web.st # "dead" /\ child'.worker.st # "dead"
  BY <1>0, <1>1, <1>2, <1>6
<1> QED
  BY <1>0, <1>3, <1>5, <1>7, <1>8, <1>9 DEF ChildTypes

\* StopAndWait does what StopFacts says.
LEMMA StopEffect ==
    ASSUME Shaped, TaskInv, CurrentInv, NEW t \in Tasks, NEW u \in TaskRec,
           NEW S \in SUBSET Held, NEW g \in Gens, StopAndWait(t, u, S, g)
    PROVE  StopFacts(t, u, S, g)
<1> DEFINE wait == {s \in S : child[s].st # "dead"}
                   \cup (IF g # 0 /\ generation.registered = g /\ db = "current"
                         THEN {"revoke"} ELSE {})
<1>1. /\ child' = Stopping(S) /\ generation' = GenerationAfterStop(S)
      /\ task' = [task EXCEPT ![t] = [u EXCEPT !.wait = wait, !.revoking = g, !.bad = FALSE]]
  BY DEF StopAndWait
<1>2. /\ generation' \in Counters
      /\ generation'.next = generation.next
      /\ generation'.registered = generation.registered
      /\ generation'.ready \in {generation.ready, 0}
      /\ "api" \notin S => generation'.current = generation.current
      /\ "api" \in S => generation'.current = 0
  BY <1>1, AfterStopEffect
<1>3. Gens' = Gens
  BY <1>2, SameGens
<1>4. /\ ChildTypes'
      /\ child'.worker.gen = child.worker.gen
      /\ child'.worker.st = IF "worker" \in S THEN "stopping" ELSE child.worker.st
      /\ "api" \notin S => child'.api = child.api
      /\ "api" \in S => child'.api.st = IF child.api.st = "dead" THEN "none" ELSE "stopping"
  BY <1>1, <1>3, StoppingEffect
<1>5. /\ wait \in SUBSET Waits
      /\ "worker" \in wait <=> "worker" \in S
      /\ "api" \in wait <=> "api" \in S /\ child.api.st # "dead"
  <2>1. child.worker.st # "dead"
    BY DEF Shaped, ChildTypes
  <2> QED
    BY <2>1 DEF Waits, Held
<1> HIDE DEF wait
<1> DEFINE r1 == [u EXCEPT !.wait = wait]
<1> DEFINE r2 == [r1 EXCEPT !.revoking = g]
<1> DEFINE r3 == [r2 EXCEPT !.bad = FALSE]
<1>6. /\ r1 \in TaskRec /\ r1.wait = wait /\ r1.pc = u.pc /\ r1.op = u.op
      /\ r1.new = u.new /\ r1.epoch = u.epoch
  BY <1>5 DEF TaskRec
<1> HIDE DEF r1
<1>7. /\ r2 \in TaskRec /\ r2.wait = wait /\ r2.pc = u.pc /\ r2.op = u.op
      /\ r2.new = u.new /\ r2.epoch = u.epoch /\ r2.revoking = g
  BY <1>6 DEF TaskRec
<1> HIDE DEF r2
<1>8. /\ r3 \in TaskRec /\ r3.wait = wait /\ r3.pc = u.pc /\ r3.op = u.op
      /\ r3.new = u.new /\ r3.epoch = u.epoch /\ r3.revoking = g /\ r3.bad = FALSE
  BY <1>7 DEF TaskRec
<1>9. task' = [task EXCEPT ![t] = r3]
  BY <1>1 DEF r1, r2
<1> HIDE DEF r3
<1>10. task' \in [Tasks -> TaskRec] /\ Others(t) /\ task'[t] = r3
  BY <1>8, <1>9 DEF TaskInv, Others
<1> QED
  BY <1>2, <1>4, <1>5, <1>8, <1>10 DEF StopFacts

\* The stops this class makes: everything held or bound to a generation before
\* a registration is forgotten, and a continuation the invariants allow.
StopOk(t, u, S, g) ==
    /\ u.pc \notin {"unregistering", "respawn", "attach"}
    /\ u.pc \in StopPhases => S = Held \/ S = BoundTo(g)
    /\ t = "queue" =>
          /\ u.pc \notin {"database", "spawn"}
          /\ u.pc = "clearing" => S = {"api"} /\ u.new = 0
          /\ u.pc = "contain" /\ u.op = "recover" => u.new = 0
          /\ u.pc \in Unready => task.queue.pc \in Unready /\ u.new = task.queue.new
    /\ t = "starter" =>
          /\ u.pc \notin {"idle", "registering", "registered", "fork"}
          /\ task.starter.pc # "idle" /\ u.new = task.starter.new
          /\ u.pc \in BeforeFork => task.starter.pc \in BeforeFork

\* A stop keeps everything but what it says of the queue and the intent.
LEMMA StopKeeps ==
    ASSUME SupervisorInv, NEW t \in Tasks, NEW u \in TaskRec,
           NEW S \in SUBSET Held, NEW g \in Gens, StopAndWait(t, u, S, g),
           StopOk(t, u, S, g), authority' = authority, strays' = strays
    PROVE  /\ StopFacts(t, u, S, g)
           /\ TaskInv' /\ ForkInv' /\ AuthorityInv'
<1> USE DEF SupervisorInv, AuthorityInv
<1>1. StopFacts(t, u, S, g)
  BY StopEffect
<1>2. TaskRec' = TaskRec /\ {"queue", "starter", "pause", "error"} \subseteq Tasks
  BY <1>1, SameGens DEF StopFacts, Tasks
<1>3. \A x \in Tasks : x # t => task'[x] = task[x]
  BY <1>1 DEF StopFacts, Others
<1>4. TaskInv'
  <2>1. CASE t = "queue"
    BY <1>1, <1>2, <1>3, <2>1 DEF StopFacts, StopOk, TaskInv, BeforeSpawn
  <2>2. CASE t # "queue"
    BY <1>1, <1>2, <1>3, <2>2 DEF StopFacts, StopOk, TaskInv
  <2> QED
    BY <2>1, <2>2
<1>5. /\ child.worker.st = "none" => child'.worker.st = "none"
      /\ child.api.st = "none" => child'.api = child.api
      /\ child.api.st = "stopping" => child'.api.st = "stopping"
  BY <1>1 DEF StopFacts, Held
<1>6. ForkInv'
  <2>1. task'.starter.pc \in BeforeFork => child'.worker.st = "none"
    BY <1>1, <1>2, <1>3, <1>5 DEF StopFacts, StopOk, ForkInv
  <2>2. ASSUME task'.queue.pc = "clearing"
        PROVE  /\ "api" \in task'.queue.wait => child'.api.st = "stopping"
               /\ "api" \notin task'.queue.wait /\ ~task'.queue.bad => child'.api.st = "none"
    <3>1. CASE t = "queue"
      BY <1>1, <2>2, <3>1 DEF StopFacts, StopOk
    <3>2. CASE t # "queue"
      BY <1>2, <1>3, <1>5, <2>2, <3>2 DEF ForkInv
    <3> QED
      BY <3>1, <3>2
  <2>3. task'.queue.pc = "respawn" => child'.api.st = "none"
    BY <1>1, <1>2, <1>3, <1>5 DEF StopFacts, StopOk, ForkInv
  <2> QED
    BY <2>1, <2>2, <2>3 DEF ForkInv
<1>7. generation'.current \in {generation.current, 0}
  BY <1>1 DEF StopFacts
<1>8. CurrentInv'
  BY <1>1 DEF StopFacts, CurrentInv
<1>9. StoppedInv'
  <2>1. ASSUME u.pc \in StopPhases PROVE g = 0 \/ g # generation'.current
    <3>1. S = Held \/ S = BoundTo(g)
      BY <2>1 DEF StopOk
    <3>2. generation.current # 0 /\ (S = Held \/ generation.current = g) => "api" \in S
      BY <3>1 DEF CurrentInv, Held, BoundTo, Services
    <3> QED
      BY <1>1, <3>1, <3>2 DEF StopFacts
  <2> QED
    BY <1>1, <1>3, <1>7, <2>1 DEF StopFacts, StoppedInv
<1>10. FreshInv'
  BY <1>1, <1>2, <1>3, IdleTyped DEF StopFacts, StopOk, FreshInv
<1>11. ForgetInv'
  <2>1. u.pc \in StopPhases /\ child.worker.st # "none" /\ child.worker.gen = g
           => "worker" \in S
    BY DEF StopOk, Held, BoundTo, Services
  <2>2. child'.worker.st # "none" => child.worker.st # "none"
    BY <1>5
  <2>3. ASSUME NEW x \in Tasks
        PROVE  /\ task'[x].pc = "unregistering" => task'[x].revoking = task'[x].new
               /\ /\ task'[x].pc \in StopPhases \cup {"unregistering"}
                  /\ ~task'[x].bad
                  /\ child'.worker.st # "none"
                  /\ child'.worker.gen = task'[x].revoking
                  => "worker" \in task'[x].wait
    <3>1. CASE x = t
      BY <1>1, <2>1, <2>2, <3>1 DEF StopFacts, StopOk
    <3>2. CASE x # t
      BY <1>1, <1>3, <2>2, <2>3, <3>2 DEF StopFacts, ForgetInv
    <3> QED
      BY <3>1, <3>2
  <2> QED
    BY <2>3 DEF ForgetInv
<1>12. StartInv'
  <2>1. task'.starter.pc \in {"registering", "registered", "fork"} => task'.starter = task.starter
    BY <1>1, <1>2, <1>3 DEF StopFacts, StopOk
  <2>2. task.starter.pc \in {"registering", "registered", "fork"} => task.starter.new # 0
    BY DEF TaskInv
  <2> QED
    BY <1>1, <1>7, <2>1, <2>2 DEF StopFacts, StartInv
<1>13. AuthorityCanBeRevoked'
  BY <1>1, <1>5 DEF StopFacts, AuthorityCanBeRevoked
<1> QED
  BY <1>1, <1>4, <1>6, <1>8, <1>9, <1>10, <1>11, <1>12, <1>13

-----------------------------------------------------------------------------
(* Steps that move tasks and begin no wait for a child.                    *)

\* Task x is where it was, and waits for the same children.
Stays(x) ==
    /\ task'[x].pc = task[x].pc /\ task'[x].new = task[x].new
    /\ task'[x].op = task[x].op
    /\ task'[x].revoking = task[x].revoking
    /\ "worker" \in task'[x].wait <=> "worker" \in task[x].wait
    /\ "api" \in task'[x].wait <=> "api" \in task[x].wait
    /\ task[x].bad => task'[x].bad

\* Task x has moved to a pc that the invariants ask nothing new of.
Moves(x) ==
    /\ task'[x].pc \notin StopPhases \cup {"unregistering", "clearing", "attach"}
    /\ x = "queue" =>
          /\ task'[x].pc = "respawn" => child'.api.st = "none"
          /\ task'[x].pc \in BeforeSpawn => task'[x].new = 0
          /\ task'[x].pc \in Unready =>
                \/ task'.queue.new = 0
                \/ task.queue.pc \in Unready /\ task'.queue.new = task.queue.new
    /\ x = "starter" =>
          /\ task'[x].pc \notin {"registering", "registered", "fork"}
          /\ task'[x].pc \in BeforeFork => task[x].pc \in BeforeFork
          /\ task'[x].pc = "idle" <=> task'[x].new = 0
          /\ task'[x].new \in {task[x].new, 0}

\* Children are stopped or gone, none is forked and none survives its stop.
ChildEases ==
    /\ child.worker.st = "none" => child'.worker.st = "none"
    /\ child'.worker.st # "none" => child'.worker.gen = child.worker.gen
    /\ child'.worker.gen \in {child.worker.gen, 0}
    /\ child.api.st = "none" => child'.api.st = "none"
    /\ child.api.st = "stopping" => child'.api.st = "stopping"

\* The current generation is kept or revoked, and one that is registered does
\* not become ready.
GensEase ==
    /\ generation' \in Counters /\ generation'.next = generation.next
    /\ generation'.current \in {generation.current, 0}
    /\ task'.queue.pc \in Unready => generation'.ready \in {generation.ready, 0}

\* The generations, apart from the registration and the failure count.
GensStay ==
    /\ generation' \in Counters /\ generation'.next = generation.next
    /\ generation'.current = generation.current
    /\ generation'.ready = generation.ready

\* Task t, which has waited for its stops and saw none fail, forgets the
\* registration it revoked.
Forgets(t) ==
    /\ task[t].pc \in StopPhases \cup {"unregistering"}
    /\ ~task[t].bad /\ task[t].wait = {}
    /\ generation.registered = task[t].revoking
    /\ generation'.registered = 0

\* A step in which every task stays or moves, no child is forked and nothing
\* becomes current keeps the task, fork and authority parts.
LEMMA MoveKeeps ==
    ASSUME SupervisorInv, task' \in [Tasks -> TaskRec],
           \A x \in Tasks : Stays(x) \/ Moves(x),
           ChildEases, authority' \in SUBSET authority,
           strays' = strays \/ \A x \in strays' : x[1] = "web",
           GensEase, CurrentInv',
           \/ generation'.registered = generation.registered
           \/ \E t \in Tasks : Moves(t) /\ Forgets(t)
    PROVE  TaskInv' /\ ForkInv' /\ AuthorityInv'
<1> USE DEF SupervisorInv, AuthorityInv
<1>1. TaskRec' = TaskRec /\ {"queue", "starter", "pause", "error"} \subseteq Tasks
  BY SameGens DEF GensEase, Tasks
<1>2. TaskInv'
  <2>1. task'.starter.pc = "idle" <=> task'.starter.new = 0
    BY <1>1 DEF Stays, Moves, TaskInv
  <2>2. task'.queue.pc = "attach" => task'.queue.new # 0
    BY <1>1 DEF Stays, Moves, TaskInv
  <2>3. task'.pause.pc # "unregistering" /\ task'.error.pc # "unregistering"
    BY <1>1 DEF Stays, Moves, TaskInv
  <2>4. \/ task'.queue.pc \in BeforeSpawn
        \/ task'.queue.pc = "contain" /\ task'.queue.op = "recover"
        => task'.queue.new = 0
    BY <1>1 DEF Stays, Moves, TaskInv, StopPhases
  <2> QED
    BY <1>1, <2>1, <2>2, <2>3, <2>4 DEF TaskInv
<1>3. ForkInv'
  <2>1. task'.starter.pc \in BeforeFork => task.starter.pc \in BeforeFork
    BY <1>1 DEF Stays, Moves
  <2>2. task'.queue.pc = "clearing" => Stays("queue")
    BY <1>1 DEF Moves
  <2>3. task'.queue.pc = "respawn" => child'.api.st = "none"
    BY <1>1 DEF Stays, Moves, ForkInv, ChildEases
  <2> QED
    BY <2>1, <2>2, <2>3 DEF Stays, ForkInv, ChildEases
<1>4. CurrentInv'
  OBVIOUS
<1>5. StoppedInv'
  BY DEF GensEase, StoppedInv, Stays, Moves
<1>6. FreshInv'
  <2>1. task'.queue.pc \in Unready /\ task'.queue.new # 0 =>
           task.queue.pc \in Unready /\ task'.queue.new = task.queue.new
    BY <1>1 DEF Stays, Moves
  <2>2. task'.starter.new \in {task.starter.new, 0}
    BY <1>1 DEF Stays, Moves
  <2> QED
    BY <2>1, <2>2 DEF GensEase, FreshInv, ChildEases
<1>7. ForgetInv'
  BY DEF ForgetInv, Stays, Moves, ChildEases
<1>8. StartInv'
  <2>1. task'.starter.pc \in {"registering", "registered", "fork"} => Stays("starter")
    BY <1>1 DEF Moves
  <2>2. CASE generation'.registered = generation.registered
    BY <2>1, <2>2 DEF StartInv, Stays, GensEase, TaskInv
  <2>3. ASSUME NEW t \in Tasks, Moves(t), Forgets(t),
               task'.starter.pc \in {"registering", "registered", "fork"},
               generation'.current = task'.starter.new
        PROVE  FALSE
    <3>1. t # "starter"
      BY <2>3 DEF Moves
    <3>2. /\ generation.registered = task.starter.new /\ task.starter.new # 0
          /\ generation.current = task.starter.new
      BY <2>1, <2>3 DEF StartInv, Stays, GensEase, TaskInv
    <3>3. task[t].revoking = task.starter.new
      BY <2>3, <3>2 DEF Forgets
    <3>4. task[t].pc = "unregistering"
      BY <2>3, <3>2, <3>3 DEF Forgets, StoppedInv
    <3>5. t = "queue" /\ task.queue.new = task.starter.new
      BY <3>1, <3>3, <3>4 DEF TaskInv, ForgetInv, Tasks
    <3> QED
      BY <3>2, <3>4, <3>5 DEF FreshInv, Unready, Registration
  <2> QED
    BY <2>2, <2>3 DEF StartInv
<1>9. AuthorityCanBeRevoked'
  <2>1. CASE generation'.registered = generation.registered
    BY <2>1 DEF AuthorityCanBeRevoked, ChildEases
  <2>2. ASSUME NEW t \in Tasks, Moves(t), Forgets(t), child.worker.st # "none",
               child.worker.gen \in authority
        PROVE  FALSE
    BY <2>2 DEF AuthorityCanBeRevoked, Forgets, ForgetInv
  <2> QED
    BY <2>1, <2>2 DEF AuthorityCanBeRevoked, ChildEases
<1> QED
  BY <1>2, <1>3, <1>4, <1>5, <1>6, <1>7, <1>8, <1>9

-----------------------------------------------------------------------------
(* The queue, the intent and the lifecycle task.                           *)

\* A step that leaves the queue and the intent alone keeps QueueInv.
LEMMA QueueSame ==
    ASSUME QueueInv, OpRec' = OpRec, intent' = intent, queue' = queue
    PROVE  QueueInv'
  BY DEF QueueInv

\* Queueing an operation that remembers the current intent keeps QueueInv.
LEMMA QueueAppended ==
    ASSUME Shaped, QueueInv, OpRec' = OpRec, intent' = intent,
           NEW kind \in Operations \ {"resume"}, NEW g \in Gens,
           queue' = Append(queue, Op(kind, g))
    PROVE  QueueInv'
<1> DEFINE o == Op(kind, g)
<1>1. intent.epoch \in Nat
  BY DEF Shaped
<1>2. o \in OpRec /\ o.op # "resume" /\ o.epoch = intent.epoch
  BY <1>1 DEF Op, OpRec
<1>3. queue' = Append(queue, o) /\ queue \in Seq(OpRec)
  BY DEF QueueInv
<1> HIDE DEF o
<1>4. queue' \in Seq(OpRec) /\ Len(queue') = Len(queue) + 1 /\ queue'[Len(queue) + 1] = o
  BY <1>2, <1>3
<1>5. \A i \in 1..Len(queue) : queue'[i] = queue[i]
  BY <1>2, <1>3
<1>6. ASSUME NEW i \in 1..Len(queue')
      PROVE  /\ queue'[i].epoch <= intent.epoch
             /\ intent.quiet /\ queue'[i].op = "resume" => queue'[i].epoch < intent.epoch
  <2>1. CASE i \in 1..Len(queue)
    BY <1>5, <2>1 DEF QueueInv
  <2>2. CASE i = Len(queue) + 1
    BY <1>1, <1>2, <1>4, <2>2
  <2> QED
    BY <1>3, <1>4, <1>6, <2>1, <2>2
<1> QED
  BY <1>4, <1>6 DEF QueueInv

\* Taking the head off the queue keeps QueueInv.
LEMMA QueueTailed ==
    ASSUME QueueInv, OpRec' = OpRec, intent'.epoch = intent.epoch,
           intent'.quiet => intent.quiet, queue # <<>>, queue' = Tail(queue)
    PROVE  /\ QueueInv'
           /\ Head(queue) \in OpRec
           /\ Head(queue).epoch <= intent.epoch
           /\ intent.quiet /\ Head(queue).op = "resume" => Head(queue).epoch < intent.epoch
<1>1. queue \in Seq(OpRec)
  BY DEF QueueInv
<1>2. /\ queue' \in Seq(OpRec) /\ Len(queue') = Len(queue) - 1
      /\ \A i \in 1..Len(queue') : queue'[i] = queue[i + 1] /\ i + 1 \in 1..Len(queue)
  BY <1>1
<1>3. Head(queue) = queue[1] /\ 1 \in 1..Len(queue) /\ Head(queue) \in OpRec
  BY <1>1
<1> QED
  BY <1>2, <1>3 DEF QueueInv

\* Noticing the loss of the database keeps QueueInv.
LEMMA NoticeLossKeeps ==
    ASSUME Shaped, QueueInv, OpRec' = OpRec, intent' = intent, NoticeLoss(queue)
    PROVE  QueueInv' /\ db' \in DbStates
<1>1. db' \in DbStates
  BY DEF NoticeLoss, Shaped, DbStates
<1>2. queue' = queue \/ queue' = Append(queue, Op("lost", 0))
  BY DEF NoticeLoss
<1>3. "lost" \in Operations \ {"resume"} /\ 0 \in Gens
  BY IdleTyped DEF Operations
<1> QED
  BY <1>1, <1>2, <1>3, QueueSame, QueueAppended

\* The lifecycle task after a step that keeps its operation or ends it.
QueueGoes ==
    /\ task' \in [Tasks -> TaskRec] /\ Others("queue") /\ Moves("queue")
    /\ \/ task'.queue.op = task.queue.op /\ task'.queue.epoch = task.queue.epoch
       \/ /\ task'.queue.epoch <= intent.epoch
          /\ intent.quiet /\ task'.queue.op = "resume" => task'.queue.epoch < intent.epoch

\* No pause is asked for, and one in force stays in force or ends.
IntentKept ==
    /\ intent' \in [paused : BOOLEAN, epoch : Nat, quiet : BOOLEAN]
    /\ intent'.epoch = intent.epoch
    /\ intent'.quiet => intent.quiet /\ intent'.paused

\* A step that leaves the pause intent alone satisfies IntentKept.
LEMMA IntentSame ==
    ASSUME SupervisorInv, intent' = intent
    PROVE  IntentKept
  BY DEF SupervisorInv, Shaped, QuietInv, IntentKept

\* The worker does not appear, and pause() waits for it as before.
LEMMA QuietKept ==
    ASSUME SupervisorInv, IntentKept,
           child.worker.st = "none" => child'.worker.st = "none",
           child.worker.st = "stopping" => child'.worker.st = "stopping",
           task'.pause = task.pause,
           \/ task'.queue.op = task.queue.op /\ task'.queue.epoch = task.queue.epoch
           \/ /\ task'.queue.epoch <= intent.epoch
              /\ intent.quiet /\ task'.queue.op = "resume" => task'.queue.epoch < intent.epoch
    PROVE  QuietInv'
  BY DEF SupervisorInv, QuietInv, IntentKept

\* A QueueGoes step without a change of children keeps the invariant's parts.
LEMMA QueueGoesKeeps ==
    ASSUME SupervisorInv, QueueGoes, child' = child, strays' = strays,
           authority' = authority, IntentKept, GensStay,
           generation'.registered = generation.registered \/ Forgets("queue")
    PROVE  TaskInv' /\ ForkInv' /\ AuthorityInv' /\ QuietInv'
<1>1. {"queue", "starter", "pause", "error"} \subseteq Tasks
  BY DEF Tasks
<1>2. \A x \in Tasks : Stays(x) \/ Moves(x)
  BY DEF QueueGoes, Others, Stays
<1>3. TaskInv' /\ ForkInv' /\ AuthorityInv'
  <2>1. ChildEases /\ GensEase
    BY DEF ChildEases, GensStay, GensEase
  <2>2. CurrentInv'
    BY DEF SupervisorInv, AuthorityInv, CurrentInv, GensStay
  <2> QED
    BY <1>1, <1>2, <2>1, <2>2, MoveKeeps DEF QueueGoes
<1>4. QuietInv'
  BY <1>1, QuietKept DEF QueueGoes, Others
<1> QED
  BY <1>3, <1>4

\* Moving the lifecycle operation is a QueueGoes step.
LEMMA GotoGoes ==
    ASSUME SupervisorInv,
           NEW pc \in Pcs \ (StopPhases \cup {"unregistering", "clearing", "attach"}),
           pc \in Unready => task.queue.pc \in Unready,
           pc = "respawn" => child'.api.st = "none",
           pc \in BeforeSpawn => task.queue.new = 0, Goto(pc)
    PROVE  QueueGoes
<1>1. "queue" \in Tasks /\ task \in [Tasks -> TaskRec] /\ pc \in Pcs
  BY DEF SupervisorInv, TaskInv, Tasks
<1>2. To("queue", pc)
  BY DEF Goto
<1> QED
  BY <1>1, <1>2, ToEffect DEF QueueGoes, Moves

\* Ending the lifecycle operation is a QueueGoes step.
LEMMA FinishGoes ==
    ASSUME SupervisorInv, Finish
    PROVE  QueueGoes
<1>1. intent.epoch \in Nat /\ Shaped /\ TaskInv
  BY DEF SupervisorInv, Shaped
<1>2. task' \in [Tasks -> TaskRec] /\ Others("queue") /\ task'.queue = Idle
  BY <1>1, FinishEffect
<1>3. task'.queue.pc = "idle" /\ task'.queue.op = "none" /\ task'.queue.epoch = 0
  BY <1>1, <1>2, IdleTyped
<1>4. Moves("queue")
  BY <1>3 DEF Moves, StopPhases, Unready, Registration, BeforeSpawn
<1> QED
  BY <1>1, <1>2, <1>3, <1>4 DEF QueueGoes

\* The stops of task t have settled and its registration is forgotten, unless
\* one of them failed.
LEMMA ForgetEffect ==
    ASSUME SupervisorInv, NEW t \in Tasks, Settled(t),
           task[t].pc \in StopPhases \cup {"unregistering"},
           \/ generation' = AfterStops(t)
           \/ ~task[t].bad /\ generation' = Forgotten(t)
    PROVE  /\ GensStay
           /\ generation'.registered = generation.registered \/ Forgets(t)
<1>0. generation \in Counters /\ 0 \in Gens
  BY IdleTyped DEF SupervisorInv, Shaped
<1>1. generation' = generation \/ (~task[t].bad /\ generation' = Forgotten(t))
  BY DEF AfterStops
<1>2. CASE generation' = generation
  BY <1>0, <1>2 DEF GensStay
<1>3. CASE ~task[t].bad /\ generation' = Forgotten(t)
  <2>1. generation' = [generation EXCEPT !.registered = IF @ = task[t].revoking THEN 0 ELSE @]
    BY <1>3 DEF Forgotten
  <2>2. GensStay /\ generation'.registered = IF generation.registered = task[t].revoking
                                              THEN 0 ELSE generation.registered
    BY <1>0, <2>1 DEF GensStay, Counters
  <2> QED
    BY <1>3, <2>2 DEF Forgets, Settled
<1> QED
  BY <1>1, <1>2, <1>3

\* Nothing is forked over a handle and no authority row is written.
ApartKept ==
    /\ strays' = strays /\ authority' = authority
    /\ recovering' \subseteq Gens /\ monitoring' \in BOOLEAN
    /\ timers' \subseteq {"web", "worker"} \X Gens

\* A step that leaves the variables of apart alone satisfies ApartKept.
LEMMA ApartSame ==
    ASSUME SupervisorInv, UNCHANGED apart
    PROVE  ApartKept
  BY DEF SupervisorInv, Shaped, apart, ApartKept

\* The parts of Shaped, when no child is forked or released.
LEMMA ShapedKept ==
    ASSUME Shaped, ChildTypes', generation' \in Counters,
           generation'.next = generation.next, db' \in DbStates, IntentKept,
           ApartKept
    PROVE  Shaped' /\ OpRec' = OpRec /\ TaskRec' = TaskRec
  BY SameGens DEF Shaped, ApartKept, IntentKept

\* The same, when the children stay as they are.
LEMMA ShapedStays ==
    ASSUME Shaped, child' = child, generation' \in Counters,
           generation'.next = generation.next, db' \in DbStates, IntentKept,
           ApartKept
    PROVE  Shaped' /\ OpRec' = OpRec /\ TaskRec' = TaskRec
<1>1. ChildTypes'
  BY SameGens DEF Shaped, ChildTypes
<1> QED
  BY <1>1, ShapedKept

\* A step of the lifecycle task that touches no child.
LEMMA PlainMove ==
    ASSUME SupervisorInv, QueueGoes, ApartKept, child' = child, IntentKept,
           db' \in DbStates, GensStay,
           generation'.registered = generation.registered \/ Forgets("queue"),
           OpRec' = OpRec => QueueInv'
    PROVE  SupervisorInv'
<1>1. Shaped' /\ OpRec' = OpRec
  BY ShapedStays DEF SupervisorInv, GensStay
<1>2. strays' = strays /\ authority' = authority
  BY DEF ApartKept
<1>3. TaskInv' /\ ForkInv' /\ AuthorityInv' /\ QuietInv'
  BY <1>2, QueueGoesKeeps
<1> QED
  BY <1>1, <1>3 DEF SupervisorInv

\* The same, when the generations stay and a lost database may be noticed.
LEMMA PlainGoto ==
    ASSUME SupervisorInv, QueueGoes, UNCHANGED <<apart, child, generation, intent>>,
           UNCHANGED <<db, queue>> \/ NoticeLoss(queue)
    PROVE  SupervisorInv'
<1>1. IntentKept /\ ApartKept /\ child' = child
  BY IntentSame, ApartSame
<1>2. GensStay /\ generation'.registered = generation.registered
  BY DEF SupervisorInv, Shaped, GensStay
<1>3. Shaped /\ QueueInv
  BY DEF SupervisorInv
<1>4. db' \in DbStates
  BY <1>3 DEF NoticeLoss, Shaped, DbStates
<1>5. OpRec' = OpRec => QueueInv'
  BY <1>3, QueueSame, NoticeLossKeeps
<1> QED
  BY <1>1, <1>2, <1>4, <1>5, PlainMove

\* Task t stops children and waits for them.
LEMMA PlainStop ==
    ASSUME SupervisorInv, NEW t \in Tasks \ {"pause"}, NEW u \in TaskRec,
           NEW S \in SUBSET Held, NEW g \in Gens, StopAndWait(t, u, S, g),
           StopOk(t, u, S, g), ApartKept, IntentKept, db' \in DbStates,
           OpRec' = OpRec => QueueInv',
           \/ t # "queue"
           \/ u.op = task.queue.op /\ u.epoch = task.queue.epoch
           \/ u.epoch <= intent.epoch
              /\ (intent.quiet /\ u.op = "resume" => u.epoch < intent.epoch)
    PROVE  SupervisorInv'
<1>1. strays' = strays /\ authority' = authority
  BY DEF ApartKept
<1>2. StopFacts(t, u, S, g) /\ TaskInv' /\ ForkInv' /\ AuthorityInv'
  BY <1>1, StopKeeps
<1>3. Shaped' /\ OpRec' = OpRec
  BY <1>2, ShapedKept DEF SupervisorInv, StopFacts
<1>4. QuietInv'
  <2>1. /\ child.worker.st = "none" => child'.worker.st = "none"
        /\ child.worker.st = "stopping" => child'.worker.st = "stopping"
    BY <1>2 DEF StopFacts, Held
  <2>2. task'.pause = task.pause /\ (t # "queue" => task'.queue = task.queue)
    BY <1>2 DEF StopFacts, Others, Tasks
  <2>3. t = "queue" => task'.queue.op = u.op /\ task'.queue.epoch = u.epoch
    BY <1>2 DEF StopFacts
  <2> QED
    BY <2>1, <2>2, <2>3 DEF SupervisorInv, QuietInv, IntentKept
<1> QED
  BY <1>2, <1>3, <1>4 DEF SupervisorInv

\* The record a task waits with: the one it has, at another pc.
LEMMA RecordAt ==
    ASSUME TaskInv, NEW t \in Tasks, NEW pc \in Pcs
    PROVE  /\ [task[t] EXCEPT !.pc = pc] \in TaskRec
           /\ [task[t] EXCEPT !.pc = pc].pc = pc
           /\ [task[t] EXCEPT !.pc = pc].op = task[t].op
           /\ [task[t] EXCEPT !.pc = pc].new = task[t].new
           /\ [task[t] EXCEPT !.pc = pc].epoch = task[t].epoch
  BY DEF TaskInv, TaskRec

\* The lifecycle task stops everything, or everything bound to a generation.
LEMMA QueueStops ==
    ASSUME SupervisorInv, NEW pc \in {"losing", "abandoning", "cleaning"},
           NEW g \in Gens,
           \/ StopDataServicesOwned("queue", [Q EXCEPT !.pc = pc])
           \/ StopDataServicesForApiGeneration("queue", [Q EXCEPT !.pc = pc], g),
           ApartKept, IntentKept, db' \in DbStates, OpRec' = OpRec => QueueInv'
    PROVE  SupervisorInv'
<1> DEFINE u == [task["queue"] EXCEPT !.pc = pc]
<1>1. "queue" \in Tasks \ {"pause"} /\ pc \in Pcs /\ TaskInv
  BY DEF Tasks, Pcs, SupervisorInv
<1>2. /\ u \in TaskRec /\ u.pc = pc /\ u.op = task.queue.op /\ u.epoch = task.queue.epoch
  BY <1>1, RecordAt
<1>3. \/ StopAndWait("queue", u, Held, generation.registered)
      \/ StopAndWait("queue", u, BoundTo(g), g)
  BY DEF Q, StopDataServicesOwned, StopDataServicesForApiGeneration
<1> HIDE DEF u
<1>4. BoundTo(g) \in SUBSET Held /\ Held \in SUBSET Held /\ generation.registered \in Gens
  BY DEF BoundTo, Held, SupervisorInv, Shaped, Counters
<1>5. \A S, h : S = Held \/ S = BoundTo(h) => StopOk("queue", u, S, h)
  BY <1>2 DEF StopOk, Unready, Registration
<1>6. CASE StopAndWait("queue", u, Held, generation.registered)
  BY <1>1, <1>2, <1>4, <1>5, <1>6, PlainStop
<1>7. CASE StopAndWait("queue", u, BoundTo(g), g)
  BY <1>1, <1>2, <1>4, <1>5, <1>7, PlainStop
<1> QED
  BY <1>3, <1>6, <1>7

-----------------------------------------------------------------------------
(* The actions of the lifecycle queue.                                     *)

\* The stages that a lifecycle operation reaches by a plain Goto.
Stages == {"spawn", "web", "webStarted", "worker", "launch", "joining",
           "workerStarted", "done", "caught", "reschedule"}

\* Moving on to a later stage of a start keeps the invariant.
LEMMA GotoStage ==
    ASSUME SupervisorInv, NEW pc \in Stages, Goto(pc),
           pc = "spawn" => task.queue.new = 0
    PROVE  QueueGoes
<1>1. /\ pc \in Pcs \ (StopPhases \cup {"unregistering", "clearing", "attach"})
      /\ pc \notin Unready /\ pc # "respawn"
      /\ pc \in BeforeSpawn => task.queue.new = 0
  BY DEF Stages, Pcs, StopPhases, Unready, Registration, BeforeSpawn
<1> QED
  BY <1>1, GotoGoes

\* The operation goes on without a generation.
LEMMA GotoWithout ==
    ASSUME SupervisorInv, NEW pc \in {"caught", "spawn", "spawned"},
           \/ task' = [task EXCEPT !.queue.pc = pc, !.queue.new = 0]
           \/ task' = [task EXCEPT !.queue.new = 0, !.queue.pc = pc]
    PROVE  QueueGoes
<1>0. /\ task \in [Tasks -> TaskRec] /\ "queue" \in Tasks /\ 0 \in Gens
      /\ pc \in Pcs
  BY IdleTyped DEF SupervisorInv, TaskInv, Tasks, Pcs
<1> DEFINE r1 == [task["queue"] EXCEPT !.pc = pc]
           r2 == [r1 EXCEPT !.new = 0]
           q1 == [task["queue"] EXCEPT !.new = 0]
           q2 == [q1 EXCEPT !.pc = pc]
<1>1. r1 \in TaskRec /\ r1.pc = pc /\ r1.op = task.queue.op /\ r1.epoch = task.queue.epoch
  BY <1>0 DEF TaskRec
<1>2. q1 \in TaskRec /\ q1.new = 0 /\ q1.op = task.queue.op /\ q1.epoch = task.queue.epoch
  BY <1>0 DEF TaskRec
<1>3. task' = [task EXCEPT !["queue"] = r2] \/ task' = [task EXCEPT !["queue"] = q2]
  BY <1>0
<1> HIDE DEF r1, q1
<1>4. /\ r2 \in TaskRec /\ r2.pc = pc /\ r2.new = 0 /\ r2.op = task.queue.op
      /\ r2.epoch = task.queue.epoch
  BY <1>0, <1>1 DEF TaskRec
<1>5. /\ q2 \in TaskRec /\ q2.pc = pc /\ q2.new = 0 /\ q2.op = task.queue.op
      /\ q2.epoch = task.queue.epoch
  BY <1>0, <1>2 DEF TaskRec
<1> HIDE DEF r2, q2
<1>6. /\ task' \in [Tasks -> TaskRec] /\ Others("queue")
      /\ task'.queue.pc = pc /\ task'.queue.new = 0
      /\ task'.queue.op = task.queue.op /\ task'.queue.epoch = task.queue.epoch
  BY <1>0, <1>3, <1>4, <1>5 DEF Others
<1>7. Moves("queue")
  BY <1>6 DEF Moves, StopPhases, Unready, Registration
<1> QED
  BY <1>6, <1>7 DEF QueueGoes

\* A start waits for its database.
LEMMA StartDatabaseKeeps ==
    ASSUME SupervisorInv, StartDatabase
    PROVE  SupervisorInv'
<1>1. /\ UNCHANGED <<apart, child>> /\ intent' = intent /\ queue' = queue
      /\ generation' = generation /\ db' \in {db, "current"}
      /\ Goto("spawn") \/ Finish
  BY DEF StartDatabase
<1>2. QueueGoes
  <2>1. task.queue.new = 0
    BY DEF StartDatabase, Q, SupervisorInv, TaskInv, BeforeSpawn
  <2> QED
    BY <1>1, <2>1, GotoStage, FinishGoes DEF Stages
<1>3. IntentKept /\ ApartKept /\ GensStay /\ db' \in DbStates
  BY <1>1, IntentSame, ApartSame DEF GensStay, SupervisorInv, Shaped, DbStates
<1>4. OpRec' = OpRec => QueueInv'
  BY <1>1, QueueSame DEF SupervisorInv
<1> QED
  BY <1>1, <1>2, <1>3, <1>4, PlainMove

\* A containment with an unproven stop fails its operation.
LEMMA ContainFailsKeeps ==
    ASSUME SupervisorInv, ContainFails
    PROVE  SupervisorInv'
<1>1. /\ UNCHANGED <<apart, child, generation, intent>> /\ UNCHANGED <<db, queue>>
      /\ Goto("caught") \/ Finish
  BY DEF ContainFails
<1>2. QueueGoes
  BY <1>1, GotoStage, FinishGoes DEF Stages
<1> QED
  BY <1>1, <1>2, PlainGoto

\* The database is forgotten only when nothing is left of its services.
LEMMA ClearedTyped ==
    ASSUME SupervisorInv
    PROVE  \A gs : Cleared(gs) \in DbStates
  BY DEF Cleared, SupervisorInv, Shaped, DbStates

\* A containment ends and the operation goes on.
LEMMA ContainedKeeps ==
    ASSUME SupervisorInv, Contained
    PROVE  SupervisorInv'
<1>1. /\ UNCHANGED <<apart, child>> /\ intent' = intent /\ ~task.queue.bad
      /\ task.queue.pc = "contain" /\ Settled("queue") /\ generation' = Forgotten("queue")
  BY DEF Contained, Q
<1>2. /\ GensStay
      /\ generation'.registered = generation.registered \/ Forgets("queue")
  BY <1>1, ForgetEffect DEF StopPhases, Tasks
<1>3. IntentKept /\ ApartKept
  BY <1>1, IntentSame, ApartSame
<1>4. QueueGoes
  <2>1. \/ Finish \/ (Goto("spawn") /\ Q.op = "recover")
        \/ \E pc \in {"caught", "spawn"} :
              task' = [task EXCEPT !.queue.new = 0, !.queue.pc = pc]
    BY DEF Contained
  <2>2. Q.op = "recover" => task.queue.new = 0
    BY <1>1 DEF Q, SupervisorInv, TaskInv
  <2> QED
    BY <2>1, <2>2, GotoStage, GotoWithout, FinishGoes DEF Stages
<1>5. UNCHANGED <<db, queue>> \/ NoticeLoss(queue)
      \/ (queue' = queue /\ db' \in DbStates)
  BY ClearedTyped DEF Contained, DbStates
<1>6. db' \in DbStates /\ (OpRec' = OpRec => QueueInv')
  BY <1>1, <1>5, QueueSame, NoticeLossKeeps DEF SupervisorInv, Shaped, NoticeLoss, DbStates
<1> QED
  BY <1>1, <1>2, <1>3, <1>4, <1>6, PlainMove

\* Lost, Abandoned and Cleaned: the stops of the operation have settled.
LEMMA SettledKeeps ==
    ASSUME SupervisorInv, Lost \/ Abandoned \/ Cleaned
    PROVE  SupervisorInv'
<1>1. /\ UNCHANGED <<apart, child>> /\ intent' = intent /\ queue' = queue
      /\ Settled("queue") /\ generation' = AfterStops("queue")
      /\ task.queue.pc \in {"losing", "abandoning", "cleaning"}
      /\ Finish \/ Goto("caught") \/ Goto("reschedule")
  BY DEF Lost, Abandoned, Cleaned, Q
<1>2. /\ GensStay
      /\ generation'.registered = generation.registered \/ Forgets("queue")
  BY <1>1, ForgetEffect DEF StopPhases, Tasks
<1>3. IntentKept /\ ApartKept
  BY <1>1, IntentSame, ApartSame
<1>4. QueueGoes
  BY <1>1, GotoStage, FinishGoes DEF Stages
<1>5. db' \in DbStates
  BY ClearedTyped DEF Lost, Abandoned, Cleaned, SupervisorInv, Shaped
<1>6. OpRec' = OpRec => QueueInv'
  BY <1>1, QueueSame DEF SupervisorInv
<1> QED
  BY <1>1, <1>2, <1>3, <1>4, <1>5, <1>6, PlainMove

\* The operation at the head of the queue, as its lifecycle task begins it.
LEMMA BegunTyped ==
    ASSUME SupervisorInv, queue # <<>>, NEW pc \in Pcs
    PROVE  /\ Head(queue) \in OpRec
           /\ Begun(Head(queue)) \in TaskRec
           /\ Begun(Head(queue)).old = Head(queue).gen
           /\ [Begun(Head(queue)) EXCEPT !.pc = pc] \in TaskRec
           /\ [Begun(Head(queue)) EXCEPT !.pc = pc].pc = pc
           /\ [Begun(Head(queue)) EXCEPT !.pc = pc].op = Head(queue).op
           /\ [Begun(Head(queue)) EXCEPT !.pc = pc].epoch = Head(queue).epoch
           /\ [Begun(Head(queue)) EXCEPT !.pc = pc].new = 0
<1>1. Head(queue) \in OpRec
  BY DEF SupervisorInv, QueueInv
<1> DEFINE o == Head(queue)
           r1 == [Idle EXCEPT !.op = o.op]
           r2 == [r1 EXCEPT !.old = o.gen]
           r3 == [r2 EXCEPT !.epoch = o.epoch]
<1>2. o.op \in Operations /\ o.gen \in Gens /\ o.epoch \in Nat
  BY <1>1 DEF OpRec
<1>3. Begun(o) = r3
  BY DEF Begun
<1> HIDE DEF o
<1>4. r1 \in TaskRec /\ r1.op = o.op /\ r1.new = 0
  BY <1>2, IdleTyped DEF SupervisorInv, TaskRec
<1> HIDE DEF r1
<1>5. r2 \in TaskRec /\ r2.op = o.op /\ r2.old = o.gen /\ r2.new = 0
  BY <1>2, <1>4 DEF TaskRec
<1> HIDE DEF r2
<1>6. r3 \in TaskRec /\ r3.op = o.op /\ r3.old = o.gen /\ r3.epoch = o.epoch /\ r3.new = 0
  BY <1>2, <1>5 DEF TaskRec
<1> HIDE DEF r3
<1>7. /\ [r3 EXCEPT !.pc = pc] \in TaskRec /\ [r3 EXCEPT !.pc = pc].pc = pc
      /\ [r3 EXCEPT !.pc = pc].op = o.op /\ [r3 EXCEPT !.pc = pc].epoch = o.epoch
      /\ [r3 EXCEPT !.pc = pc].new = 0
  BY <1>6 DEF TaskRec
<1> QED
  BY <1>1, <1>3, <1>6, <1>7 DEF o

\* An operation that is not a resume begins by stopping children.
LEMMA BeginStops ==
    ASSUME SupervisorInv, queue # <<>>, queue' = Tail(queue), NEW g \in Gens,
           \/ StopDataServicesOwned("queue", [Begun(Head(queue)) EXCEPT !.pc = "contain"])
           \/ StopDataServicesForApiGeneration("queue",
                  [Begun(Head(queue)) EXCEPT !.pc = "contain"], g),
           ApartKept, UNCHANGED <<db, intent>>
    PROVE  SupervisorInv'
<1> DEFINE u == [Begun(Head(queue)) EXCEPT !.pc = "contain"]
<1>1. "queue" \in Tasks \ {"pause"} /\ "contain" \in Pcs
  BY DEF Tasks, Pcs
<1>2. /\ u \in TaskRec /\ u.pc = "contain" /\ u.op = Head(queue).op
      /\ u.epoch = Head(queue).epoch /\ u.new = 0
  BY <1>1, BegunTyped
<1>3. \/ StopAndWait("queue", u, Held, generation.registered)
      \/ StopAndWait("queue", u, BoundTo(g), g)
  BY DEF StopDataServicesOwned, StopDataServicesForApiGeneration
<1> HIDE DEF u
<1>4. BoundTo(g) \in SUBSET Held /\ Held \in SUBSET Held /\ generation.registered \in Gens
  BY DEF BoundTo, Held, SupervisorInv, Shaped, Counters
<1>5. \A S, h : S = Held \/ S = BoundTo(h) => StopOk("queue", u, S, h)
  BY <1>2 DEF StopOk, Unready, Registration
<1>6. IntentKept /\ db' \in DbStates
  BY IntentSame DEF SupervisorInv, Shaped
<1>7. OpRec' = OpRec => QueueInv'
  BY QueueTailed DEF SupervisorInv
<1>8. /\ u.epoch <= intent.epoch
      /\ intent.quiet /\ u.op = "resume" => u.epoch < intent.epoch
  <2>1. 1 \in 1..Len(queue) /\ Head(queue) = queue[1]
    BY DEF SupervisorInv, QueueInv
  <2> QED
    BY <1>2, <2>1 DEF SupervisorInv, QueueInv
<1>9. CASE StopAndWait("queue", u, Held, generation.registered)
  BY <1>1, <1>2, <1>4, <1>5, <1>6, <1>7, <1>8, <1>9, PlainStop
<1>10. CASE StopAndWait("queue", u, BoundTo(g), g)
  BY <1>1, <1>2, <1>4, <1>5, <1>6, <1>7, <1>8, <1>10, PlainStop
<1> QED
  BY <1>3, <1>9, <1>10

\* A queued operation is dropped, or ends as soon as it begins.
LEMMA BeginDrops ==
    ASSUME SupervisorInv, queue # <<>>, queue' = Tail(queue), task.queue.pc = "idle",
           UNCHANGED <<apart, child, generation, task, db>>, IntentKept
    PROVE  SupervisorInv'
<1>1. QueueGoes
  BY DEF QueueGoes, Others, Moves, StopPhases, Unready, Registration, BeforeSpawn,
     SupervisorInv, TaskInv, Tasks
<1>2. ApartKept /\ GensStay /\ db' \in DbStates
  BY ApartSame DEF GensStay, SupervisorInv, Shaped
<1>3. OpRec' = OpRec => QueueInv'
  BY QueueTailed DEF SupervisorInv, IntentKept
<1> QED
  BY <1>1, <1>2, <1>3, PlainMove

\* The operations that begin by containing what runs.
LEMMA BeginKeeps ==
    ASSUME SupervisorInv, BeginRecover \/ BeginContain \/ BeginStopOwned
    PROVE  SupervisorInv'
<1>1. queue # <<>> /\ queue' = Tail(queue) /\ task.queue.pc = "idle" /\ UNCHANGED <<db, intent>>
  BY DEF BeginRecover, BeginContain, BeginStopOwned, Next1, Q
<1>2. IntentKept
  BY <1>1, IntentSame
<1>3. Begun(Head(queue)).old \in Gens
  BY <1>1, BegunTyped DEF TaskRec, Pcs
<1>4. CASE BeginRecover \/ BeginContain
  <2>1. UNCHANGED apart
    BY <1>4 DEF BeginRecover, BeginContain
  <2>2. \/ UNCHANGED <<child, generation, task>>
        \/ StopDataServicesForApiGeneration("queue",
               [Begun(Head(queue)) EXCEPT !.pc = "contain"], Begun(Head(queue)).old)
    BY <1>4 DEF BeginRecover, BeginContain
  <2> QED
    BY <1>1, <1>2, <1>3, <2>1, <2>2, ApartSame, BeginStops, BeginDrops
<1>5. CASE BeginStopOwned
  <2>1. StopDataServicesOwned("queue", [Begun(Head(queue)) EXCEPT !.pc = "contain"])
    BY <1>5 DEF BeginStopOwned
  <2>2. ApartKept
    BY <1>5 DEF BeginStopOwned, ApartKept, SupervisorInv, Shaped
  <2> QED
    BY <1>1, <1>3, <2>1, <2>2, BeginStops
<1> QED
  BY <1>4, <1>5

\* The first start of a launch begins.
LEMMA BeginStartKeeps ==
    ASSUME SupervisorInv, BeginStart
    PROVE  SupervisorInv'
<1>1. /\ queue # <<>> /\ queue' = Tail(queue) /\ Head(queue).op = "start"
      /\ UNCHANGED <<apart, child, generation, db>>
      /\ intent' = [intent EXCEPT !.paused = FALSE, !.quiet = FALSE]
  BY DEF BeginStart, Next1
<1> DEFINE u == [Begun(Head(queue)) EXCEPT !.pc = "database"]
<1>2. task' = [task EXCEPT !["queue"] = u]
  BY DEF BeginStart
<1>3. /\ u \in TaskRec /\ u.pc = "database" /\ u.op = "start"
      /\ u.epoch = Head(queue).epoch /\ u.new = 0
  BY <1>1, BegunTyped DEF Pcs
<1> HIDE DEF u
<1>4. task' \in [Tasks -> TaskRec] /\ Others("queue") /\ task'.queue = u
  BY <1>2, <1>3 DEF SupervisorInv, TaskInv, Others, Tasks
<1>5. IntentKept
  <2>1. intent \in [paused : BOOLEAN, epoch : Nat, quiet : BOOLEAN]
    BY DEF SupervisorInv, Shaped
  <2>2. /\ intent' \in [paused : BOOLEAN, epoch : Nat, quiet : BOOLEAN]
        /\ intent'.epoch = intent.epoch /\ intent'.quiet = FALSE
    BY <1>1, <2>1
  <2> QED
    BY <2>2 DEF IntentKept
<1>6. Head(queue).epoch <= intent.epoch /\ (OpRec' = OpRec => QueueInv')
  <2>1. 1 \in 1..Len(queue) /\ Head(queue) = queue[1]
    BY <1>1 DEF SupervisorInv, QueueInv
  <2> QED
    BY <1>1, <1>5, <2>1, QueueTailed DEF SupervisorInv, QueueInv, IntentKept
<1>7. QueueGoes
  BY <1>3, <1>4, <1>6 DEF QueueGoes, Moves, StopPhases, Unready, Registration
<1>8. ApartKept /\ GensStay /\ db' \in DbStates
  BY <1>1, ApartSame DEF GensStay, SupervisorInv, Shaped
<1> QED
  BY <1>1, <1>5, <1>6, <1>7, <1>8, PlainMove

\* A step of the lifecycle task that stops children or moves on.
QueueStep ==
    \/ /\ \E pc \in {"losing", "abandoning", "cleaning"}, g \in Gens :
             \/ StopDataServicesOwned("queue", [Q EXCEPT !.pc = pc])
             \/ StopDataServicesForApiGeneration("queue", [Q EXCEPT !.pc = pc], g)
       /\ db' \in DbStates
       /\ queue' = queue \/ NoticeLoss(queue)
    \/ /\ QueueGoes
       /\ UNCHANGED <<child, generation>>
       /\ UNCHANGED <<db, queue>> \/ NoticeLoss(queue)

\* A stop begun by the operation, or a step that changes no child.
LEMMA QueueStepKeeps ==
    ASSUME SupervisorInv, QueueStep, UNCHANGED <<apart, intent>>
    PROVE  SupervisorInv'
<1>1. ApartKept /\ IntentKept /\ intent' = intent
  BY ApartSame, IntentSame
<1>2. CASE /\ \E pc \in {"losing", "abandoning", "cleaning"}, g \in Gens :
                 \/ StopDataServicesOwned("queue", [Q EXCEPT !.pc = pc])
                 \/ StopDataServicesForApiGeneration("queue", [Q EXCEPT !.pc = pc], g)
           /\ db' \in DbStates
           /\ queue' = queue \/ NoticeLoss(queue)
  <2>1. OpRec' = OpRec => QueueInv'
    BY <1>1, <1>2, QueueSame, NoticeLossKeeps DEF SupervisorInv
  <2> QED
    BY <1>1, <1>2, <2>1, QueueStops
<1>3. CASE /\ QueueGoes /\ UNCHANGED <<child, generation>>
           /\ UNCHANGED <<db, queue>> \/ NoticeLoss(queue)
  BY <1>3, PlainGoto
<1> QED
  BY <1>2, <1>3 DEF QueueStep

\* An operation that finds the database gone stops the data services.
LEMMA LoseDatabaseStep ==
    ASSUME SupervisorInv, LoseDatabase
    PROVE  QueueStep
<1>1. db' \in DbStates /\ 0 \in Gens
  BY IdleTyped DEF LoseDatabase, SupervisorInv, Shaped, DbStates
<1> QED
  BY <1>1 DEF LoseDatabase, QueueStep

\* A stop of the generation the operation works for.
LEMMA StopsNew ==
    ASSUME SupervisorInv, NEW pc \in {"abandoning", "cleaning"},
           \/ StopDataServicesOwned("queue", [Q EXCEPT !.pc = pc])
           \/ StopDataServicesForApiGeneration("queue", [Q EXCEPT !.pc = pc], Q.new),
           UNCHANGED <<db, queue>> \/ NoticeLoss(queue)
    PROVE  QueueStep
<1>1. Q.new \in Gens
  BY DEF SupervisorInv, TaskInv, TaskRec, Q, Tasks
<1>2. db' \in DbStates
  BY DEF NoticeLoss, SupervisorInv, Shaped, DbStates
<1>3. queue' = queue \/ NoticeLoss(queue)
  OBVIOUS
<1> QED
  BY <1>1, <1>2, <1>3 DEF QueueStep

\* A start checks its database again after the web child and the worker.
LEMMA CheckpointKeeps ==
    ASSUME SupervisorInv, WebStarted \/ WorkerStarted
    PROVE  SupervisorInv'
<1>1. UNCHANGED <<apart, intent>>
  BY DEF WebStarted, WorkerStarted
<1>2. \/ Abandon /\ UNCHANGED <<db, queue>>
      \/ LoseDatabase
      \/ /\ StopDataServicesForApiGeneration("queue", [Q EXCEPT !.pc = "cleaning"], Q.new)
         /\ UNCHANGED <<db, queue>>
      \/ /\ \E pc \in {"caught", "worker", "done"} : Goto(pc)
         /\ UNCHANGED <<child, generation, db, queue>>
  <2>1. CASE WebStarted
    BY <2>1 DEF WebStarted, Checkpoint
  <2>2. CASE WorkerStarted
    BY <2>2 DEF WorkerStarted, Checkpoint
  <2> QED
    BY <2>1, <2>2
<1>3. CASE Abandon /\ UNCHANGED <<db, queue>>
  BY <1>1, <1>3, StopsNew, QueueStepKeeps DEF Abandon
<1>4. CASE LoseDatabase
  BY <1>1, <1>4, LoseDatabaseStep, QueueStepKeeps
<1>5. CASE /\ StopDataServicesForApiGeneration("queue", [Q EXCEPT !.pc = "cleaning"], Q.new)
           /\ UNCHANGED <<db, queue>>
  BY <1>1, <1>5, StopsNew, QueueStepKeeps
<1>6. CASE /\ \E pc \in {"caught", "worker", "done"} : Goto(pc)
           /\ UNCHANGED <<child, generation, db, queue>>
  BY <1>1, <1>6, GotoStage, QueueStepKeeps DEF Stages, QueueStep
<1> QED
  BY <1>2, <1>3, <1>4, <1>5, <1>6

\* The database or the intent went before the fork.
LEMMA SpawnRefusedKeeps ==
    ASSUME SupervisorInv, SpawnRefused
    PROVE  SupervisorInv'
<1>1. UNCHANGED <<apart, intent>>
  BY DEF SpawnRefused
<1>2. \/ LoseDatabase
      \/ /\ Finish \/ Goto("caught")
         /\ UNCHANGED <<child, generation>>
         /\ UNCHANGED <<db, queue>> \/ NoticeLoss(queue)
      \/ /\ Q.pc = "respawn" /\ Goto("spawned") /\ NoticeLoss(queue)
         /\ UNCHANGED <<child, generation>>
  BY DEF SpawnRefused
<1>3. CASE LoseDatabase
  BY <1>1, <1>3, LoseDatabaseStep, QueueStepKeeps
<1>4. CASE /\ Finish \/ Goto("caught")
           /\ UNCHANGED <<child, generation>>
           /\ UNCHANGED <<db, queue>> \/ NoticeLoss(queue)
  BY <1>1, <1>4, GotoStage, FinishGoes, QueueStepKeeps DEF QueueStep, Stages
<1>5. CASE /\ Q.pc = "respawn" /\ Goto("spawned") /\ NoticeLoss(queue)
           /\ UNCHANGED <<child, generation>>
  <2>1. QueueGoes
    <3>1. task.queue.new = 0
      BY <1>5 DEF Q, SupervisorInv, TaskInv, BeforeSpawn
    <3>2. task \in [Tasks -> TaskRec] /\ "queue" \in Tasks /\ "spawned" \in Pcs
          /\ To("queue", "spawned")
      BY <1>5 DEF SupervisorInv, TaskInv, Tasks, Pcs, Goto
    <3> QED
      BY <3>1, <3>2, ToEffect DEF QueueGoes, Moves, StopPhases, BeforeSpawn
  <2> QED
    BY <1>1, <1>5, <2>1, QueueStepKeeps DEF QueueStep
<1> QED
  BY <1>2, <1>3, <1>4, <1>5

\* startApi returned: the operation registers the generation, or gives it up.
LEMMA SpawnedKeeps ==
    ASSUME SupervisorInv, Spawned
    PROVE  SupervisorInv'
<1>1. UNCHANGED <<apart, intent>> /\ task.queue.pc = "spawned"
  BY DEF Spawned, Q
<1>2. \/ LoseDatabase
      \/ /\ StopDataServicesOwned("queue", [Q EXCEPT !.pc = "cleaning"])
         /\ UNCHANGED <<db, queue>>
      \/ Abandon /\ UNCHANGED <<db, queue>>
      \/ /\ Goto("caught") \/ Goto("register")
         /\ UNCHANGED <<child, generation, db, queue>>
  BY DEF Spawned
<1>3. CASE LoseDatabase
  BY <1>1, <1>3, LoseDatabaseStep, QueueStepKeeps
<1>4. CASE /\ StopDataServicesOwned("queue", [Q EXCEPT !.pc = "cleaning"])
           /\ UNCHANGED <<db, queue>>
  BY <1>1, <1>4, StopsNew, QueueStepKeeps
<1>5. CASE Abandon /\ UNCHANGED <<db, queue>>
  BY <1>1, <1>5, StopsNew, QueueStepKeeps DEF Abandon
<1>6. CASE /\ Goto("caught") \/ Goto("register")
           /\ UNCHANGED <<child, generation, db, queue>>
  <2>1. QueueGoes
    BY <1>1, <1>6, GotoStage, GotoGoes
       DEF Stages, Pcs, StopPhases, Unready, Registration, BeforeSpawn
  <2> QED
    BY <1>1, <1>6, <2>1, QueueStepKeeps DEF QueueStep
<1> QED
  BY <1>2, <1>3, <1>4, <1>5, <1>6

\* The API did not become ready.
LEMMA ApiNotReadyKeeps ==
    ASSUME SupervisorInv, ApiNotReady
    PROVE  SupervisorInv'
<1>1. UNCHANGED <<apart, intent>>
  BY DEF ApiNotReady
<1>2. \/ LoseDatabase
      \/ /\ StopDataServicesOwned("queue", [Q EXCEPT !.pc = "cleaning"])
         /\ UNCHANGED <<db, queue>>
      \/ Abandon /\ (UNCHANGED <<db, queue>> \/ NoticeLoss(queue))
      \/ /\ Goto("caught") /\ UNCHANGED <<child, generation>>
         /\ UNCHANGED <<db, queue>> \/ NoticeLoss(queue)
  BY DEF ApiNotReady
<1>3. CASE LoseDatabase
  BY <1>1, <1>3, LoseDatabaseStep, QueueStepKeeps
<1>4. CASE /\ StopDataServicesOwned("queue", [Q EXCEPT !.pc = "cleaning"])
           /\ UNCHANGED <<db, queue>>
  BY <1>1, <1>4, StopsNew, QueueStepKeeps
<1>5. CASE Abandon /\ (UNCHANGED <<db, queue>> \/ NoticeLoss(queue))
  BY <1>1, <1>5, StopsNew, QueueStepKeeps DEF Abandon
<1>6. CASE /\ Goto("caught") /\ UNCHANGED <<child, generation>>
           /\ UNCHANGED <<db, queue>> \/ NoticeLoss(queue)
  BY <1>1, <1>6, GotoStage, QueueStepKeeps DEF QueueStep, Stages
<1> QED
  BY <1>2, <1>3, <1>4, <1>5, <1>6

\* startApi stops the API child it holds and waits for it alone.
LEMMA StopApiKeeps ==
    ASSUME SupervisorInv, NEW pc \in {"clearing", "detaching"}, child.api.st # "none",
           pc = "clearing" => task.queue.new = 0,
           StopAndWait("queue", [Q EXCEPT !.pc = pc], {"api"}, 0),
           UNCHANGED <<apart, intent, db, queue>>
    PROVE  SupervisorInv'
<1> DEFINE u == [task["queue"] EXCEPT !.pc = pc]
<1>1. "queue" \in Tasks \ {"pause"} /\ pc \in Pcs /\ TaskInv
  BY DEF Tasks, Pcs, SupervisorInv
<1>2. /\ u \in TaskRec /\ u.pc = pc /\ u.op = task.queue.op
      /\ u.epoch = task.queue.epoch /\ u.new = task.queue.new
  BY <1>1, RecordAt
<1>3. StopAndWait("queue", u, {"api"}, 0)
  BY DEF Q
<1> HIDE DEF u
<1>4. {"api"} \in SUBSET Held /\ 0 \in Gens
  BY IdleTyped DEF Held, Services, SupervisorInv
<1>5. StopOk("queue", u, {"api"}, 0)
  BY <1>2 DEF StopOk, StopPhases, Unready, Registration
<1>6. IntentKept /\ ApartKept /\ db' \in DbStates
  BY IntentSame, ApartSame DEF SupervisorInv, Shaped
<1>7. OpRec' = OpRec => QueueInv'
  BY QueueSame DEF SupervisorInv
<1> QED
  BY <1>1, <1>2, <1>3, <1>4, <1>5, <1>6, <1>7, PlainStop

\* A spawn that finds an old API handle stops it first.
LEMMA ClearApiKeeps ==
    ASSUME SupervisorInv, ClearApi
    PROVE  SupervisorInv'
<1>1. task.queue.new = 0
  BY DEF ClearApi, Q, SupervisorInv, TaskInv, BeforeSpawn
<1> QED
  BY <1>1, StopApiKeeps DEF ClearApi

\* The old API has stopped, or could not be stopped.
LEMMA ApiClearedKeeps ==
    ASSUME SupervisorInv, ApiCleared
    PROVE  SupervisorInv'
<1>1. /\ UNCHANGED <<apart, child, generation, intent>> /\ UNCHANGED <<db, queue>>
      /\ task.queue.pc = "clearing" /\ task.queue.wait = {}
      /\ Goto("caught") \/ (~task.queue.bad /\ Goto("respawn"))
  BY DEF ApiCleared, Q, Settled
<1>2. task.queue.new = 0 /\ (~task.queue.bad => child.api.st = "none")
  BY <1>1 DEF SupervisorInv, TaskInv, ForkInv, BeforeSpawn
<1>3. QueueGoes
  <2>1. CASE Goto("caught")
    BY <2>1, GotoStage DEF Stages
  <2>2. CASE ~task.queue.bad /\ Goto("respawn")
    <3>1. child'.api.st = "none"
      BY <1>1, <1>2, <2>2
    <3> QED
      BY <1>2, <2>2, <3>1, GotoGoes DEF Pcs, StopPhases, Unready, Registration
  <2> QED
    BY <1>1, <2>1, <2>2
<1> QED
  BY <1>1, <1>3, PlainGoto

\* The key broker was not attached, and the API is stopped again.
LEMMA ApiNotAttachedKeeps ==
    ASSUME SupervisorInv, ApiNotAttached \/ ApiDetached
    PROVE  SupervisorInv'
<1>1. UNCHANGED <<apart, intent, db, queue>>
  BY DEF ApiNotAttached, ApiDetached
<1>2. \/ /\ task.queue.pc = "attach" /\ child.api.gen = Q.new
         /\ StopAndWait("queue", [Q EXCEPT !.pc = "detaching"], {"api"}, 0)
      \/ /\ \E pc \in {"caught", "spawned"} :
               \/ task' = [task EXCEPT !.queue.pc = pc, !.queue.new = 0]
               \/ task' = [task EXCEPT !.queue.new = 0, !.queue.pc = pc]
         /\ UNCHANGED <<child, generation>>
  BY DEF ApiNotAttached, ApiDetached, Q
<1>3. CASE /\ task.queue.pc = "attach" /\ child.api.gen = Q.new
           /\ StopAndWait("queue", [Q EXCEPT !.pc = "detaching"], {"api"}, 0)
  <2>1. child.api.st # "none"
    BY <1>3 DEF Q, SupervisorInv, TaskInv, Shaped, ChildTypes, Services
  <2> QED
    BY <1>1, <1>3, <2>1, StopApiKeeps
<1>4. CASE /\ \E pc \in {"caught", "spawned"} :
                 \/ task' = [task EXCEPT !.queue.pc = pc, !.queue.new = 0]
                 \/ task' = [task EXCEPT !.queue.new = 0, !.queue.pc = pc]
           /\ UNCHANGED <<child, generation>>
  BY <1>1, <1>4, GotoWithout, PlainGoto
<1> QED
  BY <1>2, <1>3, <1>4

\* A resume that fails or is refused leaves the class paused.
LEMMA PausedAgain ==
    ASSUME SupervisorInv, intent' \in {intent, [intent EXCEPT !.paused = TRUE]}
    PROVE  IntentKept
<1>1. intent \in [paused : BOOLEAN, epoch : Nat, quiet : BOOLEAN]
  BY DEF SupervisorInv, Shaped
<1>2. CASE intent' = [intent EXCEPT !.paused = TRUE]
  BY <1>1, <1>2 DEF IntentKept
<1> QED
  BY <1>2, IntentSame

\* A failed operation enters its catch block.
LEMMA CaughtKeeps ==
    ASSUME SupervisorInv, Caught
    PROVE  SupervisorInv'
<1>1. /\ UNCHANGED <<apart, db, queue>> /\ task.queue.pc = "caught"
      /\ intent' \in {intent, [intent EXCEPT !.paused = TRUE]}
  BY DEF Caught, Q
<1>2. IntentKept /\ ApartKept /\ db' \in DbStates
  BY <1>1, PausedAgain, ApartSame DEF SupervisorInv, Shaped
<1>3. OpRec' = OpRec => QueueInv'
  BY <1>1, <1>2 DEF SupervisorInv, QueueInv, IntentKept
<1>4. Q.old \in Gens /\ Q.new \in Gens
  BY DEF Q, SupervisorInv, TaskInv, TaskRec, Tasks
<1>5. \/ \E g \in Gens : StopDataServicesForApiGeneration("queue", [Q EXCEPT !.pc = "cleaning"], g)
      \/ (Goto("reschedule") \/ Finish) /\ UNCHANGED <<child, generation>>
  BY <1>4 DEF Caught
<1>6. CASE \E g \in Gens : StopDataServicesForApiGeneration("queue", [Q EXCEPT !.pc = "cleaning"], g)
  BY <1>2, <1>3, <1>6, QueueStops
<1>7. CASE (Goto("reschedule") \/ Finish) /\ UNCHANGED <<child, generation>>
  <2>1. QueueGoes
    BY <1>7, GotoStage, FinishGoes DEF Stages
  <2>2. GensStay /\ generation'.registered = generation.registered
    BY <1>7 DEF GensStay, SupervisorInv, Shaped
  <2> QED
    BY <1>2, <1>3, <1>7, <2>1, <2>2, PlainMove
<1> QED
  BY <1>5, <1>6, <1>7

\* A lifecycle operation returns.
LEMMA DoneKeeps ==
    ASSUME SupervisorInv, Done
    PROVE  SupervisorInv'
<1>1. /\ child' = child /\ generation' = generation /\ intent' = intent
      /\ queue' = queue /\ db' = db /\ Finish
  BY DEF Done
<1>2. ApartKept
  BY DEF Done, ApartKept, SupervisorInv, Shaped
<1>3. QueueGoes /\ IntentKept /\ db' \in DbStates
  BY <1>1, FinishGoes, IntentSame DEF SupervisorInv, Shaped
<1>4. GensStay /\ (OpRec' = OpRec => QueueInv')
  BY <1>1, QueueSame DEF GensStay, SupervisorInv, Shaped
<1> QED
  BY <1>1, <1>2, <1>3, <1>4, PlainMove

\* resume() enables the worker only when no pause is in force.
LEMMA EnableWorkerKeeps ==
    ASSUME SupervisorInv, EnableWorker
    PROVE  SupervisorInv'
<1>1. /\ UNCHANGED <<apart, child, db, queue>> /\ task.queue.op = "resume"
      /\ \/ Goto("caught") /\ UNCHANGED <<generation, intent>>
         \/ /\ task.queue.epoch = intent.epoch /\ Goto("launch")
            /\ generation' = [generation EXCEPT !.failures = 0]
            /\ intent' = [intent EXCEPT !.paused = FALSE]
  BY DEF EnableWorker, Q, Cancelled
<1>2. QueueGoes
  BY <1>1, GotoStage DEF Stages
<1>3. CASE UNCHANGED <<generation, intent>>
  BY <1>1, <1>2, <1>3, PlainGoto
<1>4. CASE /\ task.queue.epoch = intent.epoch
           /\ generation' = [generation EXCEPT !.failures = 0]
           /\ intent' = [intent EXCEPT !.paused = FALSE]
  <2>1. intent \in [paused : BOOLEAN, epoch : Nat, quiet : BOOLEAN] /\ generation \in Counters
    BY DEF SupervisorInv, Shaped
  <2>2. ~intent.quiet
    BY <1>1, <1>4, <2>1 DEF SupervisorInv, QuietInv
  <2>3. /\ intent' \in [paused : BOOLEAN, epoch : Nat, quiet : BOOLEAN]
        /\ intent'.epoch = intent.epoch /\ intent'.quiet = intent.quiet
    BY <1>4, <2>1
  <2>4. IntentKept
    BY <2>2, <2>3 DEF IntentKept
  <2>5. GensStay /\ generation'.registered = generation.registered
    BY <1>4, <2>1 DEF GensStay, Counters
  <2>6. ApartKept /\ db' \in DbStates
    BY <1>1, ApartSame DEF SupervisorInv, Shaped
  <2>7. OpRec' = OpRec => QueueInv'
    BY <1>1, <2>3 DEF SupervisorInv, QueueInv
  <2> QED
    BY <1>1, <1>2, <2>4, <2>5, <2>6, <2>7, PlainMove
<1> QED
  BY <1>1, <1>3, <1>4

\* scheduleApiRestart counts a failure and queues one operation at most.
LEMMA ScheduleEffect ==
    ASSUME SupervisorInv, NEW g \in Gens, NEW gs \in Counters, intent' = intent,
           ScheduleApiRestart(g, gs)
    PROVE  /\ generation' \in Counters /\ generation'.next = gs.next
           /\ generation'.current = gs.current /\ generation'.ready = gs.ready
           /\ generation'.registered = gs.registered
           /\ db' \in DbStates
           /\ OpRec' = OpRec => QueueInv'
<1>1. Shaped /\ QueueInv /\ db \in DbStates
  BY DEF SupervisorInv, Shaped
<1>2. CASE ~IsServiceDatabaseCurrent
  <2>1. NoticeLoss(queue) /\ generation' = gs
    BY <1>2 DEF ScheduleApiRestart
  <2>2. db' \in DbStates
    BY <1>1, <2>1 DEF NoticeLoss, DbStates
  <2> QED
    BY <1>1, <2>1, <2>2, NoticeLossKeeps
<1>3. CASE IsServiceDatabaseCurrent
  <2>1. PICK failures \in {gs.failures, gs.failures + 1}, kind \in {"contain", "recover"} :
           /\ generation' = [gs EXCEPT !.failures = failures]
           /\ queue' = Append(queue, Op(kind, g)) /\ db' = db
    BY <1>3 DEF ScheduleApiRestart
  <2>2. failures \in Nat
    BY DEF Counters
  <2>3. /\ generation' \in Counters /\ generation'.next = gs.next
        /\ generation'.current = gs.current /\ generation'.ready = gs.ready
        /\ generation'.registered = gs.registered
    BY <2>1, <2>2 DEF Counters
  <2>4. OpRec' = OpRec => QueueInv'
    BY <1>1, <2>1, QueueAppended DEF Operations
  <2> QED
    BY <1>1, <2>1, <2>3, <2>4
<1> QED
  BY <1>2, <1>3

\* A failed replacement queues the next one.
LEMMA RescheduleKeeps ==
    ASSUME SupervisorInv, Reschedule
    PROVE  SupervisorInv'
<1>1. /\ child' = child /\ intent' = intent /\ Finish
      /\ UNCHANGED <<strays, authority, monitoring, timers>>
      /\ recovering' = recovering \/ recovering' = recovering \cup {Q.new}
  BY DEF Reschedule
<1>2. /\ Q.old \in Gens /\ Q.new \in Gens /\ generation \in Counters
      /\ Shaped /\ QueueInv /\ db \in DbStates
  BY DEF Q, SupervisorInv, TaskInv, TaskRec, Tasks, Shaped
<1>3. ApartKept /\ IntentKept /\ QueueGoes
  BY <1>1, <1>2, IntentSame, FinishGoes DEF ApartKept, Shaped
<1>4. \/ UNCHANGED <<generation, db, queue>>
      \/ \E g \in Gens : ScheduleApiRestart(g, generation)
  BY <1>2 DEF Reschedule
<1>5. /\ GensStay /\ generation'.registered = generation.registered
      /\ db' \in DbStates /\ (OpRec' = OpRec => QueueInv')
  BY <1>1, <1>2, <1>4, ScheduleEffect, QueueSame DEF GensStay
<1> QED
  BY <1>1, <1>3, <1>5, PlainMove

\* The record of a resume: it begins with the current generation.
ResumeRec(pc) ==
    [[Begun(Head(queue)) EXCEPT !.old = generation.current, !.new = generation.current]
        EXCEPT !.pc = pc]

\* The record of a resume that begins is typed.
LEMMA ResumeRecTyped ==
    ASSUME SupervisorInv, queue # <<>>, NEW pc \in Pcs
    PROVE  /\ ResumeRec(pc) \in TaskRec /\ ResumeRec(pc).pc = pc
           /\ ResumeRec(pc).op = Head(queue).op
           /\ ResumeRec(pc).epoch = Head(queue).epoch
<1> DEFINE b == Begun(Head(queue))
           r1 == [b EXCEPT !.old = generation.current]
           r2 == [r1 EXCEPT !.new = generation.current]
<1>1. /\ b \in TaskRec /\ b.op = Head(queue).op /\ b.epoch = Head(queue).epoch
      /\ generation.current \in Gens
  <2>1. /\ b \in TaskRec
        /\ [b EXCEPT !.pc = pc].op = Head(queue).op
        /\ [b EXCEPT !.pc = pc].epoch = Head(queue).epoch
    BY BegunTyped
  <2> HIDE DEF b
  <2>2. b.op = Head(queue).op /\ b.epoch = Head(queue).epoch
    BY <2>1 DEF TaskRec
  <2> QED
    BY <2>1, <2>2 DEF SupervisorInv, Shaped, Counters
<1>2. ResumeRec(pc) = [r2 EXCEPT !.pc = pc]
  BY DEF ResumeRec
<1> HIDE DEF b
<1>3. r1 \in TaskRec /\ r1.op = Head(queue).op /\ r1.epoch = Head(queue).epoch
  BY <1>1 DEF TaskRec
<1> HIDE DEF r1
<1>4. r2 \in TaskRec /\ r2.op = Head(queue).op /\ r2.epoch = Head(queue).epoch
  BY <1>1, <1>3 DEF TaskRec
<1> HIDE DEF r2
<1> QED
  BY <1>2, <1>4 DEF TaskRec

\* A resume begins; an outdated one ends at once.
LEMMA BeginResumeKeeps ==
    ASSUME SupervisorInv, BeginResume
    PROVE  SupervisorInv'
<1>1. /\ queue # <<>> /\ queue' = Tail(queue) /\ task.queue.pc = "idle"
      /\ Head(queue).op = "resume" /\ UNCHANGED <<apart, db>>
      /\ intent' \in {intent, [intent EXCEPT !.paused = TRUE]}
  BY DEF BeginResume, Next1, Q
<1>2. IntentKept /\ ApartKept /\ db' \in DbStates
  BY <1>1, PausedAgain, ApartSame DEF SupervisorInv, Shaped
<1>3. /\ OpRec' = OpRec => QueueInv'
      /\ Head(queue).epoch <= intent.epoch
      /\ intent.quiet => Head(queue).epoch < intent.epoch
  <2>1. OpRec' = OpRec => QueueInv'
    BY <1>1, <1>2, QueueTailed DEF SupervisorInv, IntentKept
  <2>2. 1 \in 1..Len(queue) /\ Head(queue) = queue[1]
    BY <1>1 DEF SupervisorInv, QueueInv
  <2> QED
    BY <1>1, <2>1, <2>2 DEF SupervisorInv, QueueInv
<1>4. \/ UNCHANGED <<child, generation, task>>
      \/ /\ \E pc \in {"caught", "web"} : task' = [task EXCEPT !["queue"] = ResumeRec(pc)]
         /\ UNCHANGED <<child, generation>>
      \/ StopAndWait("queue", ResumeRec("contain"), Held, generation.registered)
  BY DEF BeginResume, ResumeRec, StopDataServicesOwned
<1>5. CASE UNCHANGED <<child, generation, task>>
  BY <1>1, <1>2, <1>5, BeginDrops
<1>6. ASSUME NEW pc \in {"caught", "web"}, task' = [task EXCEPT !["queue"] = ResumeRec(pc)],
             UNCHANGED <<child, generation>>
      PROVE  SupervisorInv'
  <2>1. /\ ResumeRec(pc) \in TaskRec /\ ResumeRec(pc).pc = pc
        /\ ResumeRec(pc).epoch = Head(queue).epoch
    BY <1>1, ResumeRecTyped DEF Pcs
  <2>2. task' \in [Tasks -> TaskRec] /\ Others("queue") /\ task'.queue = ResumeRec(pc)
    BY <1>6, <2>1 DEF SupervisorInv, TaskInv, Others, Tasks
  <2>3. QueueGoes
    BY <1>3, <2>1, <2>2 DEF QueueGoes, Moves, StopPhases, Unready, Registration, BeforeSpawn
  <2>4. GensStay /\ generation'.registered = generation.registered /\ child' = child
    BY <1>6 DEF GensStay, SupervisorInv, Shaped
  <2> QED
    BY <1>2, <1>3, <2>3, <2>4, PlainMove
<1>7. CASE StopAndWait("queue", ResumeRec("contain"), Held, generation.registered)
  <2>1. /\ ResumeRec("contain") \in TaskRec /\ ResumeRec("contain").pc = "contain"
        /\ ResumeRec("contain").op = "resume"
        /\ ResumeRec("contain").epoch = Head(queue).epoch
    BY <1>1, ResumeRecTyped DEF Pcs
  <2>2. /\ Held \in SUBSET Held /\ generation.registered \in Gens
        /\ "queue" \in Tasks \ {"pause"}
    BY DEF SupervisorInv, Shaped, Counters, Tasks
  <2>3. StopOk("queue", ResumeRec("contain"), Held, generation.registered)
    BY <2>1 DEF StopOk, Unready, Registration
  <2> QED
    BY <1>2, <1>3, <1>7, <2>1, <2>2, <2>3, PlainStop
<1> QED
  BY <1>4, <1>5, <1>6, <1>7

\* The key broker is attached to the API, unless the database went meanwhile.
LEMMA ApiAttachedKeeps ==
    ASSUME SupervisorInv, ApiAttached
    PROVE  SupervisorInv'
<1>1. /\ UNCHANGED <<apart, intent>> /\ task.queue.pc = "attach"
      /\ IsApiGenerationCurrent(task.queue.new)
  BY DEF ApiAttached, Q
<1>2. \/ Goto("spawned") /\ UNCHANGED <<child, generation, db, queue>>
      \/ /\ NoticeLoss(queue) /\ child' = Stopping({"api"})
         /\ generation' = GenerationAfterStop({"api"})
         /\ task' = [task EXCEPT !.queue.pc = "spawned", !.queue.new = 0]
  BY DEF ApiAttached
<1>3. CASE Goto("spawned") /\ UNCHANGED <<child, generation, db, queue>>
  <2>1. QueueGoes
    BY <1>1, <1>3, GotoGoes DEF Pcs, StopPhases, Unready, Registration, BeforeSpawn
  <2> QED
    BY <1>1, <1>3, <2>1, PlainGoto
<1>4. CASE /\ NoticeLoss(queue) /\ child' = Stopping({"api"})
           /\ generation' = GenerationAfterStop({"api"})
           /\ task' = [task EXCEPT !.queue.pc = "spawned", !.queue.new = 0]
  <2>1. Shaped /\ QueueInv /\ CurrentInv /\ TaskInv
    BY DEF SupervisorInv, AuthorityInv
  <2>2. /\ generation' \in Counters /\ generation'.next = generation.next
        /\ generation'.registered = generation.registered
        /\ generation'.ready \in {generation.ready, 0} /\ generation'.current = 0
    BY <1>4, <2>1, AfterStopEffect
  <2>3. Gens' = Gens /\ OpRec' = OpRec
    BY <2>2, SameGens
  <2>4. {"api"} \in SUBSET Held
    BY <1>1 DEF IsApiGenerationCurrent, Held, Services
  <2>5. /\ ChildTypes' /\ child'.worker.gen = child.worker.gen
        /\ child'.worker.st = child.worker.st
        /\ child.api.st # "dead" => child'.api.st = "stopping"
    BY <1>4, <2>1, <2>3, <2>4, StoppingEffect
  <2>6. QueueGoes
    BY <1>4, GotoWithout
  <2>7. \A x \in Tasks : Stays(x) \/ Moves(x)
    BY <2>6 DEF QueueGoes, Others, Stays
  <2>8. ChildEases /\ GensEase /\ CurrentInv'
    BY <1>1, <2>2, <2>5 DEF ChildEases, GensEase, CurrentInv, IsApiGenerationCurrent
  <2>9. TaskInv' /\ ForkInv' /\ AuthorityInv'
    <3>1. strays' = strays /\ authority' = authority /\ task' \in [Tasks -> TaskRec]
      BY <1>1, <2>6 DEF apart, QueueGoes
    <3> QED
      BY <2>2, <2>7, <2>8, <3>1, MoveKeeps
  <2>10. IntentKept /\ ApartKept /\ db' \in DbStates /\ QueueInv'
    BY <1>1, <1>4, <2>1, <2>3, IntentSame, ApartSame, NoticeLossKeeps
  <2>11. QuietInv'
    BY <2>5, <2>6, <2>10, QuietKept DEF QueueGoes, Others, Tasks
  <2>12. Shaped'
    BY <2>1, <2>2, <2>5, <2>10, ShapedKept
  <2> QED
    BY <2>9, <2>10, <2>11, <2>12 DEF SupervisorInv
<1> QED
  BY <1>2, <1>3, <1>4

\* The API answers its health check, which makes its generation ready.
LEMMA ApiReadyKeeps ==
    ASSUME SupervisorInv, ApiReady
    PROVE  SupervisorInv'
<1>1. /\ UNCHANGED <<apart, child, db, intent, queue>> /\ Goto("web")
      /\ \E f : generation' = [generation EXCEPT !.ready = Q.new, !.failures = f]
                /\ f \in {0, generation.failures}
  <2>1. UNCHANGED <<apart, child, db, intent, queue>> /\ Goto("web")
    BY DEF ApiReady
  <2>2. generation' = [generation EXCEPT !.ready = Q.new,
                          !.failures = IF Q.op = "start" THEN 0 ELSE generation.failures]
    BY DEF ApiReady
  <2> QED
    BY <2>1, <2>2
<1>2. Q.new \in Gens /\ generation \in Counters
  BY DEF Q, SupervisorInv, TaskInv, TaskRec, Tasks, Shaped
<1>3. /\ generation' \in Counters /\ generation'.next = generation.next
      /\ generation'.current = generation.current
      /\ generation'.registered = generation.registered
  <2>1. PICK f \in {0, generation.failures} :
           generation' = [generation EXCEPT !.ready = Q.new, !.failures = f]
    BY <1>1
  <2>2. f \in Nat
    BY <1>2 DEF Counters
  <2> DEFINE g1 == [generation EXCEPT !.ready = Q.new]
  <2>3. /\ g1 \in Counters /\ g1.next = generation.next /\ g1.current = generation.current
        /\ g1.registered = generation.registered
    BY <1>2 DEF Counters
  <2>4. generation' = [g1 EXCEPT !.failures = f]
    BY <2>1
  <2> HIDE DEF g1
  <2> QED
    BY <2>2, <2>3, <2>4 DEF Counters
<1>4. QueueGoes /\ task'.queue.pc = "web"
  <2>1. To("queue", "web") /\ "queue" \in Tasks /\ "web" \in Pcs /\ task \in [Tasks -> TaskRec]
    BY <1>1 DEF Goto, Tasks, Pcs, SupervisorInv, TaskInv
  <2> QED
    BY <1>1, <2>1, ToEffect, GotoStage DEF Stages
<1>5. \A x \in Tasks : Stays(x) \/ Moves(x)
  BY <1>4 DEF QueueGoes, Others, Stays
<1>6. ChildEases /\ GensEase /\ CurrentInv'
  BY <1>1, <1>3, <1>4 DEF ChildEases, GensEase, Unready, Registration, SupervisorInv,
     AuthorityInv, CurrentInv
<1>7. TaskInv' /\ ForkInv' /\ AuthorityInv'
  <2>1. strays' = strays /\ authority' = authority /\ task' \in [Tasks -> TaskRec]
    BY <1>1, <1>4 DEF apart, QueueGoes
  <2> QED
    BY <1>3, <1>5, <1>6, <2>1, MoveKeeps
<1>8. IntentKept /\ ApartKept /\ db' \in DbStates
  BY <1>1, IntentSame, ApartSame DEF SupervisorInv, Shaped
<1>9. QuietInv'
  BY <1>1, <1>4, <1>8, QuietKept DEF QueueGoes, Others, Tasks
<1>10. Shaped' /\ OpRec' = OpRec
  BY <1>1, <1>3, <1>8, ShapedStays DEF SupervisorInv
<1>11. QueueInv'
  BY <1>1, <1>10, QueueSame DEF SupervisorInv
<1> QED
  BY <1>7, <1>9, <1>10, <1>11 DEF SupervisorInv

\* startWeb may fork a web child, over whatever handle the web has.
LEMMA StartWebEffect ==
    ASSUME SupervisorInv, NEW g \in Gens, StartWeb(g, queue), generation' = generation
    PROVE  /\ ChildTypes' /\ child'.worker = child.worker /\ child'.api = child.api
           /\ strays' \subseteq Services \X Gens
           /\ \A x \in strays' : x[1] = "web"
           /\ db' \in DbStates
           /\ OpRec' = OpRec /\ intent' = intent => QueueInv'
<1>0. /\ Shaped /\ QueueInv /\ Kid' = Kid /\ db \in DbStates /\ ChildTypes
      /\ child \in [Services -> Kid] /\ strays \subseteq Services \X Gens
      /\ \A x \in strays : x[1] = "web"
  BY SameGens DEF SupervisorInv, Shaped, ChildTypes, ForkInv
<1>1. \/ NoticeLoss(queue) /\ UNCHANGED <<child, strays>>
      \/ UNCHANGED <<child, strays, db, queue>>
      \/ Fork("web", g) /\ UNCHANGED <<db, queue>> /\ g # 0
  BY DEF StartWeb, IsApiGenerationReady, IsApiGenerationCurrent
<1>2. CASE NoticeLoss(queue) /\ UNCHANGED <<child, strays>>
  <2>1. db' \in DbStates
    BY <1>0, <1>2 DEF NoticeLoss, DbStates
  <2> QED
    BY <1>0, <1>2, <2>1, NoticeLossKeeps DEF ChildTypes
<1>3. CASE UNCHANGED <<child, strays, db, queue>>
  BY <1>0, <1>3, QueueSame DEF ChildTypes
<1>4. CASE Fork("web", g) /\ UNCHANGED <<db, queue>> /\ g # 0
  <2>1. Running(g) \in Kid /\ Running(g).st = "live" /\ Running(g).gen = g
    BY DEF Running, Kid
  <2>2. child' = [child EXCEPT !["web"] = Running(g)]
    BY <1>4 DEF Fork
  <2>3. child' \in [Services -> Kid] /\ \A s \in Services \ {"web"} : child'[s] = child[s]
    BY <1>0, <2>1, <2>2
  <2>4. child'["web"] = Running(g)
    BY <1>0, <2>2 DEF Services
  <2>5. ChildTypes' /\ child'.worker = child.worker /\ child'.api = child.api
    BY <1>0, <1>4, <2>1, <2>3, <2>4 DEF ChildTypes, Services
  <2>6. child["web"].gen \in Gens /\ "web" \in Services
    BY <1>0 DEF Kid, Services
  <2>7. strays' \subseteq strays \cup {<<"web", child["web"].gen>>}
    BY <1>4 DEF Fork
  <2>8. <<"web", child["web"].gen>> \in Services \X Gens
    BY <2>6
  <2> QED
    BY <1>0, <1>4, <2>5, <2>7, <2>8, QueueSame
<1> QED
  BY <1>1, <1>2, <1>3, <1>4

\* A start forks the web child, the one child whose handle may be lost.
LEMMA LaunchWebKeeps ==
    ASSUME SupervisorInv, LaunchWeb
    PROVE  SupervisorInv'
<1>1. /\ UNCHANGED <<generation, recovering, authority, intent, monitoring, timers>>
      /\ Goto("webStarted")
      /\ UNCHANGED <<child, strays, db, queue>> \/ StartWeb(Q.new, queue)
  BY DEF LaunchWeb
<1>2. Q.new \in Gens /\ generation \in Counters
  BY DEF Q, SupervisorInv, TaskInv, TaskRec, Tasks, Shaped
<1>3. OpRec' = OpRec /\ Gens' = Gens /\ Kid' = Kid
  BY <1>1, SameGens
<1>4. /\ ChildTypes' /\ child'.worker = child.worker /\ child'.api = child.api
      /\ strays' \subseteq Services \X Gens
      /\ \A x \in strays' : x[1] = "web"
      /\ db' \in DbStates
      /\ QueueInv'
  <2>1. CASE UNCHANGED <<child, strays, db, queue>>
    BY <1>1, <1>3, <2>1, QueueSame DEF SupervisorInv, Shaped, ChildTypes, ForkInv
  <2>2. CASE StartWeb(Q.new, queue)
    BY <1>1, <1>2, <1>3, <2>2, StartWebEffect
  <2> QED
    BY <1>1, <2>1, <2>2
<1>5. QueueGoes
  BY <1>1, GotoStage DEF Stages
<1>6. \A x \in Tasks : Stays(x) \/ Moves(x)
  BY <1>5 DEF QueueGoes, Others, Stays
<1>7. ChildEases /\ GensEase /\ CurrentInv'
  BY <1>1, <1>2, <1>4 DEF ChildEases, GensEase, SupervisorInv, AuthorityInv, CurrentInv
<1>8. TaskInv' /\ ForkInv' /\ AuthorityInv'
  BY <1>1, <1>4, <1>5, <1>6, <1>7, MoveKeeps DEF QueueGoes
<1>9. QuietInv'
  BY <1>1, <1>4, <1>5, IntentSame, QuietKept DEF QueueGoes, Others, Tasks
<1>10. Shaped'
  BY <1>1, <1>2, <1>3, <1>4, SameGens DEF SupervisorInv, Shaped
<1> QED
  BY <1>4, <1>8, <1>9, <1>10 DEF SupervisorInv

\* A worker start begins: no worker is held, and the ready generation, which is
\* no operation's unregistered one, gets it.
LEMMA StarterBegins ==
    ASSUME SupervisorInv, NEW g \in Gens, WorkerStartable(g), task.starter.pc = "idle",
           task' \in [Tasks -> TaskRec], task'.starter = Starter(g),
           task'.pause = task.pause, task'.error = task.error,
           Stays("queue") \/ Moves("queue"),
           task'.queue.op = task.queue.op, task'.queue.epoch = task.queue.epoch,
           child' = child, strays' = strays, authority' = authority,
           generation' = generation, intent' = intent
    PROVE  TaskInv' /\ ForkInv' /\ AuthorityInv' /\ QuietInv'
<1> USE DEF SupervisorInv, AuthorityInv
<1>1. /\ Starter(g).new = g
      /\ Starter(g).pc = IF generation.registered = g THEN "fork" ELSE "register"
      /\ Starter(g).bad = FALSE
  BY DEF Starter, Idle
<1>2. /\ child.worker.st = "none" /\ generation.ready = g /\ generation.current = g /\ g # 0
  BY DEF WorkerStartable, WorkerRetained, IsApiGenerationReady, IsApiGenerationCurrent
<1>3. TaskRec' = TaskRec
  BY SameGens
<1>4. \A x \in Tasks : x = "queue" \/ x = "starter" \/ task'[x] = task[x]
  BY DEF Tasks
<1>5. TaskInv'
  <2>1. task'.queue.pc = "attach" => task'.queue.new # 0
    BY DEF Stays, Moves, TaskInv
  <2>2. \/ task'.queue.pc \in BeforeSpawn
        \/ task'.queue.pc = "contain" /\ task'.queue.op = "recover"
        => task'.queue.new = 0
    BY DEF Stays, Moves, TaskInv, StopPhases
  <2>3. task'.starter.pc # "idle" /\ task'.starter.new # 0
    BY <1>1, <1>2
  <2> QED
    BY <1>3, <2>1, <2>2, <2>3 DEF TaskInv
<1>6. ForkInv'
  <2>1. task'.queue.pc = "clearing" => Stays("queue")
    BY DEF Moves
  <2>2. task'.queue.pc = "respawn" => child'.api.st = "none"
    BY DEF Stays, Moves, ForkInv
  <2> QED
    BY <1>2, <2>1, <2>2 DEF Stays, ForkInv
<1>7. CurrentInv' /\ AuthorityCanBeRevoked'
  BY DEF CurrentInv, AuthorityCanBeRevoked
<1>8. Starter(g).pc \notin StopPhases \cup {"unregistering"}
  BY <1>1 DEF StopPhases
<1>9. StoppedInv'
  BY <1>4, <1>8 DEF StoppedInv, Stays, Moves
<1>10. ForgetInv'
  BY <1>2, <1>4, <1>8 DEF ForgetInv, Stays, Moves
<1>11. FreshInv'
  BY <1>1, <1>2 DEF FreshInv, Stays, Moves
<1>12. StartInv'
  BY <1>1 DEF StartInv
<1>13. QuietInv'
  BY IntentSame, QuietKept
<1> QED
  BY <1>5, <1>6, <1>7, <1>9, <1>10, <1>11, <1>12, <1>13

\* A begun start is a task record.
LEMMA StarterTyped ==
    ASSUME SupervisorInv, NEW g \in Gens
    PROVE  Starter(g) \in TaskRec
<1> DEFINE pc == IF generation.registered = g THEN "fork" ELSE "register"
           r1 == [Idle EXCEPT !.pc = pc]
<1>1. pc \in Pcs
  BY DEF Pcs
<1>2. Starter(g) = [r1 EXCEPT !.new = g]
  BY DEF Starter
<1> HIDE DEF pc
<1>3. r1 \in TaskRec
  BY <1>1, IdleTyped DEF SupervisorInv, TaskRec
<1> HIDE DEF r1
<1> QED
  BY <1>2, <1>3 DEF TaskRec

\* A start begins, or joins, the latched worker start.
LEMMA LaunchWorkerKeeps ==
    ASSUME SupervisorInv, LaunchWorker
    PROVE  SupervisorInv'
<1>0. UNCHANGED <<apart, child, generation, intent>>
  BY DEF LaunchWorker
<1>1. /\ task \in [Tasks -> TaskRec] /\ Q = task["queue"] /\ Q.new \in Gens
      /\ {"queue", "starter", "pause", "error"} \subseteq Tasks
      /\ "joining" \in Pcs /\ "workerStarted" \in Pcs
  BY DEF Q, SupervisorInv, TaskInv, TaskRec, Tasks, Pcs
<1>2. \/ Goto("joining") /\ UNCHANGED <<db, queue>>
      \/ /\ task.starter.pc = "idle" /\ WorkerStartable(Q.new) /\ UNCHANGED <<db, queue>>
         /\ task' = [task EXCEPT !.queue.pc = "joining", !.starter = Starter(Q.new)]
      \/ /\ task' = [task EXCEPT !.queue.pc = "workerStarted", !.queue.bad = WorkerRetained]
         /\ UNCHANGED <<db, queue>> \/ NoticeLoss(queue)
  BY DEF LaunchWorker
<1>3. CASE Goto("joining") /\ UNCHANGED <<db, queue>>
  BY <1>0, <1>3, GotoStage, PlainGoto DEF Stages
<1>4. CASE /\ task' = [task EXCEPT !.queue.pc = "workerStarted", !.queue.bad = WorkerRetained]
           /\ UNCHANGED <<db, queue>> \/ NoticeLoss(queue)
  <2> DEFINE r1 == [task["queue"] EXCEPT !.pc = "workerStarted"]
             r2 == [r1 EXCEPT !.bad = WorkerRetained]
  <2>1. WorkerRetained \in BOOLEAN
    BY DEF WorkerRetained
  <2>2. /\ r1 \in TaskRec /\ r1.pc = "workerStarted" /\ r1.op = task.queue.op
        /\ r1.epoch = task.queue.epoch
    BY <1>1 DEF TaskRec
  <2>3. task' = [task EXCEPT !["queue"] = r2]
    BY <1>1, <1>4
  <2> HIDE DEF r1
  <2>4. /\ r2 \in TaskRec /\ r2.pc = "workerStarted" /\ r2.op = task.queue.op
        /\ r2.epoch = task.queue.epoch
    BY <2>1, <2>2 DEF TaskRec
  <2> HIDE DEF r2
  <2>5. task' \in [Tasks -> TaskRec] /\ Others("queue") /\ task'["queue"] = r2
    BY <1>1, <2>3, <2>4 DEF Others
  <2>6. QueueGoes
    BY <2>4, <2>5 DEF QueueGoes, Moves, StopPhases, Unready, Registration, BeforeSpawn
  <2> QED
    BY <1>0, <1>4, <2>6, PlainGoto
<1>5. CASE /\ task.starter.pc = "idle" /\ WorkerStartable(Q.new) /\ UNCHANGED <<db, queue>>
           /\ task' = [task EXCEPT !.queue.pc = "joining", !.starter = Starter(Q.new)]
  <2> DEFINE r == [task["queue"] EXCEPT !.pc = "joining"]
  <2>1. r \in TaskRec /\ r.pc = "joining" /\ r.op = task.queue.op /\ r.epoch = task.queue.epoch
    BY <1>1 DEF TaskRec
  <2>2. Starter(Q.new) \in TaskRec
    BY <1>1, StarterTyped
  <2>3. task' = [[task EXCEPT !["queue"] = r] EXCEPT !["starter"] = Starter(Q.new)]
    BY <1>1, <1>5
  <2> HIDE DEF r
  <2>4. /\ task' \in [Tasks -> TaskRec] /\ task'["queue"] = r
        /\ task'["starter"] = Starter(Q.new)
        /\ task'["pause"] = task["pause"] /\ task'["error"] = task["error"]
    BY <1>1, <2>1, <2>2, <2>3
  <2>5. Moves("queue")
    BY <2>1, <2>4 DEF Moves, StopPhases, Unready, Registration, BeforeSpawn
  <2>6. TaskInv' /\ ForkInv' /\ AuthorityInv' /\ QuietInv'
    <3>1. /\ task'.starter = Starter(Q.new) /\ task'.pause = task.pause
          /\ task'.error = task.error /\ task'.queue.op = task.queue.op
          /\ task'.queue.epoch = task.queue.epoch
      BY <2>1, <2>4
    <3>2. /\ child' = child /\ strays' = strays /\ authority' = authority
          /\ generation' = generation /\ intent' = intent
      BY <1>0 DEF apart
    <3> QED
      BY <1>1, <1>5, <2>4, <2>5, <3>1, <3>2, StarterBegins
  <2>7. Shaped' /\ OpRec' = OpRec
    BY <1>0, <1>5, ShapedStays, IntentSame, ApartSame DEF SupervisorInv, Shaped
  <2>8. QueueInv'
    BY <1>0, <1>5, <2>7, QueueSame DEF SupervisorInv
  <2> QED
    BY <2>6, <2>7, <2>8 DEF SupervisorInv
<1> QED
  BY <1>2, <1>3, <1>4, <1>5

\* A new generation is one nobody has heard of.
LEMMA SpawnGens ==
    ASSUME SupervisorInv, NEW g, g = generation.next + 1,
           generation' = [generation EXCEPT !.next = g, !.current = g, !.ready = 0]
    PROVE  /\ Gens \subseteq Gens' /\ g \in Gens' /\ g \notin Gens /\ g # 0
           /\ generation' \in Counters' /\ generation'.current = g
           /\ generation'.ready = 0 /\ generation'.registered = generation.registered
           /\ Kid \subseteq Kid' /\ TaskRec \subseteq TaskRec' /\ OpRec \subseteq OpRec'
<1>1. /\ generation \in Counters /\ generation.next \in Nat /\ generation.failures \in Nat
      /\ generation.registered \in Gens
  BY DEF SupervisorInv, Shaped, Counters
<1>2. /\ generation' = [next |-> g, current |-> g, ready |-> 0,
                        registered |-> generation.registered, failures |-> generation.failures]
  BY <1>1 DEF Counters
<1>3. /\ generation'.next = g /\ generation'.current = g /\ generation'.ready = 0
      /\ generation'.registered = generation.registered
  BY <1>2
<1>4. Gens' = 0..g /\ g \in Nat
  BY <1>1, <1>3 DEF Gens
<1>5. Gens \subseteq Gens' /\ g \in Gens' /\ g \notin Gens /\ g # 0 /\ 0 \in Gens'
  BY <1>1, <1>4 DEF Gens
<1>6. generation' \in Counters'
  BY <1>1, <1>2, <1>4, <1>5 DEF Counters
<1>7. Kid \subseteq Kid'
  BY <1>5 DEF Kid
<1>8. OpRec \subseteq OpRec'
  BY <1>5 DEF OpRec
<1>9. TaskRec \subseteq TaskRec'
  BY <1>5 DEF TaskRec
<1> QED
  BY <1>3, <1>5, <1>6, <1>7, <1>8, <1>9

\* The API is forked: here no handle may be held.
LEMMA SpawnApiKeeps ==
    ASSUME SupervisorInv, SpawnApi
    PROVE  SupervisorInv'
<1> USE DEF SupervisorInv
<1> DEFINE g == generation.next + 1
<1>1. child.api.st = "none"
  BY DEF SpawnApi, Q, ForkInv
<1>2. /\ generation' = [generation EXCEPT !.next = g, !.current = g, !.ready = 0]
      /\ task' = [task EXCEPT !.queue.pc = "attach", !.queue.new = g]
      /\ child' = [child EXCEPT !["api"] = Running(g)]
      /\ strays' = IF child["api"].st \in {"live", "stopping"}
                   THEN strays \cup {<<"api", child["api"].gen>>} ELSE strays
      /\ UNCHANGED <<recovering, authority, db, intent, monitoring, queue, timers>>
  BY DEF SpawnApi, Fork
<1>3. strays' = strays
  BY <1>1, <1>2
<1>4. g = generation.next + 1
  OBVIOUS
<1> HIDE DEF g
<1>5. /\ Gens \subseteq Gens' /\ g \in Gens' /\ g \notin Gens /\ g # 0
      /\ generation' \in Counters' /\ generation'.current = g
      /\ generation'.ready = 0 /\ generation'.registered = generation.registered
      /\ Kid \subseteq Kid' /\ TaskRec \subseteq TaskRec' /\ OpRec \subseteq OpRec'
  BY <1>2, <1>4, SpawnGens
<1>6. /\ child' \in [Services -> Kid'] /\ child'["api"] = Running(g)
      /\ child'["worker"] = child["worker"] /\ child'["web"] = child["web"]
      /\ Running(g).gen = g /\ Running(g).st = "live"
  <2>1. Running(g) \in Kid' /\ Running(g).gen = g /\ Running(g).st = "live"
    BY <1>5 DEF Running, Kid
  <2>2. child \in [Services -> Kid'] /\ {"api", "web", "worker"} \subseteq Services
    BY <1>5 DEF Shaped, ChildTypes, Services
  <2> QED
    BY <1>2, <2>1, <2>2
<1>7. ChildTypes'
  BY <1>5, <1>6 DEF Shaped, ChildTypes, Services
<1>8. Shaped'
  <2>1. strays' \subseteq Services \X Gens' /\ timers' \subseteq {"web", "worker"} \X Gens'
    BY <1>2, <1>3, <1>5 DEF Shaped
  <2> QED
    BY <1>2, <1>5, <1>7, <2>1 DEF Shaped
<1>9. QueueInv'
  BY <1>2, <1>5 DEF QueueInv
<1>10. /\ task' \in [Tasks -> TaskRec'] /\ Others("queue")
       /\ task'.queue.pc = "attach" /\ task'.queue.new = g
       /\ task'.queue.op = task.queue.op /\ task'.queue.epoch = task.queue.epoch
  <2> DEFINE r1 == [task["queue"] EXCEPT !.pc = "attach"]
             r2 == [r1 EXCEPT !.new = g]
  <2>1. task \in [Tasks -> TaskRec] /\ "queue" \in Tasks /\ "attach" \in Pcs
    BY DEF TaskInv, Tasks, Pcs
  <2>2. /\ r1 \in TaskRec /\ r1.pc = "attach" /\ r1.op = task.queue.op
        /\ r1.epoch = task.queue.epoch
    BY <2>1 DEF TaskRec
  <2>3. task' = [task EXCEPT !["queue"] = r2]
    BY <1>2, <2>1
  <2> HIDE DEF r1
  <2>4. /\ r2 \in TaskRec' /\ r2.pc = "attach" /\ r2.op = task.queue.op
        /\ r2.epoch = task.queue.epoch /\ r2.new = g
    <3>1. r1 \in TaskRec'
      BY <1>5, <2>2
    <3> QED
      BY <1>5, <2>2, <3>1 DEF TaskRec
  <2> HIDE DEF r2
  <2>5. task \in [Tasks -> TaskRec']
    BY <1>5, <2>1
  <2> QED
    BY <2>1, <2>3, <2>4, <2>5 DEF Others
<1>11. /\ task'.starter = task.starter /\ task'.pause = task.pause /\ task'.error = task.error
       /\ \A x \in Tasks : x # "queue" => task'[x] = task[x]
  BY <1>10 DEF Others, Tasks
<1>12. TaskInv'
  BY <1>5, <1>10, <1>11 DEF TaskInv, BeforeSpawn
<1>13. ForkInv'
  BY <1>3, <1>6, <1>10, <1>11 DEF ForkInv
<1>14. QuietInv'
  BY <1>2, <1>6, <1>10, <1>11 DEF QuietInv
<1>15. CurrentInv'
  BY <1>5, <1>6 DEF CurrentInv
<1>16. \A x \in Tasks : task[x].revoking \in Gens /\ task[x].new \in Gens
  BY DEF TaskInv, TaskRec
<1>17. StoppedInv' /\ ForgetInv'
  BY <1>5, <1>6, <1>10, <1>11, <1>16 DEF StoppedInv, ForgetInv, AuthorityInv, StopPhases
<1>18. FreshInv'
  <2>1. child["worker"].gen \in Gens /\ task["starter"].new \in Gens
    BY <1>16 DEF Shaped, ChildTypes, Kid, Services, Tasks
  <2> QED
    BY <1>5, <1>6, <1>10, <1>11, <2>1 DEF FreshInv
<1>19. StartInv'
  <2>1. task["starter"].new \in Gens
    BY <1>16 DEF Tasks
  <2> QED
    BY <1>5, <1>11, <2>1 DEF StartInv
<1>20. AuthorityCanBeRevoked'
  BY <1>2, <1>5, <1>6 DEF AuthorityCanBeRevoked, AuthorityInv
<1> QED
  BY <1>8, <1>9, <1>12, <1>13, <1>14, <1>15, <1>17, <1>18, <1>19, <1>20 DEF AuthorityInv

\* Every step of a lifecycle operation.
LEMMA LifecycleKeeps ==
    ASSUME SupervisorInv, Lifecycle
    PROVE  SupervisorInv'
  BY BeginStartKeeps, BeginKeeps, BeginResumeKeeps, StartDatabaseKeeps,
     ContainFailsKeeps, ContainedKeeps, ClearApiKeeps, ApiClearedKeeps,
     SpawnApiKeeps, SpawnRefusedKeeps, ApiAttachedKeeps, ApiNotAttachedKeeps,
     SpawnedKeeps, ApiReadyKeeps, ApiNotReadyKeeps, LaunchWebKeeps,
     CheckpointKeeps, EnableWorkerKeeps, LaunchWorkerKeeps, DoneKeeps,
     SettledKeeps, CaughtKeeps, RescheduleKeeps DEF Lifecycle

-----------------------------------------------------------------------------
(* registerWorkerGenerationAuthority, for a lifecycle operation and for the *)
(* worker start.                                                           *)

\* A task other than pause() moves and touches no child.
LEMMA TaskMove ==
    ASSUME SupervisorInv, NEW t \in Tasks \ {"pause"}, task' \in [Tasks -> TaskRec],
           Others(t), Moves(t),
           t = "queue" => task'[t].op = task[t].op /\ task'[t].epoch = task[t].epoch,
           UNCHANGED <<apart, child, intent>>, db' \in DbStates, GensStay,
           generation'.registered = generation.registered \/ Forgets(t),
           OpRec' = OpRec => QueueInv'
    PROVE  SupervisorInv'
<1>1. \A x \in Tasks : Stays(x) \/ Moves(x)
  BY DEF Others, Stays
<1>2. ChildEases /\ GensEase /\ CurrentInv'
  BY DEF ChildEases, GensStay, GensEase, SupervisorInv, AuthorityInv, CurrentInv
<1>3. strays' = strays /\ authority' = authority
  BY DEF apart
<1>4. TaskInv' /\ ForkInv' /\ AuthorityInv'
  BY <1>1, <1>2, <1>3, MoveKeeps
<1>5. task'.pause = task.pause /\ task'.queue.op = task.queue.op
      /\ task'.queue.epoch = task.queue.epoch
  BY DEF Others, Tasks
<1>6. QuietInv'
  BY <1>5, IntentSame, QuietKept
<1>7. Shaped' /\ OpRec' = OpRec
  BY IntentSame, ApartSame, ShapedStays DEF SupervisorInv, GensStay
<1> QED
  BY <1>4, <1>6, <1>7 DEF SupervisorInv

\* A registration goes on: the capability is retained first, the row may be
\* written next.
LEMMA RegisterMove ==
    ASSUME SupervisorInv, NEW t \in {"queue", "starter"},
           task[t].pc \in {"register", "registering", "registered"},
           NEW pc \in {"registering", "registered", "unregister", "fork"}, To(t, pc),
           t = "queue" => pc # "fork",
           pc \in {"registered", "fork"} => task[t].pc # "register",
           child' = child, strays' = strays, GensStay, intent' = intent,
           \/ generation'.registered = generation.registered
           \/ generation.registered \in {0, task[t].new},
           generation'.registered \in {generation.registered, task[t].new},
           pc = "registering" => generation'.registered = task[t].new,
           authority' \in {authority, {task[t].new}}
    PROVE  TaskInv' /\ ForkInv' /\ AuthorityInv' /\ QuietInv'
<1> USE DEF SupervisorInv, AuthorityInv
<1>1. /\ t \in Tasks /\ pc \in Pcs /\ task \in [Tasks -> TaskRec]
      /\ {"queue", "starter", "pause", "error"} \subseteq Tasks
  BY DEF Tasks, Pcs, TaskInv
<1>2. /\ task' \in [Tasks -> TaskRec] /\ Others(t)
      /\ task'[t].pc = pc /\ task'[t].op = task[t].op /\ task'[t].new = task[t].new
      /\ task'[t].epoch = task[t].epoch
  BY <1>1, ToEffect
<1>3. TaskRec' = TaskRec /\ \A x \in Tasks : x # t => task'[x] = task[x]
  BY <1>2, SameGens DEF GensStay, Others
<1>4. /\ task'.pause = task.pause /\ task'.error = task.error
      /\ task'.queue.new = task.queue.new /\ task'.starter.new = task.starter.new
      /\ task'.queue.op = task.queue.op /\ task'.queue.epoch = task.queue.epoch
  BY <1>1, <1>2, <1>3
<1>5. pc \notin StopPhases \cup {"unregistering", "idle", "attach"} \cup BeforeSpawn
  BY DEF StopPhases, BeforeSpawn
<1>6. TaskInv'
  <2>1. task'.starter.pc = "idle" <=> task'.starter.new = 0
    BY <1>1, <1>2, <1>3, <1>4, <1>5 DEF TaskInv
  <2>2. /\ task'.queue.pc = "attach" => task'.queue.new # 0
        /\ \/ task'.queue.pc \in BeforeSpawn
           \/ task'.queue.pc = "contain" /\ task'.queue.op = "recover"
           => task'.queue.new = 0
    BY <1>1, <1>2, <1>3, <1>4, <1>5 DEF TaskInv, StopPhases
  <2> QED
    BY <1>2, <1>3, <1>4, <2>1, <2>2 DEF TaskInv
<1>7. /\ t = "starter" => child.worker.st = "none" /\ task.starter.new # 0
      /\ t = "queue" => task.queue.pc \in Unready
  BY DEF ForkInv, BeforeFork, Registration, Unready, TaskInv
<1>8. ForkInv'
  BY <1>1, <1>2, <1>3, <1>5, <1>7 DEF ForkInv, BeforeSpawn
<1>9. CurrentInv' /\ StoppedInv'
  BY <1>2, <1>3, <1>5 DEF CurrentInv, StoppedInv, GensStay
<1>10. FreshInv'
  <2>1. task'.queue.pc \in Unready => task.queue.pc \in Unready
    BY <1>1, <1>3, <1>7
  <2> QED
    BY <1>4, <2>1 DEF FreshInv, GensStay
<1>11. ForgetInv'
  BY <1>2, <1>3, <1>5 DEF ForgetInv
<1>12. child.worker.st # "none" => child.worker.gen # task[t].new
  <2>1. child.worker.st # "none" => child.worker.gen # 0
    BY DEF Shaped, ChildTypes, Services
  <2> QED
    BY <1>7, <2>1 DEF FreshInv
<1>13. StartInv'
  <2>1. CASE t = "starter"
    BY <1>2, <1>7, <2>1 DEF StartInv, GensStay
  <2>2. CASE t = "queue"
    <3>1. task'.starter = task.starter
      BY <1>1, <1>3, <2>2
    <3>2. task.starter.pc \in {"registering", "registered", "fork"} => task.starter.new # 0
      BY DEF TaskInv
    <3> QED
      BY <1>7, <2>2, <3>1, <3>2 DEF StartInv, GensStay, FreshInv
  <2> QED
    BY <2>1, <2>2
<1>14. AuthorityCanBeRevoked'
  <2>1. child.worker.st # "none" => child.worker.gen # 0
    BY DEF Shaped, ChildTypes, Services
  <2> QED
    BY <1>12, <2>1 DEF AuthorityCanBeRevoked
<1>15. QuietInv'
  BY <1>4, IntentSame, QuietKept
<1> QED
  BY <1>6, <1>8, <1>9, <1>10, <1>11, <1>13, <1>14, <1>15

\* What a step of a registration keeps besides the tasks.
LEMMA RegisterShaped ==
    ASSUME SupervisorInv, UNCHANGED <<child, strays, recovering, intent, monitoring,
                                      queue, timers>>,
           authority' \subseteq Gens, GensStay, db' \in DbStates
    PROVE  Shaped' /\ QueueInv'
<1>1. Gens' = Gens /\ Kid' = Kid /\ Counters' = Counters /\ OpRec' = OpRec
  BY SameGens DEF GensStay
<1>2. Shaped'
  BY <1>1 DEF SupervisorInv, Shaped, ChildTypes, GensStay
<1>3. QueueInv'
  BY <1>1, QueueSame DEF SupervisorInv
<1> QED
  BY <1>2, <1>3

\* registerWorkerGenerationAuthority asks for the row.
LEMMA RegisterBeginKeeps ==
    ASSUME SupervisorInv, NEW t \in {"queue", "starter"}, RegisterBegin(t)
    PROVE  SupervisorInv'
<1>1. /\ task[t].pc = "register" /\ UNCHANGED <<apart, child, db, intent, queue>>
      /\ \/ /\ generation.registered \in {0, task[t].new}
            /\ generation' = [generation EXCEPT !.registered = task[t].new]
            /\ To(t, "registering")
         \/ To(t, "caught") /\ generation' = generation
  BY DEF RegisterBegin
<1>2. /\ t \in Tasks \ {"pause"} /\ task \in [Tasks -> TaskRec] /\ task[t].new \in Gens
      /\ generation \in Counters /\ db' \in DbStates /\ "caught" \in Pcs
      /\ t \in Tasks
  BY <1>1 DEF Tasks, SupervisorInv, TaskInv, TaskRec, Shaped, Pcs
<1>3. CASE /\ generation.registered \in {0, task[t].new}
           /\ generation' = [generation EXCEPT !.registered = task[t].new]
           /\ To(t, "registering")
  <2>1. GensStay /\ generation'.registered = task[t].new
    BY <1>2, <1>3 DEF GensStay, Counters
  <2>2. child' = child /\ strays' = strays /\ authority' = authority
    BY <1>1 DEF apart
  <2>3. TaskInv' /\ ForkInv' /\ AuthorityInv' /\ QuietInv'
    BY <1>1, <1>3, <2>1, <2>2, RegisterMove
  <2>4. Shaped' /\ QueueInv'
    BY <1>1, <1>2, <2>1, RegisterShaped DEF apart, SupervisorInv, Shaped
  <2> QED
    BY <2>3, <2>4 DEF SupervisorInv
<1>4. CASE To(t, "caught") /\ generation' = generation
  <2>1. GensStay /\ generation'.registered = generation.registered
    BY <1>2, <1>4 DEF GensStay
  <2>2. /\ task' \in [Tasks -> TaskRec] /\ Others(t) /\ task'[t].pc = "caught"
        /\ task'[t].op = task[t].op /\ task'[t].new = task[t].new
        /\ task'[t].epoch = task[t].epoch
    BY <1>2, <1>4, ToEffect
  <2>3. t = "starter" => task[t].new # 0
    BY <1>1 DEF SupervisorInv, TaskInv
  <2>4. Moves(t)
    BY <2>2, <2>3 DEF Moves, StopPhases, BeforeSpawn, BeforeFork, Unready, Registration
  <2>5. OpRec' = OpRec => QueueInv'
    BY <1>1, QueueSame DEF SupervisorInv
  <2> QED
    BY <1>1, <1>2, <2>1, <2>2, <2>4, <2>5, TaskMove
<1> QED
  BY <1>1, <1>3, <1>4

\* The registration's answer, or its loss, reaches the task.
LEMMA RegisterAnswers ==
    ASSUME SupervisorInv, NEW t \in {"queue", "starter"},
           RegisterCommit(t) \/ RegisterFails(t)
    PROVE  SupervisorInv'
<1>1. /\ task[t].pc = "registering"
      /\ UNCHANGED <<child, strays, generation, recovering, db, intent, monitoring,
                     queue, timers>>
      /\ authority' \in {authority, {task[t].new}}
      /\ To(t, "registered") \/ To(t, "unregister")
  BY DEF RegisterCommit, RegisterFails
<1>2. task[t].new \in Gens /\ authority \subseteq Gens /\ db \in DbStates
  BY DEF Tasks, SupervisorInv, TaskInv, TaskRec, Shaped
<1>3. GensStay /\ generation'.registered = generation.registered
  BY <1>1 DEF GensStay, SupervisorInv, Shaped
<1>4. TaskInv' /\ ForkInv' /\ AuthorityInv' /\ QuietInv'
  BY <1>1, <1>3, RegisterMove
<1>5. Shaped' /\ QueueInv'
  BY <1>1, <1>2, <1>3, RegisterShaped
<1> QED
  BY <1>4, <1>5 DEF SupervisorInv

\* A registration that no longer stands stops the services.
LEMMA RegistrationStops ==
    ASSUME SupervisorInv, NEW t \in {"queue", "starter"}, task[t].pc = "registered",
           NEW g \in Gens,
           \/ StopDataServicesOwned(t, [task[t] EXCEPT !.pc = "unmaking"])
           \/ StopDataServicesForApiGeneration(t, [task[t] EXCEPT !.pc = "unmaking"], g),
           UNCHANGED <<apart, intent, queue>>, db' \in DbStates
    PROVE  SupervisorInv'
<1> DEFINE u == [task[t] EXCEPT !.pc = "unmaking"]
<1>1. t \in Tasks \ {"pause"} /\ t \in Tasks /\ "unmaking" \in Pcs /\ TaskInv
  BY DEF Tasks, Pcs, SupervisorInv
<1>2. /\ u \in TaskRec /\ u.pc = "unmaking" /\ u.op = task[t].op /\ u.new = task[t].new
      /\ u.epoch = task[t].epoch
  BY <1>1, RecordAt
<1>3. \/ StopAndWait(t, u, Held, generation.registered)
      \/ StopAndWait(t, u, BoundTo(g), g)
  BY DEF StopDataServicesOwned, StopDataServicesForApiGeneration
<1> HIDE DEF u
<1>4. BoundTo(g) \in SUBSET Held /\ Held \in SUBSET Held /\ generation.registered \in Gens
  BY DEF BoundTo, Held, SupervisorInv, Shaped, Counters
<1>5. \A S, h : S = Held \/ S = BoundTo(h) => StopOk(t, u, S, h)
  BY <1>2 DEF StopOk, Unready, BeforeFork, Registration
<1>6. IntentKept /\ ApartKept
  BY IntentSame, ApartSame
<1>7. OpRec' = OpRec => QueueInv'
  BY QueueSame DEF SupervisorInv
<1>8. t # "queue" \/ (u.op = task.queue.op /\ u.epoch = task.queue.epoch)
  BY <1>2
<1>9. CASE StopAndWait(t, u, Held, generation.registered)
  BY <1>1, <1>2, <1>4, <1>5, <1>6, <1>7, <1>8, <1>9, PlainStop
<1>10. CASE StopAndWait(t, u, BoundTo(g), g)
  BY <1>1, <1>2, <1>4, <1>5, <1>6, <1>7, <1>8, <1>10, PlainStop
<1> QED
  BY <1>3, <1>9, <1>10

\* What the registration's answer leads to.
LEMMA RegisteredKeeps ==
    ASSUME SupervisorInv, NEW t \in {"queue", "starter"}, Registered(t)
    PROVE  SupervisorInv'
<1>1. /\ task[t].pc = "registered" /\ UNCHANGED <<apart, intent, queue>>
      /\ \/ /\ StopDataServicesOwned(t, [task[t] EXCEPT !.pc = "unmaking"])
            /\ db' \in {db, "invalid"}
         \/ /\ StopDataServicesForApiGeneration(t, [task[t] EXCEPT !.pc = "unmaking"],
                                                task[t].new)
            /\ UNCHANGED db
         \/ To(t, AfterRegister(t)) /\ UNCHANGED <<child, generation, db>>
  BY DEF Registered
<1>2. /\ t \in Tasks \ {"pause"} /\ task \in [Tasks -> TaskRec] /\ task[t].new \in Gens
      /\ generation \in Counters /\ db \in DbStates /\ "readiness" \in Pcs
      /\ t \in Tasks
  BY DEF Tasks, SupervisorInv, TaskInv, TaskRec, Shaped, Pcs
<1>3. CASE \/ /\ StopDataServicesOwned(t, [task[t] EXCEPT !.pc = "unmaking"])
              /\ db' \in {db, "invalid"}
           \/ /\ StopDataServicesForApiGeneration(t, [task[t] EXCEPT !.pc = "unmaking"],
                                                  task[t].new)
              /\ UNCHANGED db
  <2>1. db' \in DbStates
    BY <1>2, <1>3 DEF DbStates
  <2> QED
    BY <1>1, <1>2, <1>3, <2>1, RegistrationStops
<1>4. CASE To(t, AfterRegister(t)) /\ UNCHANGED <<child, generation, db>>
  <2>1. GensStay /\ generation'.registered = generation.registered
    BY <1>2, <1>4 DEF GensStay
  <2>2. child' = child /\ strays' = strays /\ authority' = authority
    BY <1>1, <1>4 DEF apart
  <2>3. CASE t = "starter"
    <3>1. To(t, "fork")
      BY <1>4, <2>3 DEF AfterRegister
    <3>2. TaskInv' /\ ForkInv' /\ AuthorityInv' /\ QuietInv'
      BY <1>1, <2>1, <2>2, <2>3, <3>1, RegisterMove
    <3>3. Shaped' /\ QueueInv'
      BY <1>1, <1>2, <1>4, <2>1, RegisterShaped DEF apart, SupervisorInv, Shaped
    <3> QED
      BY <3>2, <3>3 DEF SupervisorInv
  <2>4. CASE t = "queue"
    <3>1. Goto("readiness")
      BY <1>4, <2>4 DEF AfterRegister, Goto
    <3>2. QueueGoes
      BY <1>1, <2>4, <3>1, GotoGoes DEF Pcs, StopPhases, Unready, Registration, BeforeSpawn
    <3> QED
      BY <1>1, <1>4, <3>2, PlainGoto
  <2> QED
    BY <2>3, <2>4
<1> QED
  BY <1>1, <1>3, <1>4

\* Unmade and Unregistered: the stops or the revocation have settled.
LEMMA RegistrationEnds ==
    ASSUME SupervisorInv, NEW t \in {"queue", "starter"}, Unmade(t) \/ Unregistered(t)
    PROVE  SupervisorInv'
<1>1. /\ UNCHANGED <<apart, child, intent, queue>> /\ Settled(t)
      /\ generation' = AfterStops(t) /\ task[t].pc \in {"unmaking", "unregistering"}
      /\ \/ To(t, "unregister")
         \/ To(t, "caught")
  BY DEF Unmade, Unregistered
<1>2. /\ t \in Tasks \ {"pause"} /\ t \in Tasks /\ task \in [Tasks -> TaskRec]
      /\ {"unregister", "caught"} \subseteq Pcs
  BY DEF Tasks, SupervisorInv, TaskInv, Pcs
<1>3. GensStay /\ (generation'.registered = generation.registered \/ Forgets(t))
  BY <1>1, <1>2, ForgetEffect DEF StopPhases
<1>4. /\ task' \in [Tasks -> TaskRec] /\ Others(t)
      /\ task'[t].pc \in {"unregister", "caught"}
      /\ task'[t].op = task[t].op /\ task'[t].new = task[t].new
      /\ task'[t].epoch = task[t].epoch
  BY <1>1, <1>2, ToEffect
<1>5. /\ t = "starter" => task[t].new # 0 /\ task[t].pc \in BeforeFork
      /\ t = "queue" => task[t].pc \in Unready
  BY <1>1 DEF SupervisorInv, TaskInv, BeforeFork, Unready, Registration
<1>6. Moves(t)
  BY <1>4, <1>5 DEF Moves, StopPhases, BeforeSpawn
<1>7. db' \in DbStates
  BY ClearedTyped DEF Unmade, Unregistered, SupervisorInv, Shaped
<1>8. OpRec' = OpRec => QueueInv'
  BY <1>1, QueueSame DEF SupervisorInv
<1> QED
  BY <1>1, <1>2, <1>3, <1>4, <1>6, <1>7, <1>8, TaskMove

\* The row of the generation that was registered in vain is deactivated; no
\* worker has ever been bound to it.
LEMMA UnregisterKeeps ==
    ASSUME SupervisorInv, NEW t \in {"queue", "starter"}, Unregister(t)
    PROVE  SupervisorInv'
<1> USE DEF SupervisorInv
<1>1. /\ UNCHANGED <<apart, child, generation, db, intent, queue>>
      /\ task[t].pc = "unregister" /\ t \in Tasks /\ task \in [Tasks -> TaskRec]
      /\ {"queue", "starter", "pause", "error"} \subseteq Tasks
  BY DEF Unregister, Tasks, TaskInv
<1>2. /\ task' \in [Tasks -> TaskRec] /\ Others(t)
      /\ task'[t].pc = "unregistering" /\ task'[t].op = task[t].op
      /\ task'[t].new = task[t].new /\ task'[t].epoch = task[t].epoch
      /\ task'[t].revoking = task[t].new
  <2> DEFINE r1 == [task[t] EXCEPT !.pc = "unregistering"]
             r2 == [r1 EXCEPT !.wait = {"revoke"}]
             r3 == [r2 EXCEPT !.revoking = task[t].new]
             r4 == [r3 EXCEPT !.bad = FALSE]
  <2>1. /\ r1 \in TaskRec /\ r1.pc = "unregistering" /\ r1.op = task[t].op
        /\ r1.new = task[t].new /\ r1.epoch = task[t].epoch
    BY <1>1 DEF TaskRec, Pcs
  <2>2. task' = [task EXCEPT ![t] = r4]
    BY <1>1 DEF Unregister
  <2> HIDE DEF r1
  <2>3. /\ r2 \in TaskRec /\ r2.pc = "unregistering" /\ r2.op = task[t].op
        /\ r2.new = task[t].new /\ r2.epoch = task[t].epoch
    BY <2>1 DEF TaskRec, Waits
  <2> HIDE DEF r2
  <2>4. task[t].new \in Gens
    BY <1>1 DEF TaskRec
  <2>5. /\ r3 \in TaskRec /\ r3.pc = "unregistering" /\ r3.op = task[t].op
        /\ r3.new = task[t].new /\ r3.epoch = task[t].epoch /\ r3.revoking = task[t].new
    BY <2>3, <2>4 DEF TaskRec
  <2> HIDE DEF r3
  <2>6. /\ r4 \in TaskRec /\ r4.pc = "unregistering" /\ r4.op = task[t].op
        /\ r4.new = task[t].new /\ r4.epoch = task[t].epoch /\ r4.revoking = task[t].new
    BY <2>5 DEF TaskRec
  <2> HIDE DEF r4
  <2> QED
    BY <1>1, <2>2, <2>6 DEF Others
<1>3. \A x \in Tasks : x # t => task'[x] = task[x]
  BY <1>2 DEF Others
<1>4. /\ task'.pause = task.pause /\ task'.error = task.error
      /\ task'.queue.new = task.queue.new /\ task'.starter.new = task.starter.new
      /\ task'.queue.op = task.queue.op /\ task'.queue.epoch = task.queue.epoch
  BY <1>1, <1>2, <1>3
<1>5. GensStay /\ db' \in DbStates /\ authority' \subseteq Gens
  BY <1>1 DEF GensStay, Shaped, apart
<1>6. Shaped' /\ QueueInv'
  BY <1>1, <1>5, RegisterShaped DEF apart
<1>7. TaskInv'
  <2>1. TaskRec' = TaskRec
    BY <1>1, SameGens
  <2>2. task'.starter.pc = "idle" <=> task'.starter.new = 0
    BY <1>1, <1>2, <1>3, <1>4 DEF TaskInv
  <2>3. /\ task'.queue.pc = "attach" => task'.queue.new # 0
        /\ \/ task'.queue.pc \in BeforeSpawn
           \/ task'.queue.pc = "contain" /\ task'.queue.op = "recover"
           => task'.queue.new = 0
    BY <1>1, <1>2, <1>3, <1>4 DEF TaskInv, BeforeSpawn
  <2> QED
    BY <1>2, <1>4, <2>1, <2>2, <2>3 DEF TaskInv
<1>8. /\ t = "starter" => child.worker.st = "none"
      /\ t = "queue" => task.queue.pc \in Unready
  BY <1>1 DEF ForkInv, BeforeFork, Registration, Unready
<1>9. ForkInv'
  BY <1>1, <1>2, <1>3, <1>8 DEF ForkInv, apart
<1>10. CurrentInv' /\ AuthorityCanBeRevoked'
  BY <1>1 DEF AuthorityInv, CurrentInv, AuthorityCanBeRevoked, apart
<1>11. StoppedInv'
  BY <1>1, <1>2, <1>3 DEF AuthorityInv, StoppedInv, StopPhases
<1>12. FreshInv'
  <2>1. task'.queue.pc \in Unready => task.queue.pc \in Unready
    BY <1>1, <1>3, <1>8
  <2> QED
    BY <1>1, <1>4, <2>1 DEF AuthorityInv, FreshInv
<1>13. ForgetInv'
  <2>1. child.worker.st # "none" => child.worker.gen # task[t].new
    <3>1. child.worker.st # "none" => child.worker.gen # 0
      BY DEF Shaped, ChildTypes, Services
    <3> QED
      BY <1>8, <3>1 DEF AuthorityInv, FreshInv
  <2> QED
    BY <1>1, <1>2, <1>3, <2>1 DEF AuthorityInv, ForgetInv
<1>14. StartInv'
  BY <1>1, <1>2, <1>3 DEF AuthorityInv, StartInv
<1>15. QuietInv'
  BY <1>1, <1>4, IntentSame, QuietKept
<1> QED
  BY <1>6, <1>7, <1>9, <1>10, <1>11, <1>12, <1>13, <1>14, <1>15 DEF AuthorityInv

\* Every step of registerWorkerGenerationAuthority.
LEMMA RegisterKeeps ==
    ASSUME SupervisorInv, NEW t \in {"queue", "starter"}, Register(t)
    PROVE  SupervisorInv'
  BY RegisterBeginKeeps, RegisterAnswers, RegisteredKeeps, RegistrationEnds,
     UnregisterKeeps DEF Register

-----------------------------------------------------------------------------
(* The latched worker start.                                               *)

\* The start is over, and the operation that joined it goes on.
StarterEnded ==
    /\ task' \in [Tasks -> TaskRec] /\ task'.starter = Idle
    /\ task'.pause = task.pause /\ task'.error = task.error
    /\ Stays("queue") \/ Moves("queue")
    /\ task'.queue.op = task.queue.op /\ task'.queue.epoch = task.queue.epoch

\* What the end of the worker start leaves of the starter.
LEMMA StarterEndsEffect ==
    ASSUME SupervisorInv,
           \/ StarterEnds(FALSE)
           \/ StarterEnds(task.starter.pc = "caught" \/ task.starter.bad)
    PROVE  StarterEnded
<1>1. /\ task \in [Tasks -> TaskRec] /\ Idle \in TaskRec
      /\ {"queue", "starter", "pause", "error"} \subseteq Tasks
      /\ "workerStarted" \in Pcs
  BY IdleTyped DEF SupervisorInv, TaskInv, Tasks, Pcs
<1> DEFINE r1 == [task["queue"] EXCEPT !.pc = "workerStarted"]
           b == task.starter.pc = "caught" \/ task.starter.bad
           r2 == [r1 EXCEPT !.bad = FALSE]
           r3 == [r1 EXCEPT !.bad = b]
<1>2. b \in BOOLEAN
  OBVIOUS
<1>3. \E r \in {task["queue"], r2, r3} :
         /\ r # task["queue"] => task["queue"].pc = "joining"
         /\ task' = [[task EXCEPT !["starter"] = Idle] EXCEPT !["queue"] = r]
  <2>1. CASE task["queue"].pc # "joining"
    BY <1>1, <2>1 DEF StarterEnds
  <2>2. CASE task["queue"].pc = "joining" /\ StarterEnds(FALSE)
    <3>1. task' = [[task EXCEPT !["starter"] = Idle] EXCEPT !["queue"] = r2]
      BY <1>1, <2>2 DEF StarterEnds
    <3> QED
      BY <2>2, <3>1
  <2>3. CASE task["queue"].pc = "joining"
             /\ StarterEnds(task.starter.pc = "caught" \/ task.starter.bad)
    <3>1. task' = [[task EXCEPT !["starter"] = Idle] EXCEPT !["queue"] = r3]
      BY <1>1, <2>3 DEF StarterEnds
    <3> QED
      BY <2>3, <3>1
  <2> QED
    BY <2>1, <2>2, <2>3
<1> HIDE DEF b
<1>4. /\ r1 \in TaskRec /\ r1.pc = "workerStarted" /\ r1.op = task["queue"].op
      /\ r1.epoch = task["queue"].epoch
  BY <1>1 DEF TaskRec
<1> HIDE DEF r1
<1>5. /\ r2 \in TaskRec /\ r2.pc = "workerStarted" /\ r2.op = task["queue"].op
      /\ r2.epoch = task["queue"].epoch
  BY <1>4 DEF TaskRec
<1>6. /\ r3 \in TaskRec /\ r3.pc = "workerStarted" /\ r3.op = task["queue"].op
      /\ r3.epoch = task["queue"].epoch
  BY <1>2, <1>4 DEF TaskRec
<1> HIDE DEF r2, r3
<1>7. PICK r \in {task["queue"], r2, r3} :
         task' = [[task EXCEPT !["starter"] = Idle] EXCEPT !["queue"] = r]
  BY <1>3
<1>8. /\ r \in TaskRec /\ r.op = task["queue"].op /\ r.epoch = task["queue"].epoch
      /\ r = task["queue"] \/ r.pc = "workerStarted"
  BY <1>1, <1>5, <1>6, <1>7
<1>9. /\ task' \in [Tasks -> TaskRec] /\ task'["starter"] = Idle
      /\ task'["pause"] = task["pause"] /\ task'["error"] = task["error"]
      /\ task'["queue"] = r
  BY <1>1, <1>7, <1>8
<1>10. Stays("queue") \/ Moves("queue")
  BY <1>8, <1>9 DEF Stays, Moves, StopPhases, BeforeSpawn, Unready, Registration
<1> QED
  BY <1>8, <1>9, <1>10 DEF StarterEnded

\* The end of a start, while the worker is kept or told to stop.
LEMMA StarterEndedKeeps ==
    ASSUME SupervisorInv, StarterEnded, UNCHANGED <<apart, generation, intent>>,
           ChildTypes', ChildEases, child'.api = child.api,
           child.worker.st = "stopping" => child'.worker.st = "stopping",
           UNCHANGED <<db, queue>> \/ NoticeLoss(queue)
    PROVE  SupervisorInv'
<1>1. Idle.pc = "idle" /\ Idle.new = 0
  BY IdleTyped DEF SupervisorInv
<1>2. Moves("starter")
  BY <1>1 DEF StarterEnded, Moves, StopPhases, BeforeFork, Registration
<1>3. \A x \in Tasks : Stays(x) \/ Moves(x)
  <2>1. Stays("pause") /\ Stays("error")
    BY DEF StarterEnded, Stays
  <2> QED
    BY <1>2, <2>1 DEF StarterEnded, Tasks
<1>4. GensEase /\ CurrentInv'
  BY DEF GensEase, SupervisorInv, AuthorityInv, Shaped, CurrentInv
<1>5. strays' = strays /\ authority' = authority /\ generation' = generation
  BY DEF apart
<1>6. TaskInv' /\ ForkInv' /\ AuthorityInv'
  BY <1>3, <1>4, <1>5, MoveKeeps DEF StarterEnded
<1>7. QuietInv'
  BY IntentSame, QuietKept DEF StarterEnded, ChildEases
<1>8. Shaped /\ QueueInv /\ IntentKept /\ ApartKept /\ generation \in Counters /\ db \in DbStates
  BY IntentSame, ApartSame DEF SupervisorInv, Shaped
<1>9. db' \in DbStates
  BY <1>8 DEF NoticeLoss, DbStates
<1>10. Shaped' /\ OpRec' = OpRec
  BY <1>5, <1>8, <1>9, ShapedKept
<1>11. QueueInv'
  BY <1>8, <1>10, QueueSame, NoticeLossKeeps
<1> QED
  BY <1>6, <1>7, <1>10, <1>11 DEF SupervisorInv

\* The same, while the children stay.
LEMMA StarterEndsAlone ==
    ASSUME SupervisorInv, StarterEnded, UNCHANGED <<apart, child, generation, intent>>,
           UNCHANGED <<db, queue>> \/ NoticeLoss(queue)
    PROVE  SupervisorInv'
<1>1. Kid' = Kid
  BY SameGens
<1>2. ChildTypes' /\ ChildEases /\ child' = child
  BY <1>1 DEF SupervisorInv, Shaped, ChildTypes, ChildEases
<1> QED
  BY <1>2, StarterEndedKeeps

\* The worker start returns, and who joined it goes on.
LEMMA StarterSettlesKeeps ==
    ASSUME SupervisorInv, StarterSettles
    PROVE  SupervisorInv'
<1>1. /\ UNCHANGED <<apart, child, generation, intent>> /\ UNCHANGED <<db, queue>>
      /\ StarterEnds(task.starter.pc = "caught" \/ task.starter.bad)
  BY DEF StarterSettles
<1> QED
  BY <1>1, StarterEndsEffect, StarterEndsAlone

\* The key broker is attached to the worker, or its authority went meanwhile.
LEMMA WorkerAttachedKeeps ==
    ASSUME SupervisorInv, WorkerAttached
    PROVE  SupervisorInv'
<1>1. /\ task.starter.pc = "attach" /\ child.worker.gen = task.starter.new
      /\ StarterEnds(FALSE) /\ UNCHANGED <<apart, generation, intent>>
      /\ UNCHANGED <<db, queue>> \/ NoticeLoss(queue)
      /\ child' = child \/ child' = Stopping({"worker"})
  BY DEF WorkerAttached
<1>2. StarterEnded
  BY <1>1, StarterEndsEffect
<1>3. CASE child' = child
  BY <1>1, <1>2, <1>3, StarterEndsAlone
<1>4. CASE child' = Stopping({"worker"})
  <2>1. child.worker.st # "none"
    BY <1>1 DEF SupervisorInv, Shaped, ChildTypes, TaskInv, Services
  <2>2. {"worker"} \in SUBSET Held /\ Gens' = Gens
    BY <1>1, <2>1, SameGens DEF Held, Services
  <2>3. /\ ChildTypes' /\ child'.worker.gen = child.worker.gen
        /\ child'.worker.st = "stopping" /\ child'.api = child.api
    BY <1>4, <2>2, StoppingEffect DEF SupervisorInv
  <2>4. ChildEases
    BY <2>1, <2>3 DEF ChildEases
  <2> QED
    BY <1>1, <1>2, <2>3, <2>4, StarterEndedKeeps
<1> QED
  BY <1>1, <1>3, <1>4

\* The worker could not be attached, and what is left of it is stopped.
LEMMA WorkerNotAttachedKeeps ==
    ASSUME SupervisorInv, WorkerNotAttached
    PROVE  SupervisorInv'
<1>1. /\ task.starter.pc = "attach" /\ UNCHANGED <<apart, intent>> /\ UNCHANGED <<db, queue>>
      /\ \/ StarterEnds(FALSE) /\ UNCHANGED <<child, generation>>
         \/ /\ child.worker.gen = task.starter.new
            /\ StopAndWait("starter", [task.starter EXCEPT !.pc = "detaching"], {"worker"}, 0)
  BY DEF WorkerNotAttached
<1>2. CASE StarterEnds(FALSE) /\ UNCHANGED <<child, generation>>
  BY <1>1, <1>2, StarterEndsEffect, StarterEndsAlone
<1>3. CASE /\ child.worker.gen = task.starter.new
           /\ StopAndWait("starter", [task.starter EXCEPT !.pc = "detaching"], {"worker"}, 0)
  <2>1. child.worker.st # "none"
    BY <1>1, <1>3 DEF SupervisorInv, Shaped, ChildTypes, TaskInv, Services
  <2>2. /\ {"worker"} \in SUBSET Held /\ "starter" \in Tasks \ {"pause"}
        /\ "starter" \in Tasks /\ "detaching" \in Pcs /\ 0 \in Gens /\ TaskInv
    BY <2>1, IdleTyped DEF Held, Services, Tasks, Pcs, SupervisorInv
  <2> DEFINE u == [task["starter"] EXCEPT !.pc = "detaching"]
  <2>3. u \in TaskRec /\ u.pc = "detaching" /\ u.new = task.starter.new
    BY <2>2, RecordAt
  <2>4. StopAndWait("starter", u, {"worker"}, 0)
    BY <1>3
  <2> HIDE DEF u
  <2>5. StopOk("starter", u, {"worker"}, 0)
    BY <1>1, <2>3 DEF StopOk, StopPhases, BeforeFork, Registration
  <2>6. IntentKept /\ ApartKept /\ db' \in DbStates
    BY <1>1, IntentSame, ApartSame DEF SupervisorInv, Shaped
  <2>7. OpRec' = OpRec => QueueInv'
    BY <1>1, QueueSame DEF SupervisorInv
  <2> QED
    BY <2>2, <2>3, <2>4, <2>5, <2>6, <2>7, PlainStop
<1> QED
  BY <1>1, <1>2, <1>3

\* The worker is forked: no handle is held, no pause is in force, and the
\* generation is registered and not being stopped by anyone.
LEMMA ForksWorker ==
    ASSUME SupervisorInv, task.starter.pc = "fork", MayFork(task.starter.new),
           Fork("worker", task.starter.new), To("starter", "attach"),
           UNCHANGED <<db, queue, generation, recovering, authority, intent, monitoring,
                       timers>>
    PROVE  SupervisorInv'
<1> USE DEF SupervisorInv
<1> DEFINE g == task.starter.new
<1>1. /\ child.worker.st = "none" /\ g # 0 /\ g \in Gens /\ ~intent.paused
      /\ generation.current = g
  BY DEF ForkInv, BeforeFork, TaskInv, TaskRec, Tasks, MayFork, IsApiGenerationReady,
     IsApiGenerationCurrent
<1>2. /\ child' = [child EXCEPT !["worker"] = Running(g)] /\ strays' = strays
  BY <1>1 DEF Fork
<1>3. /\ Gens' = Gens /\ Kid' = Kid /\ Counters' = Counters /\ TaskRec' = TaskRec
      /\ OpRec' = OpRec
  BY SameGens
<1>4. /\ child' \in [Services -> Kid] /\ child'["worker"] = Running(g)
      /\ child'["api"] = child["api"] /\ child'["web"] = child["web"]
      /\ Running(g).gen = g /\ Running(g).st = "live"
  <2>1. Running(g) \in Kid /\ Running(g).gen = g /\ Running(g).st = "live"
    BY <1>1 DEF Running, Kid
  <2>2. child \in [Services -> Kid] /\ {"api", "web", "worker"} \subseteq Services
    BY DEF Shaped, ChildTypes, Services
  <2> QED
    BY <1>2, <2>1, <2>2
<1>5. ChildTypes'
  BY <1>1, <1>3, <1>4 DEF Shaped, ChildTypes, Services
<1>6. Shaped' /\ QueueInv'
  BY <1>2, <1>3, <1>5, QueueSame DEF Shaped
<1>7. /\ task' \in [Tasks -> TaskRec] /\ Others("starter")
      /\ task'["starter"].pc = "attach" /\ task'["starter"].new = g
  BY ToEffect DEF TaskInv, Tasks, Pcs
<1>8. /\ task'.queue = task.queue /\ task'.pause = task.pause /\ task'.error = task.error
      /\ \A x \in Tasks : x # "starter" => task'[x] = task[x]
  BY <1>7 DEF Others, Tasks
<1> HIDE DEF g
<1>9. TaskInv'
  BY <1>1, <1>3, <1>7, <1>8 DEF TaskInv
<1>10. ForkInv'
  BY <1>2, <1>4, <1>7, <1>8 DEF ForkInv, BeforeFork, Registration
<1>11. QuietInv'
  BY <1>1, <1>8 DEF QuietInv
<1>12. CurrentInv'
  BY <1>4 DEF CurrentInv, AuthorityInv
<1>13. StoppedInv'
  BY <1>7, <1>8 DEF StoppedInv, AuthorityInv, StopPhases
<1>14. task.queue.pc \in Unready => task.queue.new # g
  BY <1>1 DEF FreshInv, AuthorityInv, g
<1>15. FreshInv'
  BY <1>4, <1>7, <1>8, <1>14 DEF FreshInv, AuthorityInv
<1>16. ForgetInv'
  <2>1. ASSUME NEW x \in Tasks, x # "starter",
               task[x].pc \in StopPhases \cup {"unregistering"}, task[x].revoking = g
        PROVE  FALSE
    <3>1. task[x].pc = "unregistering"
      BY <1>1, <2>1 DEF StoppedInv, AuthorityInv
    <3>2. x = "queue" /\ task.queue.new = g
      BY <2>1, <3>1 DEF TaskInv, ForgetInv, AuthorityInv, Tasks
    <3> QED
      BY <1>14, <3>1, <3>2 DEF Unready, Registration
  <2>2. ASSUME NEW x \in Tasks
        PROVE  /\ task'[x].pc = "unregistering" => task'[x].revoking = task'[x].new
               /\ /\ task'[x].pc \in StopPhases \cup {"unregistering"}
                  /\ ~task'[x].bad
                  /\ child'.worker.st # "none"
                  /\ child'.worker.gen = task'[x].revoking
                  => "worker" \in task'[x].wait
    <3>1. CASE x = "starter"
      BY <1>7, <3>1 DEF StopPhases
    <3>2. CASE x # "starter"
      BY <1>4, <1>8, <2>1, <2>2, <3>2 DEF ForgetInv, AuthorityInv
    <3> QED
      BY <3>1, <3>2
  <2> QED
    BY <2>2 DEF ForgetInv
<1>17. StartInv'
  BY <1>7 DEF StartInv
<1>18. AuthorityCanBeRevoked'
  BY <1>1, <1>4 DEF AuthorityCanBeRevoked, StartInv, AuthorityInv, g
<1> QED
  BY <1>6, <1>9, <1>10, <1>11, <1>12, <1>13, <1>15, <1>16, <1>17, <1>18 DEF AuthorityInv

\* The worker is forked: here no handle may be held, and no pause be in force.
LEMMA ForkWorkerKeeps ==
    ASSUME SupervisorInv, ForkWorker
    PROVE  SupervisorInv'
<1>1. /\ task.starter.pc = "fork"
      /\ UNCHANGED <<generation, recovering, authority, intent, monitoring, timers>>
      /\ \/ /\ MayFork(task.starter.new) /\ Fork("worker", task.starter.new)
            /\ To("starter", "attach") /\ UNCHANGED <<db, queue>>
         \/ /\ StarterEnds(FALSE) /\ UNCHANGED <<child, strays>>
            /\ UNCHANGED <<db, queue>> \/ NoticeLoss(queue)
  BY DEF ForkWorker
<1>2. CASE /\ MayFork(task.starter.new) /\ Fork("worker", task.starter.new)
           /\ To("starter", "attach") /\ UNCHANGED <<db, queue>>
  BY <1>1, <1>2, ForksWorker
<1>3. CASE /\ StarterEnds(FALSE) /\ UNCHANGED <<child, strays>>
           /\ UNCHANGED <<db, queue>> \/ NoticeLoss(queue)
  <2>1. UNCHANGED <<apart, child, generation, intent>>
    BY <1>1, <1>3 DEF apart
  <2> QED
    BY <1>3, <2>1, StarterEndsEffect, StarterEndsAlone
<1> QED
  BY <1>1, <1>2, <1>3

-----------------------------------------------------------------------------
(* pause() and the containment after an API error.                         *)

\* A task that is over.
LEMMA IdlesEffect ==
    ASSUME SupervisorInv, NEW t \in {"pause", "error"}, task' = [task EXCEPT ![t] = Idle]
    PROVE  /\ task' \in [Tasks -> TaskRec] /\ Others(t) /\ Moves(t)
           /\ task'[t].pc = "idle"
<1>1. /\ task \in [Tasks -> TaskRec] /\ t \in Tasks /\ Idle \in TaskRec /\ Idle.pc = "idle"
  BY IdleTyped DEF SupervisorInv, TaskInv, Tasks
<1>2. task' \in [Tasks -> TaskRec] /\ Others(t) /\ task'[t] = Idle
  BY <1>1 DEF Others
<1> QED
  BY <1>1, <1>2 DEF Moves, StopPhases

\* pause() is over: the worker is gone, or its failure was reported.
LEMMA PauseEnds ==
    ASSUME SupervisorInv, task' = [task EXCEPT !["pause"] = Idle],
           UNCHANGED <<apart, child, db, intent, queue>>, GensStay,
           generation'.registered = generation.registered \/ Forgets("pause"),
           intent.quiet => child.worker.st = "none"
    PROVE  SupervisorInv'
<1>1. /\ task' \in [Tasks -> TaskRec] /\ Others("pause") /\ Moves("pause")
      /\ task'["pause"].pc = "idle"
  BY IdlesEffect
<1>2. \A x \in Tasks : Stays(x) \/ Moves(x)
  BY <1>1 DEF Others, Stays
<1>3. ChildEases /\ GensEase /\ CurrentInv'
  BY DEF ChildEases, GensStay, GensEase, SupervisorInv, AuthorityInv, CurrentInv
<1>4. strays' = strays /\ authority' = authority /\ "pause" \in Tasks
  BY DEF apart, Tasks
<1>5. TaskInv' /\ ForkInv' /\ AuthorityInv'
  BY <1>1, <1>2, <1>3, <1>4, MoveKeeps
<1>6. QuietInv'
  <2>1. task'.queue = task.queue
    BY <1>1 DEF Others, Tasks
  <2> QED
    BY <1>1, <2>1 DEF SupervisorInv, QuietInv
<1>7. Shaped' /\ OpRec' = OpRec
  BY IntentSame, ApartSame, ShapedStays DEF SupervisorInv, GensStay, Shaped
<1>8. QueueInv'
  BY <1>7, QueueSame DEF SupervisorInv
<1> QED
  BY <1>5, <1>6, <1>7, <1>8 DEF SupervisorInv

\* The containment of a failed pause() ends.
LEMMA PauseContainedKeeps ==
    ASSUME SupervisorInv, PauseContained
    PROVE  SupervisorInv'
<1>1. /\ task.pause.pc = "containing" /\ Settled("pause") /\ generation' = AfterStops("pause")
      /\ task' = [task EXCEPT !["pause"] = Idle]
      /\ UNCHANGED <<apart, child, db, intent, queue>>
  BY DEF PauseContained
<1>2. GensStay /\ (generation'.registered = generation.registered \/ Forgets("pause"))
  BY <1>1, ForgetEffect DEF StopPhases, Tasks
<1>3. ~intent.quiet
  BY <1>1 DEF SupervisorInv, QuietInv
<1> QED
  BY <1>1, <1>2, <1>3, PauseEnds

\* pause() returns; if it succeeded, the worker is gone.
LEMMA PauseSettlesKeeps ==
    ASSUME SupervisorInv, PauseSettles
    PROVE  SupervisorInv'
<1>1. /\ task.pause.pc = "stopping" /\ Settled("pause") /\ UNCHANGED <<apart, db, queue>>
      /\ \/ /\ StopDataServicesOwned("pause", [task.pause EXCEPT !.pc = "containing"])
            /\ intent' = [intent EXCEPT !.quiet = FALSE]
         \/ /\ ~task.pause.bad /\ intent' = intent /\ UNCHANGED <<child, generation>>
            /\ task' = [task EXCEPT !["pause"] = Idle]
  BY DEF PauseSettles
<1>2. CASE /\ ~task.pause.bad /\ intent' = intent /\ UNCHANGED <<child, generation>>
           /\ task' = [task EXCEPT !["pause"] = Idle]
  <2>1. intent.quiet => child.worker.st = "none"
    BY <1>1, <1>2 DEF SupervisorInv, QuietInv, Settled
  <2>2. GensStay /\ generation'.registered = generation.registered
    BY <1>2 DEF GensStay, SupervisorInv, Shaped
  <2> QED
    BY <1>1, <1>2, <2>1, <2>2, PauseEnds
<1>3. CASE /\ StopDataServicesOwned("pause", [task.pause EXCEPT !.pc = "containing"])
           /\ intent' = [intent EXCEPT !.quiet = FALSE]
  <2> DEFINE u == [task["pause"] EXCEPT !.pc = "containing"]
  <2>1. /\ "pause" \in Tasks /\ "containing" \in Pcs /\ TaskInv
        /\ Held \in SUBSET Held /\ generation.registered \in Gens
    BY DEF Tasks, Pcs, SupervisorInv, Shaped, Counters
  <2>2. u \in TaskRec /\ u.pc = "containing"
    BY <2>1, RecordAt
  <2>3. StopAndWait("pause", u, Held, generation.registered)
    BY <1>3 DEF StopDataServicesOwned
  <2> HIDE DEF u
  <2>4. StopOk("pause", u, Held, generation.registered)
    BY <2>2 DEF StopOk
  <2>5. strays' = strays /\ authority' = authority
    BY <1>1 DEF apart
  <2>6. StopFacts("pause", u, Held, generation.registered) /\ TaskInv' /\ ForkInv'
        /\ AuthorityInv'
    BY <2>1, <2>2, <2>3, <2>4, <2>5, StopKeeps
  <2>7. /\ intent' \in [paused : BOOLEAN, epoch : Nat, quiet : BOOLEAN]
        /\ intent'.epoch = intent.epoch /\ intent'.quiet = FALSE
    BY <1>3 DEF SupervisorInv, Shaped
  <2>8. IntentKept
    BY <2>7 DEF IntentKept
  <2>9. Shaped' /\ OpRec' = OpRec
    BY <1>1, <2>6, <2>8, ApartSame, ShapedKept DEF SupervisorInv, Shaped, StopFacts
  <2>10. QueueInv'
    BY <1>1, <2>7, <2>9 DEF SupervisorInv, QueueInv
  <2>11. QuietInv'
    <3>1. task'.queue = task.queue
      BY <2>6 DEF StopFacts, Others, Tasks
    <3> QED
      BY <2>7, <3>1 DEF SupervisorInv, QuietInv
  <2> QED
    BY <2>6, <2>9, <2>10, <2>11 DEF SupervisorInv
<1> QED
  BY <1>1, <1>2, <1>3

\* A new pause makes every resume under way or queued an older one.
LEMMA PauseAgesResumes ==
    ASSUME SupervisorInv, queue' = queue, OpRec' = OpRec,
           intent' = [paused |-> TRUE, epoch |-> intent.epoch + 1, quiet |-> TRUE],
           task'.queue = task.queue
    PROVE  /\ QueueInv'
           /\ intent' \in [paused : BOOLEAN, epoch : Nat, quiet : BOOLEAN]
           /\ task'.queue.epoch < intent'.epoch /\ intent'.paused
<1>1. /\ intent.epoch \in Nat /\ queue \in Seq(OpRec) /\ task.queue.epoch \in Nat
      /\ task.queue.epoch <= intent.epoch
      /\ \A i \in 1..Len(queue) : queue[i].epoch <= intent.epoch
  BY DEF SupervisorInv, Shaped, QueueInv, QuietInv, TaskInv, TaskRec, Tasks
<1>2. intent'.epoch = intent.epoch + 1 /\ intent'.paused
  OBVIOUS
<1>3. \A i \in 1..Len(queue) : queue[i].epoch \in Nat
  <2>1. \A i \in 1..Len(queue) : queue[i] \in OpRec
    BY <1>1
  <2> QED
    BY <2>1 DEF OpRec
<1>4. \A i \in 1..Len(queue) : queue[i].epoch < intent'.epoch /\ queue[i].epoch <= intent'.epoch
  BY <1>1, <1>2, <1>3
<1>5. QueueInv'
  BY <1>1, <1>4 DEF QueueInv
<1> QED
  BY <1>1, <1>2, <1>5

\* pause() takes effect: a new epoch, which outdates every resume under way.
LEMMA PauseKeeps ==
    ASSUME SupervisorInv, Pause
    PROVE  SupervisorInv'
<1>1. /\ task.pause.pc = "idle" /\ UNCHANGED <<apart, db, queue>>
      /\ intent' = [paused |-> TRUE, epoch |-> intent.epoch + 1, quiet |-> TRUE]
      /\ \/ /\ child.worker.st # "none"
            /\ StopAndWait("pause", [Idle EXCEPT !.pc = "stopping"], {"worker"}, 0)
         \/ child.worker.st = "none" /\ UNCHANGED <<child, generation, task>>
  BY DEF Pause, WorkerRetained
<1>2. strays' = strays /\ authority' = authority
  BY <1>1 DEF apart
<1>3. ASSUME task'.queue = task.queue, TaskInv', ForkInv', AuthorityInv', ChildTypes',
             generation' \in Counters, generation'.next = generation.next,
             \/ task'.pause.pc = "idle" /\ child'.worker.st = "none"
             \/ /\ task'.pause.pc = "stopping" /\ "worker" \in task'.pause.wait
                /\ child'.worker.st = "stopping"
      PROVE  SupervisorInv'
  <2>1. Gens' = Gens /\ OpRec' = OpRec /\ Counters' = Counters
    BY <1>3, SameGens
  <2>2. /\ QueueInv'
        /\ intent' \in [paused : BOOLEAN, epoch : Nat, quiet : BOOLEAN]
        /\ task'.queue.epoch < intent'.epoch /\ intent'.paused
    BY <1>1, <1>3, <2>1, PauseAgesResumes
  <2>3. Shaped'
    BY <1>1, <1>3, <2>1, <2>2 DEF SupervisorInv, Shaped, apart
  <2>4. task'.queue.epoch \in Nat /\ intent'.epoch \in Nat
    BY <1>3, <2>2 DEF SupervisorInv, TaskInv, TaskRec, Tasks
  <2>5. task'.queue.epoch <= intent'.epoch
    BY <2>2, <2>4
  <2>6. QuietInv'
    BY <1>3, <2>2, <2>5 DEF QuietInv
  <2> QED
    BY <1>3, <2>2, <2>3, <2>6 DEF SupervisorInv
<1>4. CASE child.worker.st = "none" /\ UNCHANGED <<child, generation, task>>
  <2>1. Gens' = Gens /\ Kid' = Kid /\ TaskRec' = TaskRec
    BY <1>4, SameGens
  <2>2. TaskInv'
    BY <1>4, <2>1 DEF SupervisorInv, TaskInv
  <2>3. ForkInv'
    BY <1>2, <1>4 DEF SupervisorInv, ForkInv
  <2>4. AuthorityInv'
    BY <1>2, <1>4 DEF SupervisorInv, AuthorityInv, CurrentInv, StoppedInv, FreshInv,
       ForgetInv, StartInv, AuthorityCanBeRevoked
  <2>5. ChildTypes' /\ generation' \in Counters
    BY <1>4, <2>1 DEF SupervisorInv, Shaped, ChildTypes
  <2> QED
    BY <1>1, <1>3, <1>4, <2>2, <2>3, <2>4, <2>5
<1>5. CASE /\ child.worker.st # "none"
           /\ StopAndWait("pause", [Idle EXCEPT !.pc = "stopping"], {"worker"}, 0)
  <2> DEFINE u == [Idle EXCEPT !.pc = "stopping"]
  <2>1. /\ "pause" \in Tasks /\ "stopping" \in Pcs /\ 0 \in Gens
        /\ {"worker"} \in SUBSET Held
    BY <1>5, IdleTyped DEF Tasks, Pcs, SupervisorInv, Held, Services
  <2>2. u \in TaskRec /\ u.pc = "stopping"
    BY <2>1, IdleTyped DEF SupervisorInv, TaskRec
  <2>3. StopAndWait("pause", u, {"worker"}, 0)
    BY <1>5
  <2> HIDE DEF u
  <2>4. StopOk("pause", u, {"worker"}, 0)
    BY <2>2 DEF StopOk, StopPhases
  <2>5. StopFacts("pause", u, {"worker"}, 0) /\ TaskInv' /\ ForkInv' /\ AuthorityInv'
    BY <1>2, <2>1, <2>2, <2>3, <2>4, StopKeeps
  <2>6. /\ task'.queue = task.queue /\ task'.pause.pc = "stopping"
        /\ "worker" \in task'.pause.wait /\ child'.worker.st = "stopping"
        /\ ChildTypes' /\ generation' \in Counters /\ generation'.next = generation.next
    BY <2>2, <2>5 DEF StopFacts, Others, Tasks
  <2> QED
    BY <1>3, <2>5, <2>6
<1> QED
  BY <1>1, <1>4, <1>5

-----------------------------------------------------------------------------
(* Requests, exits, errors, timers and the loss of the database.           *)

\* An event outside pause(): tasks stay or move on, children are stopped or
\* gone.
LEMMA EventKeeps ==
    ASSUME SupervisorInv, task' \in [Tasks -> TaskRec],
           \A x \in Tasks : Stays(x) \/ Moves(x),
           task'.pause = task.pause, task'.queue.op = task.queue.op,
           task'.queue.epoch = task.queue.epoch,
           ChildTypes', ChildEases,
           child.worker.st = "stopping" => child'.worker.st = "stopping",
           GensEase, CurrentInv', ApartKept, intent' = intent, db' \in DbStates,
           \/ generation'.registered = generation.registered
           \/ \E t \in Tasks : Moves(t) /\ Forgets(t),
           OpRec' = OpRec => QueueInv'
    PROVE  SupervisorInv'
<1>1. strays' = strays /\ authority' = authority
  BY DEF ApartKept
<1>2. TaskInv' /\ ForkInv' /\ AuthorityInv'
  BY <1>1, MoveKeeps
<1>3. IntentKept
  BY IntentSame
<1>4. QuietInv'
  BY <1>3, QuietKept DEF ChildEases
<1>5. Shaped' /\ OpRec' = OpRec
  BY <1>3, ShapedKept DEF SupervisorInv, GensEase
<1> QED
  BY <1>2, <1>4, <1>5 DEF SupervisorInv

\* Tasks that are as they were.
LEMMA TasksStay ==
    ASSUME SupervisorInv, task' = task
    PROVE  /\ task' \in [Tasks -> TaskRec] /\ \A x \in Tasks : Stays(x)
           /\ task'.pause = task.pause /\ task'.queue = task.queue
  BY DEF SupervisorInv, TaskInv, Stays

\* An event that touches neither a task nor a child nor a generation.
LEMMA QuietEvent ==
    ASSUME SupervisorInv, UNCHANGED <<task, child, generation>>, ApartKept,
           intent' = intent, db' \in DbStates, OpRec' = OpRec => QueueInv'
    PROVE  SupervisorInv'
<1>1. ChildTypes' /\ ChildEases
  BY SameGens DEF SupervisorInv, Shaped, ChildTypes, ChildEases
<1>2. GensEase /\ CurrentInv'
  BY DEF SupervisorInv, Shaped, AuthorityInv, GensEase, CurrentInv
<1> QED
  BY <1>1, <1>2, TasksStay, EventKeeps

\* The application quits.
LEMMA QuitKeeps ==
    ASSUME SupervisorInv, Quit
    PROVE  SupervisorInv'
<1>1. /\ UNCHANGED <<apart, child, generation, db, intent, task>>
      /\ queue' = Append(queue, Op("quit", 0))
  BY DEF Quit
<1>2. "quit" \in Operations \ {"resume"} /\ 0 \in Gens /\ Shaped /\ QueueInv
  BY IdleTyped DEF Operations, SupervisorInv
<1>3. OpRec' = OpRec => QueueInv'
  BY <1>1, <1>2, QueueAppended
<1>4. ApartKept /\ db' \in DbStates
  BY <1>1, ApartSame DEF SupervisorInv, Shaped
<1> QED
  BY <1>1, <1>3, <1>4, QuietEvent

\* The database is lost, and a health check notices.
LEMMA DatabaseEventKeeps ==
    ASSUME SupervisorInv, DatabaseLost \/ HealthNoticesLoss
    PROVE  SupervisorInv'
<1>1. UNCHANGED <<apart, child, generation, task>> /\ intent' = intent
  BY DEF DatabaseLost, HealthNoticesLoss
<1>2. "lost" \in Operations \ {"resume"} /\ 0 \in Gens /\ Shaped /\ QueueInv /\ db \in DbStates
  BY IdleTyped DEF Operations, SupervisorInv, Shaped
<1>3. db' \in DbStates
  BY <1>2 DEF DatabaseLost, HealthNoticesLoss, NoticeLoss, DbStates
<1>4. queue' = queue \/ queue' = Append(queue, Op("lost", 0))
  BY DEF DatabaseLost, HealthNoticesLoss, NoticeLoss
<1>5. OpRec' = OpRec => QueueInv'
  BY <1>1, <1>2, <1>4, QueueSame, QueueAppended
<1>6. ApartKept
  BY <1>1, ApartSame
<1> QED
  BY <1>1, <1>3, <1>5, <1>6, QuietEvent

\* resume(): the pause is over, and the operation remembers the newest intent.
LEMMA ResumeKeeps ==
    ASSUME SupervisorInv, Resume
    PROVE  SupervisorInv'
<1>1. /\ UNCHANGED <<apart, child, generation, db, task>>
      /\ queue' = Append(queue, Op("resume", 0))
      /\ intent' = [intent EXCEPT !.quiet = FALSE]
  BY DEF Resume
<1>2. /\ 0 \in Gens /\ intent \in [paused : BOOLEAN, epoch : Nat, quiet : BOOLEAN]
      /\ intent.epoch \in Nat
  BY IdleTyped DEF SupervisorInv, Shaped
<1>3. /\ intent' \in [paused : BOOLEAN, epoch : Nat, quiet : BOOLEAN]
      /\ intent'.epoch = intent.epoch /\ intent'.quiet = FALSE
  BY <1>1, <1>2
<1>4. IntentKept
  BY <1>3 DEF IntentKept
<1>5. Shaped' /\ OpRec' = OpRec
  BY <1>1, <1>4, ApartSame, ShapedStays DEF SupervisorInv, Shaped
<1>6. QueueInv'
  <2> DEFINE o == Op("resume", 0)
  <2>1. o \in OpRec /\ o.epoch = intent.epoch
    BY <1>2 DEF Op, OpRec, Operations
  <2>2. queue' = Append(queue, o) /\ queue \in Seq(OpRec)
    BY <1>1 DEF SupervisorInv, QueueInv
  <2> HIDE DEF o
  <2>3. queue' \in Seq(OpRec) /\ Len(queue') = Len(queue) + 1 /\ queue'[Len(queue) + 1] = o
    BY <2>1, <2>2
  <2>4. \A i \in 1..Len(queue) : queue'[i] = queue[i]
    BY <2>1, <2>2
  <2>5. ASSUME NEW i \in 1..Len(queue') PROVE queue'[i].epoch <= intent.epoch
    <3>1. CASE i \in 1..Len(queue)
      BY <2>4, <3>1 DEF SupervisorInv, QueueInv
    <3>2. CASE i = Len(queue) + 1
      BY <1>2, <2>1, <2>3, <3>2
    <3> QED
      BY <2>2, <2>3, <2>5, <3>1, <3>2
  <2> QED
    BY <1>3, <1>5, <2>3, <2>5 DEF QueueInv
<1>7. QuietInv'
  BY <1>1, <1>3 DEF SupervisorInv, QuietInv
<1>8. ChildEases /\ GensEase /\ CurrentInv'
  BY <1>1 DEF SupervisorInv, Shaped, AuthorityInv, ChildEases, GensEase, CurrentInv
<1>9. strays' = strays /\ authority' = authority
  BY <1>1 DEF apart
<1>10. TaskInv' /\ ForkInv' /\ AuthorityInv'
  BY <1>1, <1>8, <1>9, TasksStay, MoveKeeps
<1> QED
  BY <1>5, <1>6, <1>7, <1>10 DEF SupervisorInv

\* api.restartCount advances; nothing the invariants look at does.
LEMMA AdvancedEffect ==
    ASSUME NEW ts \in [Tasks -> TaskRec], task' = Advanced(ts)
    PROVE  /\ task' \in [Tasks -> TaskRec]
           /\ \A x \in Tasks \ {"queue"} : task'[x] = ts[x]
           /\ task'.queue.pc = ts.queue.pc /\ task'.queue.op = ts.queue.op
           /\ task'.queue.new = ts.queue.new /\ task'.queue.epoch = ts.queue.epoch
           /\ task'.queue.wait = ts.queue.wait /\ task'.queue.bad = ts.queue.bad
           /\ task'.queue.revoking = ts.queue.revoking
<1> DEFINE b == ts["queue"].advanced
                \/ (IsServiceDatabaseCurrent /\ ~intent.paused /\ ts["queue"].pc # "idle")
           r == [ts["queue"] EXCEPT !.advanced = b]
<1>1. b \in BOOLEAN /\ "queue" \in Tasks
  BY DEF Tasks
<1>2. task' = [ts EXCEPT !["queue"] = r]
  BY <1>1 DEF Advanced
<1> HIDE DEF b
<1>3. /\ r \in TaskRec /\ r.pc = ts["queue"].pc /\ r.op = ts["queue"].op
      /\ r.new = ts["queue"].new /\ r.epoch = ts["queue"].epoch
      /\ r.wait = ts["queue"].wait /\ r.bad = ts["queue"].bad
      /\ r.revoking = ts["queue"].revoking
  BY <1>1 DEF TaskRec
<1> HIDE DEF r
<1>4. task' \in [Tasks -> TaskRec] /\ task'["queue"] = r
      /\ \A x \in Tasks \ {"queue"} : task'[x] = ts[x]
  BY <1>1, <1>2, <1>3
<1> QED
  BY <1>3, <1>4

\* The containment after an API error ends.
LEMMA ErrorContainedKeeps ==
    ASSUME SupervisorInv, ErrorContained
    PROVE  SupervisorInv'
<1>1. /\ task.error.pc = "containing" /\ Settled("error")
      /\ UNCHANGED <<apart, child>> /\ intent' = intent
      /\ \/ task' = [task EXCEPT !["error"] = Idle] /\ UNCHANGED <<generation, db, queue>>
         \/ /\ ~task.error.bad /\ task' = Advanced([task EXCEPT !["error"] = Idle])
            /\ ScheduleApiRestart(task.error.old, Forgotten("error"))
  BY DEF ErrorContained
<1>2. /\ task \in [Tasks -> TaskRec] /\ Idle \in TaskRec /\ Idle.pc = "idle"
      /\ {"queue", "starter", "pause", "error"} \subseteq Tasks
      /\ task.error.old \in Gens /\ generation \in Counters /\ db \in DbStates /\ 0 \in Gens
  BY IdleTyped DEF SupervisorInv, TaskInv, TaskRec, Tasks, Shaped
<1>3. ApartKept /\ ChildTypes
  BY <1>1, ApartSame DEF SupervisorInv, Shaped
<1>4. CASE task' = [task EXCEPT !["error"] = Idle] /\ UNCHANGED <<generation, db, queue>>
  <2>1. task' \in [Tasks -> TaskRec] /\ Others("error") /\ Moves("error")
    BY <1>4, IdlesEffect
  <2>2. GensStay /\ db' \in DbStates /\ generation'.registered = generation.registered
    BY <1>2, <1>4 DEF GensStay
  <2>3. OpRec' = OpRec => QueueInv'
    BY <1>1, <1>4, QueueSame DEF SupervisorInv
  <2> QED
    BY <1>1, <2>1, <2>2, <2>3, TaskMove DEF Tasks
<1>5. CASE /\ ~task.error.bad /\ task' = Advanced([task EXCEPT !["error"] = Idle])
           /\ ScheduleApiRestart(task.error.old, Forgotten("error"))
  <2> DEFINE ts == [task EXCEPT !["error"] = Idle]
             gs == Forgotten("error")
  <2>1. ts \in [Tasks -> TaskRec] /\ ts["error"] = Idle
        /\ \A x \in Tasks \ {"error"} : ts[x] = task[x]
    BY <1>2
  <2>2. /\ gs \in Counters /\ gs.next = generation.next /\ gs.current = generation.current
        /\ gs.ready = generation.ready
        /\ \/ gs.registered = generation.registered
           \/ gs.registered = 0 /\ generation.registered = task["error"].revoking
    BY <1>2 DEF Forgotten, Counters
  <2>3. task' = Advanced(ts) /\ ScheduleApiRestart(task.error.old, gs)
    BY <1>5
  <2> HIDE DEF ts, gs
  <2>4. /\ task' \in [Tasks -> TaskRec]
        /\ \A x \in Tasks \ {"queue"} : task'[x] = ts[x]
        /\ task'.queue.pc = ts.queue.pc /\ task'.queue.op = ts.queue.op
        /\ task'.queue.new = ts.queue.new /\ task'.queue.epoch = ts.queue.epoch
        /\ task'.queue.wait = ts.queue.wait /\ task'.queue.bad = ts.queue.bad
        /\ task'.queue.revoking = ts.queue.revoking
    BY <2>1, <2>3, AdvancedEffect
  <2>5. /\ generation' \in Counters /\ generation'.next = gs.next
        /\ generation'.current = gs.current /\ generation'.ready = gs.ready
        /\ generation'.registered = gs.registered
        /\ db' \in DbStates
        /\ OpRec' = OpRec => QueueInv'
    BY <1>1, <1>2, <2>2, <2>3, ScheduleEffect
  <2>6. /\ task'["error"] = Idle /\ task'["pause"] = task["pause"]
        /\ task'["starter"] = task["starter"] /\ ts["queue"] = task["queue"]
    BY <1>2, <2>1, <2>4
  <2>7. Moves("error") /\ Stays("pause") /\ Stays("starter")
    BY <1>2, <2>6 DEF Moves, Stays, StopPhases
  <2>8. Stays("queue")
    BY <2>4, <2>6 DEF Stays
  <2>9. \A x \in Tasks : Stays(x) \/ Moves(x)
    BY <2>7, <2>8 DEF Tasks
  <2>10. GensEase /\ CurrentInv' /\ ChildEases /\ ChildTypes'
    BY <1>1, <1>3, <2>2, <2>5, SameGens DEF GensEase, CurrentInv, SupervisorInv,
       AuthorityInv, ChildEases, ChildTypes
  <2>11. generation'.registered = generation.registered \/ Forgets("error")
    BY <1>1, <1>5, <2>2, <2>5 DEF Forgets, StopPhases, Settled
  <2>12. /\ task'.pause = task.pause /\ task'.queue.op = task.queue.op
         /\ task'.queue.epoch = task.queue.epoch
    BY <2>4, <2>6
  <2> QED
    BY <1>1, <1>2, <1>3, <2>4, <2>5, <2>7, <2>9, <2>10, <2>11, <2>12, EventKeeps
<1> QED
  BY <1>1, <1>4, <1>5

\* The generation of the API handle is revoked, if it is the current one.
LEMMA RevokedEffect ==
    ASSUME SupervisorInv, NEW g, g = child.api.gen \/ g = generation.current
    PROVE  /\ RevokedApiGeneration(generation, g) \in Counters
           /\ RevokedApiGeneration(generation, g).next = generation.next
           /\ RevokedApiGeneration(generation, g).current = 0
           /\ RevokedApiGeneration(generation, g).registered = generation.registered
           /\ RevokedApiGeneration(generation, g).ready \in {generation.ready, 0}
<1>0. generation \in Counters /\ 0 \in Gens /\ CurrentInv
  BY IdleTyped DEF SupervisorInv, Shaped, AuthorityInv
<1>1. CASE g # 0 /\ generation.current = g
  <2>1. RevokedApiGeneration(generation, g)
          = [generation EXCEPT !.current = 0, !.ready = IF @ = g THEN 0 ELSE @]
    BY <1>1 DEF RevokedApiGeneration
  <2> QED
    BY <1>0, <2>1 DEF Counters
<1>2. CASE ~(g # 0 /\ generation.current = g)
  <2>1. RevokedApiGeneration(generation, g) = generation
    BY <1>2 DEF RevokedApiGeneration
  <2>2. generation.current = 0
    BY <1>0, <1>2 DEF CurrentInv
  <2> QED
    BY <1>0, <2>1, <2>2
<1> QED
  BY <1>1, <1>2

\* A handle that is nulled.
LEMMA ReleasedEffect ==
    ASSUME SupervisorInv, NEW s \in Services, child' = Released(s), Gens' = Gens
    PROVE  /\ ChildTypes'
           /\ child'[s].st = "none" /\ child'[s].gen = 0
           /\ \A x \in Services \ {s} : child'[x] = child[x]
<1>1. NoChild \in Kid /\ NoChild.st = "none" /\ NoChild.gen = 0
  BY IdleTyped DEF SupervisorInv, NoChild, Kid
<1>2. child \in [Services -> Kid] /\ Kid' = Kid
  BY DEF SupervisorInv, Shaped, ChildTypes, Kid
<1>3. /\ child' \in [Services -> Kid] /\ child'[s] = NoChild
      /\ \A x \in Services \ {s} : child'[x] = child[x]
  BY <1>1, <1>2 DEF Released
<1>4. \A x \in Services : child'[x].st = "none" <=> child'[x].gen = 0
  BY <1>1, <1>3 DEF SupervisorInv, Shaped, ChildTypes
<1>5. child'["web"].st # "dead" /\ child'["worker"].st # "dead"
  BY <1>1, <1>3 DEF SupervisorInv, Shaped, ChildTypes, Services
<1> QED
  BY <1>1, <1>2, <1>3, <1>4, <1>5 DEF ChildTypes

\* The API exits, and its generation with it.
LEMMA ApiExitsKeeps ==
    ASSUME SupervisorInv, ApiExits
    PROVE  SupervisorInv'
<1> DEFINE g == child.api.gen
           gs == RevokedApiGeneration(generation, g)
<1>1. /\ child.api.st = "live" /\ intent' = intent
      /\ UNCHANGED <<strays, authority, monitoring, timers>>
      /\ \/ /\ child' = [child EXCEPT !.api.st = "dead"]
            /\ UNCHANGED <<generation, recovering, task, db, queue>>
         \/ /\ recovering' = recovering \cup {g} /\ child' = Released("api")
            /\ task' = Advanced(task) /\ ScheduleApiRestart(g, gs)
  BY DEF ApiExits
<1>2. /\ child \in [Services -> Kid] /\ {"api", "web", "worker"} \subseteq Services
      /\ g \in Gens /\ recovering \subseteq Gens /\ task \in [Tasks -> TaskRec]
      /\ {"queue", "starter", "pause", "error"} \subseteq Tasks /\ db \in DbStates
      /\ generation \in Counters
  BY DEF SupervisorInv, Shaped, ChildTypes, Kid, Services, TaskInv, Tasks
<1>3. /\ gs \in Counters /\ gs.next = generation.next /\ gs.current = 0
      /\ gs.registered = generation.registered /\ gs.ready \in {generation.ready, 0}
  BY RevokedEffect
<1>4. CASE /\ child' = [child EXCEPT !.api.st = "dead"]
           /\ UNCHANGED <<generation, recovering, task, db, queue>>
  <2> DEFINE r == [child["api"] EXCEPT !.st = "dead"]
  <2>1. r \in Kid /\ r.st = "dead" /\ r.gen = child["api"].gen
    BY <1>2 DEF Kid
  <2>2. child' = [child EXCEPT !["api"] = r]
    BY <1>2, <1>4
  <2> HIDE DEF r
  <2>3. /\ child' \in [Services -> Kid] /\ child'["api"] = r
        /\ child'["worker"] = child["worker"] /\ child'["web"] = child["web"]
    BY <1>2, <2>1, <2>2
  <2>4. Kid' = Kid
    BY <1>4, SameGens
  <2>5. ChildTypes'
    BY <1>1, <2>1, <2>3, <2>4 DEF SupervisorInv, Shaped, ChildTypes, Services
  <2>6. ChildEases /\ GensEase /\ CurrentInv'
    BY <1>1, <1>2, <1>4, <2>1, <2>3 DEF ChildEases, GensEase, CurrentInv, SupervisorInv,
       AuthorityInv
  <2>7. ApartKept
    BY <1>1, <1>2, <1>4 DEF ApartKept, SupervisorInv, Shaped
  <2>8. OpRec' = OpRec => QueueInv'
    BY <1>1, <1>4, QueueSame DEF SupervisorInv
  <2> QED
    BY <1>1, <1>2, <1>4, <2>3, <2>5, <2>6, <2>7, <2>8, TasksStay, EventKeeps
<1>5. CASE /\ recovering' = recovering \cup {g} /\ child' = Released("api")
           /\ task' = Advanced(task) /\ ScheduleApiRestart(g, gs)
  <2> HIDE DEF gs
  <2>1. /\ generation' \in Counters /\ generation'.next = gs.next
        /\ generation'.current = gs.current /\ generation'.ready = gs.ready
        /\ generation'.registered = gs.registered
        /\ db' \in DbStates
        /\ OpRec' = OpRec => QueueInv'
    BY <1>1, <1>2, <1>3, <1>5, ScheduleEffect
  <2>2. Gens' = Gens
    BY <1>3, <2>1, SameGens
  <2>3. /\ ChildTypes' /\ child'["api"].st = "none"
        /\ \A x \in Services \ {"api"} : child'[x] = child[x]
    BY <1>2, <1>5, <2>2, ReleasedEffect
  <2>4. /\ task' \in [Tasks -> TaskRec]
        /\ \A x \in Tasks \ {"queue"} : task'[x] = task[x]
        /\ task'.queue.pc = task.queue.pc /\ task'.queue.op = task.queue.op
        /\ task'.queue.new = task.queue.new /\ task'.queue.epoch = task.queue.epoch
        /\ task'.queue.wait = task.queue.wait /\ task'.queue.bad = task.queue.bad
        /\ task'.queue.revoking = task.queue.revoking
    BY <1>2, <1>5, AdvancedEffect
  <2>5. \A x \in Tasks : Stays(x)
    BY <2>4 DEF Stays
  <2>6. task'.pause = task.pause /\ child'["worker"] = child["worker"]
    BY <1>2, <2>3, <2>4
  <2>7. ChildEases /\ GensEase /\ CurrentInv'
    BY <1>1, <1>3, <2>1, <2>3, <2>6 DEF ChildEases, GensEase, CurrentInv
  <2>8. ApartKept
    BY <1>1, <1>2, <1>5 DEF ApartKept, SupervisorInv, Shaped
  <2> QED
    BY <1>1, <1>3, <2>1, <2>3, <2>4, <2>5, <2>6, <2>7, <2>8, EventKeeps
<1> QED
  BY <1>1, <1>4, <1>5

\* An API error starts a containment outside the queue.
LEMMA ApiErrorsKeeps ==
    ASSUME SupervisorInv, ApiErrors
    PROVE  SupervisorInv'
<1> DEFINE g == child.api.gen
           r1 == [Idle EXCEPT !.pc = "containing"]
           u == [r1 EXCEPT !.old = g]
<1>1. /\ recovering' = recovering \cup {g}
      /\ StopAndWait("error", u, BoundTo(g), g) /\ intent' = intent
      /\ UNCHANGED <<strays, authority, db, monitoring, queue, timers>>
  BY DEF ApiErrors, StopDataServicesForApiGeneration
<1>2. /\ g \in Gens /\ recovering \subseteq Gens /\ db \in DbStates
      /\ "error" \in Tasks \ {"pause"} /\ BoundTo(g) \in SUBSET Held
  BY DEF SupervisorInv, Shaped, ChildTypes, Kid, Services, Tasks, BoundTo, Held
<1> HIDE DEF g
<1>3. r1 \in TaskRec /\ r1.pc = "containing"
  BY IdleTyped DEF SupervisorInv, TaskRec, Pcs
<1> HIDE DEF r1
<1>4. u \in TaskRec /\ u.pc = "containing"
  BY <1>2, <1>3 DEF TaskRec
<1> HIDE DEF u
<1>5. StopOk("error", u, BoundTo(g), g)
  BY <1>4 DEF StopOk
<1>6. ApartKept /\ IntentKept
  BY <1>1, <1>2, IntentSame DEF ApartKept, SupervisorInv, Shaped
<1>7. OpRec' = OpRec => QueueInv'
  BY <1>1, QueueSame DEF SupervisorInv
<1> QED
  BY <1>1, <1>2, <1>4, <1>5, <1>6, <1>7, PlainStop

\* The web child or the worker exits.
LEMMA ChildExitsKeeps ==
    ASSUME SupervisorInv, NEW s \in {"web", "worker"}, ChildExits(s)
    PROVE  SupervisorInv'
<1>1. /\ child[s].st = "live" /\ child' = Released(s) /\ intent' = intent /\ task' = task
      /\ UNCHANGED <<strays, recovering, authority, monitoring>> /\ generation' = generation
      /\ UNCHANGED <<db, queue>> \/ NoticeLoss(queue)
      /\ timers' = timers \/ timers' = timers \cup {<<s, child[s].gen>>}
  BY DEF ChildExits
<1>2. /\ s \in Services /\ Gens' = Gens /\ child[s].gen \in Gens
      /\ {"api", "web", "worker"} \subseteq Services
      /\ Shaped /\ QueueInv /\ db \in DbStates
  BY <1>1, SameGens DEF Services, SupervisorInv, Shaped, ChildTypes, Kid
<1>3. /\ ChildTypes' /\ child'[s].st = "none" /\ child'[s].gen = 0
      /\ \A x \in Services \ {s} : child'[x] = child[x]
  BY <1>1, <1>2, ReleasedEffect
<1>4. ChildEases /\ GensEase /\ CurrentInv'
  BY <1>1, <1>2, <1>3 DEF ChildEases, GensEase, CurrentInv, SupervisorInv, AuthorityInv,
     Shaped
<1>5. child.worker.st = "stopping" => child'.worker.st = "stopping"
  BY <1>1, <1>2, <1>3
<1>6. ApartKept
  <2>1. <<s, child[s].gen>> \in {"web", "worker"} \X Gens
    BY <1>2
  <2> QED
    BY <1>1, <2>1 DEF ApartKept, SupervisorInv, Shaped
<1>7. db' \in DbStates
  BY <1>1, <1>2 DEF NoticeLoss, DbStates
<1>8. OpRec' = OpRec => QueueInv'
  BY <1>1, <1>2, QueueSame, NoticeLossKeeps
<1> QED
  BY <1>1, <1>3, <1>4, <1>5, <1>6, <1>7, <1>8, TasksStay, EventKeeps

\* A health check finds another listener on the port of the API.
LEMMA ApiIdentityLostKeeps ==
    ASSUME SupervisorInv, ApiIdentityLost
    PROVE  SupervisorInv'
<1> DEFINE g == generation.current
<1>1. /\ recovering' = recovering \cup {g} /\ generation' = RevokedApiGeneration(generation, g)
      /\ queue' = Append(queue, Op("contain", g)) /\ intent' = intent /\ task' = task
      /\ child' = child /\ UNCHANGED <<strays, authority, db, monitoring, timers>>
  BY DEF ApiIdentityLost
<1>2. /\ g \in Gens /\ recovering \subseteq Gens /\ db \in DbStates /\ Shaped /\ QueueInv
      /\ "contain" \in Operations \ {"resume"}
  BY DEF SupervisorInv, Shaped, Counters, Operations
<1>3. /\ generation' \in Counters /\ generation'.next = generation.next
      /\ generation'.current = 0 /\ generation'.registered = generation.registered
      /\ generation'.ready \in {generation.ready, 0}
  BY <1>1, RevokedEffect
<1>4. ChildEases /\ GensEase /\ CurrentInv' /\ ChildTypes'
  BY <1>1, <1>3, SameGens DEF ChildEases, GensEase, CurrentInv, SupervisorInv, Shaped,
     ChildTypes
<1>5. ApartKept
  BY <1>1, <1>2 DEF ApartKept, SupervisorInv, Shaped
<1>6. OpRec' = OpRec => QueueInv'
  BY <1>1, <1>2, QueueAppended
<1> QED
  BY <1>1, <1>2, <1>3, <1>4, <1>5, <1>6, TasksStay, EventKeeps

\* A delayed restart of the web child fires.
LEMMA WebTimerKeeps ==
    ASSUME SupervisorInv, NEW g \in 1..generation.next, WebTimer(g)
    PROVE  SupervisorInv'
<1>1. /\ timers' \subseteq timers /\ StartWeb(g, queue) /\ generation' = generation
      /\ intent' = intent /\ task' = task /\ UNCHANGED <<recovering, authority, monitoring>>
  BY DEF WebTimer
<1>2. g \in Gens /\ generation \in Counters
  BY DEF Gens, SupervisorInv, Shaped, Counters
<1>3. Gens' = Gens /\ OpRec' = OpRec /\ Counters' = Counters
  BY <1>1, SameGens
<1>4. /\ ChildTypes' /\ child'.worker = child.worker /\ child'.api = child.api
      /\ strays' \subseteq Services \X Gens
      /\ \A x \in strays' : x[1] = "web"
      /\ db' \in DbStates /\ QueueInv'
  BY <1>1, <1>2, <1>3, StartWebEffect
<1>5. ChildEases /\ GensEase /\ CurrentInv'
  BY <1>1, <1>2, <1>4 DEF ChildEases, GensEase, SupervisorInv, AuthorityInv, CurrentInv
<1>6. TaskInv' /\ ForkInv' /\ AuthorityInv'
  BY <1>1, <1>4, <1>5, TasksStay, MoveKeeps
<1>7. QuietInv'
  BY <1>1, <1>4, IntentSame, TasksStay, QuietKept
<1>8. Shaped'
  BY <1>1, <1>2, <1>3, <1>4 DEF SupervisorInv, Shaped
<1> QED
  BY <1>4, <1>6, <1>7, <1>8 DEF SupervisorInv

\* A delayed restart of the worker fires.
LEMMA WorkerTimerKeeps ==
    ASSUME SupervisorInv, NEW g \in 1..generation.next, WorkerTimer(g)
    PROVE  SupervisorInv'
<1>1. /\ timers' \subseteq timers /\ intent' = intent
      /\ UNCHANGED <<child, strays, generation, recovering, authority, monitoring>>
      /\ UNCHANGED <<db, queue>> \/ NoticeLoss(queue)
      /\ \/ task' = task
         \/ /\ task.starter.pc = "idle" /\ WorkerStartable(g)
            /\ task' = [task EXCEPT !["starter"] = Starter(g)]
  BY DEF WorkerTimer
<1>2. /\ g \in Gens /\ Shaped /\ QueueInv /\ db \in DbStates
      /\ {"queue", "starter", "pause", "error"} \subseteq Tasks
      /\ task \in [Tasks -> TaskRec]
  BY DEF Gens, SupervisorInv, Shaped, Counters, Tasks, TaskInv
<1>3. ApartKept /\ db' \in DbStates
  BY <1>1, <1>2 DEF ApartKept, SupervisorInv, Shaped, NoticeLoss, DbStates
<1>4. OpRec' = OpRec => QueueInv'
  BY <1>1, <1>2, QueueSame, NoticeLossKeeps
<1>5. CASE task' = task
  BY <1>1, <1>3, <1>4, <1>5, QuietEvent
<1>6. CASE /\ task.starter.pc = "idle" /\ WorkerStartable(g)
           /\ task' = [task EXCEPT !["starter"] = Starter(g)]
  <2>1. Starter(g) \in TaskRec
    BY <1>2, StarterTyped
  <2>2. /\ task' \in [Tasks -> TaskRec] /\ task'["starter"] = Starter(g)
        /\ task'["queue"] = task["queue"] /\ task'["pause"] = task["pause"]
        /\ task'["error"] = task["error"]
    BY <1>2, <1>6, <2>1
  <2>3. /\ Stays("queue") /\ task'.starter = Starter(g) /\ task'.pause = task.pause
        /\ task'.error = task.error /\ task'.queue.op = task.queue.op
        /\ task'.queue.epoch = task.queue.epoch
    BY <2>2 DEF Stays
  <2>4. TaskInv' /\ ForkInv' /\ AuthorityInv' /\ QuietInv'
    BY <1>1, <1>2, <1>6, <2>2, <2>3, StarterBegins
  <2>5. Shaped' /\ OpRec' = OpRec
    BY <1>1, <1>3, ShapedStays, IntentSame DEF SupervisorInv, Shaped
  <2> QED
    BY <1>4, <2>4, <2>5 DEF SupervisorInv
<1> QED
  BY <1>1, <1>5, <1>6

-----------------------------------------------------------------------------
(* The answers to revocations and stops.                                   *)

\* A revocation is answered, or fails.
LEMMA RevocationKeeps ==
    ASSUME SupervisorInv, NEW t \in Tasks, Revoke(t) \/ RevokeFails(t)
    PROVE  SupervisorInv'
<1> DEFINE r1 == [task[t] EXCEPT !.wait = @ \ {"revoke"}]
           r2 == [r1 EXCEPT !.bad = TRUE]
<1>1. /\ UNCHANGED <<child, strays, generation, recovering, db, monitoring, queue, timers>>
      /\ intent' = intent
      /\ authority' = authority \/ authority' = authority \ {task[t].revoking}
      /\ task' = [task EXCEPT ![t] = r1] \/ task' = [task EXCEPT ![t] = r2]
  <2>1. CASE Revoke(t)
    BY <2>1 DEF Revoke
  <2>2. CASE RevokeFails(t)
    <3>1. task' = [task EXCEPT ![t] = r2]
      BY <2>2 DEF RevokeFails, SupervisorInv, TaskInv
    <3> QED
      BY <2>2, <3>1 DEF RevokeFails
  <2> QED
    BY <2>1, <2>2
<1>2. task \in [Tasks -> TaskRec] /\ {"queue", "starter", "pause", "error"} \subseteq Tasks
  BY DEF SupervisorInv, TaskInv, Tasks
<1>3. /\ r1 \in TaskRec /\ r1.pc = task[t].pc /\ r1.op = task[t].op /\ r1.new = task[t].new
      /\ r1.epoch = task[t].epoch /\ r1.revoking = task[t].revoking
      /\ r1.wait = task[t].wait \ {"revoke"} /\ r1.bad = task[t].bad
  BY <1>2 DEF TaskRec
<1> HIDE DEF r1
<1>4. /\ r2 \in TaskRec /\ r2.pc = task[t].pc /\ r2.op = task[t].op /\ r2.new = task[t].new
      /\ r2.epoch = task[t].epoch /\ r2.revoking = task[t].revoking
      /\ r2.wait = task[t].wait \ {"revoke"} /\ r2.bad = TRUE
  BY <1>3 DEF TaskRec
<1> HIDE DEF r2
<1>5. task' \in [Tasks -> TaskRec] /\ Others(t) /\ task'[t] \in {r1, r2}
  BY <1>1, <1>2, <1>3, <1>4 DEF Others
<1>6. \A x \in Tasks : /\ Stays(x) /\ task'[x].op = task[x].op
                       /\ task'[x].epoch = task[x].epoch
  <2>1. Stays(t) /\ task'[t].op = task[t].op /\ task'[t].epoch = task[t].epoch
    BY <1>3, <1>4, <1>5 DEF Stays
  <2>2. ASSUME NEW x \in Tasks \ {t}
        PROVE  Stays(x) /\ task'[x].op = task[x].op /\ task'[x].epoch = task[x].epoch
    BY <1>5 DEF Others, Stays
  <2> QED
    BY <2>1, <2>2
<1>7. ChildEases /\ GensEase /\ CurrentInv'
  BY <1>1 DEF ChildEases, GensEase, SupervisorInv, Shaped, AuthorityInv, CurrentInv
<1>8. authority' \in SUBSET authority
  BY <1>1
<1>9. TaskInv' /\ ForkInv' /\ AuthorityInv'
  BY <1>1, <1>5, <1>6, <1>7, <1>8, MoveKeeps
<1>10. QuietInv'
  <2>1. Stays("pause") /\ task'.queue.op = task.queue.op
        /\ task'.queue.epoch = task.queue.epoch
    BY <1>2, <1>6
  <2> QED
    BY <1>1, <2>1 DEF SupervisorInv, QuietInv, Stays
<1>11. GensStay /\ authority' \subseteq Gens /\ db' \in DbStates
  BY <1>1, <1>8 DEF GensStay, SupervisorInv, Shaped
<1>12. Shaped' /\ QueueInv'
  BY <1>1, <1>11, RegisterShaped
<1> QED
  BY <1>9, <1>10, <1>12 DEF SupervisorInv

\* The tasks after the stop of service s has been answered.
Told(s) ==
    \A x \in Tasks :
        /\ task'[x].pc = task[x].pc /\ task'[x].op = task[x].op
        /\ task'[x].new = task[x].new /\ task'[x].epoch = task[x].epoch
        /\ task'[x].revoking = task[x].revoking
        /\ task'[x].wait = task[x].wait \ {s}
        /\ task[x].bad => task'[x].bad
        /\ child'[s].st # "none" /\ s \in task[x].wait => task'[x].bad

\* A child is seen to exit: its handle is gone, and nobody waits for it.
LEMMA StopProvenEffect ==
    ASSUME SupervisorInv, NEW s \in Services, StopProven(s)
    PROVE  /\ ChildTypes' /\ Told(s) /\ task' \in [Tasks -> TaskRec]
           /\ child'[s].st = "none" /\ child'[s].gen = 0
           /\ \A x \in Services \ {s} : child'[x] = child[x]
<1>1. /\ child' = Released(s) /\ generation' = generation
      /\ task' = [t \in Tasks |-> [task[t] EXCEPT !.wait = @ \ {s}]]
  BY DEF StopProven
<1>2. /\ ChildTypes' /\ child'[s].st = "none" /\ child'[s].gen = 0
      /\ \A x \in Services \ {s} : child'[x] = child[x]
  BY <1>1, SameGens, ReleasedEffect
<1>3. ASSUME NEW x \in Tasks
      PROVE  /\ task'[x] \in TaskRec
             /\ task'[x].pc = task[x].pc /\ task'[x].op = task[x].op
             /\ task'[x].new = task[x].new /\ task'[x].epoch = task[x].epoch
             /\ task'[x].revoking = task[x].revoking
             /\ task'[x].wait = task[x].wait \ {s} /\ task'[x].bad = task[x].bad
  <2>1. task[x] \in TaskRec /\ task'[x] = [task[x] EXCEPT !.wait = @ \ {s}]
    BY <1>1 DEF SupervisorInv, TaskInv
  <2> QED
    BY <2>1 DEF TaskRec
<1>4. task' \in [Tasks -> TaskRec]
  BY <1>1, <1>3
<1> QED
  BY <1>2, <1>3, <1>4 DEF Told

\* A child outlives both timeouts: its handle is kept, and who waits is told.
LEMMA StopUnprovenEffect ==
    ASSUME SupervisorInv, NEW s \in Services, StopUnproven(s)
    PROVE  /\ ChildTypes' /\ Told(s) /\ task' \in [Tasks -> TaskRec]
           /\ child'[s].st = "live" /\ child'[s].gen = child[s].gen
           /\ \A x \in Services \ {s} : child'[x] = child[x]
<1>1. /\ child[s].st = "stopping" /\ generation' = generation
      /\ child' = [child EXCEPT ![s].st = "live"]
      /\ task' = [t \in Tasks |->
                    IF s \in task[t].wait
                    THEN [task[t] EXCEPT !.wait = @ \ {s}, !.bad = TRUE]
                    ELSE task[t]]
  BY DEF StopUnproven
<1>2. /\ child' \in [Services -> Kid] /\ Kid' = Kid
      /\ child'[s].st = "live" /\ child'[s].gen = child[s].gen
      /\ \A x \in Services \ {s} : child'[x] = child[x]
  <2> DEFINE r == [child[s] EXCEPT !.st = "live"]
  <2>1. child \in [Services -> Kid] /\ Kid' = Kid
    BY <1>1, SameGens DEF SupervisorInv, Shaped, ChildTypes
  <2>2. r \in Kid /\ r.st = "live" /\ r.gen = child[s].gen
    BY <2>1 DEF Kid
  <2>3. child' = [child EXCEPT ![s] = r]
    BY <1>1, <2>1
  <2> HIDE DEF r
  <2> QED
    BY <2>1, <2>2, <2>3
<1>3. ChildTypes'
  BY <1>1, <1>2 DEF SupervisorInv, Shaped, ChildTypes, Services
<1>4. ASSUME NEW x \in Tasks
      PROVE  /\ task'[x] \in TaskRec
             /\ task'[x].pc = task[x].pc /\ task'[x].op = task[x].op
             /\ task'[x].new = task[x].new /\ task'[x].epoch = task[x].epoch
             /\ task'[x].revoking = task[x].revoking
             /\ task'[x].wait = task[x].wait \ {s}
             /\ task[x].bad => task'[x].bad
             /\ s \in task[x].wait => task'[x].bad
  <2>0. task[x] \in TaskRec
    BY DEF SupervisorInv, TaskInv
  <2>1. CASE s \in task[x].wait
    <3> DEFINE r1 == [task[x] EXCEPT !.wait = @ \ {s}]
               r2 == [r1 EXCEPT !.bad = TRUE]
    <3>1. /\ r1 \in TaskRec /\ r1.pc = task[x].pc /\ r1.op = task[x].op
          /\ r1.new = task[x].new /\ r1.epoch = task[x].epoch
          /\ r1.revoking = task[x].revoking /\ r1.wait = task[x].wait \ {s}
      BY <2>0 DEF TaskRec
    <3>2. task'[x] = r2
      BY <1>1, <2>1
    <3> HIDE DEF r1
    <3>3. /\ r2 \in TaskRec /\ r2.pc = task[x].pc /\ r2.op = task[x].op
          /\ r2.new = task[x].new /\ r2.epoch = task[x].epoch
          /\ r2.revoking = task[x].revoking /\ r2.wait = task[x].wait \ {s}
          /\ r2.bad = TRUE
      BY <3>1 DEF TaskRec
    <3> HIDE DEF r2
    <3> QED
      BY <3>2, <3>3
  <2>2. CASE s \notin task[x].wait
    <3>1. task'[x] = task[x]
      BY <1>1, <2>2
    <3> QED
      BY <2>0, <2>2, <3>1
  <2> QED
    BY <2>1, <2>2
<1>5. task' \in [Tasks -> TaskRec]
  <2>1. task' = [t \in Tasks |-> task'[t]]
    BY <1>1
  <2> QED
    BY <1>4, <2>1
<1> QED
  BY <1>2, <1>3, <1>4, <1>5 DEF Told

\* Every answer to a stop.
LEMMA StopAnswerKeeps ==
    ASSUME SupervisorInv, NEW s \in Services, Stop(s)
    PROVE  SupervisorInv'
<1> USE DEF SupervisorInv
<1>1. /\ UNCHANGED apart /\ generation' = generation /\ db' = db /\ intent' = intent
      /\ queue' = queue /\ child[s].st = "stopping"
  BY DEF Stop, StopProven, StopUnproven
<1>2. /\ ChildTypes' /\ Told(s) /\ task' \in [Tasks -> TaskRec]
      /\ \A x \in Services \ {s} : child'[x] = child[x]
      /\ \/ child'[s].st = "none" /\ child'[s].gen = 0
         \/ child'[s].st = "live" /\ child'[s].gen = child[s].gen
  BY StopProvenEffect, StopUnprovenEffect DEF Stop
<1>3. /\ {"queue", "starter", "pause", "error"} \subseteq Tasks
      /\ {"api", "web", "worker"} \subseteq Services /\ TaskRec' = TaskRec
      /\ authority' = authority /\ strays' = strays
  BY <1>1, SameGens DEF Tasks, Services, apart
<1>4. Shaped' /\ QueueInv'
  <2>1. Shaped' /\ OpRec' = OpRec
    BY <1>1, <1>2, IntentSame, ApartSame, ShapedKept DEF Shaped
  <2> QED
    BY <1>1, <2>1, QueueSame
<1>5. TaskInv'
  BY <1>2, <1>3 DEF TaskInv, Told
<1>6. /\ child.worker.st = "none" => s # "worker" /\ child'.worker.st = "none"
      /\ s # "worker" => child'.worker = child.worker
      /\ s # "api" => child'.api = child.api
      /\ child'.worker.st # "none" => child'.worker.gen = child.worker.gen
      /\ child'.worker.gen \in {child.worker.gen, 0}
  BY <1>1, <1>2, <1>3
<1>7. ForkInv'
  <2>1. task'.starter.pc \in BeforeFork => child'.worker.st = "none"
    BY <1>2, <1>3, <1>6 DEF Told, ForkInv
  <2>2. ASSUME task'.queue.pc = "clearing"
        PROVE  /\ "api" \in task'.queue.wait => child'.api.st = "stopping"
               /\ "api" \notin task'.queue.wait /\ ~task'.queue.bad => child'.api.st = "none"
    <3>1. CASE s = "api"
      BY <1>1, <1>2, <1>3, <2>2, <3>1 DEF Told, ForkInv
    <3>2. CASE s # "api"
      BY <1>2, <1>3, <1>6, <2>2, <3>2 DEF Told, ForkInv
    <3> QED
      BY <3>1, <3>2
  <2>3. task'.queue.pc = "respawn" => child'.api.st = "none"
    BY <1>1, <1>2, <1>3, <1>6 DEF Told, ForkInv
  <2> QED
    BY <1>3, <2>1, <2>2, <2>3 DEF ForkInv
<1>8. QuietInv'
  <2>1. /\ task'.queue.op = task.queue.op /\ task'.queue.epoch = task.queue.epoch
        /\ task'.pause.pc = task.pause.pc
    BY <1>2, <1>3 DEF Told
  <2>2. ASSUME intent.quiet, task'.pause.pc = "stopping"
        PROVE  \/ child'.worker.st = "none"
               \/ task'.pause.bad
               \/ "worker" \in task'.pause.wait /\ child'.worker.st = "stopping"
    BY <1>1, <1>2, <1>3, <1>6, <2>1, <2>2 DEF Told, QuietInv
  <2> QED
    BY <1>1, <1>6, <2>1, <2>2 DEF QuietInv
<1>9. CurrentInv'
  BY <1>1, <1>6 DEF AuthorityInv, CurrentInv
<1>10. StoppedInv'
  BY <1>1, <1>2 DEF AuthorityInv, StoppedInv, Told
<1>11. FreshInv'
  BY <1>1, <1>2, <1>3, <1>6 DEF AuthorityInv, FreshInv, Told
<1>12. ForgetInv'
  <2>1. ASSUME NEW x \in Tasks
        PROVE  /\ task'[x].pc = "unregistering" => task'[x].revoking = task'[x].new
               /\ /\ task'[x].pc \in StopPhases \cup {"unregistering"}
                  /\ ~task'[x].bad
                  /\ child'.worker.st # "none"
                  /\ child'.worker.gen = task'[x].revoking
                  => "worker" \in task'[x].wait
    BY <1>2, <1>6, <2>1 DEF AuthorityInv, ForgetInv, Told
  <2> QED
    BY <2>1 DEF ForgetInv
<1>13. StartInv'
  BY <1>1, <1>2, <1>3 DEF AuthorityInv, StartInv, Told
<1>14. AuthorityCanBeRevoked'
  BY <1>1, <1>3, <1>6 DEF AuthorityInv, AuthorityCanBeRevoked
<1> QED
  BY <1>4, <1>5, <1>7, <1>8, <1>9, <1>10, <1>11, <1>12, <1>13, <1>14 DEF AuthorityInv

-----------------------------------------------------------------------------
(* The theorems.                                                           *)

\* Before the first start nothing is held and nothing is registered.
LEMMA InitEstablishes ==
    ASSUME Init
    PROVE  SupervisorInv
<1> USE DEF Init
<1>1. Gens = {0} /\ 0 \in Gens
  BY DEF Gens
<1>2. NoChild \in Kid /\ NoChild.st = "none" /\ NoChild.gen = 0
  BY <1>1 DEF NoChild, Kid
<1>3. ChildTypes
  BY <1>2 DEF ChildTypes, Services
<1>4. generation \in Counters
  BY <1>1 DEF Counters
<1>5. Shaped
  BY <1>3, <1>4 DEF Shaped, DbStates
<1>6. /\ Idle \in TaskRec /\ Idle.pc = "idle" /\ Idle.op = "none" /\ Idle.new = 0
      /\ Idle.epoch = 0
  BY <1>5, IdleTyped
<1>7. QueueInv
  <2> DEFINE o == [op |-> "start", gen |-> 0, epoch |-> 0]
  <2>1. o \in OpRec /\ o.epoch = 0
    BY <1>1 DEF OpRec, Operations
  <2>2. queue = <<o>> /\ intent.epoch = 0 /\ intent.quiet = FALSE
    OBVIOUS
  <2> HIDE DEF o
  <2>3. queue \in Seq(OpRec) /\ Len(queue) = 1 /\ queue[1] = o
    BY <2>1, <2>2
  <2> QED
    BY <2>1, <2>2, <2>3 DEF QueueInv
<1>8. task \in [Tasks -> TaskRec] /\ \A t \in Tasks : task[t] = Idle
  BY <1>6
<1>9. {"queue", "starter", "pause", "error"} \subseteq Tasks
  BY DEF Tasks
<1>10. TaskInv
  BY <1>6, <1>8, <1>9 DEF TaskInv, BeforeSpawn
<1>11. ForkInv
  BY <1>6, <1>8, <1>9 DEF ForkInv, BeforeFork, Registration
<1>12. QuietInv
  BY <1>6, <1>8, <1>9 DEF QuietInv
<1>13. AuthorityInv
  <2>1. CurrentInv /\ AuthorityCanBeRevoked
    BY DEF CurrentInv, AuthorityCanBeRevoked
  <2>2. StoppedInv /\ ForgetInv
    BY <1>6, <1>8 DEF StoppedInv, ForgetInv, StopPhases
  <2>3. FreshInv /\ StartInv
    BY <1>6, <1>8, <1>9 DEF FreshInv, StartInv, Unready, Registration
  <2> QED
    BY <2>1, <2>2, <2>3 DEF AuthorityInv
<1> QED
  BY <1>5, <1>7, <1>10, <1>11, <1>12, <1>13 DEF SupervisorInv

\* A step of one of the four asynchronous functions.
LEMMA TaskStepKeeps ==
    ASSUME SupervisorInv, NEW t \in Tasks, TaskStep(t)
    PROVE  SupervisorInv'
<1>1. CASE Revoke(t) \/ RevokeFails(t)
  BY <1>1, RevocationKeeps
<1>2. CASE t = "queue" /\ (Lifecycle \/ Register("queue"))
  BY <1>2, LifecycleKeeps, RegisterKeeps
<1>3. CASE /\ t = "starter"
           /\ \/ Register("starter") \/ ForkWorker \/ WorkerAttached \/ WorkerNotAttached
              \/ StarterSettles
  BY <1>3, RegisterKeeps, ForkWorkerKeeps, WorkerAttachedKeeps, WorkerNotAttachedKeeps,
     StarterSettlesKeeps
<1>4. CASE t = "pause" /\ (PauseSettles \/ PauseContained)
  BY <1>4, PauseSettlesKeeps, PauseContainedKeeps
<1>5. CASE t = "error" /\ ErrorContained
  BY <1>5, ErrorContainedKeeps
<1>6. t \in {"queue", "pause", "error", "starter"}
  BY DEF Tasks
<1> QED
  BY <1>1, <1>2, <1>3, <1>4, <1>5, <1>6 DEF TaskStep

\* Every step keeps the invariant: one case per disjunct of Next.
LEMMA NextKeeps ==
    ASSUME SupervisorInv, [Next]_vars
    PROVE  SupervisorInv'
<1>1. CASE UNCHANGED vars
  <2>1. UNCHANGED <<task, child, generation>> /\ UNCHANGED apart /\ intent' = intent
        /\ db' = db /\ queue' = queue
    BY <1>1 DEF vars, apart
  <2>2. ApartKept /\ db' \in DbStates
    BY <2>1, ApartSame DEF SupervisorInv, Shaped
  <2>3. OpRec' = OpRec => QueueInv'
    BY <2>1, QueueSame DEF SupervisorInv
  <2> QED
    BY <2>1, <2>2, <2>3, QuietEvent
<1>2. CASE \E t \in Tasks : TaskStep(t)
  BY <1>2, TaskStepKeeps
<1>3. CASE \E s \in Services : Stop(s)
  BY <1>3, StopAnswerKeeps
<1>4. CASE Timer
  BY <1>4, WebTimerKeeps, WorkerTimerKeeps DEF Timer
<1>5. CASE HealthNoticesLoss
  BY <1>5, DatabaseEventKeeps
<1>6. CASE Environment
  BY <1>6, PauseKeeps, ResumeKeeps, QuitKeeps, ApiExitsKeeps, ApiErrorsKeeps,
     ChildExitsKeeps, ApiIdentityLostKeeps, DatabaseEventKeeps DEF Environment
<1> QED
  BY <1>1, <1>2, <1>3, <1>4, <1>5, <1>6 DEF Next

\* The inductive invariant of the supervisor holds throughout, whatever pause,
\* exit, error, timer or lost database falls between two of its awaits.
THEOREM SupervisorInvariance == Spec => []SupervisorInv
<1>1. Init => SupervisorInv
  BY InitEstablishes
<1>2. SupervisorInv /\ [Next]_vars => SupervisorInv'
  BY NextKeeps
<1> QED
  BY <1>1, <1>2, PTL DEF Spec

\* The handles, generations and authority rows keep their types for any number
\* of crashes and requests: a handle is nulled together with the generation it
\* was bound to, and only the API's handle outlives an exit.
THEOREM SupervisorTypeCorrect == Spec => []TypeOK
<1>1. SupervisorInv => TypeOK
  BY DEF SupervisorInv, Shaped, TypeOK, ChildTypes, Kid, Counters, Gens, DbStates
<1> QED
  BY <1>1, SupervisorInvariance, PTL

\* No API and no worker is forked over a handle that is still held, so none
\* can run without being stoppable.
THEOREM NoDataClientStrays == Spec => []NoStrayDataClient
<1>1. SupervisorInv => NoStrayDataClient
  BY DEF SupervisorInv, ForkInv, NoStrayDataClient
<1> QED
  BY <1>1, SupervisorInvariance, PTL

\* A worker that may be alive with an active authority row is the one that
\* registeredWorkerGeneration names, so that a containment can revoke it.
THEOREM AuthorityStaysRevocable == Spec => []AuthorityCanBeRevoked
<1>1. SupervisorInv => AuthorityCanBeRevoked
  BY DEF SupervisorInv, AuthorityInv
<1> QED
  BY <1>1, SupervisorInvariance, PTL

\* After pause() has returned without an error, and until a resume is asked
\* for, no worker exists, at whatever await a start, a replacement, a timer
\* or an earlier resume was overtaken.
THEOREM PauseIsQuiet == Spec => []PausedIsQuiet
<1>1. SupervisorInv => PausedIsQuiet
  BY DEF SupervisorInv, QuietInv, PausedIsQuiet
<1> QED
  BY <1>1, SupervisorInvariance, PTL
=============================================================================
