----------------------------- MODULE IdlePause ------------------------------
(***************************************************************************)
(* The idle-pause controller of the desktop application and the user's own *)
(* pause and resume requests, over the promise ServiceManager makes:       *)
(* pause() takes effect at once and completes when the worker is gone;     *)
(* resume() completes later, and a pause asked for meanwhile cancels it.   *)
(*                                                                         *)
(* The controller pauses when the machine goes idle and resumes when the   *)
(* user is back, but only what it paused itself (autoPausedByIdle).        *)
(***************************************************************************)
EXTENDS Naturals, Sequences, FiniteSets

CONSTANTS
    MaxEdges,       \* idle/active transitions
    MaxUserOps,     \* requests and preference changes of the user
    MaxFaults       \* failed pauses and resumes

ASSUME BoundsAssumption ==
    /\ MaxEdges \in Nat /\ MaxUserOps \in Nat /\ MaxFaults \in Nat

VARIABLES
    enabled,        \* the "pause when idle" preference
    present,        \* the last state the idle bridge reported
    auto,           \* autoPausedByIdle
    ops,            \* the controller's queue, its running operation first
    ctl,            \* what that operation waits for
    manager,        \* ServiceManager: paused, pauseIntentEpoch, worker child
    label,          \* isPaused() as the tray's menu was built with
    pausing,        \* callers whose pause() has not returned
    resumes,        \* resume() calls that have not returned
    wants,          \* the user's last word
    lastPause,      \* history: whose pause() came last, and whether the user's
                    \* left the controller with a claim to it
    used            \* edges, requests and faults so far

vars == <<enabled, present, auto, ops, ctl, manager, label, pausing, resumes,
          wants, lastPause, used>>

Callers == {"user", "controller"}

\* Where the user pauses and resumes: the dashboard's IPC handlers, the
\* application menu, the tray menu.
Entries == {"ipc", "menu", "tray"}

Init ==
    /\ enabled \in BOOLEAN
    /\ present = "active"
    /\ auto = FALSE
    /\ ops = <<>>
    /\ ctl = "idle"
    /\ manager = [paused |-> FALSE, epoch |-> 0, worker |-> TRUE]
    /\ label = FALSE
    /\ pausing = {}
    /\ resumes = {}
    /\ wants = "on"
    /\ lastPause = "none"
    /\ used = [edges |-> 0, user |-> 0, faults |-> 0]

-----------------------------------------------------------------------------
(* ServiceManager, as this controller sees it.                             *)

\* emitStatus, to which the tray answers by building its menu again.
EmitStatus == label' = manager'.paused

\* pause() by c.
CallPause(c) ==
    /\ manager' = [manager EXCEPT !.paused = TRUE, !.epoch = @ + 1]
    /\ pausing' = pausing \cup {c}
    /\ UNCHANGED <<label, resumes>>

\* resume() by c captures the pause intent of the moment.
CallResume(c) ==
    /\ resumes' = resumes \cup {[by |-> c, epoch |-> manager.epoch]}
    /\ UNCHANGED <<manager, label, pausing>>

\* Everyone who waits for the worker's exit is answered by it.
PauseReturns ==
    /\ pausing # {}
    /\ pausing' = {}
    /\ ctl' = IF ctl = "pausing" THEN "paused" ELSE ctl
    /\ \/ /\ manager' = [manager EXCEPT !.worker = FALSE]
          /\ UNCHANGED used
       \/ /\ manager.worker
          /\ used.faults < MaxFaults
          /\ used' = [used EXCEPT !.faults = @ + 1]
          /\ UNCHANGED manager
    /\ EmitStatus
    /\ UNCHANGED <<enabled, present, auto, ops, resumes, wants, lastPause>>

\* Mutant: a newer pause does not cancel the resume.
IntentIgnored(r) == TRUE

\* The resume still has the intent it was called with.
IntentCurrent(r) == r.epoch = manager.epoch

\* Mutant: the operation that waits for the call is not told.
AnswerNobody(r, ctlNext) ==
    /\ resumes' = resumes \ {r}
    /\ UNCHANGED <<enabled, present, auto, ops, ctl, pausing, wants, lastPause>>

Answer(r, ctlNext) ==
    /\ resumes' = resumes \ {r}
    /\ ctl' = IF r.by = "controller" THEN ctlNext ELSE ctl
    /\ UNCHANGED <<enabled, present, auto, ops, pausing, wants, lastPause>>

ResumeSucceeds(r) ==
    /\ r \in resumes
    /\ ~manager.worker
    /\ IntentCurrent(r)
    /\ manager' = [manager EXCEPT !.paused = FALSE, !.worker = TRUE]
    /\ EmitStatus
    /\ Answer(r, "resumed")
    /\ UNCHANGED used

\* A retained worker refuses it, a newer pause cancels it, or it fails.
ResumeThrows(r) ==
    /\ r \in resumes
    /\ \/ /\ manager.worker
          /\ UNCHANGED <<manager, label, used>>
       \/ /\ ~manager.worker /\ ~IntentCurrent(r)
          /\ manager' = [manager EXCEPT !.paused = TRUE]
          /\ EmitStatus
          /\ UNCHANGED used
       \/ /\ ~manager.worker /\ IntentCurrent(r)
          /\ used.faults < MaxFaults
          /\ used' = [used EXCEPT !.faults = @ + 1]
          /\ manager' = [manager EXCEPT !.paused = TRUE]
          /\ EmitStatus
    /\ Answer(r, "failed")

\* The status of another service changes.
OtherStatusChanges ==
    /\ label # manager.paused
    /\ UNCHANGED manager
    /\ EmitStatus
    /\ UNCHANGED <<enabled, present, auto, ops, ctl, pausing, resumes, wants,
                   lastPause, used>>

-----------------------------------------------------------------------------
(* The controller: one operation at a time.                                *)

Enqueue(op) == ops' = Append(ops, op)

\* The idle bridge reports a transition.
Edge ==
    /\ used.edges < MaxEdges
    /\ used' = [used EXCEPT !.edges = @ + 1]
    /\ present' = IF present = "active" THEN "idle" ELSE "active"
    /\ Enqueue(present')
    /\ UNCHANGED <<enabled, auto, ctl, manager, label, pausing, resumes, wants,
                   lastPause>>

\* The preference is stored before the controller hears of it.
SetEnabled ==
    /\ used.user < MaxUserOps
    /\ used' = [used EXCEPT !.user = @ + 1]
    /\ enabled' = ~enabled
    /\ Enqueue(IF enabled' THEN "enabled" ELSE "disabled")
    /\ UNCHANGED <<present, auto, ctl, manager, label, pausing, resumes, wants,
                   lastPause>>

CtlBusy == ctl # "idle"

\* The operation at the head of the queue pauses, resumes or does nothing.
Pauses(op) == op = "idle" /\ enabled /\ ~manager.paused

\* Mutant: switching the preference off ends nothing.
ResumesOnReturnOnly(op) == op = "active" /\ enabled /\ auto

Resumes(op) ==
    /\ auto
    /\ op = "disabled" \/ (op = "active" /\ enabled)

ControllerPauses ==
    /\ ops # <<>> /\ ~CtlBusy
    /\ Pauses(Head(ops))
    /\ auto' = TRUE
    /\ ctl' = "pausing"
    /\ CallPause("controller")
    /\ lastPause' = "controller"
    /\ UNCHANGED <<enabled, present, ops, wants, used>>

ControllerResumes ==
    /\ ops # <<>> /\ ~CtlBusy
    /\ Resumes(Head(ops))
    /\ ctl' = "resuming"
    /\ CallResume("controller")
    /\ UNCHANGED <<enabled, present, auto, ops, wants, lastPause, used>>

ControllerSkips ==
    /\ ops # <<>> /\ ~CtlBusy
    /\ ~Pauses(Head(ops)) /\ ~Resumes(Head(ops))
    /\ ops' = Tail(ops)
    /\ UNCHANGED <<enabled, present, auto, ctl, manager, label, pausing,
                   resumes, wants, lastPause, used>>

\* The awaited call has settled.  Only a successful resume gives up the
\* controller's claim to the pause.
ControllerSettles ==
    /\ ctl \in {"paused", "resumed", "failed"}
    /\ auto' = (auto /\ ctl # "resumed")
    /\ ctl' = "idle"
    /\ ops' = Tail(ops)
    /\ UNCHANGED <<enabled, present, manager, label, pausing, resumes, wants,
                   lastPause, used>>

-----------------------------------------------------------------------------
(* The user.                                                               *)

\* onManualPauseChange, called by the application menu and the dashboard's
\* IPC handlers; the tray's click handler does not call it.
ManualPauseChange(entry) == auto' = (auto /\ entry = "tray")

UserAsks == /\ used.user < MaxUserOps
            /\ used' = [used EXCEPT !.user = @ + 1]

\* The application menu acts on what isPaused() says at the click, the tray on
\* what it said when its menu was built; the IPC handlers do not ask.
Offers(entry, paused) ==
    /\ entry = "menu" => manager.paused = paused
    /\ entry = "tray" => label = paused

UserPauses(entry) ==
    /\ UserAsks
    /\ Offers(entry, FALSE)
    /\ ManualPauseChange(entry)
    /\ wants' = "off"
    /\ lastPause' = IF auto /\ entry = "tray" THEN "overlooked" ELSE "noticed"
    /\ CallPause("user")
    /\ UNCHANGED <<enabled, present, ops, ctl>>

UserResumes(entry) ==
    /\ UserAsks
    /\ Offers(entry, TRUE)
    /\ ManualPauseChange(entry)
    /\ wants' = "on"
    /\ CallResume("user")
    /\ UNCHANGED <<enabled, present, ops, ctl, lastPause>>

-----------------------------------------------------------------------------
Manager ==
    \/ PauseReturns
    \/ \E r \in resumes : ResumeSucceeds(r) \/ ResumeThrows(r)

Controller ==
    \/ ControllerPauses
    \/ ControllerResumes
    \/ ControllerSkips
    \/ ControllerSettles

User == SetEnabled \/ \E e \in Entries : UserPauses(e) \/ UserResumes(e)

Next == Manager \/ OtherStatusChanges \/ Controller \/ User \/ Edge

Spec == Init /\ [][Next]_vars

-----------------------------------------------------------------------------
(* Properties.                                                             *)

\* Type correctness, and the controller's promise chain: it has at most one
\* call to ServiceManager under way, the one its running operation awaits.
TypeOK ==
    /\ enabled \in BOOLEAN /\ auto \in BOOLEAN
    /\ present \in {"active", "idle"}
    /\ ops \in Seq({"active", "idle", "enabled", "disabled"})
    /\ ctl \in {"idle", "pausing", "paused", "resuming", "resumed", "failed"}
    /\ manager \in [paused : BOOLEAN, epoch : Nat, worker : BOOLEAN]
    /\ label \in BOOLEAN
    /\ pausing \subseteq Callers
    /\ resumes \subseteq [by : Callers, epoch : Nat]
    /\ wants \in {"on", "off"}
    /\ lastPause \in {"none", "controller", "noticed", "overlooked"}
    /\ "controller" \in pausing <=> ctl = "pausing"
    /\ Cardinality({r \in resumes : r.by = "controller"})
          = (IF ctl = "resuming" THEN 1 ELSE 0)

\* The worker is enabled although the user's last word is a pause.
Overridden ==
    wants = "off" /\ wants' = "off" /\ manager.paused /\ ~manager'.paused

\* A pause the controller was told of, or had no claim to, stands: whatever the
\* controller has queued or under way, and whichever entry point was used
\* before, nothing but the user's own resume enables the worker again.
NoticedPauseStands == [][lastPause = "noticed" => ~Overridden]_vars

\* idle-pause-controller.ts: "If the user manually paused the twin (kill
\* switch, tray menu) and then goes idle, we don't re-pause (already paused).
\* When they come back, we don't auto-resume either - they wanted it off,
\* leave it off."  Of every entry point: after a pause the user asked for,
\* nothing but the user's own resume enables the worker.
UserPauseStands == [][~Overridden]_vars

\* The controller's operations and the manager's promises settle.
FairSpec == Spec /\ WF_vars(Controller) /\ WF_vars(Manager)

\* The controller's own pause, in force and claimed.
OwnPause == auto /\ manager.paused /\ lastPause = "controller"

\* "Don't fight the setting": once the user is back, or has switched the
\* preference off, the controller does not keep its own pause (as long as no
\* pause or resume of the services fails).
AutoPauseEnds ==
    OwnPause /\ (present = "active" \/ ~enabled)
        ~> ~OwnPause \/ (present = "idle" /\ enabled) \/ used.faults > 0

=============================================================================
