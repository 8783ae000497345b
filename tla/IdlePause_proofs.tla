-------------------------- MODULE IdlePause_proofs --------------------------
(***************************************************************************)
(* A pause of the user's that the controller was told of, or had no claim  *)
(* to, stands, for any number of idle transitions, requests from all the   *)
(* entry points, preference changes and failures.  A pause from the tray   *)
(* while the controller has a claim is the one that does not (the tray's   *)
(* click handler tells the controller nothing).  The controller's promise  *)
(* chain (one call under way at most) holds for every entry point.         *)
(***************************************************************************)
EXTENDS IdlePause, FiniteSetTheorems, TLAPS

\* The types the argument needs.
PauseTypes ==
    /\ manager \in [paused : BOOLEAN, epoch : Nat, worker : BOOLEAN]
    /\ resumes \subseteq [by : Callers, epoch : Nat]
    /\ auto \in BOOLEAN

\* A resume remembers a pause intent that has existed.
ResumesRemember == \A r \in resumes : r.epoch <= manager.epoch

\* While the user's last word is a noticed pause, the worker is paused, the
\* controller makes no claim to that pause, and every resume under way is
\* outdated.
PauseHolds ==
    wants = "off" /\ lastPause = "noticed" =>
        /\ manager.paused = TRUE
        /\ auto = FALSE
        /\ \A r \in resumes : r.epoch < manager.epoch

IndInv == PauseTypes /\ ResumesRemember /\ PauseHolds

LEMMA InitIndInv == Init => IndInv
<1> SUFFICES ASSUME Init PROVE IndInv
  OBVIOUS
<1>1. resumes = {} /\ auto = FALSE /\ wants = "on"
  BY DEF Init
<1>2. manager \in [paused : BOOLEAN, epoch : Nat, worker : BOOLEAN]
  BY DEF Init
<1> QED
  BY <1>1, <1>2 DEF IndInv, PauseTypes, ResumesRemember, PauseHolds

\* resume() captures the current pause intent, whoever calls it.
LEMMA ResumeAdded ==
    ASSUME PauseTypes, ResumesRemember, NEW c \in Callers, manager' = manager,
           resumes' = resumes \cup {[by |-> c, epoch |-> manager.epoch]}
    PROVE  /\ resumes' \subseteq [by : Callers, epoch : Nat]
           /\ ResumesRemember'
<1>1. manager.epoch \in Nat
  BY DEF PauseTypes
<1>2. [by |-> c, epoch |-> manager.epoch] \in [by : Callers, epoch : Nat]
  BY <1>1
<1>3. resumes' \subseteq [by : Callers, epoch : Nat]
  BY <1>2 DEF PauseTypes
<1>4. \A r \in resumes' : r.epoch <= manager.epoch
  BY <1>1 DEF ResumesRemember
<1> QED
  BY <1>3, <1>4 DEF ResumesRemember

\* pause() takes effect at once and outdates every resume under way.
LEMMA PauseCalled ==
    ASSUME PauseTypes, ResumesRemember, resumes' = resumes,
           manager' = [manager EXCEPT !.paused = TRUE, !.epoch = @ + 1]
    PROVE  /\ manager' \in [paused : BOOLEAN, epoch : Nat, worker : BOOLEAN]
           /\ manager'.paused = TRUE
           /\ \A r \in resumes' : r.epoch < manager'.epoch
           /\ ResumesRemember'
<1>1. manager \in [paused : BOOLEAN, epoch : Nat, worker : BOOLEAN]
  BY DEF PauseTypes
<1>2. manager'.epoch = manager.epoch + 1 /\ manager.epoch \in Nat
  BY <1>1
<1>3. /\ manager' \in [paused : BOOLEAN, epoch : Nat, worker : BOOLEAN]
      /\ manager'.paused = TRUE
  <2>1. manager.epoch + 1 \in Nat
    BY <1>2
  <2>2. manager' = [paused |-> TRUE, epoch |-> manager.epoch + 1, worker |-> manager.worker]
    BY <1>1
  <2>3. manager.worker \in BOOLEAN
    BY <1>1
  <2> QED
    BY <2>1, <2>2, <2>3
<1>4. \A r \in resumes : r.epoch \in Nat /\ r.epoch <= manager.epoch
  BY DEF PauseTypes, ResumesRemember
<1>5. \A r \in resumes' : r.epoch < manager'.epoch /\ r.epoch <= manager'.epoch
  BY <1>2, <1>4
<1> QED
  BY <1>3, <1>5 DEF ResumesRemember

LEMMA ManagerKeeps ==
    ASSUME IndInv, Manager
    PROVE  IndInv'
<1> USE DEF IndInv, PauseTypes, ResumesRemember, PauseHolds
<1>1. CASE PauseReturns
  BY <1>1 DEF PauseReturns
<1>2. ASSUME NEW r \in resumes, ResumeSucceeds(r) PROVE IndInv'
  <2>1. r.epoch = manager.epoch /\ r.epoch \in Nat
    BY <1>2 DEF ResumeSucceeds, IntentCurrent
  <2>2. ~(wants' = "off" /\ lastPause' = "noticed")
    BY <1>2, <2>1 DEF ResumeSucceeds, Answer
  <2>3. resumes' \subseteq resumes /\ auto' = auto
    BY <1>2 DEF ResumeSucceeds, Answer
  <2>4. manager' = [manager EXCEPT !.paused = FALSE, !.worker = TRUE]
    BY <1>2 DEF ResumeSucceeds
  <2>5. /\ manager' \in [paused : BOOLEAN, epoch : Nat, worker : BOOLEAN]
        /\ manager'.epoch = manager.epoch
    BY <2>4
  <2> QED
    BY <2>2, <2>3, <2>5
<1>3. ASSUME NEW r \in resumes, ResumeThrows(r) PROVE IndInv'
  BY <1>3 DEF ResumeThrows, Answer
<1> QED
  BY <1>1, <1>2, <1>3 DEF Manager

LEMMA ControllerKeeps ==
    ASSUME IndInv, Controller
    PROVE  IndInv'
<1> USE DEF IndInv, PauseTypes, ResumesRemember, PauseHolds
<1>1. CASE ControllerPauses
  <2>1. lastPause' = "controller" /\ auto' = TRUE
    BY <1>1 DEF ControllerPauses
  <2>2. resumes' = resumes /\ manager' = [manager EXCEPT !.paused = TRUE, !.epoch = @ + 1]
    BY <1>1 DEF ControllerPauses, CallPause
  <2> QED
    BY <2>1, <2>2, PauseCalled
<1>2. CASE ControllerResumes
  <2>1. ~(wants' = "off" /\ lastPause' = "noticed")
    BY <1>2 DEF ControllerResumes, Resumes
  <2>2. manager' = manager /\ auto' = auto
    BY <1>2 DEF ControllerResumes, CallResume
  <2>3. resumes' = resumes \cup {[by |-> "controller", epoch |-> manager.epoch]}
    BY <1>2 DEF ControllerResumes, CallResume
  <2> QED
    BY <2>1, <2>2, <2>3, ResumeAdded DEF Callers
<1>3. CASE ControllerSkips
  BY <1>3 DEF ControllerSkips
<1>4. CASE ControllerSettles
  BY <1>4 DEF ControllerSettles
<1> QED
  BY <1>1, <1>2, <1>3, <1>4 DEF Controller

LEMMA UserKeeps ==
    ASSUME IndInv, User
    PROVE  IndInv'
<1> USE DEF IndInv, PauseTypes, ResumesRemember, PauseHolds
<1>1. CASE SetEnabled
  BY <1>1 DEF SetEnabled
<1>2. ASSUME NEW e \in Entries, UserPauses(e) PROVE IndInv'
  <2>1. auto' \in BOOLEAN /\ (lastPause' = "noticed" => auto' = FALSE)
    BY <1>2 DEF UserPauses, ManualPauseChange
  <2>2. resumes' = resumes /\ manager' = [manager EXCEPT !.paused = TRUE, !.epoch = @ + 1]
    BY <1>2 DEF UserPauses, CallPause
  <2> QED
    BY <2>1, <2>2, PauseCalled
<1>3. ASSUME NEW e \in Entries, UserResumes(e) PROVE IndInv'
  <2>1. auto' \in BOOLEAN
    BY <1>3 DEF UserResumes, ManualPauseChange
  <2>2. wants' = "on" /\ manager' = manager
    BY <1>3 DEF UserResumes, CallResume
  <2>3. resumes' = resumes \cup {[by |-> "user", epoch |-> manager.epoch]}
    BY <1>3 DEF UserResumes, CallResume
  <2> QED
    BY <2>1, <2>2, <2>3, ResumeAdded DEF Callers
<1> QED
  BY <1>1, <1>2, <1>3 DEF User

LEMMA StepKeeps ==
    ASSUME IndInv, [Next]_vars
    PROVE  IndInv'
<1>1. CASE Edge
  BY <1>1 DEF Edge, IndInv, PauseTypes, ResumesRemember, PauseHolds
<1>2. CASE OtherStatusChanges
  BY <1>2 DEF OtherStatusChanges, IndInv, PauseTypes, ResumesRemember, PauseHolds
<1>3. CASE UNCHANGED vars
  BY <1>3 DEF vars, IndInv, PauseTypes, ResumesRemember, PauseHolds
<1> QED
  BY <1>1, <1>2, <1>3, ManagerKeeps, ControllerKeeps, UserKeeps DEF Next

\* After a pause of the user's that reached onManualPauseChange, or found the
\* controller without a claim, no step of the controller or of the manager
\* enables the worker again: only the user's own resume does, whichever of the
\* dashboard, the menu and the tray the user works from.
THEOREM NoticedPauseIsKept == Spec => NoticedPauseStands
<1>1. Init => IndInv
  BY InitIndInv
<1>2. IndInv /\ [Next]_vars => IndInv'
  BY StepKeeps
<1>3. ASSUME IndInv, [Next]_vars, lastPause = "noticed" PROVE ~Overridden
  <2> SUFFICES ASSUME Overridden PROVE FALSE
    OBVIOUS
  <2>1. wants = "off" /\ wants' = "off" /\ manager.paused /\ ~manager'.paused
    BY DEF Overridden
  <2>2. IndInv'
    BY <1>2, <1>3
  <2>3. lastPause' # "noticed"
    BY <2>1, <2>2 DEF IndInv, PauseHolds
  <2>4. manager'.paused = TRUE
    BY <1>3, <2>1, <2>3 DEF Next, vars, Manager, PauseReturns, ResumeSucceeds, ResumeThrows,
       Answer, OtherStatusChanges, Controller, ControllerPauses, ControllerResumes, Pauses,
       ControllerSkips, ControllerSettles, User, SetEnabled, UserPauses, UserResumes,
       Edge, CallPause, CallResume, IndInv, PauseTypes
  <2> QED
    BY <2>1, <2>4
<1> QED
  BY <1>1, <1>2, <1>3, PTL DEF Spec, NoticedPauseStands

-----------------------------------------------------------------------------
(* The controller's promise chain.                                         *)

OpNames == {"active", "idle", "enabled", "disabled"}
CtlStates == {"idle", "pausing", "paused", "resuming", "resumed", "failed"}

\* The types of TypeOK.
Shaped ==
    /\ PauseTypes
    /\ enabled \in BOOLEAN
    /\ present \in {"active", "idle"}
    /\ ops \in Seq(OpNames)
    /\ ctl \in CtlStates
    /\ pausing \subseteq Callers
    /\ wants \in {"on", "off"}

\* The resumes the controller has under way.
Awaited == {r \in resumes : r.by = "controller"}

\* The running operation is the head of the queue, and the call it awaits is
\* the controller's only one.
Chained ==
    /\ ctl # "idle" => ops # <<>>
    /\ "controller" \in pausing <=> ctl = "pausing"
    /\ ctl # "resuming" => Awaited = {}
    /\ ctl = "resuming" => \E x : Awaited = {x}

ChainInv == Shaped /\ Chained

\* An appended operation leaves a queue that is not empty.
LEMMA Enqueued ==
    ASSUME ops \in Seq(OpNames), NEW op \in OpNames, ops' = Append(ops, op)
    PROVE  ops' \in Seq(OpNames) /\ ops' # <<>>
  OBVIOUS

\* A step that leaves the calls and the running operation alone.
LEMMA ChainUntouched ==
    ASSUME Chained, ops' # <<>> \/ ops' = ops, ctl' = ctl, pausing' = pausing,
           resumes' = resumes
    PROVE  Chained'
  BY DEF Chained, Awaited

LEMMA ManagerChain ==
    ASSUME ChainInv, Manager
    PROVE  ChainInv'
<1> USE DEF ChainInv, Shaped
<1>1. CASE PauseReturns
  <2>1. UNCHANGED <<enabled, present, auto, ops, resumes, wants>> /\ pausing' = {}
    BY <1>1 DEF PauseReturns
  <2>2. ctl' = IF ctl = "pausing" THEN "paused" ELSE ctl
    BY <1>1 DEF PauseReturns
  <2>3. manager' \in [paused : BOOLEAN, epoch : Nat, worker : BOOLEAN]
    BY <1>1 DEF PauseReturns, PauseTypes
  <2>4. Awaited' = Awaited
    BY <2>1 DEF Awaited
  <2>5. Chained'
    BY <2>1, <2>2, <2>4 DEF Chained
  <2> QED
    BY <2>1, <2>2, <2>3, <2>5 DEF PauseTypes, CtlStates
<1>2. ASSUME NEW r \in resumes, NEW next \in {"resumed", "failed"}, Answer(r, next),
             manager' \in [paused : BOOLEAN, epoch : Nat, worker : BOOLEAN]
      PROVE  ChainInv'
  <2>1. UNCHANGED <<enabled, present, auto, ops, pausing, wants>>
    BY <1>2 DEF Answer
  <2>2. resumes' = resumes \ {r} /\ ctl' = IF r.by = "controller" THEN next ELSE ctl
    BY <1>2 DEF Answer
  <2>3. Awaited' = Awaited \ {r}
    BY <2>2 DEF Awaited
  <2>4. CASE r.by = "controller"
    <3>1. r \in Awaited
      BY <2>4 DEF Awaited
    <3>2. ctl = "resuming" /\ Awaited' = {}
      BY <2>3, <3>1 DEF Chained
    <3>3. Chained'
      BY <2>1, <2>2, <2>4, <3>2 DEF Chained
    <3> QED
      BY <1>2, <2>1, <2>2, <2>4, <3>3 DEF PauseTypes, CtlStates
  <2>5. CASE r.by # "controller"
    <3>1. Awaited' = Awaited
      BY <2>3, <2>5 DEF Awaited
    <3>2. Chained'
      BY <2>1, <2>2, <2>5, <3>1 DEF Chained
    <3> QED
      BY <1>2, <2>1, <2>2, <2>5, <3>2 DEF PauseTypes, CtlStates
  <2> QED
    BY <2>4, <2>5
<1>3. ASSUME NEW r \in resumes, ResumeSucceeds(r) PROVE ChainInv'
  <2>1. manager' = [manager EXCEPT !.paused = FALSE, !.worker = TRUE] /\ Answer(r, "resumed")
    BY <1>3 DEF ResumeSucceeds
  <2>2. manager' \in [paused : BOOLEAN, epoch : Nat, worker : BOOLEAN]
    BY <2>1 DEF PauseTypes
  <2> QED
    BY <1>2, <2>1, <2>2
<1>4. ASSUME NEW r \in resumes, ResumeThrows(r) PROVE ChainInv'
  <2>1. (manager' = manager \/ manager' = [manager EXCEPT !.paused = TRUE]) /\ Answer(r, "failed")
    BY <1>4 DEF ResumeThrows
  <2>2. manager' \in [paused : BOOLEAN, epoch : Nat, worker : BOOLEAN]
    BY <2>1 DEF PauseTypes
  <2> QED
    BY <1>2, <2>1, <2>2
<1> QED
  BY <1>1, <1>3, <1>4 DEF Manager

\* resume() called by c: the record it leaves is the controller's or the user's.
LEMMA CalledResume ==
    ASSUME ChainInv, NEW c \in Callers, CallResume(c)
    PROVE  /\ resumes' \subseteq [by : Callers, epoch : Nat]
           /\ manager' = manager /\ pausing' = pausing
           /\ c = "user" => Awaited' = Awaited
           /\ c = "controller" =>
                Awaited' = Awaited \cup {[by |-> c, epoch |-> manager.epoch]}
<1>1. manager' = manager /\ pausing' = pausing
  BY DEF CallResume
<1> DEFINE rec == [by |-> c, epoch |-> manager.epoch]
<1>2. rec \in [by : Callers, epoch : Nat] /\ rec.by = c
  BY DEF ChainInv, Shaped, PauseTypes
<1>3. resumes' = resumes \cup {rec}
  BY DEF CallResume
<1>4. Awaited' = {r \in resumes \cup {rec} : r.by = "controller"}
  BY <1>3 DEF Awaited
<1> HIDE DEF rec
<1>5. c = "user" => Awaited' = Awaited
  BY <1>2, <1>4 DEF Awaited
<1>6. c = "controller" => Awaited' = Awaited \cup {rec}
  BY <1>2, <1>4 DEF Awaited
<1>7. resumes' \subseteq [by : Callers, epoch : Nat]
  BY <1>2, <1>3 DEF ChainInv, Shaped, PauseTypes
<1> QED
  BY <1>1, <1>5, <1>6, <1>7 DEF rec

\* pause() called by c.
LEMMA CalledPause ==
    ASSUME ChainInv, NEW c \in Callers, CallPause(c)
    PROVE  /\ manager' \in [paused : BOOLEAN, epoch : Nat, worker : BOOLEAN]
           /\ resumes' = resumes /\ Awaited' = Awaited
           /\ pausing' = pausing \cup {c}
<1>1. manager' = [manager EXCEPT !.paused = TRUE, !.epoch = @ + 1]
  BY DEF CallPause
<1>2. manager' \in [paused : BOOLEAN, epoch : Nat, worker : BOOLEAN]
  <2>1. manager \in [paused : BOOLEAN, epoch : Nat, worker : BOOLEAN]
    BY DEF ChainInv, Shaped, PauseTypes
  <2>2. manager.epoch + 1 \in Nat /\ manager.worker \in BOOLEAN
    BY <2>1
  <2>3. manager' = [paused |-> TRUE, epoch |-> manager.epoch + 1, worker |-> manager.worker]
    BY <1>1, <2>1
  <2> QED
    BY <2>2, <2>3
<1>3. resumes' = resumes /\ pausing' = pausing \cup {c}
  BY DEF CallPause
<1>4. Awaited' = Awaited
  BY <1>3 DEF Awaited
<1> QED
  BY <1>2, <1>3, <1>4

LEMMA ControllerChain ==
    ASSUME ChainInv, Controller
    PROVE  ChainInv'
<1> USE DEF ChainInv, Shaped
<1>0. "controller" \in Callers
  BY DEF Callers
<1>1. CASE ControllerPauses
  <2>1. CallPause("controller") /\ UNCHANGED <<enabled, present, ops, wants>>
    BY <1>1 DEF ControllerPauses
  <2>2. auto' = TRUE /\ ctl = "idle" /\ ctl' = "pausing" /\ ops # <<>>
    BY <1>1 DEF ControllerPauses, CtlBusy
  <2>3. /\ manager' \in [paused : BOOLEAN, epoch : Nat, worker : BOOLEAN]
        /\ resumes' = resumes /\ Awaited' = Awaited
        /\ pausing' = pausing \cup {"controller"}
    BY <1>0, <2>1, CalledPause
  <2>4. Chained'
    BY <2>1, <2>2, <2>3 DEF Chained
  <2> QED
    BY <1>0, <2>1, <2>2, <2>3, <2>4 DEF PauseTypes, CtlStates
<1>2. CASE ControllerResumes
  <2>1. CallResume("controller") /\ UNCHANGED <<enabled, present, auto, ops, wants>>
    BY <1>2 DEF ControllerResumes
  <2>2. ctl = "idle" /\ ctl' = "resuming" /\ ops # <<>>
    BY <1>2 DEF ControllerResumes, CtlBusy
  <2>3. /\ resumes' \subseteq [by : Callers, epoch : Nat]
        /\ manager' = manager /\ pausing' = pausing
        /\ Awaited' = Awaited \cup {[by |-> "controller", epoch |-> manager.epoch]}
    BY <1>0, <2>1, CalledResume
  <2>4. Awaited = {}
    BY <2>2 DEF Chained
  <2>5. \E x : Awaited' = {x}
    BY <2>3, <2>4
  <2>6. Chained'
    BY <2>1, <2>2, <2>3, <2>5 DEF Chained
  <2> QED
    BY <2>1, <2>2, <2>3, <2>6 DEF PauseTypes, CtlStates
<1>3. CASE ControllerSkips
  <2>1. ctl = "idle" /\ ops # <<>> /\ ops' = Tail(ops)
    BY <1>3 DEF ControllerSkips, CtlBusy
  <2>2. UNCHANGED <<enabled, present, auto, ctl, manager, pausing, resumes, wants>>
    BY <1>3 DEF ControllerSkips
  <2>3. ops' \in Seq(OpNames)
    BY <2>1
  <2>4. Chained'
    BY <2>1, <2>2 DEF Chained, Awaited
  <2> QED
    BY <2>2, <2>3, <2>4 DEF PauseTypes
<1>4. CASE ControllerSettles
  <2>1. ctl \in {"paused", "resumed", "failed"} /\ ctl' = "idle" /\ ops' = Tail(ops)
    BY <1>4 DEF ControllerSettles
  <2>2. UNCHANGED <<enabled, present, manager, pausing, resumes, wants>> /\ auto' \in BOOLEAN
    BY <1>4 DEF ControllerSettles
  <2>3. ops # <<>>
    BY <2>1 DEF Chained
  <2>4. ops' \in Seq(OpNames)
    BY <2>1, <2>3
  <2>5. Chained'
    BY <2>1, <2>2 DEF Chained, Awaited
  <2> QED
    BY <2>1, <2>2, <2>4, <2>5 DEF PauseTypes, CtlStates
<1> QED
  BY <1>1, <1>2, <1>3, <1>4 DEF Controller

LEMMA UserChain ==
    ASSUME ChainInv, User \/ Edge
    PROVE  ChainInv'
<1> USE DEF ChainInv, Shaped
<1>0. "user" \in Callers /\ "user" # "controller"
  BY DEF Callers
<1>1. CASE SetEnabled
  <2>1. /\ UNCHANGED <<present, auto, ctl, manager, pausing, resumes, wants>>
        /\ enabled' = ~enabled
    BY <1>1 DEF SetEnabled
  <2>2. ops' = Append(ops, IF enabled' THEN "enabled" ELSE "disabled")
    BY <1>1 DEF SetEnabled, Enqueue
  <2>3. (IF enabled' THEN "enabled" ELSE "disabled") \in OpNames
    BY DEF OpNames
  <2>4. ops' \in Seq(OpNames) /\ ops' # <<>>
    BY <2>2, <2>3, Enqueued
  <2> QED
    BY <2>1, <2>4, ChainUntouched DEF PauseTypes
<1>2. CASE Edge
  <2>1. UNCHANGED <<enabled, auto, ctl, manager, pausing, resumes, wants>>
    BY <1>2 DEF Edge
  <2>2. present' \in {"active", "idle"} /\ ops' = Append(ops, present')
    BY <1>2 DEF Edge, Enqueue
  <2>3. ops' \in Seq(OpNames) /\ ops' # <<>>
    BY <2>2, Enqueued DEF OpNames
  <2> QED
    BY <2>1, <2>2, <2>3, ChainUntouched DEF PauseTypes
<1>3. ASSUME NEW e \in Entries, UserPauses(e) PROVE ChainInv'
  <2>1. CallPause("user") /\ UNCHANGED <<enabled, present, ops, ctl>>
    BY <1>3 DEF UserPauses
  <2>2. auto' \in BOOLEAN /\ wants' = "off"
    BY <1>3 DEF UserPauses, ManualPauseChange
  <2>3. /\ manager' \in [paused : BOOLEAN, epoch : Nat, worker : BOOLEAN]
        /\ resumes' = resumes /\ Awaited' = Awaited
        /\ pausing' = pausing \cup {"user"}
    BY <1>0, <2>1, CalledPause
  <2>4. Chained'
    BY <1>0, <2>1, <2>3 DEF Chained
  <2> QED
    BY <1>0, <2>1, <2>2, <2>3, <2>4 DEF PauseTypes
<1>4. ASSUME NEW e \in Entries, UserResumes(e) PROVE ChainInv'
  <2>1. CallResume("user") /\ UNCHANGED <<enabled, present, ops, ctl>>
    BY <1>4 DEF UserResumes
  <2>2. auto' \in BOOLEAN /\ wants' = "on"
    BY <1>4 DEF UserResumes, ManualPauseChange
  <2>3. /\ resumes' \subseteq [by : Callers, epoch : Nat]
        /\ manager' = manager /\ pausing' = pausing /\ Awaited' = Awaited
    BY <1>0, <2>1, CalledResume
  <2>4. Chained'
    BY <2>1, <2>3 DEF Chained
  <2> QED
    BY <2>1, <2>2, <2>3, <2>4 DEF PauseTypes
<1> QED
  BY <1>1, <1>2, <1>3, <1>4 DEF User

\* The chain holds initially and every step keeps it.
LEMMA ChainInduction ==
    /\ Init => ChainInv
    /\ ChainInv /\ [Next]_vars => ChainInv'
<1>1. ASSUME Init PROVE ChainInv
  <2>1. /\ resumes = {} /\ pausing = {} /\ ops = <<>> /\ ctl = "idle"
        /\ auto = FALSE /\ wants = "on" /\ present = "active" /\ enabled \in BOOLEAN
    BY <1>1 DEF Init
  <2>2. manager \in [paused : BOOLEAN, epoch : Nat, worker : BOOLEAN]
    BY <1>1 DEF Init
  <2>3. Awaited = {} /\ ops \in Seq(OpNames)
    BY <2>1 DEF Awaited
  <2>4. Chained
    BY <2>1, <2>3 DEF Chained
  <2> QED
    BY <2>1, <2>2, <2>3, <2>4 DEF ChainInv, Shaped, PauseTypes, CtlStates
<1>2. ASSUME ChainInv, UNCHANGED vars PROVE ChainInv'
  BY <1>2 DEF vars, ChainInv, Shaped, PauseTypes, Chained, Awaited
<1>3. ASSUME ChainInv, OtherStatusChanges PROVE ChainInv'
  BY <1>3 DEF OtherStatusChanges, ChainInv, Shaped, PauseTypes, Chained, Awaited
<1> QED
  BY <1>1, <1>2, <1>3, ManagerChain, ControllerChain, UserChain DEF Next

\* The tray's label is a value isPaused() has had; the last pause has a name.
Labels ==
    /\ label \in BOOLEAN
    /\ lastPause \in {"none", "controller", "noticed", "overlooked"}

LEMMA LabelsKept ==
    ASSUME ChainInv', Labels, [Next]_vars
    PROVE  Labels'
<1>1. manager'.paused \in BOOLEAN
  BY DEF ChainInv, Shaped, PauseTypes
<1>2. label' = label \/ label' = manager'.paused
  BY DEF Next, vars, Manager, PauseReturns, ResumeSucceeds, ResumeThrows, EmitStatus,
     OtherStatusChanges, Controller, ControllerPauses, ControllerResumes, ControllerSkips,
     ControllerSettles, User, SetEnabled, UserPauses, UserResumes, Edge, CallPause, CallResume
<1>3. lastPause' \in {lastPause, "controller", "noticed", "overlooked"}
  BY DEF Next, vars, Manager, PauseReturns, ResumeSucceeds, ResumeThrows, Answer,
     OtherStatusChanges, Controller, ControllerPauses, ControllerResumes, ControllerSkips,
     ControllerSettles, User, SetEnabled, UserPauses, UserResumes, Edge
<1> QED
  BY <1>1, <1>2, <1>3 DEF Labels

\* TypeOK: the controller's promise chain (`enqueue`) has one call to
\* ServiceManager under way at most, the one its running operation awaits,
\* from whichever entry points the user pauses and resumes meanwhile.
THEOREM ControllerIsSerial == Spec => []TypeOK
<1>1. ASSUME ChainInv, Labels PROVE TypeOK
  <2>1. Cardinality(Awaited) = (IF ctl = "resuming" THEN 1 ELSE 0)
    BY <1>1, FS_EmptySet, FS_Singleton DEF ChainInv, Chained
  <2> QED
    BY <1>1, <2>1 DEF ChainInv, Shaped, PauseTypes, Chained, Awaited, TypeOK,
       OpNames, CtlStates, Labels
<1>2. Init => Labels
  BY DEF Init, Labels
<1> QED
  BY <1>1, <1>2, ChainInduction, LabelsKept, PTL DEF Spec
=============================================================================
