----------------------- MODULE MemoryActionLoop_proofs -----------------------
(***************************************************************************)
(* Proofs, for any opportunities, any number of attempts, of changes of    *)
(* the policies and of faults, of the safety of MemoryActionLoop.          *)
(*                                                                         *)
(* The inductive invariant says where the process of an attempt can be,    *)
(* given what the rows say: who is past the admission holds the barrier,   *)
(* and nobody else of the opportunity does.                                *)
(***************************************************************************)
EXTENDS MemoryActionLoop, TLAPS

USE DEF ledger, world

\* The places of a process that was admitted.
Undispatched == {"recheck", "dispatch"}
Admitted     == Undispatched \cup {"observe", "finalize"}

\* The places of a worker that has neither asked nor been admitted.
Early == {"idle", "claimed", "prepare", "ask", "admit"}

\* An attempt that has begun has an opportunity; an answer follows a question.
Begun ==
    \A a \in Attempts :
        /\ ~At(a, "loop", "idle") => target[a] # None
        /\ approval[a] # "none" => target[a] # None
        /\ ~At(a, "route", "idle") => approval[a] \in {"approved", "rejected"}

\* A barrier belongs to an attempt on its own opportunity, and what acted, or
\* may still act, holds it.
HoldersAreBound ==
    /\ \A o \in Opportunities :
          /\ barrier[o].plan = None => barrier[o] = NoBarrier
          /\ barrier[o].plan # None => target[barrier[o].plan] = o
    /\ \A a \in Attempts :
          /\ effect[a] # "none" => target[a] # None /\ barrier[target[a]].plan = a
          /\ \A s \in Sides : proc[a][s].at \in Admitted => barrier[target[a]].plan = a

\* The two processes of an attempt are never both past the admission.
OneSideAdmitted ==
    \A a \in Attempts :
        ~(proc[a]["loop"].at \in Admitted /\ proc[a]["route"].at \in Admitted)

\* What an admitted process finds: nothing sent before it dispatches, its own
\* answer afterwards.
PlacesAreTrue ==
    \A a \in Attempts : \A s \in Sides :
        /\ proc[a][s].at \in Undispatched =>
              effect[a] = "none" /\ barrier[target[a]].status = "in_progress"
        /\ At(a, s, "observe") =>
              /\ effect[a] = proc[a][s].result
              /\ effect[a] # "none"
              /\ barrier[target[a]].status = "in_progress"
        /\ At(a, s, "finalize") =>
              effect[a] = proc[a][s].result /\ effect[a] \in {"completed", "failed"}
        /\ At(a, s, "mark") /\ proc[a][s].mark = "auto_executed" => effect[a] = "completed"

\* The worker acts unasked only under an automatic verdict; the route with a yes.
ConsentIsHeld ==
    \A a \in Attempts :
        /\ proc[a]["loop"].at \notin {"mark", "done"} => approval[a] = "none"
        /\ proc[a]["loop"].at \in Early => effect[a] = "none"
        /\ At(a, "loop", "admit") => proc[a]["loop"].policy = "auto"
        /\ proc[a]["loop"].at \in Admitted => barrier[target[a]].policy = "auto"
        /\ proc[a]["route"].at \in Admitted \cup {"admit", "prepare"} => approval[a] = "approved"

IndInv ==
    /\ TypeOK
    /\ Begun
    /\ HoldersAreBound
    /\ OneSideAdmitted
    /\ PlacesAreTrue
    /\ ConsentIsHeld
    /\ ReportedDoneIsDone
    /\ BarrierAgrees
    /\ ConsentOrAuto

LEMMA InitIndInv == Init => IndInv
<1> SUFFICES ASSUME Init PROVE IndInv
  OBVIOUS
<1> USE MemoryConstants DEF Init, At
<1>1. TypeOK
  BY DEF TypeOK, OppRows, ProcRows, BarrierRows, NotStarted, NoBarrier, Marks, Results, Verdicts
<1>2. Begun /\ ConsentIsHeld
  BY DEF Begun, ConsentIsHeld, NotStarted, Sides, Admitted, Undispatched
<1>3. HoldersAreBound
  BY DEF HoldersAreBound, NoBarrier, NotStarted, Admitted, Undispatched
<1>4. OneSideAdmitted /\ PlacesAreTrue
  BY DEF OneSideAdmitted, PlacesAreTrue, NotStarted, Sides, Admitted, Undispatched
<1>5. ReportedDoneIsDone /\ BarrierAgrees /\ ConsentOrAuto
  BY DEF ReportedDoneIsDone, BarrierAgrees, ConsentOrAuto, NoBarrier
<1> QED BY <1>1, <1>2, <1>3, <1>4, <1>5 DEF IndInv

\* Every process but one stays where it is.
Others(a, s) ==
    \A b \in Attempts, t \in Sides : b # a \/ t # s => proc'[b][t] = proc[b][t]

GotoAdmit(a, s, v) == proc' = [proc EXCEPT ![a][s].at = "admit", ![a][s].policy = v]
GotoObserve(a, s, r) == proc' = [proc EXCEPT ![a][s].at = "observe", ![a][s].result = r]
GotoEnd(a, s, status) ==
    proc' = [proc EXCEPT ![a][s].at = "mark", ![a][s].mark = status, ![a][s].guarded = FALSE]
GotoAsk(a, s) == proc' = [proc EXCEPT ![a][s].at = "ask", ![a][s].guarded = TRUE]

\* A new row for one process leaves the others alone.
LEMMA RowMoves ==
    ASSUME proc \in [Attempts -> [Sides -> ProcRows]], NEW a \in Attempts, NEW s \in Sides,
           NEW row \in ProcRows, proc' = [proc EXCEPT ![a][s] = row]
    PROVE  /\ proc' \in [Attempts -> [Sides -> ProcRows]]
           /\ proc'[a][s] = row
           /\ Others(a, s)
<1>1. proc' = [proc EXCEPT ![a] = [proc[a] EXCEPT ![s] = row]]
  OBVIOUS
<1>2. [proc[a] EXCEPT ![s] = row] \in [Sides -> ProcRows]
  OBVIOUS
<1>3. proc' \in [Attempts -> [Sides -> ProcRows]]
  BY <1>1, <1>2
<1>4. proc'[a] = [proc[a] EXCEPT ![s] = row]
  BY <1>1
<1>5. \A b \in Attempts : b # a => proc'[b] = proc[b]
  BY <1>1
<1>6. Others(a, s)
  BY <1>4, <1>5 DEF Others
<1> QED BY <1>3, <1>4, <1>6

\* A process that goes on to another place changes nothing else of its own, and
\* nothing of another process.
LEMMA GotoMoves ==
    ASSUME TypeOK, NEW a \in Attempts, NEW s \in Sides,
           NEW point \in {"claimed", "prepare", "ask", "admit", "recheck", "dispatch",
                          "observe", "finalize", "done"},
           Goto(a, s, point)
    PROVE  /\ proc' \in [Attempts -> [Sides -> ProcRows]]
           /\ proc'[a][s].at = point
           /\ proc'[a][s].policy = proc[a][s].policy
           /\ proc'[a][s].result = proc[a][s].result
           /\ proc'[a][s].mark = proc[a][s].mark
           /\ Others(a, s)
<1> DEFINE row == [proc[a][s] EXCEPT !.at = point]
<1>1. proc \in [Attempts -> [Sides -> ProcRows]] /\ proc[a][s] \in ProcRows
  BY DEF TypeOK
<1>2. row \in ProcRows
  BY <1>1 DEF ProcRows
<1>3. /\ row.at = point
      /\ row.policy = proc[a][s].policy
      /\ row.result = proc[a][s].result
      /\ row.mark = proc[a][s].mark
  BY <1>1 DEF ProcRows
<1>4. proc' = [proc EXCEPT ![a][s] = row]
  BY DEF Goto
<1> HIDE DEF row
<1>5. proc' \in [Attempts -> [Sides -> ProcRows]] /\ proc'[a][s] = row /\ Others(a, s)
  BY RowMoves, <1>1, <1>2, <1>4
<1> QED BY <1>3, <1>5

\* Likewise a process that decides which status to write.
LEMMA MarkMoves ==
    ASSUME TypeOK, NEW a \in Attempts, NEW s \in Sides, NEW status \in Marks,
           NEW guarded \in BOOLEAN, GotoMark(a, s, status, guarded)
    PROVE  /\ proc' \in [Attempts -> [Sides -> ProcRows]]
           /\ proc'[a][s].at = "mark"
           /\ proc'[a][s].mark = status
           /\ Others(a, s)
<1> DEFINE row == [proc[a][s] EXCEPT !.at = "mark", !.mark = status, !.guarded = guarded]
<1>1. proc \in [Attempts -> [Sides -> ProcRows]] /\ proc[a][s] \in ProcRows
  BY DEF TypeOK
<1>2. row \in ProcRows
  BY <1>1 DEF ProcRows
<1>3. row.at = "mark" /\ row.mark = status
  BY <1>1 DEF ProcRows
<1>4. proc' = [proc EXCEPT ![a][s] = row]
  BY DEF GotoMark
<1> HIDE DEF row
<1>5. proc' \in [Attempts -> [Sides -> ProcRows]] /\ proc'[a][s] = row /\ Others(a, s)
  BY RowMoves, <1>1, <1>2, <1>4
<1> QED BY <1>3, <1>5

\* Likewise outside the try block, the usual case.
LEMMA EndMoves ==
    ASSUME TypeOK, NEW a \in Attempts, NEW s \in Sides, NEW status \in Marks,
           GotoEnd(a, s, status)
    PROVE  /\ proc' \in [Attempts -> [Sides -> ProcRows]]
           /\ proc'[a][s].at = "mark"
           /\ proc'[a][s].mark = status
           /\ Others(a, s)
<1> DEFINE row == [proc[a][s] EXCEPT !.at = "mark", !.mark = status, !.guarded = FALSE]
<1>1. proc \in [Attempts -> [Sides -> ProcRows]] /\ proc[a][s] \in ProcRows
  BY DEF TypeOK
<1>2. row \in ProcRows
  BY <1>1 DEF ProcRows
<1>3. row.at = "mark" /\ row.mark = status
  BY <1>1 DEF ProcRows
<1>4. proc' = [proc EXCEPT ![a][s] = row]
  BY DEF GotoEnd
<1> HIDE DEF row
<1>5. proc' \in [Attempts -> [Sides -> ProcRows]] /\ proc'[a][s] = row /\ Others(a, s)
  BY RowMoves, <1>1, <1>2, <1>4
<1> QED BY <1>3, <1>5

\* Likewise one that goes to the admission under a verdict.
LEMMA AdmitMoves ==
    ASSUME TypeOK, NEW a \in Attempts, NEW s \in Sides, NEW v \in Verdicts,
           GotoAdmit(a, s, v)
    PROVE  /\ proc' \in [Attempts -> [Sides -> ProcRows]]
           /\ proc'[a][s].at = "admit"
           /\ proc'[a][s].policy = v
           /\ Others(a, s)
<1> DEFINE row == [proc[a][s] EXCEPT !.at = "admit", !.policy = v]
<1>1. proc \in [Attempts -> [Sides -> ProcRows]] /\ proc[a][s] \in ProcRows
  BY DEF TypeOK
<1>2. row \in ProcRows
  BY <1>1 DEF ProcRows
<1>3. row.at = "admit" /\ row.policy = v
  BY <1>1 DEF ProcRows
<1>4. proc' = [proc EXCEPT ![a][s] = row]
  BY DEF GotoAdmit
<1> HIDE DEF row
<1>5. proc' \in [Attempts -> [Sides -> ProcRows]] /\ proc'[a][s] = row /\ Others(a, s)
  BY RowMoves, <1>1, <1>2, <1>4
<1> QED BY <1>3, <1>5

\* Likewise one that has an answer of the adapter.
LEMMA ObserveMoves ==
    ASSUME TypeOK, NEW a \in Attempts, NEW s \in Sides, NEW r \in Results,
           GotoObserve(a, s, r)
    PROVE  /\ proc' \in [Attempts -> [Sides -> ProcRows]]
           /\ proc'[a][s].at = "observe"
           /\ proc'[a][s].result = r
           /\ Others(a, s)
<1> DEFINE row == [proc[a][s] EXCEPT !.at = "observe", !.result = r]
<1>1. proc \in [Attempts -> [Sides -> ProcRows]] /\ proc[a][s] \in ProcRows
  BY DEF TypeOK
<1>2. row \in ProcRows
  BY <1>1 DEF ProcRows
<1>3. row.at = "observe" /\ row.result = r
  BY <1>1 DEF ProcRows
<1>4. proc' = [proc EXCEPT ![a][s] = row]
  BY DEF GotoObserve
<1> HIDE DEF row
<1>5. proc' \in [Attempts -> [Sides -> ProcRows]] /\ proc'[a][s] = row /\ Others(a, s)
  BY RowMoves, <1>1, <1>2, <1>4
<1> QED BY <1>3, <1>5

\* Likewise one that goes to ask inside the try block.
LEMMA AskMoves ==
    ASSUME TypeOK, NEW a \in Attempts, NEW s \in Sides,
           GotoAsk(a, s)
    PROVE  /\ proc' \in [Attempts -> [Sides -> ProcRows]]
           /\ proc'[a][s].at = "ask"
           /\ Others(a, s)
<1> DEFINE row == [proc[a][s] EXCEPT !.at = "ask", !.guarded = TRUE]
<1>1. proc \in [Attempts -> [Sides -> ProcRows]] /\ proc[a][s] \in ProcRows
  BY DEF TypeOK
<1>2. row \in ProcRows
  BY <1>1 DEF ProcRows
<1>3. row.at = "ask"
  BY <1>1 DEF ProcRows
<1>4. proc' = [proc EXCEPT ![a][s] = row]
  BY DEF GotoAsk
<1> HIDE DEF row
<1>5. proc' \in [Attempts -> [Sides -> ProcRows]] /\ proc'[a][s] = row /\ Others(a, s)
  BY RowMoves, <1>1, <1>2, <1>4
<1> QED BY <1>3, <1>5

\* Any of these moves leaves the type of proc.
LEMMA MovesAreTyped ==
    ASSUME TypeOK, NEW a \in Attempts, NEW s \in Sides,
           \/ \E point \in {"claimed", "prepare", "ask", "admit", "recheck", "dispatch",
                            "observe", "finalize", "done"} : Goto(a, s, point)
           \/ \E status \in Marks, guarded \in BOOLEAN : GotoMark(a, s, status, guarded)
           \/ \E v \in Verdicts : GotoAdmit(a, s, v)
           \/ \E r \in Results : GotoObserve(a, s, r)
           \/ GotoAsk(a, s)
    PROVE  proc' \in [Attempts -> [Sides -> ProcRows]]
BY GotoMoves, MarkMoves, AdmitMoves, ObserveMoves, AskMoves

\* A process at work works for an opportunity.
LEMMA ActiveHaveTargets ==
    ASSUME TypeOK, Begun, NEW a \in Attempts, NEW s \in Sides, proc[a][s].at # "idle"
    PROVE  target[a] \in Opportunities
BY MemoryConstants DEF TypeOK, Begun, At, Sides

WriteOpp(o, status, a) ==
    opp' = [opp EXCEPT ![o].status = status, ![o].decision = a]
WriteBarrier(o, status) == barrier' = [barrier EXCEPT ![o].status = status]

\* A status written to one opportunity leaves the others alone.
LEMMA OppWrites ==
    ASSUME TypeOK, NEW o \in Opportunities, NEW status \in Marks \cup {"none"},
           NEW a \in Attempts, WriteOpp(o, status, a)
    PROVE  /\ opp' \in [Opportunities -> OppRows]
           /\ opp'[o].status = status
           /\ \A p \in Opportunities : p # o => opp'[p] = opp[p]
<1> DEFINE row == [opp[o] EXCEPT !.status = status, !.decision = a]
<1>1. opp[o] \in OppRows /\ opp \in [Opportunities -> OppRows]
  BY DEF TypeOK
<1>2. row \in OppRows /\ row.status = status
  BY <1>1 DEF OppRows
<1>3. opp' = [opp EXCEPT ![o] = row]
  BY DEF WriteOpp
<1> HIDE DEF row
<1> QED BY <1>1, <1>2, <1>3

\* Likewise the status of a barrier.
LEMMA BarrierWrites ==
    ASSUME TypeOK, NEW o \in Opportunities,
           NEW status \in Results \cup {"none", "in_progress"}, WriteBarrier(o, status)
    PROVE  /\ barrier' \in [Opportunities -> BarrierRows]
           /\ barrier'[o].status = status
           /\ barrier'[o].plan = barrier[o].plan
           /\ barrier'[o].policy = barrier[o].policy
           /\ \A p \in Opportunities : p # o => barrier'[p] = barrier[p]
<1> DEFINE row == [barrier[o] EXCEPT !.status = status]
<1>1. barrier[o] \in BarrierRows /\ barrier \in [Opportunities -> BarrierRows]
  BY DEF TypeOK
<1>2. /\ row \in BarrierRows
      /\ row.status = status
      /\ row.plan = barrier[o].plan
      /\ row.policy = barrier[o].policy
  BY <1>1 DEF BarrierRows
<1>3. barrier' = [barrier EXCEPT ![o] = row]
  BY DEF WriteBarrier
<1> HIDE DEF row
<1> QED BY <1>1, <1>2, <1>3

LEMMA TypeStep == TypeOK /\ Begun /\ PlacesAreTrue /\ [Next]_vars => TypeOK'
<1> SUFFICES ASSUME TypeOK, Begun, PlacesAreTrue, [Next]_vars PROVE TypeOK'
  OBVIOUS
<1>0. /\ "loop" \in Sides /\ "route" \in Sides
      /\ TRUE \in BOOLEAN /\ FALSE \in BOOLEAN
      /\ Retryable \subseteq Marks
      /\ {"noted_awareness", "queued_approval", "skipped", "auto_executed",
          "execution_failed", "execution_ambiguous"} \subseteq Marks
      /\ {"learning_needed", "blocked_by_policy"} \subseteq Marks
      /\ "auto" \in Verdicts
  BY DEF Sides, Retryable, Marks, Verdicts
<1>a. ASSUME NEW a \in Attempts, NEW s \in Sides
      PROVE  /\ proc[a][s].policy \in Verdicts
             /\ proc[a][s].result \in Results \cup {"none"}
             /\ proc[a][s].mark \in Marks \cup {"none"}
             /\ proc[a][s].guarded \in BOOLEAN
  BY DEF TypeOK, ProcRows
<1>1. CASE UNCHANGED vars
  BY <1>1 DEF vars, TypeOK
<1>2. ASSUME NEW o \in Opportunities, Suggest(o) \/ DayPasses(o) PROVE TypeOK'
  BY <1>2 DEF Suggest, DayPasses, TypeOK, OppRows, Marks, Retryable
<1>3. ASSUME NEW o \in Opportunities, NEW a \in Attempts, Claim(o, a) PROVE TypeOK'
  <2>1. proc' \in [Attempts -> [Sides -> ProcRows]]
    BY <1>0, <1>3, MovesAreTyped DEF Claim
  <2> QED BY <1>3, <2>1 DEF Claim, TypeOK, OppRows
<1>4. ASSUME NEW a \in Attempts, Decide(a) PROVE TypeOK'
  <2>1. proc' \in [Attempts -> [Sides -> ProcRows]]
    BY <1>0, <1>4, MovesAreTyped DEF Decide
  <2> QED BY <1>4, <2>1 DEF Decide, TypeOK
<1>5. ASSUME NEW a \in Attempts, Ask(a) PROVE TypeOK'
  <2>1. proc' \in [Attempts -> [Sides -> ProcRows]]
    BY <1>0, <1>a, <1>5, MovesAreTyped DEF Ask
  <2> QED BY <1>5, <2>1 DEF Ask, TypeOK
<1>6. ASSUME NEW a \in Attempts, Prepare(a) PROVE TypeOK'
  <2>1. proc' \in [Attempts -> [Sides -> ProcRows]]
    BY <1>0, <1>6, MovesAreTyped DEF Prepare, GotoAsk, GotoAdmit
  <2> QED BY <1>6, <2>1 DEF Prepare, TypeOK
<1>7. ASSUME NEW a \in Attempts, Respond(a) PROVE TypeOK'
  <2>1. proc' \in [Attempts -> [Sides -> ProcRows]]
    BY <1>0, <1>7, MovesAreTyped DEF Respond
  <2> QED BY <1>7, <2>1 DEF Respond, TypeOK
<1>8. ASSUME NEW a \in Attempts, Evaluate(a) PROVE TypeOK'
  <2>0. verdict \in Verdicts
    BY DEF TypeOK
  <2>1. proc' \in [Attempts -> [Sides -> ProcRows]]
    BY <1>0, <1>8, <2>0, MovesAreTyped DEF Evaluate, GotoAdmit
  <2> QED BY <1>8, <2>1 DEF Evaluate, TypeOK
<1>9. ASSUME NEW a \in Attempts, Expire(a) PROVE TypeOK'
  BY <1>9 DEF Expire, TypeOK
<1>b. ASSUME NEW a \in Attempts, NEW s \in Sides, Refused(a, s) PROVE TypeOK'
  <2>1. proc' \in [Attempts -> [Sides -> ProcRows]]
    BY <1>0, <1>b, MovesAreTyped DEF Refused
  <2>2. CASE CloseUndispatched(a)
    <3>1. barrier' \in [Opportunities -> BarrierRows]
      BY <2>2 DEF CloseUndispatched, TypeOK, BarrierRows, Results
    <3> QED BY <1>b, <2>1, <2>2, <3>1 DEF Refused, CloseUndispatched, TypeOK
  <2>3. CASE UNCHANGED <<barrier, plan>>
    BY <1>b, <2>1, <2>3 DEF Refused, TypeOK
  <2> QED BY <1>b, <2>2, <2>3 DEF Refused
<1>10. ASSUME NEW a \in Attempts, NEW s \in Sides, Admit(a, s) PROVE TypeOK'
  <2>1. proc' \in [Attempts -> [Sides -> ProcRows]]
    BY <1>0, <1>10, MovesAreTyped DEF Admit
  <2>2. barrier' \in [Opportunities -> BarrierRows]
    BY <1>10, <1>a DEF Admit, AdmitRows, TypeOK, BarrierRows
  <2>3. opp' \in [Opportunities -> OppRows]
    <3>1. target[a] \in Opportunities
      BY <1>10, ActiveHaveTargets DEF Admit, At
    <3>2. WriteOpp(target[a], "execution_ambiguous", a)
      BY <1>10 DEF Admit, AdmitRows, WriteOpp
    <3> QED BY <1>0, <3>1, <3>2, OppWrites
  <2> QED BY <1>10, <2>1, <2>2, <2>3 DEF Admit, AdmitRows, TypeOK
<1>11. ASSUME NEW a \in Attempts, NEW s \in Sides, AdmissionThrows(a, s) PROVE TypeOK'
  <2>1. proc' \in [Attempts -> [Sides -> ProcRows]]
    BY <1>0, <1>11, MovesAreTyped DEF AdmissionThrows
  <2> QED BY <1>11, <2>1 DEF AdmissionThrows, TypeOK
<1>12. ASSUME NEW a \in Attempts, NEW s \in Sides, Recheck(a, s) PROVE TypeOK'
  <2>1. CASE Goto(a, s, "dispatch") /\ UNCHANGED <<ledger, world>>
    <3>1. proc' \in [Attempts -> [Sides -> ProcRows]]
      BY <2>1, MovesAreTyped
    <3> QED BY <2>1, <3>1 DEF TypeOK
  <2> QED BY <1>12, <1>b, <2>1 DEF Recheck
<1>13. ASSUME NEW a \in Attempts, NEW s \in Sides, Dispatch(a, s) PROVE TypeOK'
  <2>1. ASSUME NEW r \in Results, effect' = [effect EXCEPT ![a] = r], GotoObserve(a, s, r),
               UNCHANGED <<opp, approval, barrier, plan, world>>
        PROVE  TypeOK'
    <3>1. proc' \in [Attempts -> [Sides -> ProcRows]]
      BY <2>1, MovesAreTyped
    <3> QED BY <2>1, <3>1 DEF TypeOK
  <2> QED BY <1>13, <1>b, <2>1 DEF Dispatch, GotoObserve
<1>14. ASSUME NEW a \in Attempts, NEW s \in Sides, Observe(a, s) PROVE TypeOK'
  <2>1. proc' \in [Attempts -> [Sides -> ProcRows]]
    BY <1>0, <1>14, MovesAreTyped DEF Observe
  <2>2. barrier' \in [Opportunities -> BarrierRows]
    <3>1. target[a] \in Opportunities
      BY <1>14, ActiveHaveTargets DEF Observe, At
    <3>2. WriteBarrier(target[a], proc[a][s].result) \/ barrier' = barrier
      BY <1>14 DEF Observe, WriteBarrier
    <3>3. barrier \in [Opportunities -> BarrierRows]
      BY DEF TypeOK
    <3> QED BY <1>a, <3>1, <3>2, <3>3, BarrierWrites
  <2> QED BY <1>14, <2>1, <2>2 DEF Observe, TypeOK
<1>15. ASSUME NEW a \in Attempts, NEW s \in Sides, Finalize(a, s) PROVE TypeOK'
  <2>1. proc[a][s].result \in {"completed", "failed"}
    BY <1>15 DEF Finalize, PlacesAreTrue
  <2>2. proc' \in [Attempts -> [Sides -> ProcRows]]
    BY <1>0, <1>15, MovesAreTyped DEF Finalize, StatusOf
  <2> QED BY <1>15, <2>1, <2>2 DEF Finalize, TypeOK
<1>16. ASSUME NEW a \in Attempts, NEW s \in Sides, Mark(a, s) PROVE TypeOK'
  <2>1. proc' \in [Attempts -> [Sides -> ProcRows]]
    BY <1>0, <1>16, MovesAreTyped DEF Mark
  <2>2. opp' \in [Opportunities -> OppRows]
    <3>1. target[a] \in Opportunities
      BY <1>16, ActiveHaveTargets DEF Mark, At
    <3>2. WriteOpp(target[a], proc[a][s].mark, a) \/ opp' = opp
      BY <1>16 DEF Mark, WriteOpp
    <3>3. opp \in [Opportunities -> OppRows]
      BY DEF TypeOK
    <3> QED BY <1>a, <3>1, <3>2, <3>3, OppWrites
  <2>3. faults' \in Nat
    <3>1. faults' = faults \/ faults' = faults + 1
      BY <1>16 DEF Mark
    <3> QED BY <3>1 DEF TypeOK
  <2>4. UNCHANGED <<approval, barrier, plan, effect, target, verdict, changes>>
    BY <1>16 DEF Mark
  <2> QED BY <2>1, <2>2, <2>3, <2>4 DEF TypeOK
<1>17. ASSUME NEW a \in Attempts, NEW s \in Sides, Crash(a, s) PROVE TypeOK'
  <2>1. proc' \in [Attempts -> [Sides -> ProcRows]]
    BY <1>17, MovesAreTyped DEF Crash
  <2> QED BY <1>17, <2>1 DEF Crash, TypeOK
<1>18. CASE ChangePolicies
  BY <1>18 DEF ChangePolicies, TypeOK
<1> QED
  BY <1>1, <1>2, <1>3, <1>4, <1>5, <1>6, <1>7, <1>8, <1>9, <1>10, <1>11, <1>12, <1>13,
     <1>14, <1>15, <1>16, <1>17, <1>18 DEF Next, Worker, Step

(***************************************************************************)
(* Steps of one process that leave the effects and the answers alone.      *)
(***************************************************************************)

\* Where a process may go without the rows that guard the effect moving with it.
Onward(a, s) ==
    /\ proc[a][s].at # "idle"
    /\ proc'[a][s].at \notin {"idle", "observe"}
    /\ proc'[a][s].at \in Undispatched => proc[a][s].at \in Undispatched
    /\ proc'[a][s].at = "finalize" =>
          /\ proc[a][s].at \in Admitted
          /\ effect[a] = proc'[a][s].result
          /\ effect[a] \in {"completed", "failed"}
    /\ proc'[a][s].at = "mark" /\ proc'[a][s].mark = "auto_executed" => effect[a] = "completed"
    /\ s = "loop" =>
          /\ proc'[a][s].at \notin {"mark", "done"} => proc[a][s].at \notin {"mark", "done"}
          /\ proc'[a][s].at \in Early => proc[a][s].at \in Early
          /\ proc'[a][s].at = "admit" => proc'[a][s].policy = "auto"
    /\ s = "route" =>
          (proc'[a][s].at \in Admitted \cup {"admit", "prepare"} =>
             proc[a][s].at \in Admitted \cup {"admit", "prepare"})

\* The places keep their meaning when such a step leaves the barriers alone.
LEMMA QuietStep ==
    ASSUME IndInv, TypeOK', ReportedDoneIsDone', NEW a \in Attempts, NEW s \in Sides,
           Others(a, s), Onward(a, s), UNCHANGED <<target, approval, barrier, effect>>
    PROVE  IndInv'
<1> USE DEF At
<1>0. s \in {"loop", "route"} /\ Sides = {"loop", "route"}
  BY DEF Sides
<1>1. Begun'
  BY <1>0 DEF IndInv, Begun, Others, Onward
<1>2. HoldersAreBound'
  BY DEF IndInv, HoldersAreBound, Others, Onward, Admitted, Undispatched
<1>3. OneSideAdmitted'
  BY <1>0 DEF IndInv, OneSideAdmitted, Others, Onward, Admitted, Undispatched
<1>4. PlacesAreTrue'
  BY DEF IndInv, PlacesAreTrue, Others, Onward, Undispatched
<1>5. ConsentIsHeld'
  BY <1>0 DEF IndInv, ConsentIsHeld, Others, Onward, Admitted, Undispatched, Early
<1>6. BarrierAgrees' /\ ConsentOrAuto'
  BY DEF IndInv, BarrierAgrees, ConsentOrAuto
<1> QED BY <1>1, <1>2, <1>3, <1>4, <1>5, <1>6 DEF IndInv

\* The same when the step closes the barrier it holds with what the adapter did.
LEMMA ClosingStep ==
    ASSUME IndInv, TypeOK', ReportedDoneIsDone', NEW a \in Attempts, NEW s \in Sides,
           NEW status \in Results, WriteBarrier(target[a], status),
           Others(a, s), Onward(a, s), UNCHANGED <<target, approval, effect>>,
           proc[a][s].at \in Admitted, proc'[a][s].at \notin Undispatched,
           status = "completed" => effect[a] = "completed",
           status = "failed" => effect[a] \in {"none", "failed"}
    PROVE  IndInv'
<1> USE DEF At
<1>0. s \in {"loop", "route"} /\ Sides = {"loop", "route"}
  BY DEF Sides
<1>t. target[a] \in Opportunities /\ TypeOK
  BY ActiveHaveTargets DEF IndInv, Onward
<1>b. /\ barrier'[target[a]].status = status
      /\ barrier'[target[a]].plan = barrier[target[a]].plan
      /\ barrier'[target[a]].policy = barrier[target[a]].policy
      /\ \A p \in Opportunities : p # target[a] => barrier'[p] = barrier[p]
  BY <1>t, BarrierWrites
<1>h. barrier[target[a]].plan = a /\ a # None
  BY MemoryConstants DEF IndInv, HoldersAreBound
<1>1. Begun'
  BY <1>0 DEF IndInv, Begun, Others, Onward
<1>2. HoldersAreBound'
  <2>1. ASSUME NEW o \in Opportunities
        PROVE  /\ barrier'[o].plan = None => barrier'[o] = NoBarrier
               /\ barrier'[o].plan # None => target[barrier'[o].plan] = o
    BY <1>b, <1>h DEF IndInv, HoldersAreBound
  <2>2. ASSUME NEW b \in Attempts, effect[b] # "none"
        PROVE  target[b] # None /\ barrier'[target[b]].plan = b
    <3>1. target[b] # None /\ barrier[target[b]].plan = b
      BY <2>2 DEF IndInv, HoldersAreBound
    <3>2. target[b] \in Opportunities
      BY <1>t, <3>1 DEF TypeOK
    <3> QED BY <1>b, <3>1, <3>2
  <2>3. ASSUME NEW b \in Attempts, NEW t \in Sides, proc'[b][t].at \in Admitted
        PROVE  barrier'[target[b]].plan = b
    <3>1. proc[b][t].at \in Admitted
      BY <2>3 DEF Others, Onward, Admitted, Undispatched
    <3>2. target[b] \in Opportunities /\ barrier[target[b]].plan = b
      BY <3>1, ActiveHaveTargets DEF IndInv, HoldersAreBound, Admitted, Undispatched
    <3> QED BY <1>b, <3>2
  <2> QED BY <2>1, <2>2, <2>3 DEF HoldersAreBound
<1>3. OneSideAdmitted'
  BY <1>0 DEF IndInv, OneSideAdmitted, Others, Onward, Admitted, Undispatched
<1>4. PlacesAreTrue'
  <2>1. ASSUME NEW b \in Attempts, NEW t \in Sides, b # a \/ t # s,
               proc[b][t].at \in Undispatched \cup {"observe"}
        PROVE  target[b] \in Opportunities /\ target[b] # target[a]
    <3>1. target[b] \in Opportunities /\ barrier[target[b]].plan = b
      BY <2>1, ActiveHaveTargets DEF IndInv, HoldersAreBound, Admitted, Undispatched
    <3>2. b # a
      BY <1>0, <2>1 DEF IndInv, OneSideAdmitted, Admitted
    <3> QED BY <1>h, <3>1, <3>2
  <2>2. ASSUME NEW b \in Attempts, NEW t \in Sides, b # a \/ t # s,
               proc[b][t].at \in Undispatched \cup {"observe"}
        PROVE  barrier'[target[b]] = barrier[target[b]]
    BY <2>1, <2>2, <1>b
  <2> QED BY <2>2 DEF IndInv, PlacesAreTrue, Others, Onward, Undispatched
<1>5. ConsentIsHeld'
  <2>1. ASSUME NEW b \in Attempts, proc'[b]["loop"].at \in Admitted
        PROVE  barrier'[target[b]].policy = "auto"
    <3>1. proc[b]["loop"].at \in Admitted
      BY <1>0, <2>1 DEF Others, Onward, Admitted, Undispatched
    <3>2. target[b] \in Opportunities /\ barrier[target[b]].policy = "auto"
      BY <1>0, <3>1, ActiveHaveTargets DEF IndInv, ConsentIsHeld, Admitted, Undispatched
    <3> QED BY <1>b, <3>2
  <2> QED BY <1>0, <2>1 DEF IndInv, ConsentIsHeld, Others, Onward, Admitted, Undispatched, Early
<1>6. BarrierAgrees'
  BY <1>b, <1>h DEF IndInv, BarrierAgrees
<1>7. ConsentOrAuto'
  <2>1. ASSUME NEW b \in Attempts, effect[b] # "none"
        PROVE  target[b] \in Opportunities
    BY <2>1 DEF IndInv, HoldersAreBound, TypeOK
  <2> QED BY <1>b, <2>1 DEF IndInv, ConsentOrAuto
<1> QED BY <1>1, <1>2, <1>3, <1>4, <1>5, <1>6, <1>7 DEF IndInv

\* What was reported done stays reported truly when only other statuses are written.
LEMMA ReportsStay ==
    ASSUME IndInv, UNCHANGED <<target, effect>>,
           \A o \in Opportunities :
              opp'[o].status = "auto_executed" => opp[o].status = "auto_executed"
    PROVE  ReportedDoneIsDone'
BY DEF IndInv, ReportedDoneIsDone

\* A step that moves no process and writes no row that guards the effect.
LEMMA IdleStep ==
    ASSUME IndInv, TypeOK', UNCHANGED <<target, proc, approval, barrier, effect>>,
           \A o \in Opportunities :
              opp'[o].status = "auto_executed" => opp[o].status = "auto_executed"
    PROVE  IndInv'
<1> USE DEF At
<1>1. ReportedDoneIsDone'
  BY ReportsStay
<1>2. Begun' /\ HoldersAreBound' /\ OneSideAdmitted'
  BY DEF IndInv, Begun, HoldersAreBound, OneSideAdmitted
<1>3. PlacesAreTrue' /\ ConsentIsHeld'
  BY DEF IndInv, PlacesAreTrue, ConsentIsHeld
<1>4. BarrierAgrees' /\ ConsentOrAuto'
  BY DEF IndInv, BarrierAgrees, ConsentOrAuto
<1> QED BY <1>1, <1>2, <1>3, <1>4 DEF IndInv

\* An attempt that was never put to an opportunity has done nothing.
LEMMA FreshAttempt ==
    ASSUME IndInv, NEW a \in Attempts, target[a] = None
    PROVE  /\ proc[a]["loop"].at = "idle" /\ proc[a]["route"].at = "idle"
           /\ approval[a] = "none" /\ effect[a] = "none"
           /\ \A o \in Opportunities : barrier[o].plan # a
<1>1. proc[a]["loop"].at = "idle" /\ approval[a] = "none"
  BY DEF IndInv, Begun, At
<1>2. proc[a]["route"].at = "idle"
  BY <1>1 DEF IndInv, Begun, At
<1>3. effect[a] = "none"
  BY DEF IndInv, HoldersAreBound
<1>4. ASSUME NEW o \in Opportunities, barrier[o].plan = a PROVE FALSE
  BY <1>4, MemoryConstants DEF IndInv, HoldersAreBound
<1> QED BY <1>1, <1>2, <1>3, <1>4

LEMMA ClaimStep ==
    ASSUME IndInv, TypeOK', NEW o \in Opportunities, NEW a \in Attempts, Claim(o, a)
    PROVE  IndInv'
<1>0. Sides = {"loop", "route"} /\ "loop" \in Sides /\ TypeOK
  BY DEF Sides, IndInv
<1>1. target[a] = None /\ UNCHANGED <<approval, barrier, effect>>
  BY DEF Claim
<1>2. /\ proc[a]["loop"].at = "idle" /\ proc[a]["route"].at = "idle"
      /\ approval[a] = "none" /\ effect[a] = "none"
      /\ \A p \in Opportunities : barrier[p].plan # a
  BY <1>1, FreshAttempt
<1>3. proc'[a]["loop"].at = "claimed" /\ Others(a, "loop")
  BY <1>0, GotoMoves DEF Claim
<1>4. target'[a] = o /\ o # None /\ \A b \in Attempts : b # a => target'[b] = target[b]
  BY <1>0, MemoryConstants DEF Claim, TypeOK
<1>5. \A p \in Opportunities : opp'[p].status = opp[p].status
  BY <1>0 DEF Claim, TypeOK, OppRows
<1> USE DEF At
<1>6. Begun'
  BY <1>0, <1>1, <1>2, <1>3, <1>4 DEF IndInv, Begun, Others
<1>7. HoldersAreBound'
  <2>1. ASSUME NEW p \in Opportunities
        PROVE  /\ barrier[p].plan = None => barrier[p] = NoBarrier
               /\ barrier[p].plan # None => target'[barrier[p].plan] = p
    <3>1. barrier[p].plan \in Attempts \cup {None}
      BY <1>0 DEF TypeOK, BarrierRows
    <3> QED BY <1>2, <1>4, <3>1 DEF IndInv, HoldersAreBound
  <2>2. ASSUME NEW b \in Attempts, effect[b] # "none"
        PROVE  target'[b] # None /\ barrier[target'[b]].plan = b
    BY <1>2, <1>4, <2>2 DEF IndInv, HoldersAreBound
  <2>3. ASSUME NEW b \in Attempts, NEW s \in Sides, proc'[b][s].at \in Admitted
        PROVE  barrier[target'[b]].plan = b
    <3>1. b # a
      BY <1>0, <1>2, <1>3, <2>3 DEF Others, Admitted, Undispatched
    <3> QED BY <1>3, <1>4, <2>3, <3>1 DEF IndInv, HoldersAreBound, Others
  <2> QED BY <1>1, <2>1, <2>2, <2>3 DEF HoldersAreBound
<1>8. OneSideAdmitted'
  BY <1>0, <1>2, <1>3 DEF IndInv, OneSideAdmitted, Others, Admitted, Undispatched
<1>9. PlacesAreTrue'
  BY <1>0, <1>1, <1>2, <1>3, <1>4 DEF IndInv, PlacesAreTrue, Others, Undispatched
<1>10. ConsentIsHeld'
  BY <1>0, <1>1, <1>2, <1>3, <1>4
     DEF IndInv, ConsentIsHeld, Others, Admitted, Undispatched, Early
<1>11. ReportedDoneIsDone'
  <2>1. ASSUME NEW p \in Opportunities, opp'[p].status = "auto_executed"
        PROVE  \E b \in Attempts : target'[b] = p /\ effect'[b] = "completed"
    <3>1. PICK b \in Attempts : target[b] = p /\ effect[b] = "completed"
      BY <1>5, <2>1 DEF IndInv, ReportedDoneIsDone
    <3>2. b # a
      BY <1>2, <3>1
    <3> QED BY <1>1, <1>4, <3>1, <3>2
  <2> QED BY <2>1 DEF ReportedDoneIsDone
<1>12. BarrierAgrees'
  BY <1>1 DEF IndInv, BarrierAgrees
<1>13. ConsentOrAuto'
  BY <1>1, <1>2, <1>4 DEF IndInv, ConsentOrAuto
<1> QED BY <1>6, <1>7, <1>8, <1>9, <1>10, <1>11, <1>12, <1>13 DEF IndInv

\* The question, its answer and its expiry: the attempt has not acted.
LEMMA ApprovalStep ==
    ASSUME IndInv, TypeOK', NEW a \in Attempts, Ask(a) \/ Respond(a) \/ Expire(a)
    PROVE  IndInv'
<1>0. Sides = {"loop", "route"} /\ "loop" \in Sides /\ "route" \in Sides /\ TypeOK
  BY DEF Sides, IndInv
<1>1. UNCHANGED <<opp, target, barrier, effect>>
  BY DEF Ask, Respond, Expire
<1>2. effect[a] = "none" /\ target[a] # None /\ proc[a]["route"].at = "idle"
  <2>1. CASE At(a, "loop", "ask")
    BY <2>1 DEF IndInv, Begun, ConsentIsHeld, Early, At
  <2>2. CASE approval[a] = "pending"
    BY <2>2 DEF IndInv, Begun, ConsentOrAuto, At
  <2> QED BY <2>1, <2>2 DEF Ask, Respond, Expire
<1>3. \A b \in Attempts : b # a => approval'[b] = approval[b]
  BY <1>0 DEF Ask, Respond, Expire, TypeOK
<1>4. /\ approval'[a] # "none"
      /\ proc'[a]["loop"].at \in {"mark", "done"}
      /\ proc'[a]["loop"].at = "mark" => proc'[a]["loop"].mark # "auto_executed" \/ proc'[a]["loop"] = proc[a]["loop"]
      /\ \/ proc'[a]["route"].at = "idle"
         \/ /\ proc'[a]["route"].at = "mark"
            /\ proc'[a]["route"].mark = "skipped"
            /\ approval'[a] = "rejected"
         \/ proc'[a]["route"].at = "prepare" /\ approval'[a] = "approved"
      /\ \A b \in Attempts : b # a => \A t \in Sides : proc'[b][t] = proc[b][t]
  <2>1. CASE Ask(a)
    <3>1. GotoMark(a, "loop", "queued_approval", proc[a]["loop"].guarded)
      BY <2>1 DEF Ask
    <3>2. "queued_approval" \in Marks /\ proc[a]["loop"].guarded \in BOOLEAN
      BY <1>0 DEF Marks, TypeOK, ProcRows
    <3>3. /\ proc'[a]["loop"].at = "mark" /\ proc'[a]["loop"].mark = "queued_approval"
          /\ Others(a, "loop")
      BY <1>0, <3>1, <3>2, MarkMoves
    <3>4. approval'[a] = "pending"
      BY <1>0, <2>1 DEF Ask, TypeOK
    <3> QED BY <1>0, <1>2, <3>3, <3>4 DEF Others
  <2>2. CASE Respond(a)
    <3>1. proc[a]["loop"].at \in {"mark", "done"}
      BY <2>2 DEF IndInv, ConsentIsHeld, Respond
    <3>2. CASE approval' = [approval EXCEPT ![a] = "rejected"] /\ GotoMark(a, "route", "skipped", FALSE)
      <4>1. "skipped" \in Marks /\ FALSE \in BOOLEAN
        BY DEF Marks
      <4>2. /\ proc'[a]["route"].at = "mark" /\ proc'[a]["route"].mark = "skipped"
            /\ Others(a, "route")
        BY <1>0, <3>2, <4>1, MarkMoves
      <4>3. approval'[a] = "rejected"
        BY <1>0, <3>2 DEF TypeOK
      <4> QED BY <1>0, <3>1, <4>2, <4>3 DEF Others
    <3>3. CASE approval' = [approval EXCEPT ![a] = "approved"] /\ Goto(a, "route", "prepare")
      <4>2. proc'[a]["route"].at = "prepare" /\ Others(a, "route")
        BY <1>0, <3>3, GotoMoves
      <4>3. approval'[a] = "approved"
        BY <1>0, <3>3 DEF TypeOK
      <4> QED BY <1>0, <3>1, <4>2, <4>3 DEF Others
    <3> QED BY <2>2, <3>2, <3>3 DEF Respond
  <2>3. CASE Expire(a)
    <3>1. proc[a]["loop"].at \in {"mark", "done"}
      BY <2>3 DEF IndInv, ConsentIsHeld, Expire
    <3>2. approval'[a] = "expired" /\ proc' = proc
      BY <1>0, <2>3 DEF Expire, TypeOK
    <3> QED BY <1>2, <3>1, <3>2
  <2> QED BY <2>1, <2>2, <2>3
<1> USE DEF At
<1>5. Begun'
  BY <1>0, <1>1, <1>2, <1>3, <1>4 DEF IndInv, Begun
<1>6. HoldersAreBound'
  BY <1>0, <1>1, <1>4 DEF IndInv, HoldersAreBound, Admitted, Undispatched
<1>7. OneSideAdmitted'
  BY <1>0, <1>4 DEF IndInv, OneSideAdmitted, Admitted, Undispatched
<1>8. PlacesAreTrue'
  BY <1>0, <1>1, <1>4 DEF IndInv, PlacesAreTrue, Undispatched
<1>9. ConsentIsHeld'
  BY <1>0, <1>1, <1>3, <1>4 DEF IndInv, ConsentIsHeld, Admitted, Undispatched, Early
<1>10. ReportedDoneIsDone' /\ BarrierAgrees'
  BY <1>1 DEF IndInv, ReportedDoneIsDone, BarrierAgrees
<1>11. ConsentOrAuto'
  BY <1>1, <1>2, <1>3 DEF IndInv, ConsentOrAuto
<1> QED BY <1>5, <1>6, <1>7, <1>8, <1>9, <1>10, <1>11 DEF IndInv

\* The admission: nobody holds the barrier, so nobody of the opportunity is past it.
LEMMA AdmitStep ==
    ASSUME IndInv, TypeOK', NEW a \in Attempts, NEW s \in Sides, Admit(a, s)
    PROVE  IndInv'
<1> DEFINE o == target[a]
<1>0. Sides = {"loop", "route"} /\ TypeOK /\ proc[a][s].at = "admit"
  BY DEF Sides, IndInv, Admit, At
<1>1. o \in Opportunities /\ o # None /\ a # None
  BY <1>0, ActiveHaveTargets, MemoryConstants DEF IndInv
<1>2. barrier[o] = NoBarrier /\ barrier[o].plan = None
  BY DEF Admit, Admissible, NoBarrier
<1>3. /\ barrier'[o].status = "in_progress"
      /\ barrier'[o].plan = a
      /\ barrier'[o].policy = proc[a][s].policy
      /\ \A p \in Opportunities : p # o => barrier'[p] = barrier[p]
  BY <1>0, <1>1 DEF Admit, AdmitRows, TypeOK
<1>4. UNCHANGED <<target, approval, effect>>
  BY DEF Admit
<1>5. /\ proc'[a][s].at \in {"recheck", "done", "mark"}
      /\ proc'[a][s].at = "mark" => proc'[a][s].mark = "execution_ambiguous"
      /\ Others(a, s)
  <2>1. "execution_ambiguous" \in Marks /\ FALSE \in BOOLEAN
    BY DEF Marks
  <2>2. CASE GotoEnd(a, s, "execution_ambiguous")
    BY <1>0, <2>1, <2>2, EndMoves
  <2>3. CASE Goto(a, s, "recheck")
    BY <1>0, <2>3, GotoMoves
  <2>4. CASE Goto(a, s, "done")
    BY <1>0, <2>4, GotoMoves
  <2> QED BY <2>2, <2>3, <2>4 DEF Admit, GotoMark, GotoEnd
<1>6. \A p \in Opportunities : opp'[p].status = "auto_executed" => opp[p].status = "auto_executed"
  <2>1. WriteOpp(o, "execution_ambiguous", a) /\ "execution_ambiguous" \in Marks \cup {"none"}
    BY DEF Admit, AdmitRows, WriteOpp, Marks
  <2> QED BY <1>0, <1>1, <2>1, OppWrites
<1>7. ASSUME NEW b \in Attempts, target[b] = o
      PROVE  /\ effect[b] = "none"
             /\ \A t \in Sides : proc[b][t].at \notin Admitted
  BY <1>1, <1>2, <1>7, MemoryConstants DEF IndInv, HoldersAreBound
<1> HIDE DEF o
<1>8. target[a] = o
  BY DEF o
<1>9. effect[a] = "none" /\ \A t \in Sides : proc[a][t].at \notin Admitted
  BY <1>7, <1>8
<1> USE DEF At
<1>10. Begun'
  BY <1>0, <1>4, <1>5 DEF IndInv, Begun, Others
<1>11. HoldersAreBound'
  <2>1. ASSUME NEW p \in Opportunities
        PROVE  /\ barrier'[p].plan = None => barrier'[p] = NoBarrier
               /\ barrier'[p].plan # None => target[barrier'[p].plan] = p
    BY <1>1, <1>3, <1>8 DEF IndInv, HoldersAreBound
  <2>2. ASSUME NEW b \in Attempts, effect[b] # "none"
        PROVE  target[b] # None /\ barrier'[target[b]].plan = b
    <3>1. target[b] # None /\ barrier[target[b]].plan = b /\ target[b] # o
      BY <2>2, <1>7 DEF IndInv, HoldersAreBound
    <3>2. target[b] \in Opportunities
      BY <1>0, <3>1 DEF TypeOK
    <3> QED BY <1>3, <3>1, <3>2
  <2>3. ASSUME NEW b \in Attempts, NEW t \in Sides, proc'[b][t].at \in Admitted
        PROVE  barrier'[target[b]].plan = b
    <3>1. CASE b = a
      BY <3>1, <1>3, <1>8
    <3>2. CASE b # a
      <4>1. proc[b][t].at \in Admitted
        BY <2>3, <3>2, <1>5 DEF Others
      <4>2. target[b] \in Opportunities /\ barrier[target[b]].plan = b /\ target[b] # o
        BY <4>1, <1>7, ActiveHaveTargets DEF IndInv, HoldersAreBound, Admitted, Undispatched
      <4> QED BY <1>3, <4>2
    <3> QED BY <3>1, <3>2
  <2> QED BY <1>4, <2>1, <2>2, <2>3 DEF HoldersAreBound
<1>12. OneSideAdmitted'
  BY <1>0, <1>5, <1>9 DEF IndInv, OneSideAdmitted, Others
<1>13. PlacesAreTrue'
  <2>1. ASSUME NEW b \in Attempts, NEW t \in Sides, b # a \/ t # s,
               proc[b][t].at \in Undispatched \cup {"observe"}
        PROVE  barrier'[target[b]] = barrier[target[b]]
    <3>1. target[b] \in Opportunities /\ target[b] # o
      BY <2>1, <1>7, ActiveHaveTargets DEF IndInv, Admitted, Undispatched
    <3> QED BY <1>3, <3>1
  <2>2. proc'[a][s].at \in Undispatched => effect[a] = "none" /\ barrier'[target[a]].status = "in_progress"
    BY <1>3, <1>8, <1>9
  <2> QED BY <1>4, <1>5, <2>1, <2>2 DEF IndInv, PlacesAreTrue, Others, Undispatched
<1>14. ConsentIsHeld'
  <2>1. ASSUME NEW b \in Attempts, proc'[b]["loop"].at \in Admitted
        PROVE  barrier'[target[b]].policy = "auto"
    <3>1. CASE b = a
      <4>1. s = "loop"
        BY <1>0, <1>5, <1>9, <2>1, <3>1 DEF Others
      <4> QED BY <1>0, <1>3, <1>8, <3>1, <4>1 DEF IndInv, ConsentIsHeld
    <3>2. CASE b # a
      <4>1. proc[b]["loop"].at \in Admitted
        BY <1>0, <1>5, <2>1, <3>2 DEF Others
      <4>2. target[b] \in Opportunities /\ target[b] # o /\ barrier[target[b]].policy = "auto"
        BY <1>0, <1>7, <4>1, ActiveHaveTargets DEF IndInv, ConsentIsHeld, Admitted, Undispatched
      <4> QED BY <1>3, <4>2
    <3> QED BY <3>1, <3>2
  <2> QED BY <1>0, <1>4, <1>5, <2>1
          DEF IndInv, ConsentIsHeld, Others, Admitted, Undispatched, Early
<1>15. ReportedDoneIsDone'
  BY <1>4, <1>6, ReportsStay
<1>16. BarrierAgrees'
  BY <1>3, <1>4 DEF IndInv, BarrierAgrees
<1>17. ConsentOrAuto'
  <2>1. ASSUME NEW b \in Attempts, effect[b] # "none"
        PROVE  target[b] \in Opportunities /\ target[b] # o
    <3>1. target[b] # None
      BY <2>1 DEF IndInv, HoldersAreBound
    <3>2. target[b] \in Opportunities
      BY <1>0, <3>1 DEF TypeOK
    <3> QED BY <1>7, <2>1, <3>2
  <2> QED BY <1>3, <1>4, <2>1 DEF IndInv, ConsentOrAuto
<1> QED BY <1>10, <1>11, <1>12, <1>13, <1>14, <1>15, <1>16, <1>17 DEF IndInv

\* The request that is sent: the barrier is held, and nothing was sent before.
LEMMA SendStep ==
    ASSUME IndInv, TypeOK', NEW a \in Attempts, NEW s \in Sides, NEW r \in Results,
           At(a, s, "dispatch"), effect' = [effect EXCEPT ![a] = r], GotoObserve(a, s, r),
           UNCHANGED <<opp, approval, barrier, target>>
    PROVE  IndInv'
<1>0. Sides = {"loop", "route"} /\ TypeOK /\ proc[a][s].at = "dispatch"
  BY DEF Sides, IndInv, At
<1>1. target[a] \in Opportunities /\ target[a] # None
  BY <1>0, ActiveHaveTargets, MemoryConstants DEF IndInv
<1>2. /\ effect[a] = "none"
      /\ barrier[target[a]].status = "in_progress"
      /\ barrier[target[a]].plan = a
  BY <1>0 DEF IndInv, PlacesAreTrue, HoldersAreBound, Admitted, Undispatched
<1>3. effect'[a] = r /\ \A b \in Attempts : b # a => effect'[b] = effect[b]
  BY <1>0 DEF TypeOK
<1>4. proc'[a][s].at = "observe" /\ proc'[a][s].result = r /\ Others(a, s)
  BY <1>0, ObserveMoves
<1>5. \A t \in Sides : t # s => proc[a][t].at \notin Admitted
  BY <1>0 DEF IndInv, OneSideAdmitted, Admitted, Undispatched
<1>6. r # "none"
  BY DEF Results
<1> USE DEF At
<1>10. Begun'
  BY <1>0, <1>4 DEF IndInv, Begun, Others
<1>11. HoldersAreBound'
  BY <1>0, <1>1, <1>2, <1>3, <1>4 DEF IndInv, HoldersAreBound, Others, Admitted, Undispatched
<1>12. OneSideAdmitted'
  BY <1>0, <1>4, <1>5 DEF IndInv, OneSideAdmitted, Others, Admitted
<1>13. PlacesAreTrue'
  <2>1. ASSUME NEW t \in Sides, t # s, proc[a][t].at = "mark", proc[a][t].mark = "auto_executed"
        PROVE  FALSE
    BY <1>2, <2>1 DEF IndInv, PlacesAreTrue
  <2>2. ASSUME NEW t \in Sides, t # s
        PROVE  proc[a][t].at \notin {"recheck", "dispatch", "observe", "finalize"}
    BY <1>5, <2>2 DEF Admitted, Undispatched
  <2> QED BY <1>0, <1>2, <1>3, <1>4, <1>6, <2>1, <2>2
          DEF IndInv, PlacesAreTrue, Others, Undispatched
<1>14. ConsentIsHeld'
  <2>1. proc'[a]["loop"].at \notin Early
    <3>1. CASE s = "loop"
      BY <3>1, <1>4 DEF Early
    <3>2. CASE s = "route"
      <4>1. approval[a] = "approved"
        BY <1>0, <3>2 DEF IndInv, ConsentIsHeld, Admitted, Undispatched
      <4>2. proc[a]["loop"].at \in {"mark", "done"}
        BY <4>1 DEF IndInv, ConsentIsHeld
      <4> QED BY <1>0, <1>4, <3>2, <4>2 DEF Others, Early
    <3> QED BY <1>0, <3>1, <3>2
  <2> QED BY <1>0, <1>3, <1>4, <2>1
          DEF IndInv, ConsentIsHeld, Others, Admitted, Undispatched, Early
<1>15. ReportedDoneIsDone'
  <2>1. ASSUME NEW b \in Attempts, effect[b] = "completed"
        PROVE  effect'[b] = "completed"
    BY <1>2, <1>3, <2>1
  <2> QED BY <2>1 DEF IndInv, ReportedDoneIsDone
<1>16. BarrierAgrees'
  <2>1. ASSUME NEW o \in Opportunities, barrier[o].status \in {"completed", "failed"}
        PROVE  effect'[barrier[o].plan] = effect[barrier[o].plan]
    <3>1. barrier[o].plan \in Attempts \cup {None}
      BY <1>0 DEF TypeOK, BarrierRows
    <3>2. barrier[o].plan # None
      BY <2>1 DEF IndInv, HoldersAreBound, NoBarrier
    <3>3. barrier[o].plan # a
      BY <1>2, <2>1, <3>2 DEF IndInv, HoldersAreBound
    <3> QED BY <1>3, <3>1, <3>2, <3>3
  <2> QED BY <2>1 DEF IndInv, BarrierAgrees
<1>17. ConsentOrAuto'
  <2>1. approval[a] = "approved" \/ (approval[a] = "none" /\ barrier[target[a]].policy = "auto")
    <3>1. CASE s = "loop"
      BY <1>0, <3>1 DEF IndInv, ConsentIsHeld, Admitted, Undispatched
    <3>2. CASE s = "route"
      BY <1>0, <3>2 DEF IndInv, ConsentIsHeld, Admitted, Undispatched
    <3> QED BY <1>0, <3>1, <3>2
  <2> QED BY <1>3, <2>1 DEF IndInv, ConsentOrAuto
<1> QED BY <1>10, <1>11, <1>12, <1>13, <1>14, <1>15, <1>16, <1>17 DEF IndInv

\* The worker and the route before the admission, and the processes that die.
LEMMA EarlyStep ==
    ASSUME IndInv, TypeOK', NEW a \in Attempts,
           Decide(a) \/ Prepare(a) \/ Evaluate(a)
    PROVE  IndInv'
<1>0. Sides = {"loop", "route"} /\ "loop" \in Sides /\ "route" \in Sides /\ TypeOK
  BY DEF Sides, IndInv
<1>1. UNCHANGED <<opp, target, approval, barrier, effect>>
  BY DEF Decide, Prepare, Evaluate
<1>2. ReportedDoneIsDone'
  BY <1>1, ReportsStay
<1>3. {"learning_needed", "blocked_by_policy", "noted_awareness", "execution_failed",
       "execution_ambiguous"} \subseteq Marks /\ BOOLEAN = {TRUE, FALSE}
  BY DEF Marks, Retryable
<1>4. verdict \in Verdicts /\ "auto" \in Verdicts
  BY <1>0 DEF TypeOK, Verdicts
<1>5. ASSUME NEW s \in Sides, proc[a][s].at \in {"claimed", "prepare"}, Others(a, s),
             \/ proc'[a][s].at = "mark" /\ proc'[a][s].mark # "auto_executed"
             \/ s = "loop" /\ proc'[a][s].at \in {"ask", "prepare"}
             \/ s = "loop" /\ proc'[a][s].at = "admit" /\ proc'[a][s].policy = "auto"
             \/ s = "route" /\ proc[a][s].at = "prepare" /\ proc'[a][s].at = "admit"
      PROVE  IndInv'
  <2>1. Onward(a, s)
    BY <1>0, <1>5 DEF Onward, Admitted, Undispatched, Early
  <2> QED BY <1>1, <1>2, <1>5, <2>1, QuietStep
<1>6. CASE Decide(a)
  <2>1. proc[a]["loop"].at = "claimed"
    BY <1>6 DEF Decide, At
  <2>2. /\ Others(a, "loop")
        /\ \/ proc'[a]["loop"].at = "mark" /\ proc'[a]["loop"].mark # "auto_executed"
           \/ proc'[a]["loop"].at \in {"ask", "prepare"}
    <3>1. \/ \E status \in {"learning_needed", "blocked_by_policy", "noted_awareness"} :
                GotoEnd(a, "loop", status)
          \/ Goto(a, "loop", "ask") \/ Goto(a, "loop", "prepare")
      BY <1>6 DEF Decide, GotoMark, GotoEnd
    <3> QED BY <1>0, <1>3, <3>1, GotoMoves, EndMoves
  <2> QED BY <1>0, <1>5, <2>1, <2>2
<1>7. CASE Prepare(a)
  <2>1. proc[a]["loop"].at = "prepare"
    BY <1>7 DEF Prepare, At
  <2>2. \/ \E status \in {"learning_needed", "execution_failed", "execution_ambiguous",
                           "blocked_by_policy"}, guarded \in BOOLEAN :
              GotoMark(a, "loop", status, guarded)
        \/ GotoAsk(a, "loop")
        \/ GotoAdmit(a, "loop", "auto")
    BY <1>3, <1>7 DEF Prepare, GotoAsk, GotoAdmit
  <2>3. /\ Others(a, "loop")
        /\ \/ proc'[a]["loop"].at = "mark" /\ proc'[a]["loop"].mark # "auto_executed"
           \/ proc'[a]["loop"].at = "ask"
           \/ proc'[a]["loop"].at = "admit" /\ proc'[a]["loop"].policy = "auto"
    BY <1>0, <1>3, <1>4, <2>2, AskMoves, AdmitMoves, MarkMoves
  <2> QED BY <1>0, <1>5, <2>1, <2>3
<1>8. CASE Evaluate(a)
  <2>1. proc[a]["route"].at = "prepare"
    BY <1>8 DEF Evaluate, At
  <2>2. \/ GotoEnd(a, "route", "blocked_by_policy")
        \/ GotoEnd(a, "route", "execution_failed")
        \/ GotoAdmit(a, "route", verdict)
    BY <1>8 DEF Evaluate, GotoAdmit, GotoMark, GotoEnd
  <2>3. /\ Others(a, "route")
        /\ \/ proc'[a]["route"].at = "mark" /\ proc'[a]["route"].mark # "auto_executed"
           \/ proc'[a]["route"].at = "admit"
    BY <1>0, <1>3, <1>4, <2>2, AdmitMoves, EndMoves
  <2> QED BY <1>0, <1>5, <2>1, <2>3
<1> QED BY <1>6, <1>7, <1>8

LEMMA LeaveStep ==
    ASSUME IndInv, TypeOK', NEW a \in Attempts, NEW s \in Sides,
           AdmissionThrows(a, s) \/ Crash(a, s) \/ Mark(a, s)
    PROVE  IndInv'
<1>0. Sides = {"loop", "route"} /\ TypeOK
  BY DEF Sides, IndInv
<1>1. UNCHANGED <<target, approval, barrier, effect>> /\ proc[a][s].at # "idle"
  BY DEF AdmissionThrows, Crash, Mark, At
<1>2. target[a] \in Opportunities
  BY <1>1, ActiveHaveTargets DEF IndInv
<1>3. {"execution_failed", "execution_ambiguous"} \subseteq Marks /\ FALSE \in BOOLEAN
  BY DEF Marks
<1>4. /\ Others(a, s)
      /\ \/ proc'[a][s].at = "mark" /\ proc'[a][s].mark # "auto_executed"
         \/ proc'[a][s].at = "done"
  <2>1. \/ \E status \in {"execution_failed", "execution_ambiguous"} :
              GotoEnd(a, s, status)
        \/ Goto(a, s, "done")
    BY DEF AdmissionThrows, Crash, Mark, GotoMark, GotoEnd
  <2> QED BY <1>0, <1>3, <2>1, GotoMoves, EndMoves
<1>5. Onward(a, s)
  BY <1>1, <1>4 DEF Onward, Admitted, Undispatched, Early
<1>6. ReportedDoneIsDone'
  <2>1. CASE opp' = opp
    BY <1>1, <2>1, ReportsStay
  <2>2. CASE At(a, s, "mark") /\ WriteOpp(target[a], proc[a][s].mark, a)
    <3>1. proc[a][s].mark \in Marks \cup {"none"}
      BY <1>0 DEF TypeOK, ProcRows
    <3>2. /\ opp'[target[a]].status = proc[a][s].mark
          /\ \A p \in Opportunities : p # target[a] => opp'[p] = opp[p]
      BY <1>0, <1>2, <2>2, <3>1, OppWrites
    <3>3. proc[a][s].mark = "auto_executed" => effect[a] = "completed"
      BY <2>2 DEF IndInv, PlacesAreTrue
    <3> QED BY <1>1, <3>2, <3>3 DEF IndInv, ReportedDoneIsDone
  <2> QED BY <2>1, <2>2 DEF AdmissionThrows, Crash, Mark, WriteOpp
<1> QED BY <1>1, <1>4, <1>5, <1>6, QuietStep

\* A refusal before the request starts: nothing was sent.
LEMMA RefusedStep ==
    ASSUME IndInv, TypeOK', NEW a \in Attempts, NEW s \in Sides,
           proc[a][s].at \in Undispatched, Refused(a, s)
    PROVE  IndInv'
<1>0. Sides = {"loop", "route"} /\ TypeOK
  BY DEF Sides, IndInv
<1>1. UNCHANGED <<opp, target, approval, effect>>
  BY DEF Refused
<1>2. ReportedDoneIsDone'
  BY <1>1, ReportsStay
<1>3. {"execution_failed", "execution_ambiguous"} \subseteq Marks /\ FALSE \in BOOLEAN
  BY DEF Marks
<1>4. /\ Others(a, s)
      /\ \/ proc'[a][s].at = "mark" /\ proc'[a][s].mark # "auto_executed"
         \/ proc'[a][s].at = "done"
  <2>1. \/ \E status \in {"execution_failed", "execution_ambiguous"} :
              GotoEnd(a, s, status)
        \/ Goto(a, s, "done")
    BY DEF Refused, GotoMark, GotoEnd
  <2> QED BY <1>0, <1>3, <2>1, GotoMoves, EndMoves
<1>5. Onward(a, s) /\ proc'[a][s].at \notin Undispatched
  BY <1>4 DEF Onward, Admitted, Undispatched, Early
<1>6. CASE UNCHANGED <<barrier, plan>>
  BY <1>1, <1>2, <1>4, <1>5, <1>6, QuietStep
<1>7. CASE CloseUndispatched(a)
  <2>1. WriteBarrier(target[a], "failed") /\ "failed" \in Results
    BY <1>7 DEF CloseUndispatched, WriteBarrier, Results
  <2>2. effect[a] = "none"
    BY DEF IndInv, PlacesAreTrue
  <2>3. proc[a][s].at \in Admitted
    BY DEF Admitted
  <2>4. "failed" = "completed" => effect[a] = "completed"
    OBVIOUS
  <2> QED BY <1>1, <1>2, <1>4, <1>5, <2>1, <2>2, <2>3, <2>4, ClosingStep
<1> QED BY <1>6, <1>7 DEF Refused

\* The settlement of what was sent.
LEMMA SettleStep ==
    ASSUME IndInv, TypeOK', NEW a \in Attempts, NEW s \in Sides,
           Observe(a, s) \/ Finalize(a, s)
    PROVE  IndInv'
<1>0. Sides = {"loop", "route"} /\ TypeOK
  BY DEF Sides, IndInv
<1>1. UNCHANGED <<opp, target, approval, effect>>
  BY DEF Observe, Finalize
<1>2. ReportedDoneIsDone'
  BY <1>1, ReportsStay
<1>3. {"execution_failed", "execution_ambiguous", "auto_executed"} \subseteq Marks
      /\ FALSE \in BOOLEAN
  BY DEF Marks
<1>4. CASE Observe(a, s)
  <2>1. /\ proc[a][s].at = "observe" /\ proc[a][s].at \in Admitted
        /\ effect[a] = proc[a][s].result /\ effect[a] # "none"
    BY <1>4 DEF IndInv, PlacesAreTrue, Observe, At, Admitted
  <2>2. effect[a] \in Results
    BY <1>0, <2>1 DEF TypeOK
  <2>3. /\ Others(a, s)
        /\ \/ /\ proc[a][s].result = "ambiguous"
              /\ proc'[a][s].at = "mark" /\ proc'[a][s].mark = "execution_ambiguous"
           \/ /\ proc[a][s].result # "ambiguous"
              /\ proc'[a][s].at = "finalize" /\ proc'[a][s].result = proc[a][s].result
    <3>1. CASE proc[a][s].result = "ambiguous"
      <4>1. GotoEnd(a, s, "execution_ambiguous")
        BY <1>4, <3>1 DEF Observe, GotoMark, GotoEnd
      <4> QED BY <1>0, <1>3, <3>1, <4>1, EndMoves
    <3>2. CASE proc[a][s].result # "ambiguous"
      <4>1. Goto(a, s, "finalize")
        BY <1>4, <3>2 DEF Observe
      <4> QED BY <1>0, <3>2, <4>1, GotoMoves
    <3> QED BY <3>1, <3>2
  <2>4. Onward(a, s) /\ proc'[a][s].at \notin Undispatched
    BY <2>1, <2>2, <2>3 DEF Onward, Admitted, Undispatched, Early, Results
  <2>5. CASE UNCHANGED barrier
    BY <1>1, <1>2, <2>3, <2>4, <2>5, QuietStep
  <2>6. CASE barrier' = [barrier EXCEPT ![target[a]].status = proc[a][s].result]
    <3>1. WriteBarrier(target[a], effect[a])
      BY <2>1, <2>6 DEF WriteBarrier
    <3> QED BY <1>1, <1>2, <2>1, <2>2, <2>3, <2>4, <3>1, ClosingStep
  <2> QED BY <1>4, <2>5, <2>6 DEF Observe
<1>5. CASE Finalize(a, s)
  <2>1. /\ proc[a][s].at = "finalize" /\ UNCHANGED barrier
        /\ effect[a] = proc[a][s].result
    BY <1>5 DEF IndInv, PlacesAreTrue, Finalize, At
  <2>2. /\ Others(a, s)
        /\ proc'[a][s].at = "mark" /\ proc'[a][s].mark = StatusOf(proc[a][s].result)
    <3>1. GotoEnd(a, s, StatusOf(proc[a][s].result))
      BY <1>5 DEF Finalize, GotoMark, GotoEnd
    <3>2. StatusOf(proc[a][s].result) \in Marks
      BY <1>3 DEF StatusOf
    <3> QED BY <1>0, <3>1, <3>2, EndMoves
  <2>3. Onward(a, s)
    BY <2>1, <2>2 DEF Onward, Admitted, Undispatched, Early, StatusOf
  <2> QED BY <1>1, <1>2, <2>1, <2>2, <2>3, QuietStep
<1> QED BY <1>4, <1>5

LEMMA IndInvStep == IndInv /\ [Next]_vars => IndInv'
<1> SUFFICES ASSUME IndInv, [Next]_vars PROVE IndInv'
  OBVIOUS
<1>0. TypeOK'
  BY TypeStep DEF IndInv
<1>1. CASE UNCHANGED vars
  BY <1>0, <1>1, IdleStep DEF vars
<1>2. CASE ChangePolicies
  BY <1>0, <1>2, IdleStep DEF ChangePolicies
<1>3. ASSUME NEW o \in Opportunities, Suggest(o) \/ DayPasses(o) PROVE IndInv'
  <2>1. \A p \in Opportunities :
           opp'[p].status = "auto_executed" => opp[p].status = "auto_executed"
    BY <1>3 DEF IndInv, Suggest, DayPasses, TypeOK, OppRows
  <2>2. UNCHANGED <<target, proc, approval, barrier, effect>>
    BY <1>3 DEF Suggest, DayPasses
  <2> QED BY <1>0, <2>1, <2>2, IdleStep
<1>4. ASSUME NEW o \in Opportunities, NEW a \in Attempts, Claim(o, a) PROVE IndInv'
  BY <1>0, <1>4, ClaimStep
<1>5. ASSUME NEW a \in Attempts, Worker(a) \/ Respond(a) \/ Evaluate(a) \/ Expire(a)
      PROVE  IndInv'
  BY <1>0, <1>5, EarlyStep, ApprovalStep DEF Worker
<1>6. ASSUME NEW a \in Attempts, NEW s \in Sides, Step(a, s) \/ Crash(a, s) PROVE IndInv'
  <2>1. CASE Admit(a, s)
    BY <1>0, <2>1, AdmitStep
  <2>2. CASE AdmissionThrows(a, s) \/ Mark(a, s) \/ Crash(a, s)
    BY <1>0, <2>2, LeaveStep
  <2>3. CASE Observe(a, s) \/ Finalize(a, s)
    BY <1>0, <2>3, SettleStep
  <2>4. CASE Recheck(a, s)
    <3>1. proc[a][s].at \in Undispatched /\ proc[a][s].at = "recheck"
      BY <2>4 DEF Recheck, At, Undispatched
    <3>2. CASE Goto(a, s, "dispatch") /\ UNCHANGED <<ledger, world>>
      <4>1. proc'[a][s].at = "dispatch" /\ Others(a, s)
        BY <3>2, GotoMoves DEF IndInv
      <4>2. Onward(a, s)
        BY <3>1, <4>1 DEF Onward, Admitted, Undispatched, Early
      <4>3. ReportedDoneIsDone'
        BY <3>2, ReportsStay
      <4> QED BY <1>0, <3>2, <4>1, <4>2, <4>3, QuietStep
    <3> QED BY <1>0, <2>4, <3>1, <3>2, RefusedStep DEF Recheck
  <2>5. CASE Dispatch(a, s)
    <3>1. At(a, s, "dispatch") /\ proc[a][s].at \in Undispatched
      BY <2>5 DEF Dispatch, At, Undispatched
    <3>2. CASE Refused(a, s)
      BY <1>0, <3>1, <3>2, RefusedStep
    <3>3. ASSUME NEW r \in Results, effect' = [effect EXCEPT ![a] = r], GotoObserve(a, s, r),
                 UNCHANGED <<opp, approval, barrier, plan, world>>
          PROVE  IndInv'
      BY <1>0, <3>1, <3>3, SendStep
    <3> QED BY <2>5, <3>2, <3>3 DEF Dispatch, GotoObserve
  <2> QED BY <1>6, <2>1, <2>2, <2>3, <2>4, <2>5 DEF Step
<1> QED BY <1>1, <1>2, <1>3, <1>4, <1>5, <1>6 DEF Next

\* The inductive invariant holds of every behaviour of the worker and the route
\* (memory-action-loop.ts, approvals.ts), whatever the policies and the faults do.
THEOREM MemoryInvariance == Spec => []IndInv
<1>1. Init => IndInv
  BY InitIndInv
<1>2. IndInv /\ [Next]_vars => IndInv'
  BY IndInvStep
<1> QED BY <1>1, <1>2, PTL DEF Spec

\* Type correctness of the opportunity, approval, barrier and plan rows.
THEOREM MemoryTypeCorrect == Spec => []TypeOK
<1>1. IndInv => TypeOK
  BY DEF IndInv
<1> QED BY <1>1, MemoryInvariance, PTL

\* The status auto_executed, which markStatus writes without asking anything of
\* the row, is never written for an opportunity whose effect was not completed.
THEOREM DoneIsDone == Spec => []ReportedDoneIsDone
<1>1. IndInv => ReportedDoneIsDone
  BY DEF IndInv
<1> QED BY <1>1, MemoryInvariance, PTL

\* observeTerminal and failBeforeDispatch leave the memory-scope barrier in
\* agreement with the adapter, whichever of the two processes runs them.
THEOREM BarriersAgree == Spec => []BarrierAgrees
<1>1. IndInv => BarrierAgrees
  BY DEF IndInv
<1> QED BY <1>1, MemoryInvariance, PTL

\* executeAllowedOpportunity and the approval route act with the owner's yes or,
\* unasked, under an admission that says auto.
THEOREM ConsentHolds == Spec => []ConsentOrAuto
<1>1. IndInv => ConsentOrAuto
  BY DEF IndInv
<1> QED BY <1>1, MemoryInvariance, PTL

(***************************************************************************)
(* The opportunity implements OneShotEffect.                               *)
(***************************************************************************)
Holder == [o \in Opportunities |-> barrier[o].plan]
Acted  == [o \in Opportunities |-> {a \in Attempts : target[a] = o /\ effect[a] # "none"}]

\* A step that names no holder and starts no request is not seen.
LEMMA UnseenStep ==
    ASSUME UNCHANGED <<target, effect>>,
           \A o \in Opportunities : barrier'[o].plan = barrier[o].plan
    PROVE  Holder' = Holder /\ Acted' = Acted
BY DEF Holder, Acted

\* A claim gives an opportunity to an attempt that has not acted.
LEMMA ClaimUnseen ==
    ASSUME IndInv, NEW o \in Opportunities, NEW a \in Attempts, Claim(o, a)
    PROVE  Holder' = Holder /\ Acted' = Acted
<1>1. UNCHANGED <<barrier, effect>> /\ target[a] = None
  BY DEF Claim
<1>2. effect[a] = "none"
  BY <1>1, FreshAttempt
<1>3. \A b \in Attempts : b # a => target'[b] = target[b]
  BY DEF Claim, IndInv, TypeOK
<1>4. \A p \in Opportunities :
         {b \in Attempts : target'[b] = p /\ effect'[b] # "none"}
            = {b \in Attempts : target[b] = p /\ effect[b] # "none"}
  BY <1>1, <1>2, <1>3
<1> QED BY <1>1, <1>4 DEF Holder, Acted

\* A refusal or a settlement writes the status of a barrier, never its holder.
LEMMA CloseUnseen ==
    ASSUME IndInv, NEW a \in Attempts, NEW s \in Sides, proc[a][s].at # "idle",
           NEW status \in Results, WriteBarrier(target[a], status), UNCHANGED <<target, effect>>
    PROVE  Holder' = Holder /\ Acted' = Acted
<1>1. target[a] \in Opportunities /\ TypeOK
  BY ActiveHaveTargets DEF IndInv
<1>2. \A o \in Opportunities : barrier'[o].plan = barrier[o].plan
  BY <1>1, BarrierWrites
<1> QED BY <1>2, UnseenStep

\* The admission is the grant of the abstract authority.
LEMMA AdmitGrants ==
    ASSUME IndInv, NEW a \in Attempts, NEW s \in Sides, Admit(a, s)
    PROVE  /\ target[a] \in Opportunities
           /\ Holder[target[a]] = None /\ Acted[target[a]] = {}
           /\ Holder' = [Holder EXCEPT ![target[a]] = a] /\ Acted' = Acted
<1>1. target[a] \in Opportunities /\ target[a] # None
  BY ActiveHaveTargets, MemoryConstants DEF IndInv, Admit, At
<1>2. barrier[target[a]].plan = None
  BY DEF Admit, Admissible, NoBarrier
<1>3. Holder[target[a]] = None
  BY <1>1, <1>2 DEF Holder
<1>4. \A b \in Attempts : target[b] = target[a] => effect[b] = "none"
  BY <1>2, MemoryConstants DEF IndInv, HoldersAreBound
<1>5. Acted[target[a]] = {}
  BY <1>1, <1>4 DEF Acted
<1>6. /\ barrier'[target[a]].plan = a
      /\ \A p \in Opportunities : p # target[a] => barrier'[p].plan = barrier[p].plan
  BY <1>1 DEF Admit, AdmitRows, IndInv, TypeOK
<1>7. Holder' = [Holder EXCEPT ![target[a]] = a]
  BY <1>1, <1>6 DEF Holder
<1>8. Acted' = Acted
  BY DEF Acted, Admit
<1> QED BY <1>1, <1>3, <1>5, <1>7, <1>8

\* The request that is sent is the act of the holder.
LEMMA SendActs ==
    ASSUME IndInv, NEW a \in Attempts, NEW s \in Sides, NEW r \in Results,
           At(a, s, "dispatch"), effect' = [effect EXCEPT ![a] = r], UNCHANGED <<barrier, target>>
    PROVE  /\ target[a] \in Opportunities
           /\ Holder[target[a]] # None /\ Acted[target[a]] = {}
           /\ Acted' = [Acted EXCEPT ![target[a]] = {Holder[target[a]]}] /\ Holder' = Holder
<1>1. target[a] \in Opportunities /\ a # None
  BY ActiveHaveTargets, MemoryConstants DEF IndInv, At
<1>2. barrier[target[a]].plan = a /\ effect[a] = "none"
  BY DEF IndInv, HoldersAreBound, PlacesAreTrue, Admitted, Undispatched, At
<1>3. Holder[target[a]] = a
  BY <1>1, <1>2 DEF Holder
<1>4. \A b \in Attempts : target[b] = target[a] => effect[b] = "none"
  BY <1>2 DEF IndInv, HoldersAreBound
<1>5. Acted[target[a]] = {}
  BY <1>1, <1>4 DEF Acted
<1>6. effect'[a] # "none" /\ \A b \in Attempts : b # a => effect'[b] = effect[b]
  BY DEF IndInv, TypeOK, Results
<1>7. {b \in Attempts : target'[b] = target[a] /\ effect'[b] # "none"} = {a}
  BY <1>4, <1>6
<1>8. \A p \in Opportunities : p # target[a] =>
         {b \in Attempts : target'[b] = p /\ effect'[b] # "none"}
            = {b \in Attempts : target[b] = p /\ effect[b] # "none"}
  BY <1>6
<1>9. Acted' = [Acted EXCEPT ![target[a]] = {a}]
  BY <1>1, <1>7, <1>8 DEF Acted
<1>10. Holder' = Holder
  BY DEF Holder
<1> QED BY <1>1, <1>3, <1>5, <1>9, <1>10

\* Every step of the worker, the route and the environment is a grant, an act or
\* is not seen.
LEMMA OpportunityStep ==
    ASSUME IndInv, [Next]_vars
    PROVE  \/ \E o \in Opportunities : OneShot!Act(o) \/ \E a \in Attempts : OneShot!Grant(o, a)
           \/ Holder' = Holder /\ Acted' = Acted
<1> USE DEF Holder, Acted
<1>1. CASE UNCHANGED vars
  BY <1>1, UnseenStep DEF vars
<1>2. CASE ChangePolicies
  BY <1>2, UnseenStep DEF ChangePolicies
<1>3. ASSUME NEW o \in Opportunities, Suggest(o) \/ DayPasses(o)
      PROVE  Holder' = Holder /\ Acted' = Acted
  BY <1>3, UnseenStep DEF Suggest, DayPasses
<1>4. ASSUME NEW o \in Opportunities, NEW a \in Attempts, Claim(o, a)
      PROVE  Holder' = Holder /\ Acted' = Acted
  BY <1>4, ClaimUnseen
<1>5. ASSUME NEW a \in Attempts, Worker(a) \/ Respond(a) \/ Evaluate(a) \/ Expire(a)
      PROVE  Holder' = Holder /\ Acted' = Acted
  BY <1>5, UnseenStep DEF Worker, Decide, Ask, Prepare, Respond, Evaluate, Expire
<1>6. ASSUME NEW a \in Attempts, NEW s \in Sides,
             AdmissionThrows(a, s) \/ Finalize(a, s) \/ Mark(a, s) \/ Crash(a, s)
      PROVE  Holder' = Holder /\ Acted' = Acted
  BY <1>6, UnseenStep DEF AdmissionThrows, Finalize, Mark, Crash
<1>7. ASSUME NEW a \in Attempts, NEW s \in Sides, Refused(a, s), proc[a][s].at # "idle"
      PROVE  Holder' = Holder /\ Acted' = Acted
  <2>1. UNCHANGED <<target, effect>>
    BY <1>7 DEF Refused
  <2>2. CASE barrier' = barrier
    BY <2>1, <2>2, UnseenStep
  <2>3. CASE WriteBarrier(target[a], "failed")
    BY <1>7, <2>1, <2>3, CloseUnseen DEF Results
  <2> QED BY <1>7, <2>2, <2>3 DEF Refused, CloseUndispatched, WriteBarrier
<1>8. ASSUME NEW a \in Attempts, NEW s \in Sides, Observe(a, s)
      PROVE  Holder' = Holder /\ Acted' = Acted
  <2>1. UNCHANGED <<target, effect>> /\ proc[a][s].at # "idle"
    BY <1>8 DEF Observe, At
  <2>2. proc[a][s].result \in Results
    BY <1>8 DEF Observe, IndInv, PlacesAreTrue, TypeOK, ProcRows
  <2>3. barrier' = barrier \/ WriteBarrier(target[a], proc[a][s].result)
    BY <1>8 DEF Observe, WriteBarrier
  <2> QED BY <2>1, <2>2, <2>3, CloseUnseen, UnseenStep
<1>9. ASSUME NEW a \in Attempts, NEW s \in Sides, Recheck(a, s)
      PROVE  Holder' = Holder /\ Acted' = Acted
  <2>1. CASE UNCHANGED <<ledger, world>>
    BY <2>1, UnseenStep
  <2> QED BY <1>7, <1>9, <2>1 DEF Recheck, At
<1>10. ASSUME NEW a \in Attempts, NEW s \in Sides, Admit(a, s)
       PROVE  \E o \in Opportunities : OneShot!Grant(o, a)
  BY <1>10, AdmitGrants DEF OneShot!Grant
<1>11. ASSUME NEW a \in Attempts, NEW s \in Sides, Dispatch(a, s)
       PROVE  \/ \E o \in Opportunities : OneShot!Act(o)
              \/ Holder' = Holder /\ Acted' = Acted
  <2>1. At(a, s, "dispatch") /\ proc[a][s].at # "idle"
    BY <1>11 DEF Dispatch, At
  <2>2. ASSUME NEW r \in Results, effect' = [effect EXCEPT ![a] = r],
               UNCHANGED <<barrier, target>>
        PROVE  \E o \in Opportunities : OneShot!Act(o)
    BY <2>1, <2>2, SendActs DEF OneShot!Act
  <2> QED BY <1>7, <1>11, <2>1, <2>2 DEF Dispatch
<1> QED BY <1>1, <1>2, <1>3, <1>4, <1>5, <1>6, <1>8, <1>9, <1>10, <1>11 DEF Next, Step

\* However many attempts, decisions and approvals an opportunity gathers,
\* admitMemoryExecution and admitApprovalExecution let one of them act, once.
THEOREM OpportunityIsOneShot == Spec => OneEffectPerOpportunity
<1>1. Init => OneShot!Init
  BY MemoryConstants DEF Init, OneShot!Init, NoBarrier
<1>2. IndInv /\ [Next]_vars => [OneShot!Next]_OneShot!effects
  BY OpportunityStep DEF OneShot!Next, OneShot!effects, Holder, Acted
<1> QED BY <1>1, <1>2, MemoryInvariance, PTL DEF Spec, OneEffectPerOpportunity, OneShot!Spec
=============================================================================
