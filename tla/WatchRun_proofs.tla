--------------------------- MODULE WatchRun_proofs ---------------------------
(***************************************************************************)
(* Proofs about WatchRun, for any number of watches, workers, slots and     *)
(* attempts.                                                                *)
(*                                                                         *)
(* Neither property of the slots is inductive.  WindowsDisjoint needs the   *)
(* boundary kept in the watch: every slot that may report lies before it,   *)
(* and it never passes the clock.  OneHolder needs that the claims of a     *)
(* slot carry different tokens, none of them above the slot's attempts.     *)
(***************************************************************************)
EXTENDS WatchRun, TLAPS

\* Every window that may be reported ends at or before last_run_at of its watch.
WindowsBehindBoundary ==
    \A i \in Slots :
        slot[i].status \in Reports =>
            /\ watch[slot[i].watch].last # Never
            /\ slot[i].end <= watch[slot[i].watch].last

BoundaryBehindClock == \A w \in Watches : watch[w].last <= now

\* A worker's slot exists and has seen its token.
TokensIssued ==
    \A k \in Workers :
        worker[k].at # "idle" =>
            /\ worker[k].slot \in Slots
            /\ slot[worker[k].slot].status # "none"
            /\ worker[k].token <= slot[worker[k].slot].attempts

TokensDiffer ==
    \A k, l \in Workers :
        /\ worker[k].at # "idle" /\ worker[l].at # "idle"
        /\ worker[k].slot = worker[l].slot
        /\ worker[k].token = worker[l].token
        => k = l

IndInv ==
    /\ TypeOK
    /\ OneSlotInFlight
    /\ WindowsDisjoint
    /\ WindowsBehindBoundary
    /\ BoundaryBehindClock
    /\ TokensIssued
    /\ TokensDiffer

LEMMA SlotsAreNat == Slots \subseteq Nat /\ 0 \notin Slots
BY WatchConstants DEF Slots

LEMMA InitIndInv == Init => IndInv
<1> SUFFICES ASSUME Init PROVE IndInv
  OBVIOUS
<1>1. TypeOK
  BY WatchConstants
  DEF Init, TypeOK, WatchRows, SlotRows, WorkerRows, NoSlot, Idle, Times, Never
<1>2. \A i \in Slots : slot[i].status = "none"
  BY DEF Init, NoSlot
<1>3. OneSlotInFlight /\ WindowsDisjoint /\ WindowsBehindBoundary
  BY <1>2 DEF OneSlotInFlight, WindowsDisjoint, WindowsBehindBoundary, Reports, Outstanding
<1>4. BoundaryBehindClock
  <2>1. now = 0 /\ \A w \in Watches : watch[w].last = Never
    BY DEF Init
  <2>2. Never <= 0
    BY DEF Never
  <2> QED BY <2>1, <2>2 DEF BoundaryBehindClock
<1>5. TokensIssued /\ TokensDiffer
  BY DEF Init, Idle, TokensIssued, TokensDiffer
<1> QED
  BY <1>1, <1>3, <1>4, <1>5 DEF IndInv
-------------------------------------------------------------------------------
(* What a step does to a slot that it does not create.                        *)

Kept(i) ==
    /\ slot'[i] \in SlotRows
    /\ slot'[i].watch = slot[i].watch
    /\ slot'[i].start = slot[i].start /\ slot'[i].end = slot[i].end
    /\ slot'[i].attempts >= slot[i].attempts
    /\ (slot'[i].status = "none") <=> (slot[i].status = "none")
    /\ slot'[i].status \in Outstanding => slot[i].status \in Outstanding
    /\ slot'[i].status \in Reports => slot[i].status \in Reports
    /\ slot[i].status \in Final => slot'[i].status \in Final
    /\ slot[i].status = "failed" => slot'[i].status # "completed"

\* One slot that is outstanding or completed moves on.
LEMMA UpdateKeeps ==
    ASSUME TypeOK, NEW n \in Slots, NEW s \in SlotRows, slot' = [slot EXCEPT ![n] = s],
           s.watch = slot[n].watch, s.start = slot[n].start, s.end = slot[n].end,
           s.attempts = slot[n].attempts,
           \/ slot[n].status = "processing" /\ s.status \in {"pending", "completed", "failed"}
           \/ slot[n].status = "completed" /\ s.status = "deleted"
           \/ slot[n].status = s.status
    PROVE  slot' \in [Slots -> SlotRows] /\ \A i \in Slots : Kept(i)
<1>1. slot' \in [Slots -> SlotRows]
  BY DEF TypeOK
<1>2. slot'[n] = s /\ \A i \in Slots \ {n} : slot'[i] = slot[i]
  BY DEF TypeOK
<1>3. \A i \in Slots : slot[i] \in SlotRows /\ slot[i].attempts \in Nat
  BY DEF TypeOK, SlotRows
<1>4. Kept(n)
  BY <1>2, <1>3 DEF Kept, Outstanding, Reports, Final
<1>5. \A i \in Slots \ {n} : Kept(i)
  BY <1>2, <1>3 DEF Kept
<1> QED
  BY <1>1, <1>4, <1>5

LEMMA SweepKeeps ==
    ASSUME TypeOK
    PROVE  /\ Swept \in [Slots -> SlotRows]
           /\ \A i \in Slots :
                /\ Swept[i].watch = slot[i].watch
                /\ Swept[i].start = slot[i].start /\ Swept[i].end = slot[i].end
                /\ Swept[i].attempts = slot[i].attempts
                /\ \/ Swept[i].status = slot[i].status
                   \/ slot[i].status \in Outstanding /\ Swept[i].status = "failed"
BY DEF TypeOK, SlotRows, Swept, Failed, Abandoned, Outstanding

LEMMA RetryKeeps ==
    ASSUME TypeOK, NEW k \in Workers, ClaimRetry(k)
    PROVE  slot' \in [Slots -> SlotRows] /\ \A i \in Slots : Kept(i)
<1> DEFINE Taken(i) == [Swept EXCEPT ![i].status = "processing", ![i].lease = "live",
                                     ![i].attempts = @ + 1]
<1>1. PICK i \in Slots :
        Retryable(Swept[i]) /\ (slot' = Taken(i) \/ slot' = [Swept EXCEPT ![i] = Failed(@)])
  BY DEF ClaimRetry
<1>2. Swept[i].status \in Outstanding
  BY <1>1 DEF Retryable
<1>3. CASE slot' = Taken(i)
  BY <1>2, <1>3, SweepKeeps DEF Kept, SlotRows, Outstanding, Reports, Final
<1>4. CASE slot' = [Swept EXCEPT ![i] = Failed(@)]
  <2>1. Failed(Swept[i]) \in SlotRows
    BY SweepKeeps DEF Failed, SlotRows
  <2>2. slot'[i] = Failed(Swept[i]) /\ \A j \in Slots \ {i} : slot'[j] = Swept[j]
    BY <1>4, SweepKeeps
  <2>3. slot' \in [Slots -> SlotRows]
    BY <1>4, <2>1, SweepKeeps
  <2>4. Kept(i)
    BY <1>2, <2>1, <2>2, SweepKeeps DEF Failed, Kept, SlotRows, Outstanding, Reports, Final
  <2>5. \A j \in Slots \ {i} : Kept(j)
    BY <2>2, SweepKeeps DEF Kept, SlotRows, Outstanding, Reports, Final
  <2> QED BY <2>3, <2>4, <2>5
<1> QED
  BY <1>1, <1>3, <1>4

LEMMA FinishKeeps ==
    ASSUME TypeOK, TokensIssued, NEW k \in Workers, Finish(k)
    PROVE  slot' \in [Slots -> SlotRows] /\ \A i \in Slots : Kept(i)
<1> DEFINE n == worker[k].slot
<1>1. n \in Slots
  BY DEF Finish, Complete, EvaluationThrows, FailSlot, Evaluating, TokensIssued
<1>2. CASE slot' = slot
  BY <1>2 DEF TypeOK, Kept, SlotRows
<1>3. CASE CompleteSlot(k)
  <2>1. PICK matched \in BOOLEAN :
          slot' = [slot EXCEPT ![n] =
                      [@ EXCEPT !.status = "completed", !.lease = "none", !.matched = matched]]
    BY <1>3 DEF CompleteSlot
  <2> DEFINE s == [slot[n] EXCEPT !.status = "completed", !.lease = "none", !.matched = matched]
  <2>2. s \in SlotRows /\ s.status = "completed" /\ s.watch = slot[n].watch
        /\ s.start = slot[n].start /\ s.end = slot[n].end /\ s.attempts = slot[n].attempts
    BY <1>1 DEF TypeOK, SlotRows
  <2>3. slot' = [slot EXCEPT ![n] = s] /\ slot[n].status = "processing"
    BY <1>3, <2>1 DEF CompleteSlot, HoldsLease
  <2> HIDE DEF s
  <2> QED BY <1>1, <2>2, <2>3, UpdateKeeps
<1>4. CASE /\ HoldsLease(k)
           /\ slot' = [slot EXCEPT ![n] = Failed(@)]
  <2> DEFINE s == Failed(slot[n])
  <2>2. s \in SlotRows /\ s.status = "failed" /\ s.watch = slot[n].watch
        /\ s.start = slot[n].start /\ s.end = slot[n].end /\ s.attempts = slot[n].attempts
    BY <1>1 DEF TypeOK, SlotRows, Failed
  <2>3. slot' = [slot EXCEPT ![n] = s] /\ slot[n].status = "processing"
    BY <1>4 DEF HoldsLease
  <2> HIDE DEF s
  <2> QED BY <1>1, <2>2, <2>3, UpdateKeeps
<1>5. CASE /\ HoldsLease(k)
           /\ slot' = [slot EXCEPT ![n] = [@ EXCEPT !.status = "pending", !.lease = "live"]]
  <2> DEFINE s == [slot[n] EXCEPT !.status = "pending", !.lease = "live"]
  <2>2. s \in SlotRows /\ s.status = "pending" /\ s.watch = slot[n].watch
        /\ s.start = slot[n].start /\ s.end = slot[n].end /\ s.attempts = slot[n].attempts
    BY <1>1 DEF TypeOK, SlotRows
  <2>3. slot' = [slot EXCEPT ![n] = s] /\ slot[n].status = "processing"
    BY <1>5 DEF HoldsLease
  <2> HIDE DEF s
  <2> QED BY <1>1, <2>2, <2>3, UpdateKeeps
<1> QED
  BY <1>2, <1>3, <1>4, <1>5 DEF Finish, Complete, EvaluationThrows, FailSlot

LEMMA OthersKeep ==
    ASSUME TypeOK,
           \/ \E k \in Workers : ClaimNothing(k) \/ Crash(k)
           \/ Prune \/ SetStatus \/ DeleteWatch \/ Tick \/ BecomeDue \/ Lapse
           \/ UNCHANGED vars
    PROVE  slot' \in [Slots -> SlotRows] /\ \A i \in Slots : Kept(i)
<1> USE DEF Kept, SlotRows, Outstanding, Reports, Final
<1>1. CASE slot' = slot
  BY <1>1 DEF TypeOK
<1>2. CASE slot' = Swept
  BY <1>2, SweepKeeps
<1>3. CASE Prune
  BY <1>3 DEF Prune, TypeOK
<1>4. CASE DeleteWatch
  <2>1. PICK w \in Watches :
          slot' = [i \in Slots |->
                IF slot[i].watch = w /\ slot[i].status # "none"
                THEN [slot[i] EXCEPT !.status = "deleted", !.lease = "none"] ELSE slot[i]]
    BY <1>4 DEF DeleteWatch
  <2>2. ASSUME NEW i \in Slots
        PROVE slot'[i] \in SlotRows /\ Kept(i)
    <3>0. slot[i] \in SlotRows
      BY DEF TypeOK
    <3>1. CASE slot'[i] = slot[i]
      BY <3>0, <3>1
    <3>2. CASE /\ slot[i].status # "none"
               /\ slot'[i] = [slot[i] EXCEPT !.status = "deleted", !.lease = "none"]
      <4>1. /\ slot'[i] \in SlotRows /\ slot'[i].status = "deleted"
            /\ slot'[i].watch = slot[i].watch /\ slot'[i].start = slot[i].start
            /\ slot'[i].end = slot[i].end /\ slot'[i].attempts = slot[i].attempts
            /\ slot[i].attempts \in Nat
        BY <3>0, <3>2
      <4> QED BY <3>2, <4>1
    <3> QED BY <2>1, <3>1, <3>2
  <2> QED BY <2>1, <2>2
<1>5. CASE Lapse
  BY <1>5 DEF Lapse, TypeOK
<1> QED
  BY <1>1, <1>2, <1>3, <1>4, <1>5
  DEF ClaimNothing, Crash, SetStatus, Tick, BecomeDue, vars


LEMMA StepKeeps ==
    ASSUME TypeOK, TokensIssued, [Next]_vars, \A k \in Workers : ~ClaimDue(k)
    PROVE  slot' \in [Slots -> SlotRows] /\ \A i \in Slots : Kept(i)
BY RetryKeeps, FinishKeeps, OthersKeep DEF Next, Claim

\* A due watch: an unused slot is filled behind a boundary that moves with it,
\* or no slot is inserted.
LEMMA DueKeeps ==
    ASSUME TypeOK, BoundaryBehindClock, NEW k \in Workers, ClaimDue(k)
    PROVE  /\ slot' \in [Slots -> SlotRows]
           /\ now' = now
           /\ \/ (\A i \in Slots : Kept(i)) /\ worker' = worker
              \/ \E w \in Watches, i \in Slots :
                   /\ \A j \in Slots \ {i} : Kept(j)
                   /\ slot[i].status = "none"
                   /\ slot'[i].watch = w /\ slot'[i].end = now
                   /\ slot'[i].attempts = 1
                   /\ \/ slot'[i].status = "failed" /\ worker' = worker
                      \/ /\ slot'[i].status = "processing"
                         /\ \A j \in Slots \ {i} :
                               slot'[j].watch = w => slot'[j].status \notin Outstanding
                         /\ watch[w].last # Never => watch[w].last <= slot'[i].start
                         /\ watch'[w].last = now
                         /\ worker' = [worker EXCEPT ![k] =
                               [at |-> "evaluate", slot |-> i, token |-> 1]]
<1>1. PICK w \in Watches, i \in Slots :
        /\ Due(w, Swept)
        /\ slot[i].status = "none"
        /\ \/ /\ slot' = [Swept EXCEPT ![i] = NewSlot(w, "processing")]
              /\ watch' = [watch EXCEPT ![w] = Advanced(@)]
              /\ worker' = [worker EXCEPT ![k] = [at |-> "evaluate", slot |-> i, token |-> 1]]
           \/ slot' = [Swept EXCEPT ![i] = NewSlot(w, "failed")] /\ worker' = worker
           \/ slot' = Swept /\ worker' = worker
  BY DEF ClaimDue
<1>2. WindowStart(w) \in Int /\ (watch[w].last # Never => watch[w].last <= WindowStart(w))
  BY WatchConstants DEF WindowStart, Larger, TypeOK, WatchRows, Times, Never
<1>3. NewSlot(w, "processing") \in SlotRows /\ NewSlot(w, "failed") \in SlotRows
  BY <1>2 DEF NewSlot, SlotRows, TypeOK
<1>4. now' = now
  BY DEF ClaimDue
<1>5. ASSUME NEW s \in SlotRows, slot' = [Swept EXCEPT ![i] = s]
      PROVE /\ slot' \in [Slots -> SlotRows] /\ slot'[i] = s
            /\ \A j \in Slots \ {i} : Kept(j) /\ slot'[j] = Swept[j]
  BY <1>5, SweepKeeps DEF Kept, SlotRows, Outstanding, Reports, Final
<1>6. CASE /\ slot' = [Swept EXCEPT ![i] = NewSlot(w, "processing")]
           /\ watch' = [watch EXCEPT ![w] = Advanced(@)]
           /\ worker' = [worker EXCEPT ![k] = [at |-> "evaluate", slot |-> i, token |-> 1]]
  <2>1. slot'[i] = NewSlot(w, "processing") /\ slot' \in [Slots -> SlotRows]
        /\ \A j \in Slots \ {i} : Kept(j) /\ slot'[j] = Swept[j]
    BY <1>3, <1>5, <1>6
  <2>2. watch'[w].last = now
    BY <1>6 DEF Advanced, TypeOK, WatchRows
  <2> QED
    <3>1. /\ slot'[i].watch = w /\ slot'[i].end = now /\ slot'[i].attempts = 1
          /\ slot'[i].status = "processing" /\ slot'[i].start = WindowStart(w)
      BY <2>1 DEF NewSlot
    <3>2. \A j \in Slots \ {i} : slot'[j].watch = w => slot'[j].status \notin Outstanding
      BY <1>1, <2>1 DEF Due
    <3>3. /\ \A j \in Slots \ {i} : Kept(j)
          /\ watch[w].last # Never => watch[w].last <= slot'[i].start
      BY <1>2, <2>1, <3>1
    <3> QED BY <1>1, <1>4, <1>6, <2>1, <2>2, <3>1, <3>2, <3>3
<1>7. CASE slot' = [Swept EXCEPT ![i] = NewSlot(w, "failed")] /\ worker' = worker
  <2>1. slot'[i] = NewSlot(w, "failed") /\ slot' \in [Slots -> SlotRows]
        /\ \A j \in Slots \ {i} : Kept(j)
    BY <1>3, <1>5, <1>7
  <2> QED
    BY <1>1, <1>4, <1>7, <2>1 DEF NewSlot
<1>8. CASE slot' = Swept /\ worker' = worker
  BY <1>4, <1>8, SweepKeeps DEF Kept, SlotRows, Outstanding, Reports, Final
<1> QED
  BY <1>1, <1>6, <1>7, <1>8
-------------------------------------------------------------------------------
(* The parts of the invariant.                                                *)

LEMMA SlotTypeStep ==
    ASSUME IndInv, [Next]_vars
    PROVE  slot' \in [Slots -> SlotRows]
BY StepKeeps, DueKeeps DEF IndInv

LEMMA WatchStep ==
    ASSUME TypeOK, BoundaryBehindClock, [Next]_vars
    PROVE  /\ watch' \in [Watches -> WatchRows]
           /\ now' \in Nat /\ edits' \in Nat /\ now <= now'
           /\ \A w \in Watches : /\ watch[w].last <= watch'[w].last
                                 /\ watch'[w].last <= now'
                                 /\ watch[w].last # Never => watch'[w].last # Never
<1> USE DEF TypeOK, BoundaryBehindClock
<1>0. \A w \in Watches : watch[w].last \in Int
  BY DEF WatchRows, Times, Never
<1>1. CASE UNCHANGED watch /\ now' = now /\ edits' \in Nat
  BY <1>0, <1>1
<1>2. CASE Tick
  BY <1>0, <1>2 DEF Tick
<1>3. ASSUME NEW w \in Watches, NEW row \in WatchRows,
             watch' = [watch EXCEPT ![w] = row], row.last = watch[w].last \/ row.last = now,
             now' = now, edits' \in Nat
      PROVE /\ watch' \in [Watches -> WatchRows]
            /\ now' \in Nat /\ edits' \in Nat /\ now <= now'
            /\ \A v \in Watches : /\ watch[v].last <= watch'[v].last
                                  /\ watch'[v].last <= now'
                                  /\ watch[v].last # Never => watch'[v].last # Never
  BY <1>0, <1>3 DEF Never
<1>4. ASSUME NEW k \in Workers, ClaimDue(k)
      PROVE /\ now' = now /\ edits' = edits
            /\ \E w \in Watches : watch' = [watch EXCEPT ![w] = Advanced(@)]
                                 \/ watch' = [watch EXCEPT ![w] = Quarantined(@)]
  BY <1>4 DEF ClaimDue
<1>5. \A w \in Watches : /\ Advanced(watch[w]) \in WatchRows
                          /\ Advanced(watch[w]).last = now
                          /\ Quarantined(watch[w]) \in WatchRows
                          /\ Quarantined(watch[w]).last = watch[w].last
  BY DEF Advanced, Quarantined, WatchRows, Times
<1>6. ASSUME NEW k \in Workers, ClaimDue(k)
      PROVE \E w \in Watches, row \in WatchRows :
              /\ watch' = [watch EXCEPT ![w] = row] /\ now' = now /\ edits' \in Nat
              /\ row.last = watch[w].last \/ row.last = now
  BY <1>4, <1>5, <1>6
<1>7. ASSUME SetStatus \/ DeleteWatch \/ BecomeDue
      PROVE /\ watch' \in [Watches -> WatchRows]
            /\ \A w \in Watches : watch'[w].last = watch[w].last
            /\ now' = now /\ edits' \in Nat
  <2>1. now' = now /\ edits' \in Nat
    <3>1. SetStatus => now' = now /\ edits' = edits + 1
      BY DEF SetStatus
    <3>2. DeleteWatch => now' = now /\ edits' = edits + 1
      BY DEF DeleteWatch
    <3>3. BecomeDue => now' = now /\ edits' = edits
      BY DEF BecomeDue
    <3> QED BY <1>7, <3>1, <3>2, <3>3
  <2>2. CASE SetStatus
    <3>1. PICK w \in Watches, status \in {"active", "paused"} :
            watch' = [watch EXCEPT ![w].status = status,
                                   ![w].next = IF status = "active" THEN "due" ELSE "null"]
      BY <2>2 DEF SetStatus
    <3> QED BY <2>1, <3>1 DEF WatchRows
  <2>3. CASE DeleteWatch
    <3>1. PICK w \in Watches :
            watch' = [watch EXCEPT ![w].status = "deleted", ![w].next = "null"]
      BY <2>3 DEF DeleteWatch
    <3> QED BY <2>1, <3>1 DEF WatchRows
  <2>4. CASE BecomeDue
    <3>1. PICK w \in Watches : watch' = [watch EXCEPT ![w].next = "due"]
      BY <2>4 DEF BecomeDue
    <3> QED BY <2>1, <3>1 DEF WatchRows
  <2> QED BY <1>7, <2>2, <2>3, <2>4
<1>8. CASE SetStatus \/ DeleteWatch \/ BecomeDue
  BY <1>0, <1>7, <1>8
<1> QED
  BY <1>1, <1>2, <1>3, <1>6, <1>8
  DEF Next, vars, Claim, Finish, ClaimRetry, ClaimNothing, Complete, EvaluationThrows,
      FailSlot, Crash, Prune, Lapse

\* What a step does to the workers.
LEMMA WorkerStep ==
    ASSUME IndInv, [Next]_vars
    PROVE  \/ worker' = worker
           \/ \E k \in Workers :
                \/ worker' = [worker EXCEPT ![k] = Idle]
                \/ worker[k].at # "idle" /\ worker' = [worker EXCEPT ![k].at = "failing"]
                \/ \E i \in Slots :
                     /\ slot'[i].status # "none"
                     /\ \/ slot[i].status = "none" /\ slot'[i].attempts = 1
                           /\ worker' = [worker EXCEPT ![k] =
                                 [at |-> "evaluate", slot |-> i, token |-> 1]]
                        \/ /\ slot[i].status # "none"
                           /\ slot'[i].attempts = slot[i].attempts + 1
                           /\ worker' = [worker EXCEPT ![k] =
                                 [at |-> "evaluate", slot |-> i,
                                  token |-> slot[i].attempts + 1]]
<1>1. ASSUME NEW k \in Workers, ClaimRetry(k)
      PROVE \/ worker' = worker
            \/ \E i \in Slots :
                  /\ slot'[i].status = "processing" /\ slot[i].status # "none"
                  /\ slot'[i].attempts = slot[i].attempts + 1
                  /\ worker' = [worker EXCEPT ![k] =
                        [at |-> "evaluate", slot |-> i, token |-> slot[i].attempts + 1]]
  <2>1. PICK i \in Slots :
          /\ Retryable(Swept[i])
          /\ \/ /\ slot' = [Swept EXCEPT ![i].status = "processing", ![i].lease = "live",
                                          ![i].attempts = @ + 1]
                /\ worker' = [worker EXCEPT ![k] =
                      [at |-> "evaluate", slot |-> i, token |-> slot[i].attempts + 1]]
             \/ worker' = worker
    BY <1>1 DEF ClaimRetry
  <2>2. slot[i].status # "none" /\ Swept[i].attempts = slot[i].attempts
    BY <2>1, SweepKeeps DEF IndInv, Retryable, Outstanding
  <2>3. CASE slot' = [Swept EXCEPT ![i].status = "processing", ![i].lease = "live",
                                   ![i].attempts = @ + 1]
    <3>1. slot'[i].status = "processing" /\ slot'[i].attempts = Swept[i].attempts + 1
      BY <2>3, SweepKeeps DEF IndInv, SlotRows
    <3> QED BY <2>1, <2>2, <3>1
  <2> QED BY <2>1, <2>3
<1>2. ASSUME NEW k \in Workers, ClaimDue(k)
      PROVE \/ worker' = worker
            \/ \E i \in Slots :
                  /\ slot'[i].status = "processing" /\ slot[i].status = "none"
                  /\ slot'[i].attempts = 1
                  /\ worker' = [worker EXCEPT ![k] =
                        [at |-> "evaluate", slot |-> i, token |-> 1]]
  BY <1>2, DueKeeps DEF IndInv
<1>3. ASSUME NEW k \in Workers, Finish(k) \/ Crash(k)
      PROVE \/ worker' = [worker EXCEPT ![k] = Idle]
            \/ worker[k].at # "idle" /\ worker' = [worker EXCEPT ![k].at = "failing"]
  BY <1>3 DEF Finish, Crash, Complete, EvaluationThrows, FailSlot, Released, Evaluating
<1>4. ASSUME \/ \E k \in Workers : ClaimNothing(k)
             \/ Prune \/ SetStatus \/ DeleteWatch \/ Tick \/ BecomeDue \/ Lapse
             \/ UNCHANGED vars
      PROVE worker' = worker
  BY <1>4 DEF ClaimNothing, Prune, SetStatus, DeleteWatch, Tick, BecomeDue, Lapse, vars
<1> QED
  BY <1>1, <1>2, <1>3, <1>4 DEF Next, Claim

LEMMA TypeStep ==
    ASSUME IndInv, [Next]_vars
    PROVE  TypeOK'
<1>1. slot' \in [Slots -> SlotRows]
  BY SlotTypeStep
<1>2. watch' \in [Watches -> WatchRows] /\ now' \in Nat /\ edits' \in Nat
  BY WatchStep DEF IndInv
<1>3. worker' \in [Workers -> WorkerRows]
  <2> USE DEF IndInv, TypeOK
  <2>1. Idle \in WorkerRows
    BY DEF Idle, WorkerRows
  <2>2. ASSUME NEW i \in Slots
        PROVE /\ [at |-> "evaluate", slot |-> i, token |-> 1] \in WorkerRows
              /\ [at |-> "evaluate", slot |-> i, token |-> slot[i].attempts + 1] \in WorkerRows
    BY DEF WorkerRows, SlotRows
  <2>3. ASSUME NEW k \in Workers, worker' = [worker EXCEPT ![k].at = "failing"]
        PROVE worker' \in [Workers -> WorkerRows]
    BY <2>3 DEF WorkerRows
  <2> HIDE DEF IndInv, TypeOK
  <2>4. worker \in [Workers -> WorkerRows]
    BY DEF IndInv, TypeOK
  <2> QED
    BY WorkerStep, <2>1, <2>2, <2>3, <2>4
<1> QED
  BY <1>1, <1>2, <1>3 DEF TypeOK

\* The slots, when none is inserted.
LEMMA KeptSlots ==
    ASSUME IndInv, [Next]_vars, \A i \in Slots : Kept(i)
    PROVE  OneSlotInFlight' /\ WindowsDisjoint' /\ WindowsBehindBoundary'
<1>1. OneSlotInFlight'
  BY DEF IndInv, OneSlotInFlight, Kept
<1>2. WindowsDisjoint'
  BY DEF IndInv, WindowsDisjoint, Kept
<1>3. WindowsBehindBoundary'
  <2> SUFFICES ASSUME NEW i \in Slots, slot'[i].status \in Reports
               PROVE /\ watch'[slot'[i].watch].last # Never
                     /\ slot'[i].end <= watch'[slot'[i].watch].last
    BY DEF WindowsBehindBoundary
  <2> DEFINE w == slot[i].watch
  <2>1. slot'[i].watch = w /\ slot'[i].end = slot[i].end /\ slot[i].status \in Reports
    BY DEF Kept
  <2>2. w \in Watches /\ slot[i].end \in Int /\ watch[w].last \in Int
    BY DEF IndInv, TypeOK, SlotRows, WatchRows, Times, Never
  <2>3. watch[w].last # Never /\ slot[i].end <= watch[w].last
    BY <2>1 DEF IndInv, WindowsBehindBoundary
  <2>4. watch'[w].last # Never /\ watch[w].last <= watch'[w].last /\ watch'[w].last \in Int
    BY <2>2, <2>3, WatchStep DEF IndInv, WatchRows, Times, Never
  <2> QED
    BY <2>1, <2>2, <2>3, <2>4
<1> QED
  BY <1>1, <1>2, <1>3

\* The slots, when one is inserted: every window of its watch that may be
\* reported lies behind the old boundary, where the new one starts.
LEMMA InsertedSlots ==
    ASSUME IndInv, [Next]_vars, NEW k \in Workers, ClaimDue(k)
    PROVE  OneSlotInFlight' /\ WindowsDisjoint' /\ WindowsBehindBoundary'
<1>1. CASE \A i \in Slots : Kept(i)
  BY <1>1, KeptSlots
<1>2. CASE ~(\A i \in Slots : Kept(i))
  <2>1. PICK w \in Watches, n \in Slots :
          /\ \A j \in Slots \ {n} : Kept(j)
          /\ slot'[n].watch = w /\ slot'[n].end = now
          /\ \/ slot'[n].status = "failed"
             \/ /\ slot'[n].status = "processing"
                /\ \A j \in Slots \ {n} :
                      slot'[j].watch = w => slot'[j].status \notin Outstanding
                /\ watch[w].last # Never => watch[w].last <= slot'[n].start
                /\ watch'[w].last = now
    BY <1>2, DueKeeps DEF IndInv
  <2>2. ASSUME NEW j \in Slots \ {n}, slot'[j].status \in Reports
        PROVE /\ slot[j].status \in Reports
              /\ slot'[j].watch = slot[j].watch /\ slot'[j].end = slot[j].end
              /\ slot'[j].start = slot[j].start
              /\ slot[j].watch \in Watches /\ slot[j].end \in Int /\ slot[j].start \in Int
              /\ watch[slot[j].watch].last # Never
              /\ slot[j].end <= watch[slot[j].watch].last
              /\ watch'[slot[j].watch].last # Never
              /\ slot[j].end <= watch'[slot[j].watch].last
    <3>1. /\ slot[j].status \in Reports
          /\ slot'[j].watch = slot[j].watch /\ slot'[j].end = slot[j].end
          /\ slot'[j].start = slot[j].start
      BY <2>1, <2>2 DEF Kept
    <3>2. /\ slot[j].watch \in Watches /\ slot[j].end \in Int /\ slot[j].start \in Int
          /\ watch[slot[j].watch].last \in Int
      BY DEF IndInv, TypeOK, SlotRows, WatchRows, Times, Never
    <3>3. watch[slot[j].watch].last # Never /\ slot[j].end <= watch[slot[j].watch].last
      BY <3>1 DEF IndInv, WindowsBehindBoundary
    <3>4. /\ watch'[slot[j].watch].last # Never
          /\ watch[slot[j].watch].last <= watch'[slot[j].watch].last
          /\ watch'[slot[j].watch].last \in Int
      BY <3>2, <3>3, WatchStep DEF IndInv, WatchRows, Times, Never
    <3> QED
      BY <3>1, <3>2, <3>3, <3>4
  <2>3. slot'[n].start \in Int /\ now \in Nat
    BY SlotTypeStep DEF IndInv, TypeOK, SlotRows
  <2>4. OneSlotInFlight'
    <3>1. \A i, j \in Slots \ {n} :
             /\ slot'[i].status \in Outstanding /\ slot'[j].status \in Outstanding
             /\ slot'[i].watch = slot'[j].watch
             => i = j
      BY <2>1 DEF IndInv, OneSlotInFlight, Kept
    <3>2. slot'[n].status \in Outstanding =>
             \A j \in Slots \ {n} : slot'[j].watch = slot'[n].watch
                                   => slot'[j].status \notin Outstanding
      BY <2>1 DEF Outstanding
    <3> QED
      BY <3>1, <3>2 DEF OneSlotInFlight
  <2>5. WindowsDisjoint'
    <3>1. \A i, j \in Slots \ {n} :
             /\ i # j /\ slot'[i].status \in Reports /\ slot'[j].status \in Reports
             /\ slot'[i].watch = slot'[j].watch
             => slot'[i].end <= slot'[j].start \/ slot'[j].end <= slot'[i].start
      BY <2>2 DEF IndInv, WindowsDisjoint
    <3>2. ASSUME NEW j \in Slots \ {n}, slot'[j].status \in Reports,
                 slot'[n].status \in Reports, slot'[j].watch = slot'[n].watch
          PROVE slot'[j].end <= slot'[n].start
      <4>1. slot'[n].status = "processing"
        BY <2>1, <3>2 DEF Reports, Outstanding
      <4>2. watch[w].last # Never /\ slot'[j].end <= watch[w].last
            /\ slot'[j].end \in Int /\ watch[w].last \in Int
        BY <2>1, <2>2, <3>2 DEF IndInv, TypeOK, WatchRows, Times, Never
      <4>3. watch[w].last <= slot'[n].start
        BY <2>1, <4>1, <4>2
      <4> QED
        BY <2>3, <4>2, <4>3
    <3> QED
      BY <3>1, <3>2 DEF WindowsDisjoint
  <2>6. WindowsBehindBoundary'
    <3>1. slot'[n].status \in Reports =>
             watch'[slot'[n].watch].last # Never
             /\ slot'[n].end <= watch'[slot'[n].watch].last
      BY <2>1, <2>3 DEF Reports, Outstanding, Never
    <3> QED
      BY <2>2, <3>1 DEF WindowsBehindBoundary
  <2> QED
    BY <2>4, <2>5, <2>6
<1> QED
  BY <1>1, <1>2

LEMMA TokenStep ==
    ASSUME IndInv, [Next]_vars
    PROVE  TokensIssued' /\ TokensDiffer'
<1>1. \A i \in Slots : /\ slot[i].attempts \in Nat /\ slot'[i].attempts \in Nat
                       /\ slot[i].status # "none" => /\ slot'[i].status # "none"
                                                     /\ slot'[i].attempts >= slot[i].attempts
  <2>1. \A i \in Slots : slot[i].attempts \in Nat /\ slot'[i].attempts \in Nat
    BY SlotTypeStep DEF IndInv, TypeOK, SlotRows
  <2>2. \A i \in Slots : slot[i].status # "none" => Kept(i)
    BY StepKeeps, DueKeeps DEF IndInv
  <2> QED
    BY <2>1, <2>2 DEF Kept
<1>2. \A k \in Workers : worker[k] \in WorkerRows /\ worker[k].token \in Nat
  BY DEF IndInv, TypeOK, WorkerRows
<1>3. CASE worker' = worker
  BY <1>1, <1>2, <1>3 DEF IndInv, TokensIssued, TokensDiffer
<1>4. ASSUME NEW k \in Workers,
             \/ worker' = [worker EXCEPT ![k] = Idle]
             \/ worker[k].at # "idle" /\ worker' = [worker EXCEPT ![k].at = "failing"]
      PROVE TokensIssued' /\ TokensDiffer'
  <2>1. \A l \in Workers : worker'[l].at # "idle" =>
           /\ worker[l].at # "idle"
           /\ worker'[l].slot = worker[l].slot /\ worker'[l].token = worker[l].token
    BY <1>2, <1>4 DEF IndInv, TypeOK, Idle, WorkerRows
  <2> QED
    BY <1>1, <1>2, <2>1 DEF IndInv, TokensIssued, TokensDiffer
<1>5. ASSUME NEW k \in Workers, NEW i \in Slots, NEW t \in Nat,
             slot'[i].status # "none", slot'[i].attempts = t,
             slot[i].status # "none" => t > slot[i].attempts,
             worker' = [worker EXCEPT ![k] = [at |-> "evaluate", slot |-> i, token |-> t]]
      PROVE TokensIssued' /\ TokensDiffer'
  <2>1. worker'[k].slot = i /\ worker'[k].token = t
        /\ \A l \in Workers \ {k} : worker'[l] = worker[l]
    BY <1>5 DEF IndInv, TypeOK
  <2>2. TokensIssued'
    BY <1>1, <1>2, <1>5, <2>1 DEF IndInv, TokensIssued
  <2>3. \A l \in Workers \ {k} : worker[l].at # "idle" /\ worker[l].slot = i
                                 => worker[l].token # t
    BY <1>1, <1>2, <1>5 DEF IndInv, TokensIssued
  <2>4. TokensDiffer'
    BY <2>1, <2>3 DEF IndInv, TokensDiffer
  <2> QED
    BY <2>2, <2>4
<1>6. ASSUME NEW k \in Workers, NEW i \in Slots, slot'[i].status # "none",
             \/ slot[i].status = "none" /\ slot'[i].attempts = 1
                /\ worker' = [worker EXCEPT ![k] =
                      [at |-> "evaluate", slot |-> i, token |-> 1]]
             \/ /\ slot[i].status # "none"
                /\ slot'[i].attempts = slot[i].attempts + 1
                /\ worker' = [worker EXCEPT ![k] =
                      [at |-> "evaluate", slot |-> i, token |-> slot[i].attempts + 1]]
      PROVE TokensIssued' /\ TokensDiffer'
  <2>1. slot[i].attempts \in Nat /\ slot[i].attempts + 1 \in Nat
        /\ slot[i].attempts + 1 > slot[i].attempts
    BY <1>1
  <2>2. CASE slot[i].status = "none"
    BY <1>5, <1>6, <2>2
  <2>3. CASE slot[i].status # "none"
    BY <1>5, <1>6, <2>1, <2>3
  <2> QED
    BY <2>2, <2>3
<1> QED
  BY WorkerStep, <1>3, <1>4, <1>6

LEMMA IndInvStep == IndInv /\ [Next]_vars => IndInv'
<1> SUFFICES ASSUME IndInv, [Next]_vars PROVE IndInv'
  OBVIOUS
<1>1. TypeOK'
  BY TypeStep
<1>2. OneSlotInFlight' /\ WindowsDisjoint' /\ WindowsBehindBoundary'
  <2>1. CASE \E k \in Workers : ClaimDue(k)
    BY <2>1, InsertedSlots
  <2>2. CASE \A k \in Workers : ~ClaimDue(k)
    BY <2>2, StepKeeps, KeptSlots DEF IndInv
  <2> QED
    BY <2>1, <2>2
<1>3. BoundaryBehindClock'
  BY WatchStep DEF IndInv, BoundaryBehindClock
<1>4. TokensIssued' /\ TokensDiffer'
  BY TokenStep
<1> QED
  BY <1>1, <1>2, <1>3, <1>4 DEF IndInv
-------------------------------------------------------------------------------
\* The inductive invariant holds in every reachable state.
THEOREM WatchInvariance == Spec => []IndInv
<1>1. Init => IndInv
  BY InitIndInv
<1>2. IndInv /\ [Next]_vars => IndInv'
  BY IndInvStep
<1> QED
  BY <1>1, <1>2, PTL DEF Spec

\* Rows and workers keep their types.
THEOREM WatchTypeCorrect == Spec => []TypeOK
<1>1. IndInv => TypeOK
  BY DEF IndInv
<1> QED
  BY <1>1, WatchInvariance, PTL

\* A watch never has two slots in flight (claimNextDueSlot), for any number of
\* watches, workers, slots and attempts.
THEOREM SlotsExclude == Spec => []OneSlotInFlight
<1>1. IndInv => OneSlotInFlight
  BY DEF IndInv
<1> QED
  BY <1>1, WatchInvariance, PTL

\* The windows that are or may still be reported never overlap
\* (claimNextDueSlot, the window of a slot).
THEOREM SignalsCountedOnce == Spec => []WindowsDisjoint
<1>1. IndInv => WindowsDisjoint
  BY DEF IndInv
<1> QED
  BY <1>1, WatchInvariance, PTL

\* One worker at most passes the fence of completeSlot and failSlot.
THEOREM FenceExcludes == Spec => []OneHolder
<1>1. IndInv => OneHolder
  BY DEF IndInv, TokensDiffer, OneHolder, HoldsLease
<1> QED
  BY <1>1, WatchInvariance, PTL

\* No step reopens a settled slot or turns a failure into a completion.
THEOREM SettledStays == Spec => SettledIsFinal
<1> DEFINE Step == \A i \in Slots :
                      /\ slot[i].status \in Final => slot'[i].status \in Final
                      /\ slot[i].status = "failed" => slot'[i].status # "completed"
<1>1. IndInv /\ [Next]_vars => [Step]_vars
  <2> SUFFICES ASSUME IndInv, Next PROVE Step
    OBVIOUS
  <2>1. \A i \in Slots : slot[i].status # "none" => Kept(i)
    BY StepKeeps, DueKeeps DEF IndInv
  <2> QED
    BY <2>1 DEF Kept, Final
<1> QED
  BY <1>1, WatchInvariance, PTL DEF Spec, SettledIsFinal
===============================================================================
