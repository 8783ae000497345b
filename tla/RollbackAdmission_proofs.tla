----------------------- MODULE RollbackAdmission_proofs -----------------------
(***************************************************************************)
(* Proofs about RollbackAdmission, for any sets of actions and callers.     *)
(*                                                                         *)
(* The inductive invariant says who may still change what: a claim names    *)
(* its winner for ever, only the winner is ever between the claim and its   *)
(* report, and a definite outcome is in the ledger only when the winner is  *)
(* done.                                                                    *)
(***************************************************************************)
EXTENDS RollbackAdmission, TLAPS

\* A row and the ledger agree, and the claim names the only undoer.
RowsAgree ==
    \A x \in Actions :
        /\ admission[x].status \in {"none", "admitted"}
              => admission[x].claim = None /\ undone[x] = {}
        /\ admission[x].status \in {"claimed", "terminal"} => admission[x].claim # None
        /\ admission[x].status = "claimed" => admission[x].token = admission[x].claim
        /\ (ledger[x] # "none") <=> (admission[x].status = "terminal")
        /\ \A c \in undone[x] : c = admission[x].claim

\* Whoever calls the adapter or has its answer won the claim, and knows what it saw.
HoldersKnow ==
    \A c \in Callers :
        LET x == caller[c].action IN
        /\ caller[c].at \in {"calling", "reporting"} => admission[x].claim = c
        /\ caller[c].at = "calling" => undone[x] = {}
        /\ caller[c].at = "reporting" =>
              /\ caller[c].saw # "none"
              /\ caller[c].saw = "rolled_back" => undone[x] # {}
              /\ caller[c].saw = "failed" => undone[x] = {}

\* A definite outcome was reported by the winner, who does nothing any more.
DefiniteIsOver ==
    \A x \in Actions :
        ledger[x] \in {"rolled_back", "failed"} =>
            \A c \in Callers :
                caller[c].action = x => caller[c].at \notin {"calling", "reporting"}

IndInv == TypeOK /\ RowsAgree /\ HoldersKnow /\ DefiniteIsOver /\ LedgerTellsTheTruth

LEMMA InitIndInv == Init => IndInv
BY RollbackConstants
DEF Init, IndInv, TypeOK, RowsAgree, HoldersKnow, DefiniteIsOver, LedgerTellsTheTruth,
    AdmissionRows, CallerRows, NoAdmission, Outcomes

LEMMA TypeStep == TypeOK /\ [Next]_vars => TypeOK'
<1> SUFFICES ASSUME TypeOK, [Next]_vars PROVE TypeOK'
  OBVIOUS
<1> USE DEF TypeOK, AdmissionRows, CallerRows, Outcomes, At, Goto
<1>1. CASE UNCHANGED vars
  BY <1>1 DEF vars
<1>2. ASSUME NEW c \in Callers, Admit(c) PROVE TypeOK'
  BY <1>2 DEF Admit
<1>3. ASSUME NEW c \in Callers, Claim(c) PROVE TypeOK'
  BY <1>3 DEF Claim
<1>4. ASSUME NEW c \in Callers, ClaimExpired(c) PROVE TypeOK'
  BY <1>4 DEF ClaimExpired, OutcomeAtExpiry
<1>5. ASSUME NEW c \in Callers, ClaimRefused(c) PROVE TypeOK'
  BY <1>5 DEF ClaimRefused
<1>6. ASSUME NEW c \in Callers, CallAdapter(c) PROVE TypeOK'
  <2>1. undone' \in [Actions -> SUBSET Callers]
    <3>1. caller[c].action \in Actions
      OBVIOUS
    <3>2. undone[caller[c].action] \cup {c} \in SUBSET Callers
      BY <3>1
    <3>3. CASE undone' = [undone EXCEPT ![caller[c].action] = @ \cup {c}]
      BY <3>1, <3>2, <3>3
    <3>4. CASE undone' = undone
      BY <3>4
    <3> QED BY <1>6, <3>3, <3>4 DEF CallAdapter
  <2>2. PICK saw \in Outcomes :
          caller' = [caller EXCEPT ![c].at = "reporting", ![c].saw = saw]
    BY <1>6 DEF CallAdapter
  <2> QED BY <1>6, <2>1, <2>2 DEF CallAdapter
<1>7. ASSUME NEW c \in Callers, TerminalizeClaim(c) PROVE TypeOK'
  BY <1>7 DEF TerminalizeClaim, Terminal
<1>8. ASSUME NEW c \in Callers, TerminalizeRefused(c) PROVE TypeOK'
  BY <1>8 DEF TerminalizeRefused
<1>9. ASSUME NEW c \in Callers, Crash(c) PROVE TypeOK'
  BY <1>9 DEF Crash
<1> QED
  BY <1>1, <1>2, <1>3, <1>4, <1>5, <1>6, <1>7, <1>8, <1>9 DEF Next

LEMMA IndInvStep == IndInv /\ [Next]_vars => IndInv'
<1> SUFFICES ASSUME IndInv, [Next]_vars PROVE IndInv'
  OBVIOUS
<1>0. TypeOK'
  BY TypeStep DEF IndInv
<1> USE RollbackConstants DEF IndInv, At, Goto
<1>1. CASE UNCHANGED vars
  BY <1>1 DEF vars, TypeOK, RowsAgree, HoldersKnow, DefiniteIsOver, LedgerTellsTheTruth
<1> DEFINE Rest == RowsAgree /\ HoldersKnow /\ DefiniteIsOver /\ LedgerTellsTheTruth
<1> USE DEF TypeOK, AdmissionRows, CallerRows, Outcomes
<1>2. ASSUME NEW c \in Callers, Admit(c) PROVE Rest'
  <2>1. RowsAgree' /\ LedgerTellsTheTruth'
    BY <1>0, <1>2 DEF Admit, RowsAgree, LedgerTellsTheTruth, NoAdmission
  <2>2. HoldersKnow'
    BY <1>0, <1>2 DEF Admit, HoldersKnow, RowsAgree, NoAdmission
  <2>3. DefiniteIsOver'
    BY <1>0, <1>2 DEF Admit, DefiniteIsOver
  <2> QED BY <2>1, <2>2, <2>3
<1>3. ASSUME NEW c \in Callers, Claim(c) PROVE Rest'
  <2>1. RowsAgree' /\ LedgerTellsTheTruth'
    BY <1>0, <1>3 DEF Claim, Claimable, RowsAgree, LedgerTellsTheTruth
  <2>2. HoldersKnow'
    BY <1>0, <1>3 DEF Claim, Claimable, HoldersKnow, RowsAgree
  <2>3. DefiniteIsOver'
    BY <1>0, <1>3 DEF Claim, Claimable, DefiniteIsOver
  <2> QED BY <2>1, <2>2, <2>3
<1>4. ASSUME NEW c \in Callers, ClaimExpired(c) PROVE Rest'
  <2>1. RowsAgree' /\ LedgerTellsTheTruth'
    BY <1>0, <1>4 DEF ClaimExpired, OutcomeAtExpiry, RowsAgree, LedgerTellsTheTruth
  <2>2. HoldersKnow'
    BY <1>0, <1>4 DEF ClaimExpired, HoldersKnow, RowsAgree
  <2>3. DefiniteIsOver'
    BY <1>0, <1>4 DEF ClaimExpired, OutcomeAtExpiry, DefiniteIsOver
  <2> QED BY <2>1, <2>2, <2>3
<1>5. ASSUME NEW c \in Callers, ClaimRefused(c) PROVE Rest'
  BY <1>0, <1>5 DEF ClaimRefused, RowsAgree, HoldersKnow, DefiniteIsOver, LedgerTellsTheTruth
<1>6. ASSUME NEW c \in Callers, CallAdapter(c) PROVE Rest'
  <2>0. /\ caller[c].action \in Actions
        /\ admission' = admission /\ ledger' = ledger
        /\ admission[caller[c].action].claim = c
        /\ ledger[caller[c].action] \notin {"rolled_back", "failed"}
        /\ \/ undone' = [undone EXCEPT ![caller[c].action] = @ \cup {c}]
           \/ undone' = undone
    BY <1>6 DEF CallAdapter, HoldersKnow, DefiniteIsOver
  <2>1. RowsAgree' /\ LedgerTellsTheTruth'
    <3>1. CASE undone' = undone
      BY <2>0, <3>1 DEF RowsAgree, LedgerTellsTheTruth
    <3>2. CASE undone' = [undone EXCEPT ![caller[c].action] = @ \cup {c}]
      <4>1. \A x \in Actions : undone'[x] = IF x = caller[c].action THEN undone[x] \cup {c}
                                            ELSE undone[x]
        BY <2>0, <3>2
      <4>2. admission[caller[c].action].status \notin {"none", "admitted"}
        BY <2>0 DEF RowsAgree
      <4>3. RowsAgree'
        <5> SUFFICES ASSUME NEW x \in Actions
                     PROVE /\ admission[x].status \in {"none", "admitted"} => undone'[x] = {}
                           /\ \A d \in undone'[x] : d = admission[x].claim
          BY <2>0 DEF RowsAgree
        <5>1. CASE x = caller[c].action
          BY <2>0, <4>1, <4>2, <5>1 DEF RowsAgree
        <5>2. CASE x # caller[c].action
          BY <4>1, <5>2 DEF RowsAgree
        <5> QED BY <5>1, <5>2
      <4>4. LedgerTellsTheTruth'
        BY <2>0, <4>1 DEF LedgerTellsTheTruth
      <4> QED BY <4>3, <4>4
    <3> QED BY <2>0, <3>1, <3>2
  <2>2. HoldersKnow'
    <3>1. \A d \in Callers \ {c} : caller'[d] = caller[d]
      BY <1>6 DEF CallAdapter
    <3>2. \A d \in Callers \ {c} : caller[d].at \in {"calling", "reporting"}
                                      => caller[d].action # caller[c].action
      BY <2>0 DEF HoldersKnow
    <3>3. \A x \in Actions : x # caller[c].action => undone'[x] = undone[x]
      BY <2>0
    <3>4. /\ caller'[c].at = "reporting"
          /\ caller'[c].action = caller[c].action
          /\ \/ caller'[c].saw \in {"rolled_back", "unknown"} /\ c \in undone'[caller[c].action]
             \/ caller'[c].saw \in {"failed", "unknown"} /\ undone'[caller[c].action] = {}
      BY <2>0, <1>6 DEF CallAdapter, HoldersKnow
    <3>5. ASSUME NEW d \in Callers \ {c}
          PROVE LET x == caller'[d].action IN
                /\ caller'[d].at \in {"calling", "reporting"} => admission'[x].claim = d
                /\ caller'[d].at = "calling" => undone'[x] = {}
                /\ caller'[d].at = "reporting" =>
                      /\ caller'[d].saw # "none"
                      /\ caller'[d].saw = "rolled_back" => undone'[x] # {}
                      /\ caller'[d].saw = "failed" => undone'[x] = {}
      BY <2>0, <3>1, <3>2, <3>3 DEF HoldersKnow
    <3> QED BY <2>0, <3>4, <3>5 DEF HoldersKnow
  <2>3. DefiniteIsOver'
    BY <1>0, <1>6 DEF CallAdapter, DefiniteIsOver
  <2> QED BY <2>1, <2>2, <2>3
<1>7. ASSUME NEW c \in Callers, TerminalizeClaim(c) PROVE Rest'
  <2>1. RowsAgree' /\ LedgerTellsTheTruth'
    BY <1>0, <1>7
    DEF TerminalizeClaim, OwnsClaim, Terminal, RowsAgree, HoldersKnow, LedgerTellsTheTruth
  <2>2. HoldersKnow'
    BY <1>0, <1>7 DEF TerminalizeClaim, OwnsClaim, Terminal, HoldersKnow, RowsAgree
  <2>3. DefiniteIsOver'
    BY <1>0, <1>7 DEF TerminalizeClaim, OwnsClaim, Terminal, DefiniteIsOver, HoldersKnow
  <2> QED BY <2>1, <2>2, <2>3
<1>8. ASSUME NEW c \in Callers, TerminalizeRefused(c) PROVE Rest'
  BY <1>0, <1>8 DEF TerminalizeRefused, RowsAgree, HoldersKnow, DefiniteIsOver, LedgerTellsTheTruth
<1>9. ASSUME NEW c \in Callers, Crash(c) PROVE Rest'
  BY <1>0, <1>9 DEF Crash, RowsAgree, HoldersKnow, DefiniteIsOver, LedgerTellsTheTruth
<1> QED
  BY <1>0, <1>1, <1>2, <1>3, <1>4, <1>5, <1>6, <1>7, <1>8, <1>9 DEF Next

\* The inductive invariant holds in every reachable state.
THEOREM RollbackInvariance == Spec => []IndInv
<1>1. Init => IndInv
  BY InitIndInv
<1>2. IndInv /\ [Next]_vars => IndInv'
  BY IndInvStep
<1> QED
  BY <1>1, <1>2, PTL DEF Spec

\* Rows, callers and the adapter's record keep their types.
THEOREM RollbackTypeCorrect == Spec => []TypeOK
<1>1. IndInv => TypeOK
  BY DEF IndInv
<1> QED
  BY <1>1, RollbackInvariance, PTL

\* The terminal ledger never contradicts what the adapter did (claim,
\* terminalizeClaim), however many callers and however late.
THEOREM LedgerIsTrue == Spec => []LedgerTellsTheTruth
<1>1. IndInv => LedgerTellsTheTruth
  BY DEF IndInv
<1> QED
  BY <1>1, RollbackInvariance, PTL

LEMMA LedgerStays ==
    ASSUME IndInv, Next
    PROVE  \A x \in Actions : ledger[x] # "none" => ledger'[x] = ledger[x]
<1> USE DEF IndInv, TypeOK
<1>1. ASSUME NEW c \in Callers,
             \/ Admit(c) \/ Claim(c) \/ ClaimRefused(c) \/ CallAdapter(c)
             \/ TerminalizeRefused(c) \/ Crash(c)
      PROVE ledger' = ledger
  BY <1>1 DEF Admit, Claim, ClaimRefused, CallAdapter, TerminalizeRefused, Crash
<1>2. ASSUME NEW c \in Callers, ClaimExpired(c) \/ TerminalizeClaim(c)
      PROVE \A x \in Actions : ledger[x] # "none" => ledger'[x] = ledger[x]
  BY <1>2 DEF ClaimExpired, TerminalizeClaim, OwnsClaim
<1> QED
  BY <1>1, <1>2 DEF Next

\* The ledger's word is final and the lifecycle ends with it, in every step.
THEOREM LedgerEndsOnce == Spec => EndsOnce
<1> DEFINE Step == \A x \in Actions :
                      /\ ledger[x] # "none" => ledger'[x] = ledger[x]
                      /\ (ledger'[x] # "none") <=> (admission'[x].status = "terminal")
<1>1. IndInv /\ IndInv' /\ [Next]_vars => [Step]_vars
  <2> SUFFICES ASSUME IndInv, IndInv', Next PROVE Step
    OBVIOUS
  <2>1. \A x \in Actions : (ledger'[x] # "none") <=> (admission'[x].status = "terminal")
    BY DEF IndInv, RowsAgree
  <2> QED
    BY <2>1, LedgerStays
<1> QED
  BY <1>1, RollbackInvariance, PTL DEF Spec, EndsOnce

LEMMA RollbackInitRefines == Init => OneShot!Init
BY DEF Init, OneShot!Init, NoAdmission

LEMMA RollbackStepRefines ==
    ASSUME IndInv, Next
    PROVE  OneShot!Next \/ UNCHANGED OneShot!effects
<1> DEFINE Holder == [x \in Actions |-> admission[x].claim]
<1> USE RollbackConstants DEF IndInv, TypeOK, AdmissionRows, CallerRows
<1>1. ASSUME NEW c \in Callers,
             \/ ClaimRefused(c) \/ TerminalizeRefused(c) \/ Crash(c)
      PROVE UNCHANGED OneShot!effects
  BY <1>1 DEF ClaimRefused, TerminalizeRefused, Crash, OneShot!effects
<1>2. ASSUME NEW c \in Callers, Admit(c) \/ ClaimExpired(c) \/ TerminalizeClaim(c)
      PROVE UNCHANGED OneShot!effects
  <2>1. \A x \in Actions : admission'[x].claim = admission[x].claim
    <3>1. CASE Admit(c)
      BY <3>1 DEF Admit
    <3>2. CASE ClaimExpired(c)
      BY <3>2 DEF ClaimExpired
    <3>3. CASE TerminalizeClaim(c)
      BY <3>3 DEF TerminalizeClaim, Terminal
    <3> QED BY <1>2, <3>1, <3>2, <3>3
  <2>2. undone' = undone
    BY <1>2 DEF Admit, ClaimExpired, TerminalizeClaim
  <2> QED
    BY <2>1, <2>2 DEF OneShot!effects
<1>3. ASSUME NEW c \in Callers, Claim(c) PROVE OneShot!Next
  <2> DEFINE x == caller[c].action
  <2>1. x \in Actions /\ admission[x].claim = None /\ undone[x] = {}
    BY <1>3 DEF Claim, Claimable, RowsAgree
  <2>2. \A y \in Actions : admission'[y].claim = IF y = x THEN c ELSE admission[y].claim
    BY <1>3, <2>1 DEF Claim
  <2>3. [y \in Actions |-> admission'[y].claim] = [Holder EXCEPT ![x] = c]
    BY <2>1, <2>2
  <2>4. undone' = undone
    BY <1>3 DEF Claim
  <2>5. OneShot!Grant(x, c)
    BY <2>1, <2>3, <2>4 DEF OneShot!Grant
  <2> QED
    BY <2>1, <2>5 DEF OneShot!Next
<1>4. ASSUME NEW c \in Callers, CallAdapter(c)
      PROVE OneShot!Next \/ UNCHANGED OneShot!effects
  <2> DEFINE x == caller[c].action
  <2>1. x \in Actions /\ admission[x].claim = c /\ undone[x] = {} /\ admission' = admission
    BY <1>4 DEF CallAdapter, At, HoldersKnow
  <2>2. CASE undone' = undone
    BY <2>1, <2>2 DEF OneShot!effects
  <2>3. CASE undone' = [undone EXCEPT ![x] = @ \cup {c}]
    <3>1. undone' = [undone EXCEPT ![x] = {Holder[x]}]
      BY <2>1, <2>3
    <3>2. OneShot!Act(x)
      BY <2>1, <3>1 DEF OneShot!Act
    <3> QED
      BY <2>1, <3>2 DEF OneShot!Next
  <2> QED
    BY <1>4, <2>2, <2>3 DEF CallAdapter
<1> QED
  BY <1>1, <1>2, <1>3, <1>4 DEF Next

\* Claim and adapter call together implement the one-shot effect: an action is
\* undone once at most, by the one caller that won its claim.
THEOREM UndoIsOneShot == Spec => UndoneOnce
<1>1. Init => OneShot!Init
  BY RollbackInitRefines
<1>2. IndInv /\ [Next]_vars => [OneShot!Next]_(OneShot!effects)
  <2>1. CASE Next
    BY <2>1, RollbackStepRefines
  <2>2. CASE UNCHANGED vars
    BY <2>2 DEF vars, OneShot!effects
  <2> QED
    BY <2>1, <2>2
<1> QED
  BY <1>1, <1>2, RollbackInvariance, PTL DEF Spec, UndoneOnce, OneShot!Spec
===============================================================================
