-------------------------- MODULE RollbackAdmission --------------------------
(***************************************************************************)
(* The undo of a completed action: rollback-admission-repository.ts.  The   *)
(* candidate action is admitted for rollback once, one caller claims the    *)
(* admission and calls the adapter, and the terminal ledger keeps what is   *)
(* known of it.  The repository is not yet called in the program: what a    *)
(* caller does with a claim is external.                                    *)
(*                                                                         *)
(* Expiry is judged by the clock of the process that asks (new Date()), and *)
(* those clocks may disagree, so whether a claim has expired is open at     *)
(* every question.                                                          *)
(***************************************************************************)
EXTENDS Naturals

CONSTANTS
    Actions,    \* candidate actions with a reversible, successful result
    Callers,    \* calls that try to undo one
    None

ASSUME RollbackConstants == None \notin Callers

VARIABLES
    admission,  \* rollback_admissions rows, unique on candidate_action_id
    ledger,     \* rollback_terminal_ledger rows, unique on admission_id
    caller,     \* what each caller is doing
    undone      \* external: the rollbacks the adapter performed

vars == <<admission, ledger, caller, undone>>

Outcomes      == {"rolled_back", "failed", "unknown"}
AdmissionRows == [status: {"none", "admitted", "claimed", "terminal"},
                  claim: Callers \cup {None}, token: Callers \cup {None}]
CallerRows    == [at: {"idle", "admitted", "calling", "reporting", "done"},
                  action: Actions, saw: Outcomes \cup {"none"}]

NoAdmission == [status |-> "none", claim |-> None, token |-> None]

TypeOK ==
    /\ admission \in [Actions -> AdmissionRows]
    /\ ledger \in [Actions -> Outcomes \cup {"none"}]
    /\ caller \in [Callers -> CallerRows]
    /\ undone \in [Actions -> SUBSET Callers]

Init ==
    /\ admission = [x \in Actions |-> NoAdmission]
    /\ ledger = [x \in Actions |-> "none"]
    /\ caller \in [Callers -> [at: {"idle"}, action: Actions, saw: {"none"}]]
    /\ undone = [x \in Actions |-> {}]

At(c, point) == caller[c].at = point
Goto(c, point) == caller' = [caller EXCEPT ![c].at = point]

\* admit: INSERT ... ON CONFLICT DO NOTHING; a terminal one is handed back.
Admit(c) ==
    LET x == caller[c].action IN
    /\ At(c, "idle")
    /\ admission' = IF admission[x] = NoAdmission
                    THEN [admission EXCEPT ![x].status = "admitted"] ELSE admission
    /\ Goto(c, IF ledger[x] = "none" THEN "admitted" ELSE "done")
    /\ UNCHANGED <<ledger, undone>>

\* Mutant: an expired claim may be taken over.
ClaimableAgain(x) == ledger[x] = "none" /\ admission[x].status \in {"admitted", "claimed"}

Claimable(x) == ledger[x] = "none" /\ admission[x].status = "admitted"

\* claim, won: the authority is drawn once.
Claim(c) ==
    LET x == caller[c].action IN
    /\ At(c, "admitted")
    /\ Claimable(x)
    /\ admission' = [admission EXCEPT ![x] = [status |-> "claimed", claim |-> c, token |-> c]]
    /\ Goto(c, "calling")
    /\ UNCHANGED <<ledger, undone>>

\* Mutant: an expired claim is called a failure.
FailedAtExpiry == "failed"

OutcomeAtExpiry == "unknown"

\* claim, of one that somebody else holds past its expiry: the outcome will
\* never be known.
ClaimExpired(c) ==
    LET x == caller[c].action IN
    /\ At(c, "admitted")
    /\ ledger[x] = "none"
    /\ admission[x].status = "claimed"
    /\ ledger' = [ledger EXCEPT ![x] = OutcomeAtExpiry]
    /\ admission' = [admission EXCEPT ![x].status = "terminal"]
    /\ Goto(c, "done")
    /\ UNCHANGED undone

\* claim, busy or already terminal.
ClaimRefused(c) ==
    LET x == caller[c].action IN
    /\ At(c, "admitted")
    /\ ledger[x] # "none" \/ admission[x].status \in {"claimed", "terminal"}
    /\ Goto(c, "done")
    /\ UNCHANGED <<admission, ledger, undone>>

\* External: the holder calls the adapter, which undoes the action or not.
CallAdapter(c) ==
    LET x == caller[c].action IN
    /\ At(c, "calling")
    /\ \/ /\ undone' = [undone EXCEPT ![x] = @ \cup {c}]
          /\ \E saw \in {"rolled_back", "unknown"} :
                caller' = [caller EXCEPT ![c].at = "reporting", ![c].saw = saw]
       \/ /\ \E saw \in {"failed", "unknown"} :
                caller' = [caller EXCEPT ![c].at = "reporting", ![c].saw = saw]
          /\ UNCHANGED undone
    /\ UNCHANGED <<admission, ledger>>

OwnsClaim(c) ==
    LET x == caller[c].action IN
    /\ ledger[x] = "none"
    /\ admission[x].status = "claimed"
    /\ admission[x].token = c

\* Mutant: the lifecycle is left as it is.
Settled(row) == [row EXCEPT !.token = None]

Terminal(row) == [row EXCEPT !.status = "terminal", !.token = None]

\* terminalizeClaim with the token, unexpired.
TerminalizeClaim(c) ==
    LET x == caller[c].action IN
    /\ At(c, "reporting")
    /\ OwnsClaim(c)
    /\ admission' = [admission EXCEPT ![x] = Terminal(@)]
    /\ ledger' = [ledger EXCEPT ![x] = caller[c].saw]
    /\ Goto(c, "done")
    /\ UNCHANGED undone

\* terminalizeClaim too late: it throws, or hands back the row that is there.
TerminalizeRefused(c) ==
    /\ At(c, "reporting")
    /\ Goto(c, "done")
    /\ UNCHANGED <<admission, ledger, undone>>

\* The caller dies.
Crash(c) ==
    /\ caller[c].at \in {"admitted", "calling", "reporting"}
    /\ Goto(c, "done")
    /\ UNCHANGED <<admission, ledger, undone>>

Next ==
    \E c \in Callers :
        \/ Admit(c) \/ Claim(c) \/ ClaimExpired(c) \/ ClaimRefused(c) \/ CallAdapter(c)
        \/ TerminalizeClaim(c) \/ TerminalizeRefused(c) \/ Crash(c)

Spec == Init /\ [][Next]_vars

(***************************************************************************)
(* What must hold.                                                         *)
(***************************************************************************)
OneShot == INSTANCE OneShotEffect WITH
    Decisions <- Actions,
    Requests  <- Callers,
    holder    <- [x \in Actions |-> admission[x].claim],
    acted     <- undone

\* An action is undone once at most, by the caller that won the claim, although
\* claims expire while the holder is at work.
UndoneOnce == OneShot!Spec

\* The ledger never says that an action was undone when it was not, or that it
\* was not when it was: the late holder of an expired claim cannot report.
LedgerTellsTheTruth ==
    \A x \in Actions :
        /\ ledger[x] = "rolled_back" => undone[x] # {}
        /\ ledger[x] = "failed" => undone[x] = {}

\* The lifecycle and the ledger end together, and what the ledger says is final.
EndsOnce ==
    [][\A x \in Actions :
          /\ ledger[x] # "none" => ledger'[x] = ledger[x]
          /\ (ledger'[x] # "none") <=> (admission'[x].status = "terminal")]_vars
=============================================================================
