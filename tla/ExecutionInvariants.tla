------------------------- MODULE ExecutionInvariants -------------------------
(***************************************************************************)
(* The inductive strengthening of the safety properties of ExecutionRoutes.*)
(* It is stated apart so that TLC can check it and TLAPS can use it.       *)
(***************************************************************************)
EXTENDS ExecutionRefinement

\* A claimed receipt names a request of the ingest route on its own decision,
\* a barrier one of the approval route; and the two never coexist.
AuthoritiesExclude ==
    \A d \in Decisions :
        /\ guard[d].plan # NoPlan =>
              /\ route[guard[d].plan] = "ingest"
              /\ dec[guard[d].plan] = d
              /\ guard[d].state \in {"running", "completed", "failed"}
              /\ barrier[d] = NoBarrier
        /\ barrier[d] # NoBarrier =>
              /\ route[barrier[d].plan] = "respond"
              /\ dec[barrier[d].plan] = d
              /\ barrier[d].plan # NoPlan
              /\ guard[d].state = "non_effect"
              /\ guard[d].plan = NoPlan
              /\ approval[d].status = "approved"
              /\ ~approval[d].denied

\* A lease was granted to the holder of the decision's authority, of an
\* account that still exists; and the holder never loses the authority.
LeasesHoldAuthority ==
    \A r \in Requests : lease[r] # "none" =>
        owner /\ (guard[dec[r]].plan = r \/ barrier[dec[r]].plan = r)

\* What the ledger's own transactions preserve.
LedgerInv == LedgerTypeOK /\ AuthoritiesExclude /\ LeasesHoldAuthority

\* As long as the account exists, an effect has its lease.
EffectsHaveLeases == \A r \in sent : owner => lease[r] # "none"

\* A request about to call its adapter, or waiting for it, has an unresolved
\* lease.  Until it calls, it has not acted.
CallersHoldLeases ==
    \A r \in Requests :
        pc[r] \in {"call", "await", "settle"} => lease[r] \in Unresolved

\* Unchanged revisions prove that what was read is still what is stored.
RevisionsFence ==
    \A r \in Requests :
        /\ local[r].userRev <= userRev
        /\ local[r].polRev <= polRev
        /\ /\ owner
           /\ pc[r] \in {"read_revision", "read_policies", "decide", "start"}
           /\ local[r].userRev = userRev
           => local[r].settings = settings
        /\ /\ owner
           /\ pc[r] \in {"decide", "start"}
           /\ NeedsRevision(r)
           /\ local[r].userRev = userRev
           /\ local[r].polRev = polRev
           => local[r].verdict = Evaluate(settings, policies)

\* A request only asks for its lease with a verdict that permits its route.
StartersArePermitted ==
    \A r \in Requests : pc[r] = "start" =>
        /\ local[r].phase = "dispatch"
        /\ route[r] = "ingest" => local[r].verdict = "auto"
        /\ route[r] = "respond" => Allowed(local[r].verdict) /\ local[r].settings # "paused"

\* A request writes an outcome only when it knows one.
Writing == {"plan_status", "create_result", "mark_terminal", "finalize"}

WritersKnowTheOutcome ==
    \A r \in Requests : pc[r] \in Writing => local[r].outcome \in Terminal

\* What the requests' own steps preserve.
ProcessInv ==
    /\ ProcessTypeOK
    /\ CallersHoldLeases
    /\ RevisionsFence
    /\ StartersArePermitted
    /\ WritersKnowTheOutcome

\* The inductive invariant: AtMostOneEffect follows from itself only together
\* with the exclusion of authorities, the leases that prove them and the
\* revisions that fence the grant of a lease.
IndInv ==
    /\ LedgerInv
    /\ ProcessInv
    /\ EffectsHaveLeases
    /\ AtMostOneEffect

(***************************************************************************)
(* What the invariant is extended by, for the truth of the ledgers and for *)
(* dual confirmation.                                                      *)
(***************************************************************************)

\* A request that has not been granted its lease, or was refused it, has none:
\* what an abort closes as failed was never sent.
Unleased == {"idle", "interpret", "capture", "approval", "prepare", "first_confirm", "reject",
             "read_user", "read_revision", "read_policies", "decide", "start", "abort"}

AbortersHaveNoLease == \A r \in Requests : pc[r] \in Unleased => lease[r] = "none"

\* A request that waits for its adapter, or has its answer, has called it.
AnswersFollowCalls == \A r \in Requests : pc[r] \in {"await", "settle"} => r \in sent

\* A request that knows the outcome has read it off its own settled lease.
Knows(r) == pc[r] \in Writing \/ (pc[r] = "observe" /\ local[r].outcome \in Terminal)

KnownIsRecorded ==
    \A r \in Requests :
        owner /\ Knows(r) => r \in sent /\ lease[r] = local[r].outcome

\* An ingesting request keeps its receipt running until it has written the rest.
Ingesting == {"call", "await", "settle", "plan_status", "create_result", "mark_terminal"}

ReceiptsWait ==
    \A r \in Requests :
        owner /\ route[r] = "ingest" /\ pc[r] \in Ingesting =>
            guard[dec[r]].plan = r /\ guard[dec[r]].state = "running"

TruthInv ==
    /\ AbortersHaveNoLease
    /\ AnswersFollowCalls
    /\ KnownIsRecorded
    /\ ReceiptsWait
    /\ LedgersTellTheTruth

\* While an answer is being evaluated, before it is recorded, its row exists, and
\* has its first confirmation if it needs two; a purged owner has no rows.
Answering(r) ==
    /\ pc[r] \in {"read_user", "read_revision", "read_policies", "decide"}
    /\ local[r].phase = "preflight"

AnswersAreConfirmed ==
    \A r \in Requests : owner /\ Answering(r) =>
        /\ approval[dec[r]] # NoApproval
        /\ approval[dec[r]].level = "dual" => approval[dec[r]].first # "none"

PurgedHaveNoApprovals == ~owner => \A d \in Decisions : approval[d] = NoApproval

ConsentInv == AnswersAreConfirmed /\ PurgedHaveNoApprovals /\ DualNeedsTwoConfirmations

\* Everything that is proved invariant of the two routes.
RouteInv == IndInv /\ TruthInv /\ ConsentInv /\ OneUnresolvedPerProvider
=============================================================================
