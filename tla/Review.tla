------------------------------- MODULE Review -------------------------------
(***************************************************************************)
(* Engineering review (review/engine.py).  A review record is immutable:   *)
(* every operation returns a new record, whose id is a hash of its root    *)
(* (snapshot, scope, policy, evidence, superseded id) and of its decisions *)
(* so far.  Records here hold those fields, so a record is its id.         *)
(***************************************************************************)
EXTENDS EvidenceGates, Sequences

ReviewSnapshot(cset, supply) ==
    [content |-> cset.content, meaning |-> cset.meaning,
     scenarios |-> cset.scenarios,
     config |-> supply.config, design |-> supply.design,
     lineage |-> supply.lineage, readiness |-> supply.readiness]

\* The references a reviewer is shown, grouped by the authority they name.
ReviewEvidence(cset, scope, supply) ==
    [ucm |-> cset.content, scope |-> scope, lineage |-> supply.lineage,
     readiness |-> supply.readiness, validation |-> supply.validation,
     formal |-> supply.formal]

ReadinessGates(cset, readiness, policy) ==
    IF readiness = None THEN Blocker(policy.require_readiness, "READINESS")
    ELSE LET ready == readiness.status = "READY" /\ ~readiness.blocked
             warned == readiness.status = "READY_WITH_WARNINGS"
             refused == policy.require_ready /\ ~policy.allow_warnings
             other == ~ready /\ ~warned
         IN Blocker(warned /\ refused, "READINESS")
            \cup Warning(warned /\ ~refused, "READINESS")
            \cup Blocker(other /\ policy.require_readiness, "READINESS")
            \cup Warning(other /\ ~policy.require_readiness, "READINESS")
            \cup Blocker(Differ(readiness.ucm, cset.content), "READINESS")
            \cup Blocker(readiness.blocked, "READINESS")
            \cup Warning(readiness.stale, "READINESS")

CoverageGates(coverage, policy) ==
    LET complete == coverage # None /\ CoverageComplete(coverage) IN
    Blocker(~complete /\ policy.require_coverage, "COVERAGE")
    \cup Warning(coverage # None /\ ~complete /\ ~policy.require_coverage, "COVERAGE")

ValidationGates(validation, policy) ==
    IF validation = None
    THEN Blocker(policy.require_validation, "VALIDATION")
         \cup Blocker(policy.require_coverage, "COVERAGE")
    ELSE LET status == validation.status
             open == status \in {"UNKNOWN", "UNSUPPORTED", "INCOMPLETE"}
         IN Warning(status \in PassedWithWarnings, "VALIDATION")
            \cup Unresolved(open, "VALIDATION", policy)
            \cup Blocker(status \notin Passed \cup PassedWithWarnings /\ ~open,
                         "VALIDATION")
            \cup IssueFindings(validation)
            \cup CoverageGates(validation.coverage, policy)

ReviewFindings(cset, scope, supply, policy) ==
    ScopeFindings(scope, policy)
    \cup LineageFindings(supply.lineage, cset)
    \cup ReadinessGates(cset, supply.readiness, policy)
    \cup ValidationGates(supply.validation, policy)
    \cup FormalFindings(supply.formal, cset, policy)

\* The statuses of the evidence groups the policy requires.
RequiredStatuses(supply, policy) ==
    LET StatusOf(evidence) == IF evidence = None THEN "MISSING" ELSE evidence.status
        coverage == IF supply.validation = None THEN None
                    ELSE supply.validation.coverage
    IN (IF policy.require_readiness THEN {StatusOf(supply.readiness)} ELSE {})
       \cup (IF policy.require_validation THEN {StatusOf(supply.validation)} ELSE {})
       \cup (IF policy.require_coverage
             THEN {IF coverage = None THEN "MISSING"
                   ELSE IF CoverageComplete(coverage) THEN "COMPLETE"
                   ELSE "INCOMPLETE"}
             ELSE {})

InitialReviewStatus(scope, supply, policy) ==
    LET required == RequiredStatuses(supply, policy) IN
    IF scope.unknown THEN "INVALID"
    ELSE IF "BLOCKED" \in required THEN "BLOCKED"
    ELSE IF "UNSUPPORTED" \in required THEN "UNSUPPORTED"
    ELSE IF "UNKNOWN" \in required THEN "UNKNOWN"
    ELSE IF "INCOMPLETE" \in required THEN "INCOMPLETE"
    ELSE "NEEDS_REVIEW"

\* create_constraint_review, and supersede_review: the superseded id enters the
\* new root id and is read by nothing else.
CreateReview(cset, policy, requested, all, supply) ==
    LET scope == Scope(cset, supply.config, requested, all)
        evidence == ReviewEvidence(cset, scope, supply)
    IN [snapshot |-> ReviewSnapshot(cset, supply), scope |-> scope,
        policy |-> policy, root |-> evidence,
        status |-> InitialReviewStatus(scope, supply, policy),
        evidence |-> evidence,
        findings |-> ReviewFindings(cset, scope, supply, policy),
        history |-> <<>>]

ReviewStale(review, cset, scope, supply) ==
    LET old == review.snapshot
        new == ReviewSnapshot(cset, supply)
    IN \/ <<old.content, old.meaning, old.scenarios>>
             # <<new.content, new.meaning, new.scenarios>>
       \/ review.scope.definition # scope.definition
       \/ Differ(old.config, new.config)
       \/ Differ(old.design, new.design)
       \/ Differ(old.lineage, new.lineage)
       \/ Differ(old.readiness, new.readiness)
       \/ supply.lineage # None /\ ~LineageMatches(supply.lineage, cset)
       \/ supply.readiness # None /\ Differ(supply.readiness.ucm, cset.content)

\* assess_constraint_review: recorded evidence counts unless some is supplied.
AssessReview(review, cset, supply) ==
    LET scope == ScopeAgain(review.scope, cset, supply.config)
        recorded == /\ supply.lineage = None
                    /\ supply.readiness = None
                    /\ supply.validation = None
                    /\ supply.formal = {}
        findings == IF recorded THEN review.findings
                    ELSE ReviewFindings(cset, scope, supply, review.policy)
        stale == ReviewStale(review, cset, scope, supply)
        status == IF stale THEN "STALE"
                  ELSE IF scope.unknown THEN "INVALID" ELSE review.status
        eligible == /\ status \in {"NEEDS_REVIEW", "DEFERRED", "REJECTED"}
                    /\ ~HasBlocker(findings)
    IN [status |-> status, stale |-> stale, findings |-> findings,
        evidence |-> IF recorded THEN review.evidence
                     ELSE ReviewEvidence(cset, scope, supply),
        approvable |-> eligible /\ ~HasWarning(findings),
        approvable_with_warnings |-> eligible /\ review.policy.allow_warnings]

Approvals == {"APPROVED", "APPROVED_WITH_WARNINGS"}

\* May this decision be taken?  Only approvals and revocations are guarded.
DecisionAllowed(review, kind, assessment) ==
    /\ kind = "APPROVE" => assessment.approvable
    /\ kind = "APPROVE_WITH_WARNINGS" => assessment.approvable_with_warnings
    /\ kind = "REVOKE" => review.status \in Approvals

ResultingStatus ==
    [APPROVE |-> "APPROVED", APPROVE_WITH_WARNINGS |-> "APPROVED_WITH_WARNINGS",
     REJECT |-> "REJECTED", DEFER |-> "DEFERRED", REVOKE |-> "REVOKED"]

\* decide_review and revoke_review return this successor.
DecideReview(review, kind, assessment) ==
    [review EXCEPT !.status = ResultingStatus[kind],
                   !.evidence = assessment.evidence,
                   !.findings = assessment.findings,
                   !.history = Append(@, kind)]
=============================================================================
