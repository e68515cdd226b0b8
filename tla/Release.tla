------------------------------ MODULE Release ------------------------------
(***************************************************************************)
(* Release control (release/engine.py).  As with reviews, a record is its  *)
(* id: root, baseline and decisions.  A supply may also hold a review as   *)
(* [record, status]: status is the record's own, or an assessment's.       *)
(***************************************************************************)
EXTENDS Review

ReleaseSnapshot(cset, review, supply) ==
    [content |-> cset.content, meaning |-> cset.meaning,
     scenarios |-> cset.scenarios,
     review |-> IF review = None THEN None ELSE review.record,
     config |-> supply.config, design |-> supply.design,
     lineage |-> supply.lineage, readiness |-> supply.readiness,
     validation |-> supply.validation,
     formal |-> IF supply.formal = {} THEN None ELSE supply.formal]

\* Evidence references and dependencies of a release.
ReleaseEvidence(cset, scope, review, supply) ==
    [snapshot |-> ReleaseSnapshot(cset, review, supply), scope |-> scope,
     review |-> IF review = None THEN None ELSE review.status,
     sdc |-> supply.sdc]

ContextGate(supply, policy) ==
    Blocker(policy.require_config /\ supply.config = None, "CONFIGURATION")
    \cup Blocker(policy.require_design /\ supply.design = None, "DESIGN")

\* Mutant: a review of fewer scenarios will do.
ReviewGateOfPart(cset, scope, policy, review) ==
    IF review = None THEN Blocker(policy.require_review, "REVIEW")
    ELSE LET bound == review.record.snapshot.content = cset.content
             tolerated == /\ review.status = "APPROVED_WITH_WARNINGS"
                          /\ policy.allow_review_with_warnings
         IN Blocker(~bound \/ ~(review.status = "APPROVED" \/ tolerated), "REVIEW")
            \cup Warning(bound /\ tolerated, "REVIEW")

ReviewGate(cset, scope, policy, review) ==
    IF review = None THEN Blocker(policy.require_review, "REVIEW")
    ELSE LET bound == /\ review.record.snapshot.content = cset.content
                      /\ scope.covered \subseteq review.record.scope.covered
                      /\ review.record.scope.definition = scope.definition
             tolerated == /\ review.status = "APPROVED_WITH_WARNINGS"
                          /\ policy.allow_review_with_warnings
         IN Blocker(~bound \/ ~(review.status = "APPROVED" \/ tolerated), "REVIEW")
            \cup Warning(bound /\ tolerated, "REVIEW")

ReadinessGate(cset, policy, readiness) ==
    IF readiness = None THEN Blocker(policy.require_readiness, "READINESS")
    ELSE LET stale == readiness.stale \/ Differ(readiness.ucm, cset.content) IN
         Blocker(stale, "READINESS")
         \cup Unresolved(/\ ~stale
                         /\ policy.require_readiness
                         /\ readiness.status \notin policy.readiness_statuses,
                         "READINESS", policy)
         \cup Blocker(readiness.blocked, "READINESS")
         \cup Warning(readiness.warned, "READINESS")

ValidationGate(policy, validation) ==
    IF validation = None
    THEN Blocker(policy.require_validation, "VALIDATION")
         \cup Blocker(policy.require_coverage, "COVERAGE")
    ELSE Warning(validation.status \in PassedWithWarnings, "VALIDATION")
         \cup Unresolved(/\ validation.status \notin Passed \cup PassedWithWarnings
                         /\ policy.require_validation,
                         "VALIDATION", policy)
         \cup IssueFindings(validation)
         \cup CoverageGates(validation.coverage, policy)

LineageGate(cset, policy, lineage) ==
    Blocker(lineage = None /\ policy.require_lineage, "LINEAGE")
    \cup LineageFindings(lineage, cset)

ArtifactGate(policy, sdc) ==
    Blocker(sdc = None /\ policy.require_sdc, "SDC")
    \cup Blocker(sdc = Unreadable, "SDC")

ReleaseIssues(cset, scope, policy, review, supply) ==
    Warning(cset.meaning = None, "UCM_SEMANTICS")
    \cup ScopeFindings(scope, policy)
    \cup ContextGate(supply, policy)
    \cup ReviewGate(cset, scope, policy, review)
    \cup ReadinessGate(cset, policy, supply.readiness)
    \cup ValidationGate(policy, supply.validation)
    \cup LineageGate(cset, policy, supply.lineage)
    \cup FormalFindings(supply.formal, cset, policy)
    \cup ArtifactGate(policy, supply.sdc)

CandidateStatus(cset, scope, issues) ==
    IF scope.unknown THEN "INVALID"
    ELSE IF HasBlocker(issues) THEN "BLOCKED"
    ELSE IF cset.meaning = None THEN "UNKNOWN"
    ELSE IF HasWarning(issues) THEN "CANDIDATE"
    ELSE "READY"

\* create_release_candidate, and supersede_release: the superseded id enters
\* the new root id and is read by nothing else.
CreateCandidate(cset, policy, requested, all, review, supply) ==
    LET scope == Scope(cset, supply.config, requested, all)
        evidence == ReleaseEvidence(cset, scope, review, supply)
        issues == ReleaseIssues(cset, scope, policy, review, supply)
    IN [snapshot |-> ReleaseSnapshot(cset, review, supply), scope |-> scope,
        policy |-> policy, root |-> evidence,
        status |-> CandidateStatus(cset, scope, issues),
        evidence |-> evidence, issues |-> issues, history |-> <<>>]

ReleaseStale(release, cset, scope, review, supply) ==
    LET old == release.snapshot
        new == ReleaseSnapshot(cset, review, supply)
    IN \/ <<old.content, old.meaning, old.scenarios>>
             # <<new.content, new.meaning, new.scenarios>>
       \/ release.scope.definition # scope.definition
       \/ \E f \in {"config", "design", "review", "readiness", "validation",
                    "lineage", "formal"} : Differ(old[f], new[f])

Released == {"RELEASED", "RELEASED_WITH_WARNINGS"}

\* Mutant: a revoked release is assessed anew.
AssessReleaseAnew(release, cset, review, supply) ==
    LET scope == ScopeAgain(release.scope, cset, supply.config)
        recorded == /\ review = None
                    /\ supply.readiness = None
                    /\ supply.validation = None
                    /\ supply.lineage = None
                    /\ supply.formal = {}
                    /\ supply.sdc = None
        issues == IF recorded THEN release.issues
                  ELSE ReleaseIssues(cset, scope, release.policy, review, supply)
        stale == ReleaseStale(release, cset, scope, review, supply)
        status == IF stale THEN "STALE"
                  ELSE IF release.status \in Released
                  THEN release.status
                  ELSE CandidateStatus(cset, scope, issues)
        eligible == /\ status \in {"CANDIDATE", "READY", "BLOCKED", "UNKNOWN", "INVALID"}
                    /\ ~HasBlocker(issues)
    IN [status |-> status, stale |-> stale, issues |-> issues,
        snapshot |-> ReleaseSnapshot(cset, review, supply),
        evidence |-> IF recorded THEN release.evidence
                     ELSE ReleaseEvidence(cset, scope, review, supply),
        possible |-> eligible /\ ~HasWarning(issues),
        possible_with_warnings |-> eligible /\ release.policy.allow_warnings]

\* assess_constraint_release
AssessRelease(release, cset, review, supply) ==
    LET scope == ScopeAgain(release.scope, cset, supply.config)
        recorded == /\ review = None
                    /\ supply.readiness = None
                    /\ supply.validation = None
                    /\ supply.lineage = None
                    /\ supply.formal = {}
                    /\ supply.sdc = None
        issues == IF recorded THEN release.issues
                  ELSE ReleaseIssues(cset, scope, release.policy, review, supply)
        stale == ReleaseStale(release, cset, scope, review, supply)
        status == IF stale THEN "STALE"
                  ELSE IF release.status \in Released \cup {"REVOKED"}
                  THEN release.status
                  ELSE CandidateStatus(cset, scope, issues)
        eligible == /\ status \in {"CANDIDATE", "READY", "BLOCKED", "UNKNOWN", "INVALID"}
                    /\ ~HasBlocker(issues)
    IN [status |-> status, stale |-> stale, issues |-> issues,
        snapshot |-> ReleaseSnapshot(cset, review, supply),
        evidence |-> IF recorded THEN release.evidence
                     ELSE ReleaseEvidence(cset, scope, review, supply),
        possible |-> eligible /\ ~HasWarning(issues),
        possible_with_warnings |-> eligible /\ release.policy.allow_warnings]

\* The successor release_constraint_set and revoke_release return.
DecideRelease(release, kind, status, assessment) ==
    [release EXCEPT !.status = status,
                    !.evidence = assessment.evidence,
                    !.issues = assessment.issues,
                    !.history = Append(@, kind)]

ReleaseAllowed(assessment) ==
    assessment.possible \/ assessment.possible_with_warnings

ReleaseSet(release, assessment) ==
    DecideRelease(release, "RELEASE",
                  IF assessment.possible THEN "RELEASED"
                  ELSE "RELEASED_WITH_WARNINGS",
                  assessment)

RevokeRelease(release, assessment) ==
    DecideRelease(release, "REVOKE", "REVOKED", assessment)

(***************************************************************************)
(* Packages.  A directory maps the kinds of its files to their contents.   *)
(* readiness.json, validation.json, coverage.json, lineage.json and        *)
(* formal.json are written one after the other and checked alike: here     *)
(* they are one file, "evidence".                                          *)
(***************************************************************************)
PackageAllowed(release, assessment) ==
    /\ release.status \in Released
    /\ assessment.status \notin {"STALE", "REVOKED"}
    /\ ~assessment.stale
    /\ assessment.snapshot = release.snapshot

SuppliedEvidence(supply) ==
    [readiness |-> supply.readiness, validation |-> supply.validation,
     lineage |-> supply.lineage,
     formal |-> IF supply.formal = {} THEN None ELSE supply.formal]

SnapshotEvidence(snapshot) ==
    [readiness |-> snapshot.readiness, validation |-> snapshot.validation,
     lineage |-> snapshot.lineage, formal |-> snapshot.formal]

Optional(kind, content) == IF content = None THEN <<>> ELSE <<<<kind, content>>>>

\* The files of a package, in the order in which they are written.
PackageFiles(release, cset, review, supply) ==
    <<<<"ucm", cset>>, <<"release", release>>>>
        \o Optional("review", IF review = None THEN None ELSE review.record)
        \o Optional("evidence", SuppliedEvidence(supply)) \o Optional("sdc", supply.sdc)

\* After the last file: is everything there that the record requires?  An SDC
\* that cannot be read is only noticed when it is copied.
PackageComplete(release, written) ==
    LET kinds == {written[i][1] : i \in DOMAIN written} IN
    /\ release.snapshot.review # None => "review" \in kinds
    /\ release.policy.require_sdc => "sdc" \in kinds

\* release_manifest.json lists every file with the hash (here: the content) it
\* had when it was hashed, and whether a missing file is an issue.
Manifest(release, written) ==
    [release |-> release,
     artifacts |->
        [kind \in {written[i][1] : i \in DOMAIN written} |->
            [content |-> written[CHOOSE i \in DOMAIN written : written[i][1] = kind][2],
             required |-> kind = "sdc" => release.policy.require_sdc]]]

(***************************************************************************)
(* verify_release_package.  A file that is missing or does not parse is    *)
(* None here; Torn is one whose hash or contents are no longer right.    *)
(***************************************************************************)
File(dir, kind) == IF kind \in DOMAIN dir THEN dir[kind] ELSE None

ArtifactIntact(dir, kind, artifact) ==
    IF kind \in DOMAIN dir THEN dir[kind] = artifact.content
    ELSE ~artifact.required

\* Mutant: the record need not carry the evidence it was created with.
RecordBoundLoosely(record, manifest) ==
    /\ record = manifest.release
    /\ record.status \in Released

\* The release id hashes its root; the root is recomputed from the evidence
\* the record carries now.
RecordBound(record, manifest) ==
    /\ record = manifest.release
    /\ record.root = record.evidence
    /\ record.status \in Released

UcmBound(cset, snapshot) ==
    /\ cset.content = snapshot.content
    /\ cset.meaning = snapshot.meaning
    /\ cset.scenarios = snapshot.scenarios

EvidenceBound(dir, snapshot) ==
    /\ snapshot.review # None =>
          /\ File(dir, "review") = snapshot.review
          /\ snapshot.review.status # "REVOKED"
    /\ \A f \in DOMAIN SnapshotEvidence(snapshot) :
          snapshot[f] # None => /\ File(dir, "evidence") \notin {None, Torn}
                                /\ dir["evidence"][f] = snapshot[f]

PackageVerified(dir) ==
    LET manifest == File(dir, "manifest") IN
    /\ manifest \notin {None, Torn}
    /\ \A kind \in DOMAIN manifest.artifacts :
          ArtifactIntact(dir, kind, manifest.artifacts[kind])
    /\ File(dir, "release") \notin {None, Torn}
    /\ RecordBound(dir["release"], manifest)
    /\ File(dir, "ucm") \notin {None, Torn}
    /\ UcmBound(dir["ucm"], manifest.release.snapshot)
    /\ EvidenceBound(dir, manifest.release.snapshot)
=============================================================================
