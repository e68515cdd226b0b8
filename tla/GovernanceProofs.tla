-------------------------- MODULE GovernanceProofs --------------------------
(***************************************************************************)
(* For any constraint sets, projects, policies, supplies of evidence and   *)
(* packers: what is released is justified, a revoked release stays so, and *)
(* what a handoff is prepared from is one justified release.               *)
(***************************************************************************)
EXTENDS Governance, SequenceTheorems, TLAPS

-----------------------------------------------------------------------------
(* Findings.                                                               *)

\* Fewer findings hold no blocker that more do not.
LEMMA NoBlockerIn ==
    ASSUME NEW S, NEW T, S \subseteq T, ~HasBlocker(T)
    PROVE  ~HasBlocker(S)
BY DEF HasBlocker

\* What the evidence of a review must hold for its gates to stay quiet.
Founded(policy, evidence) ==
    /\ policy.require_readiness =>
          /\ evidence.readiness # None
          /\ ~evidence.readiness.blocked
    /\ policy.require_coverage =>
          /\ evidence.validation # None
          /\ CoverageComplete(evidence.validation.coverage)

\* A review whose gates found no blocker has the evidence they ask for.
LEMMA ReviewGatesFound ==
    ASSUME NEW cset, NEW scope, NEW supply, NEW policy,
           ~HasBlocker(ReviewFindings(cset, scope, supply, policy))
    PROVE  Founded(policy, ReviewEvidence(cset, scope, supply))
<1> DEFINE readiness == supply.readiness
           validation == supply.validation
<1>1. ~HasBlocker(ReadinessGates(cset, readiness, policy))
    BY NoBlockerIn DEF ReviewFindings
<1>2. ~HasBlocker(ValidationGates(validation, policy))
    BY NoBlockerIn DEF ReviewFindings
<1>3. policy.require_readiness => readiness # None
    BY <1>1 DEF ReadinessGates, Blocker, Finding, HasBlocker
<1>4. readiness # None => ~readiness.blocked
    <2> SUFFICES ASSUME readiness # None PROVE ~readiness.blocked
        OBVIOUS
    <2>1. Blocker(readiness.blocked, "READINESS") \subseteq ReadinessGates(cset, readiness, policy)
        BY DEF ReadinessGates
    <2>2. ~HasBlocker(Blocker(readiness.blocked, "READINESS"))
        BY <1>1, <2>1, NoBlockerIn
    <2> QED BY <2>2 DEF Blocker, Finding, HasBlocker
<1>5. policy.require_coverage => validation # None
    <2> SUFFICES ASSUME validation = None PROVE ~policy.require_coverage
        OBVIOUS
    <2>1. Blocker(policy.require_coverage, "COVERAGE") \subseteq ValidationGates(validation, policy)
        BY DEF ValidationGates
    <2>2. ~HasBlocker(Blocker(policy.require_coverage, "COVERAGE"))
        BY <1>2, <2>1, NoBlockerIn
    <2> QED BY <2>2 DEF Blocker, Finding, HasBlocker
<1>6. policy.require_coverage => CoverageComplete(validation.coverage)
    <2> SUFFICES ASSUME policy.require_coverage PROVE CoverageComplete(validation.coverage)
        OBVIOUS
    <2>1. CoverageGates(validation.coverage, policy) \subseteq ValidationGates(validation, policy)
        BY <1>5 DEF ValidationGates
    <2> DEFINE complete == validation.coverage # None /\ CoverageComplete(validation.coverage)
    <2>2. Blocker(~complete /\ policy.require_coverage, "COVERAGE")
              \subseteq CoverageGates(validation.coverage, policy)
        BY DEF CoverageGates
    <2>3. ~HasBlocker(Blocker(~complete /\ policy.require_coverage, "COVERAGE"))
        BY <1>2, <2>1, <2>2, NoBlockerIn
    <2>4. complete
        BY <2>3 DEF Blocker, Finding, HasBlocker
    <2> QED BY <2>4
<1> QED BY <1>3, <1>4, <1>5, <1>6 DEF Founded, ReviewEvidence

-----------------------------------------------------------------------------
(* The review record.  Decisions may replace its evidence and findings,    *)
(* only ever together; an approval finds no blocker among them.            *)

ReviewFields == {"snapshot", "scope", "policy", "root", "status", "evidence", "findings", "history"}

ReviewFounded(r) ==
    /\ DOMAIN r = ReviewFields
    /\ ~HasBlocker(r.findings) => Founded(r.policy, r.evidence)
    /\ r.status \in Approvals => ~HasBlocker(r.findings)

\* An approval in a founded review is founded itself.
LEMMA FoundedApproval ==
    ASSUME NEW r, ReviewFounded(r), r.status \in Approvals
    PROVE  ApprovalFounded(r)
BY DEF ReviewFounded, Founded, ApprovalFounded

\* create_review: a new review is founded.
LEMMA NewReviewFounded ==
    ASSUME NEW cset, NEW policy, NEW requested, NEW all, NEW supply
    PROVE  ReviewFounded(CreateReview(cset, policy, requested, all, supply))
<1> DEFINE scope == Scope(cset, supply.config, requested, all)
           r == CreateReview(cset, policy, requested, all, supply)
<1>1. /\ DOMAIN r = ReviewFields
      /\ r.policy = policy
      /\ r.findings = ReviewFindings(cset, scope, supply, policy)
      /\ r.evidence = ReviewEvidence(cset, scope, supply)
      /\ r.status = InitialReviewStatus(scope, supply, policy)
    BY DEF CreateReview, ReviewFields
<1>2. ~HasBlocker(r.findings) => Founded(r.policy, r.evidence)
    BY <1>1, ReviewGatesFound
<1>3. r.status \notin Approvals
    BY <1>1 DEF InitialReviewStatus, Approvals
<1> QED BY <1>1, <1>2, <1>3 DEF ReviewFounded

\* decide_review: an allowed decision keeps a review founded.
LEMMA DecidedReviewFounded ==
    ASSUME NEW r, ReviewFounded(r), NEW cset, NEW supply, NEW kind \in DOMAIN ResultingStatus,
           DecisionAllowed(r, kind, AssessReview(r, cset, supply))
    PROVE  ReviewFounded(DecideReview(r, kind, AssessReview(r, cset, supply)))
<1> DEFINE a == AssessReview(r, cset, supply)
           n == DecideReview(r, kind, a)
           scope == ScopeAgain(r.scope, cset, supply.config)
<1>1. /\ DOMAIN n = ReviewFields
      /\ n.policy = r.policy
      /\ n.findings = a.findings
      /\ n.evidence = a.evidence
      /\ n.status = ResultingStatus[kind]
    BY DEF DecideReview, ReviewFounded, ReviewFields
<1>2. \/ a.findings = r.findings /\ a.evidence = r.evidence
      \/ /\ a.findings = ReviewFindings(cset, scope, supply, r.policy)
         /\ a.evidence = ReviewEvidence(cset, scope, supply)
    BY DEF AssessReview
<1>3. ~HasBlocker(a.findings) => Founded(r.policy, a.evidence)
    BY <1>2, ReviewGatesFound DEF ReviewFounded
<1>4. n.status \in Approvals => ~HasBlocker(a.findings)
    <2>1. n.status \in Approvals => kind \in {"APPROVE", "APPROVE_WITH_WARNINGS"}
        BY <1>1 DEF ResultingStatus, Approvals
    <2>2. a.approvable => ~HasBlocker(a.findings)
        BY DEF AssessReview
    <2>3. a.approvable_with_warnings => ~HasBlocker(a.findings)
        BY DEF AssessReview
    <2> QED BY <2>1, <2>2, <2>3 DEF DecisionAllowed
<1> QED BY <1>1, <1>3, <1>4 DEF ReviewFounded

-----------------------------------------------------------------------------
(* Scopes.  What a scope covers follows from what was asked and what is    *)
(* active, and its definition tells what is active.                        *)

ScopeShape(s) ==
    /\ s.covered = IF s.requested # {} /\ s.kind # "ALL_ACTIVE_SCENARIOS"
                   THEN s.requested \cap s.active ELSE s.active
    /\ s.definition[2] = s.active

\* The scope a record is created with has the shape of its kind.
LEMMA ScopeShaped ==
    ASSUME NEW cset, NEW config, NEW requested, NEW all
    PROVE  ScopeShape(Scope(cset, config, requested, all))
BY DEF ScopeShape, Scope, ScenarioDefinition, ActiveScenarios

\* A scope resolved again to the same definition covers the same scenarios.
LEMMA SameDefinitionSameCover ==
    ASSUME NEW s, ScopeShape(s), NEW cset, NEW config,
           ScopeAgain(s, cset, config).definition = s.definition
    PROVE  ScopeAgain(s, cset, config).covered = s.covered
<1> DEFINE all == s.kind = "ALL_ACTIVE_SCENARIOS"
           t == Scope(cset, config, s.requested, all)
<1>1. ScopeShape(t)
    BY ScopeShaped
<1>2. t.requested = s.requested /\ (t.kind = "ALL_ACTIVE_SCENARIOS" <=> all)
    BY DEF Scope
<1> QED BY <1>1, <1>2 DEF ScopeShape, ScopeAgain

-----------------------------------------------------------------------------
(* The release record.                                                     *)

\* The review a releaser hands in is the record, under the status it has or an
\* assessment of it gives.
ChoiceSound(choice) ==
    choice # None =>
        /\ choice.record # None
        /\ ReviewFounded(choice.record)
        /\ choice.status \in Approvals => choice.record.status \in Approvals

ReviewInv == review # None => ReviewFounded(review)

\* Whatever review a release is offered, none or an assessed one, is sound.
LEMMA ChoicesSound ==
    ASSUME ReviewInv, NEW supply, NEW choice \in ReviewChoices(supply)
    PROVE  ChoiceSound(choice)
<1>1. AssessReview(review, ucm, supply).status \in {"STALE", "INVALID", review.status}
    BY DEF AssessReview
<1> QED BY <1>1 DEF ReviewChoices, ChoiceSound, ReviewInv, Approvals

\* Evidence of a release holds the approved review its policy asks for.
Reviewed(policy, e) ==
    policy.require_review =>
        LET v == e.snapshot.review IN
        /\ v # None
        /\ ReviewFounded(v)
        /\ v.status \in Approvals
        /\ v.snapshot.content = e.snapshot.content
        /\ e.scope.covered \subseteq v.scope.covered

\* A release whose gates found no blocker has the review its policy asks for.
LEMMA ReleaseGatesFound ==
    ASSUME NEW cset, NEW scope, NEW policy, NEW choice, NEW supply, ChoiceSound(choice),
           ~HasBlocker(ReleaseIssues(cset, scope, policy, choice, supply))
    PROVE  Reviewed(policy, ReleaseEvidence(cset, scope, choice, supply))
<1> DEFINE gate == ReviewGate(cset, scope, policy, choice)
<1>1. ~HasBlocker(gate)
    BY NoBlockerIn DEF ReleaseIssues
<1>2. CASE choice = None
    BY <1>1, <1>2 DEF ReviewGate, Blocker, Finding, HasBlocker, Reviewed
<1>3. CASE choice # None
    <2> DEFINE bound == /\ choice.record.snapshot.content = cset.content
                        /\ scope.covered \subseteq choice.record.scope.covered
                        /\ choice.record.scope.definition = scope.definition
               tolerated == /\ choice.status = "APPROVED_WITH_WARNINGS"
                            /\ policy.allow_review_with_warnings
               refused == ~bound \/ ~(choice.status = "APPROVED" \/ tolerated)
    <2>1. Blocker(refused, "REVIEW") \subseteq gate
        BY <1>3 DEF ReviewGate
    <2>2. ~refused
        <3>1. ~HasBlocker(Blocker(refused, "REVIEW"))
            BY <1>1, <2>1, NoBlockerIn
        <3> HIDE DEF refused
        <3> QED BY <3>1 DEF Blocker, Finding, HasBlocker
    <2>3. choice.record.status \in Approvals
        BY <1>3, <2>2 DEF ChoiceSound, Approvals
    <2>4. /\ ReleaseEvidence(cset, scope, choice, supply).snapshot.review = choice.record
          /\ ReleaseEvidence(cset, scope, choice, supply).snapshot.content = cset.content
          /\ ReleaseEvidence(cset, scope, choice, supply).scope = scope
        BY <1>3 DEF ReleaseEvidence, ReleaseSnapshot
    <2> QED BY <1>3, <2>2, <2>3, <2>4 DEF Reviewed, ChoiceSound
<1> QED BY <1>2, <1>3

Kinds == {"RELEASE", "REVOKE"}
ReleaseFields == {"snapshot", "scope", "policy", "root", "status", "evidence", "issues", "history"}
Revoked(r) == \E i \in DOMAIN r.history : r.history[i] = "REVOKE"

\* Until it is decided a record holds the evidence it was created with; an
\* assessment that leads to a release saw evidence of the same contents and
\* scope; and the last decision of a revoked record is its revocation.
ReleaseSound(r) ==
    /\ DOMAIN r = ReleaseFields
    /\ ScopeShape(r.scope)
    /\ r.root.snapshot = r.snapshot /\ r.root.scope = r.scope
    /\ r.status \notin Released \cup {"REVOKED"} => r.evidence = r.root
    /\ ~HasBlocker(r.issues) => Reviewed(r.policy, r.evidence)
    /\ r.status \in Released =>
          /\ ~HasBlocker(r.issues)
          /\ r.evidence.snapshot.content = r.snapshot.content
          /\ r.evidence.scope.covered = r.scope.covered
    /\ r.history \in Seq(Kinds)
    /\ Revoked(r) => r.status = "REVOKED"

\* A sound record that is released is justified.
LEMMA SoundIsJustified ==
    ASSUME NEW r, ReleaseSound(r), r.status \in Released
    PROVE  Justified(r)
<1>1. /\ ~HasBlocker(r.issues)
      /\ r.evidence.snapshot.content = r.snapshot.content
      /\ r.evidence.scope.covered = r.scope.covered
      /\ Reviewed(r.policy, r.evidence)
    BY DEF ReleaseSound
<1>2. ASSUME r.policy.require_review
      PROVE  ApprovalFounded(r.evidence.snapshot.review)
    BY <1>1, <1>2, FoundedApproval DEF Reviewed
<1> QED BY <1>1, <1>2 DEF Justified, Reviewed

\* create_candidate: a new candidate is sound.
LEMMA NewCandidateSound ==
    ASSUME NEW cset, NEW policy, NEW requested, NEW all, NEW choice, NEW supply,
           ChoiceSound(choice)
    PROVE  ReleaseSound(CreateCandidate(cset, policy, requested, all, choice, supply))
<1> DEFINE scope == Scope(cset, supply.config, requested, all)
           r == CreateCandidate(cset, policy, requested, all, choice, supply)
<1>1. /\ DOMAIN r = ReleaseFields
      /\ r.scope = scope
      /\ r.policy = policy
      /\ r.snapshot = ReleaseSnapshot(cset, choice, supply)
      /\ r.root = ReleaseEvidence(cset, scope, choice, supply)
      /\ r.evidence = r.root
      /\ r.issues = ReleaseIssues(cset, scope, policy, choice, supply)
      /\ r.status = CandidateStatus(cset, scope, r.issues)
      /\ r.history = <<>>
    BY DEF CreateCandidate, ReleaseFields
<1>2. r.root.snapshot = r.snapshot /\ r.root.scope = r.scope
    BY <1>1 DEF ReleaseEvidence
<1>3. r.status \notin Released \cup {"REVOKED"}
    BY <1>1 DEF CandidateStatus, Released
<1>4. ~HasBlocker(r.issues) => Reviewed(r.policy, r.evidence)
    BY <1>1, ReleaseGatesFound
<1>5. ScopeShape(r.scope)
    BY <1>1, ScopeShaped
<1>6. r.history \in Seq(Kinds) /\ ~Revoked(r)
    BY <1>1 DEF Revoked
<1> QED BY <1>1, <1>2, <1>3, <1>4, <1>5, <1>6 DEF ReleaseSound

\* What an assessment shows, recorded or supplied, hangs together.
LEMMA AssessmentReviewed ==
    ASSUME NEW r, ReleaseSound(r), NEW cset, NEW choice, NEW supply, ChoiceSound(choice),
           ~HasBlocker(AssessRelease(r, cset, choice, supply).issues)
    PROVE  Reviewed(r.policy, AssessRelease(r, cset, choice, supply).evidence)
<1> DEFINE a == AssessRelease(r, cset, choice, supply)
           scope == ScopeAgain(r.scope, cset, supply.config)
<1>1. \/ a.issues = r.issues /\ a.evidence = r.evidence
      \/ /\ a.issues = ReleaseIssues(cset, scope, r.policy, choice, supply)
         /\ a.evidence = ReleaseEvidence(cset, scope, choice, supply)
    BY DEF AssessRelease
<1> QED BY <1>1, ReleaseGatesFound DEF ReleaseSound

\* An assessment on which a release is possible is of the recorded contents
\* and scope.
LEMMA AssessmentCurrent ==
    ASSUME NEW r, ReleaseSound(r), NEW cset, NEW choice, NEW supply,
           ReleaseAllowed(AssessRelease(r, cset, choice, supply))
    PROVE  /\ r.status \notin Released \cup {"REVOKED"}
           /\ ~HasBlocker(AssessRelease(r, cset, choice, supply).issues)
           /\ LET e == AssessRelease(r, cset, choice, supply).evidence
              IN  /\ e.snapshot.content = r.snapshot.content
                  /\ e.scope.covered = r.scope.covered
<1> DEFINE a == AssessRelease(r, cset, choice, supply)
           scope == ScopeAgain(r.scope, cset, supply.config)
           current == ReleaseSnapshot(cset, choice, supply)
<1>1. /\ a.status \in {"CANDIDATE", "READY", "BLOCKED", "UNKNOWN", "INVALID"}
      /\ ~HasBlocker(a.issues)
    BY DEF ReleaseAllowed, AssessRelease
<1>2. ~ReleaseStale(r, cset, scope, choice, supply)
    BY <1>1 DEF AssessRelease
<1>3. r.status \notin Released \cup {"REVOKED"}
    BY <1>1, <1>2 DEF AssessRelease, Released
<1>4. r.snapshot.content = cset.content /\ r.scope.definition = scope.definition
    BY <1>2 DEF ReleaseStale, ReleaseSnapshot
<1>5. scope.covered = r.scope.covered
    BY <1>4, SameDefinitionSameCover DEF ReleaseSound
<1>6. \/ a.evidence = r.root
      \/ a.evidence = ReleaseEvidence(cset, scope, choice, supply)
    BY <1>3 DEF AssessRelease, ReleaseSound
<1>7. CASE a.evidence = r.root
    BY <1>1, <1>3, <1>7 DEF ReleaseSound
<1>8. CASE a.evidence = ReleaseEvidence(cset, scope, choice, supply)
    BY <1>1, <1>3, <1>4, <1>5, <1>8 DEF ReleaseEvidence, ReleaseSnapshot
<1> QED BY <1>6, <1>7, <1>8

\* A decision is added at the end of the history, which keeps the rest.
LEMMA HistoryGrows ==
    ASSUME NEW h \in Seq(Kinds), NEW kind \in Kinds
    PROVE  /\ Append(h, kind) \in Seq(Kinds)
           /\ \A i \in DOMAIN Append(h, kind) :
                 Append(h, kind)[i] = kind \/ (i \in DOMAIN h /\ Append(h, kind)[i] = h[i])
<1> HIDE DEF Kinds
<1> QED OBVIOUS

\* release: an allowed release keeps the record sound.
LEMMA ReleasedSound ==
    ASSUME NEW r, ReleaseSound(r), NEW cset, NEW choice, NEW supply, ChoiceSound(choice),
           ReleaseAllowed(AssessRelease(r, cset, choice, supply))
    PROVE  ReleaseSound(ReleaseSet(r, AssessRelease(r, cset, choice, supply)))
<1> DEFINE a == AssessRelease(r, cset, choice, supply)
           n == ReleaseSet(r, a)
<1>1. /\ DOMAIN n = ReleaseFields
      /\ n.scope = r.scope /\ n.policy = r.policy
      /\ n.snapshot = r.snapshot /\ n.root = r.root
      /\ n.evidence = a.evidence /\ n.issues = a.issues
      /\ n.status \in Released
      /\ n.history = Append(r.history, "RELEASE")
    BY DEF ReleaseSet, DecideRelease, ReleaseSound, ReleaseFields, Released
<1>2. /\ r.status # "REVOKED"
      /\ ~HasBlocker(a.issues)
      /\ a.evidence.snapshot.content = r.snapshot.content
      /\ a.evidence.scope.covered = r.scope.covered
    BY AssessmentCurrent
<1>3. Reviewed(r.policy, a.evidence)
    BY <1>2, AssessmentReviewed
<1>4. n.history \in Seq(Kinds) /\ ~Revoked(n)
    <2>1. r.history \in Seq(Kinds) /\ ~Revoked(r)
        BY <1>2 DEF ReleaseSound
    <2>2. /\ Append(r.history, "RELEASE") \in Seq(Kinds)
          /\ \A i \in DOMAIN Append(r.history, "RELEASE") :
                Append(r.history, "RELEASE")[i] # "REVOKE"
        BY <2>1, HistoryGrows DEF Revoked, Kinds
    <2> QED BY <1>1, <2>2 DEF Revoked
<1> QED BY <1>1, <1>2, <1>3, <1>4 DEF ReleaseSound

\* revoke: a revocation keeps the record sound.
LEMMA RevokedSound ==
    ASSUME NEW r, ReleaseSound(r), NEW cset, NEW choice, NEW supply, ChoiceSound(choice)
    PROVE  ReleaseSound(RevokeRelease(r, AssessRelease(r, cset, choice, supply)))
<1> DEFINE a == AssessRelease(r, cset, choice, supply)
           n == RevokeRelease(r, a)
<1>1. /\ DOMAIN n = ReleaseFields
      /\ n.scope = r.scope /\ n.policy = r.policy
      /\ n.snapshot = r.snapshot /\ n.root = r.root
      /\ n.evidence = a.evidence /\ n.issues = a.issues
      /\ n.status = "REVOKED"
      /\ n.history = Append(r.history, "REVOKE")
    BY DEF RevokeRelease, DecideRelease, ReleaseSound, ReleaseFields
<1>2. ~HasBlocker(a.issues) => Reviewed(r.policy, a.evidence)
    BY AssessmentReviewed
<1>3. n.history \in Seq(Kinds)
    <2>1. r.history \in Seq(Kinds)
        BY DEF ReleaseSound
    <2>2. Append(r.history, "REVOKE") \in Seq(Kinds)
        BY <2>1, HistoryGrows DEF Kinds
    <2> QED BY <1>1, <2>2
<1> QED BY <1>1, <1>2, <1>3 DEF ReleaseSound, Released

-----------------------------------------------------------------------------
(* Packers and the package directory.                                      *)

SoundReleased(r) == ReleaseSound(r) /\ r.status \in Released

\* What a package is written from: the set and its record first, no manifest.
FilesSound(files) ==
    /\ Len(files) \in Nat /\ Len(files) >= 2
    /\ files[1][1] = "ucm" /\ files[2][1] = "release"
    /\ \A i \in 1..Len(files) : /\ files[i][1] # "manifest"
                                /\ files[i][1] = "release" => SoundReleased(files[i][2])

\* Each file hashed so far is listed under its kind, whatever was found.
Listed(written, files) ==
    /\ \E S : written \in Seq(S)
    /\ \A i \in 1..Len(written) : written[i][1] = files[i][1]

PackerSound(k) ==
    k # None =>
        /\ DOMAIN k = {"release", "files", "placed", "written"}
        /\ k.placed \in Nat
        /\ k.placed - Len(k.written) \in {0, 1}
        /\ k.placed <= Len(k.files)
        /\ FilesSound(k.files)
        /\ Listed(k.written, k.files)

\* A manifest lists what a handoff looks at, and requires it.
ManifestSound(m) ==
    /\ {"ucm", "release"} \subseteq DOMAIN m.artifacts
    /\ m.release.snapshot.review # None => "review" \in DOMAIN m.artifacts
    /\ \A kind \in DOMAIN m.artifacts \ {"sdc"} : m.artifacts[kind].required

DirSound ==
    /\ "release" \in DOMAIN dir => dir["release"] = Torn \/ SoundReleased(dir["release"])
    /\ "manifest" \in DOMAIN dir => dir["manifest"] = Torn \/ ManifestSound(dir["manifest"])

\* What was once verified: the files the manifest requires are those of one
\* released set, and of its review.
Sealed(m) ==
    /\ ManifestSound(m)
    /\ SoundReleased(m.release)
    /\ m.release.root = m.release.evidence
    /\ m.artifacts["release"].content = m.release
    /\ m.release # None
    /\ m.artifacts["ucm"].content # None
    /\ UcmBound(m.artifacts["ucm"].content, m.release.snapshot)
    /\ m.release.snapshot.review # None =>
           m.artifacts["review"].content = m.release.snapshot.review

VerifiedSound == verified # None => Sealed(verified)

\* What is added behind leaves the first two where they are.
LEMMA StartsAlike ==
    ASSUME NEW S, NEW s \in Seq(S), NEW t \in Seq(S), Len(s) >= 2
    PROVE  /\ s \o t \in Seq(S) /\ Len(s \o t) >= 2
           /\ (s \o t)[1] = s[1] /\ (s \o t)[2] = s[2]
<1>1. Len(s) \in Nat /\ Len(t) \in Nat /\ Len(s \o t) = Len(s) + Len(t)
    OBVIOUS
<1>2. 1 \in 1..Len(s) /\ 2 \in 1..Len(s)
    BY <1>1
<1>3. \A i \in 1..Len(s) : (s \o t)[i] = s[i]
    OBVIOUS
<1> QED BY <1>1, <1>2, <1>3

\* What a package is written from holds the release it is of.
LEMMA PackageFilesSound ==
    ASSUME NEW r, SoundReleased(r), NEW cset, NEW choice, NEW supply
    PROVE  FilesSound(PackageFiles(r, cset, choice, supply))
<1> DEFINE record == IF choice = None THEN None ELSE choice.record
           Pairs == {<<"ucm", cset>>, <<"release", r>>, <<"review", record>>,
                     <<"evidence", SuppliedEvidence(supply)>>, <<"sdc", supply.sdc>>}
           head == <<<<"ucm", cset>>, <<"release", r>>>>
           files == PackageFiles(r, cset, choice, supply)
<1>1. /\ head \in Seq(Pairs)
      /\ Optional("review", record) \in Seq(Pairs)
      /\ Optional("evidence", SuppliedEvidence(supply)) \in Seq(Pairs)
      /\ Optional("sdc", supply.sdc) \in Seq(Pairs)
    BY DEF Optional
<1>3. Len(head) >= 2 /\ head[1][1] = "ucm" /\ head[2][1] = "release"
    OBVIOUS
<1>4. /\ files \in Seq(Pairs) /\ Len(files) >= 2
      /\ files[1][1] = "ucm" /\ files[2][1] = "release"
    <2> HIDE DEF Pairs, head
    <2>1. files = ((head \o Optional("review", record))
                     \o Optional("evidence", SuppliedEvidence(supply))) \o Optional("sdc", supply.sdc)
        BY DEF PackageFiles, head
    <2> HIDE DEF files, record
    <2> DEFINE one == head \o Optional("review", record)
               two == one \o Optional("evidence", SuppliedEvidence(supply))
    <2>2. /\ one \in Seq(Pairs) /\ Len(one) >= 2
          /\ one[1][1] = "ucm" /\ one[2][1] = "release"
        BY <1>1, <1>3, StartsAlike
    <2> HIDE DEF one
    <2>3. /\ two \in Seq(Pairs) /\ Len(two) >= 2
          /\ two[1][1] = "ucm" /\ two[2][1] = "release"
        BY <1>1, <2>2, StartsAlike
    <2> HIDE DEF two
    <2> QED BY <1>1, <2>1, <2>3, StartsAlike DEF one, two
<1>5. Len(files) \in Nat /\ \A i \in 1..Len(files) : files[i] \in Pairs
    <2> HIDE DEF Pairs, files
    <2> QED BY <1>4
<1>6. \A x \in Pairs : x[1] # "manifest" /\ (x[1] = "release" => x[2] = r)
    OBVIOUS
<1> HIDE DEF Pairs, files, head
<1>7. FilesSound(files)
    BY <1>4, <1>5, <1>6 DEF FilesSound
<1> QED BY <1>7 DEF files

\* One more file is hashed.
LEMMA ListedNext ==
    ASSUME NEW w, NEW files, Listed(w, files), NEW content,
           NEW kind, kind = files[Len(w) + 1][1]
    PROVE  /\ Listed(Append(w, <<kind, content>>), files)
           /\ Len(Append(w, <<kind, content>>)) = Len(w) + 1
           /\ Len(w) \in Nat
<1> DEFINE x == <<kind, content>>
           n == Append(w, x)
<1>1. PICK S : w \in Seq(S)
    BY DEF Listed
<1>2. w \in Seq(S \cup {x}) /\ Len(w) \in Nat
    <2> HIDE DEF x
    <2> QED BY <1>1
<1>3. /\ n \in Seq(S \cup {x}) /\ Len(n) = Len(w) + 1
      /\ n[Len(w) + 1] = x
      /\ \A i \in 1..Len(w) : n[i] = w[i]
    <2> HIDE DEF x
    <2> QED BY <1>2
<1>4. x[1] = kind
    OBVIOUS
<1> HIDE DEF x
<1>5. \A i \in 1..Len(n) : n[i][1] = files[i][1]
    BY <1>2, <1>3, <1>4 DEF Listed
<1> QED BY <1>2, <1>3, <1>5 DEF Listed, x

\* When all files are listed the manifest requires those a handoff looks at.
LEMMA WrittenManifestSound ==
    ASSUME NEW k, k # None, PackerSound(k), Len(k.written) = Len(k.files),
           PackageComplete(k.release, k.written)
    PROVE  ManifestSound(Manifest(k.release, k.written))
<1> DEFINE w == k.written
           kinds == {w[i][1] : i \in DOMAIN w}
           m == Manifest(k.release, w)
<1>1. PICK S : w \in Seq(S)
    BY DEF PackerSound, Listed
<1>2. /\ Len(w) >= 2 /\ Listed(w, k.files)
      /\ k.files[1][1] = "ucm" /\ k.files[2][1] = "release"
    BY DEF PackerSound, FilesSound
<1>3. DOMAIN w = 1..Len(w) /\ 1 \in DOMAIN w /\ 2 \in DOMAIN w
    <2>1. DOMAIN w = 1..Len(w) /\ Len(w) \in Nat
        BY <1>1
    <2> QED BY <1>2, <2>1
<1>4. {"ucm", "release"} \subseteq kinds
    <2>1. w[1][1] = "ucm" /\ w[2][1] = "release"
        BY <1>2, <1>3 DEF Listed
    <2> QED BY <1>3, <2>1
<1>5. k.release.snapshot.review # None => "review" \in kinds
    BY DEF PackageComplete
<1>6. DOMAIN m.artifacts = kinds /\ m.release = k.release
    BY DEF Manifest
<1>7. \A kind \in kinds \ {"sdc"} : m.artifacts[kind].required
    BY DEF Manifest
<1> QED BY <1>4, <1>5, <1>6, <1>7 DEF ManifestSound

-----------------------------------------------------------------------------
(* The invariant: everything above, of every record there is.             *)

GovernanceInv ==
    /\ ReviewInv
    /\ release # None => ReleaseSound(release)
    /\ DOMAIN packing = Packers
    /\ \A p \in Packers : PackerSound(packing[p])
    /\ DirSound
    /\ VerifiedSound

\* There is nothing to justify before the first command.
LEMMA InitGovernance == Init => GovernanceInv
BY DEF Init, NoFiles, GovernanceInv, ReviewInv, PackerSound, DirSound, VerifiedSound

\* Nothing but the working set changes.
LEMMA EditUcmStep == ASSUME GovernanceInv, EditUcm PROVE GovernanceInv'
BY DEF EditUcm, GovernanceInv, ReviewInv, PackerSound, DirSound, VerifiedSound

\* A step that touches neither release, packers nor directory.
LEMMA ReviewStep ==
    ASSUME GovernanceInv, ReviewInv', UNCHANGED <<release, packing, dir, verified>>
    PROVE  GovernanceInv'
BY DEF GovernanceInv, PackerSound, DirSound, VerifiedSound

\* A new review changes only the review.
LEMMA NewReviewStep ==
    ASSUME GovernanceInv, NEW request, NEW supply, NewReview(request, supply)
    PROVE  GovernanceInv'
<1>1. ReviewInv'
    BY NewReviewFounded DEF NewReview, ReviewInv
<1> QED BY <1>1, ReviewStep DEF NewReview

\* A decision changes only the review.
LEMMA DecideStep ==
    ASSUME GovernanceInv, NEW kind \in DOMAIN ResultingStatus, NEW supply, Decide(kind, supply)
    PROVE  GovernanceInv'
<1>1. ReviewInv'
    BY DecidedReviewFounded DEF Decide, ReviewInv, GovernanceInv
<1> QED BY <1>1, ReviewStep DEF Decide

\* A step that touches the release record alone.
LEMMA ReleaseStep ==
    ASSUME GovernanceInv, release' # None => ReleaseSound(release'),
           UNCHANGED <<review, packing, dir, verified>>
    PROVE  GovernanceInv'
BY DEF GovernanceInv, ReviewInv, PackerSound, DirSound, VerifiedSound

\* A new candidate changes only the release record.
LEMMA NewCandidateStep ==
    ASSUME GovernanceInv, NEW request, NEW supply, NEW choice \in ReviewChoices(supply),
           NewCandidate(request, choice, supply)
    PROVE  GovernanceInv'
<1>1. ChoiceSound(choice)
    BY ChoicesSound DEF GovernanceInv
<1>2. ReleaseSound(release')
    BY <1>1, NewCandidateSound DEF NewCandidate
<1> QED BY <1>2, ReleaseStep DEF NewCandidate

\* A release changes only the release record.
LEMMA ReleaseConstraintSetStep ==
    ASSUME GovernanceInv, NEW supply, NEW choice \in ReviewChoices(supply),
           ReleaseConstraintSet(choice, supply)
    PROVE  GovernanceInv'
<1>1. ChoiceSound(choice)
    BY ChoicesSound DEF GovernanceInv
<1>2. ReleaseSound(release')
    BY <1>1, ReleasedSound DEF ReleaseConstraintSet, GovernanceInv
<1> QED BY <1>2, ReleaseStep DEF ReleaseConstraintSet

\* A revocation changes only the release record.
LEMMA RevokeStep ==
    ASSUME GovernanceInv, NEW supply, NEW choice \in ReviewChoices(supply),
           Revoke(choice, supply)
    PROVE  GovernanceInv'
<1>1. ChoiceSound(choice)
    BY ChoicesSound DEF GovernanceInv
<1>2. ReleaseSound(release')
    BY <1>1, RevokedSound DEF Revoke, GovernanceInv
<1> QED BY <1>2, ReleaseStep DEF Revoke

\* A packer starts from a released record, so its files hold one.
LEMMA StartPackageStep ==
    ASSUME GovernanceInv, NEW p \in Packers, NEW choice, NEW supply,
           StartPackage(p, choice, supply)
    PROVE  GovernanceInv'
<1> DEFINE k == [release |-> release, placed |-> 0, written |-> <<>>,
                 files |-> PackageFiles(release, ucm, choice, supply)]
<1>1. SoundReleased(release)
    BY DEF StartPackage, PackageAllowed, GovernanceInv, SoundReleased
<1>2. PackerSound(k)
    <2>1. FilesSound(k.files)
        BY <1>1, PackageFilesSound
    <2>2. Listed(<<>>, k.files) /\ Len(<<>>) = 0
        BY DEF Listed
    <2> QED BY <2>1, <2>2 DEF PackerSound, FilesSound
<1>3. packing' = [packing EXCEPT ![p] = k]
    BY DEF StartPackage
<1> HIDE DEF k
<1>4. /\ DOMAIN packing' = Packers
      /\ \A q \in Packers : PackerSound(packing'[q])
    BY <1>2, <1>3 DEF GovernanceInv
<1> QED BY <1>4 DEF StartPackage, GovernanceInv, ReviewInv, DirSound, VerifiedSound

\* A packer's next file is one of the release it packs.
LEMMA WriteFileStep ==
    ASSUME GovernanceInv, NEW p \in Packers, WriteFile(p)
    PROVE  GovernanceInv'
<1> DEFINE k == packing[p]
           file == k.files[k.placed + 1]
<1>1. /\ k # None /\ PackerSound(k)
      /\ k.placed = Len(k.written) /\ k.placed < Len(k.files)
      /\ dir' = DirWith(file[1], file[2])
      /\ packing' = [packing EXCEPT ![p].placed = @ + 1]
    BY DEF WriteFile, GovernanceInv
<1>2. file[1] # "manifest" /\ (file[1] = "release" => SoundReleased(file[2]))
    <2>1. k.placed + 1 \in 1..Len(k.files)
        BY <1>1 DEF PackerSound, FilesSound
    <2> QED BY <1>1, <2>1 DEF PackerSound, FilesSound
<1>3. DirSound'
    <2> HIDE DEF file
    <2> QED BY <1>1, <1>2 DEF DirWith, DirSound, GovernanceInv
<1>4. PackerSound([k EXCEPT !.placed = @ + 1])
    BY <1>1 DEF PackerSound, FilesSound
<1>5. /\ DOMAIN packing' = Packers
      /\ \A q \in Packers : PackerSound(packing'[q])
    BY <1>1, <1>4 DEF GovernanceInv
<1> QED BY <1>3, <1>5 DEF WriteFile, GovernanceInv, ReviewInv, VerifiedSound

\* Hashing a file adds it to the list, whoever wrote what is found.
LEMMA HashFileStep ==
    ASSUME GovernanceInv, NEW p \in Packers, HashFile(p)
    PROVE  GovernanceInv'
<1> DEFINE k == packing[p]
           kind == k.files[k.placed][1]
           longer == Append(k.written, <<kind, dir[kind]>>)
<1>1. /\ k # None /\ PackerSound(k)
      /\ k.placed > Len(k.written)
      /\ packing' = [packing EXCEPT ![p].written = Append(@, <<kind, dir[kind]>>)]
    BY DEF HashFile, GovernanceInv
<1>2. \A S : k.written \in Seq(S) => Len(k.written) \in Nat
    OBVIOUS
<1>3. Len(k.written) \in Nat /\ k.placed = Len(k.written) + 1
    BY <1>1, <1>2 DEF PackerSound, Listed
<1>4. Listed(longer, k.files) /\ Len(longer) = Len(k.written) + 1
    <2>1. kind = k.files[Len(k.written) + 1][1]
        BY <1>3
    <2> HIDE DEF kind
    <2> QED BY <1>1, <2>1, ListedNext DEF PackerSound
<1>5. PackerSound([k EXCEPT !.written = longer])
    <2> HIDE DEF longer
    <2> QED BY <1>1, <1>3, <1>4 DEF PackerSound
<1>6. packing' = [packing EXCEPT ![p] = [k EXCEPT !.written = longer]]
    BY <1>1 DEF GovernanceInv, PackerSound
<1> HIDE DEF longer
<1>7. /\ DOMAIN packing' = Packers
      /\ \A q \in Packers : PackerSound(packing'[q])
    BY <1>5, <1>6 DEF GovernanceInv
<1> QED BY <1>7 DEF HashFile, GovernanceInv, ReviewInv, DirSound, VerifiedSound

\* The manifest is written last, from what the packer listed.
LEMMA WriteManifestStep ==
    ASSUME GovernanceInv, NEW p \in Packers, WriteManifest(p)
    PROVE  GovernanceInv'
<1> DEFINE m == Manifest(packing[p].release, packing[p].written)
<1>1. dir' = DirWith("manifest", m) /\ ManifestSound(m)
    BY WrittenManifestSound DEF WriteManifest, GovernanceInv
<1> HIDE DEF m
<1>2. DirSound'
    BY <1>1 DEF DirWith, DirSound, GovernanceInv
<1>3. /\ DOMAIN packing' = Packers
      /\ \A q \in Packers : PackerSound(packing'[q])
    BY DEF WriteManifest, GovernanceInv, PackerSound
<1> QED BY <1>2, <1>3 DEF WriteManifest, GovernanceInv, ReviewInv, VerifiedSound

\* A packer that crashes or gives up leaves its files.
LEMMA AbandonPackageStep ==
    ASSUME GovernanceInv, NEW p \in Packers, AbandonPackage(p)
    PROVE  GovernanceInv'
<1>1. /\ DOMAIN packing' = Packers
      /\ \A q \in Packers : PackerSound(packing'[q])
    BY DEF AbandonPackage, GovernanceInv, PackerSound
<1> QED BY <1>1 DEF AbandonPackage, GovernanceInv, ReviewInv, DirSound, VerifiedSound

\* A damaged file is no longer anybody's.
LEMMA DamageFileStep ==
    ASSUME GovernanceInv, NEW kind \in DOMAIN dir, DamageFile(kind)
    PROVE  GovernanceInv'
<1>1. DirSound'
    BY DEF DamageFile, DirSound, GovernanceInv
<1> QED BY <1>1 DEF DamageFile, GovernanceInv, ReviewInv, PackerSound, VerifiedSound

\* What a package that verifies is sealed by.
LEMMA VerifiedSealed ==
    ASSUME DirSound, PackageVerified(dir)
    PROVE  Sealed(dir["manifest"])
<1> DEFINE m == dir["manifest"]
           r == dir["release"]
<1>1. /\ "manifest" \in DOMAIN dir /\ m # Torn
      /\ "release" \in DOMAIN dir /\ r # Torn /\ r # None
      /\ "ucm" \in DOMAIN dir /\ dir["ucm"] # None
    BY DEF PackageVerified, File
<1>2. ManifestSound(m) /\ SoundReleased(r)
    BY <1>1 DEF DirSound
<1>3. r = m.release /\ r.root = r.evidence
    BY <1>1 DEF PackageVerified, RecordBound, File
<1>4. UcmBound(dir["ucm"], m.release.snapshot) /\ EvidenceBound(dir, m.release.snapshot)
    BY <1>1 DEF PackageVerified, File
<1>5. \A kind \in DOMAIN m.artifacts : ArtifactIntact(dir, kind, m.artifacts[kind])
    BY <1>1 DEF PackageVerified, File
<1>6. \A kind \in DOMAIN m.artifacts :
          kind \in DOMAIN dir => dir[kind] = m.artifacts[kind].content
    BY <1>5 DEF ArtifactIntact
<1>7. m.artifacts["release"].content = r /\ m.artifacts["ucm"].content = dir["ucm"]
    BY <1>1, <1>2, <1>6 DEF ManifestSound
<1>8. ASSUME m.release.snapshot.review # None
      PROVE  m.artifacts["review"].content = m.release.snapshot.review
    <2>1. "review" \in DOMAIN dir /\ dir["review"] = m.release.snapshot.review
        BY <1>4, <1>8 DEF EvidenceBound, File
    <2> QED BY <1>2, <1>6, <1>8, <2>1 DEF ManifestSound
<1> QED BY <1>1, <1>2, <1>3, <1>4, <1>7, <1>8 DEF Sealed

\* A handoff under way has seen a sealed package.
LEMMA VerifyPackageStep ==
    ASSUME GovernanceInv, VerifyPackage
    PROVE  GovernanceInv'
<1>1. VerifiedSound'
    BY VerifiedSealed DEF VerifyPackage, Verification, VerifiedSound, GovernanceInv
<1> QED BY <1>1 DEF VerifyPackage, GovernanceInv, ReviewInv, PackerSound, DirSound

\* The project stays one of the projects and the handoff a record.
Shaped ==
    /\ project \in Projects
    /\ handoff # None => "status" \in DOMAIN handoff

\* Scopes and histories keep their shape, whatever is decided.
LEMMA ShapeInvariant == Spec => []Shaped
<1>1. Init => Shaped
    BY DEF Init, Shaped
<1>2. Shaped /\ [Next]_vars => Shaped'
    <2> SUFFICES ASSUME Shaped, [Next]_vars PROVE Shaped'
        OBVIOUS
    <2>1. CASE UNCHANGED <<project, handoff>>
        BY <2>1 DEF Shaped
    <2>2. ASSUME NEW t \in Targets, NEW c \in Configs, Prepare(t, c) PROVE Shaped'
        BY <2>2 DEF Prepare, PrepareHandoff, AssessHandoff, Shaped
    <2>3. CASE Execute
        BY <2>3 DEF Execute, Shaped
    <2> QED BY <2>1, <2>2, <2>3
            DEF Next, vars, EditUcm, NewReview, Decide, NewCandidate, ReleaseConstraintSet,
                Revoke, StartPackage, WriteFile, HashFile, WriteManifest, AbandonPackage,
                DamageFile, VerifyPackage
<1> QED BY <1>1, <1>2, PTL DEF Spec

\* Every command keeps the governance invariant.
LEMMA GovernanceStep == Shaped /\ GovernanceInv /\ [Next]_vars => GovernanceInv'
<1> SUFFICES ASSUME Shaped, GovernanceInv, [Next]_vars PROVE GovernanceInv'
    OBVIOUS
<1>1. CASE EditUcm
    BY <1>1, EditUcmStep
<1>2. ASSUME NEW s, NEW r \in project.reviewed, NewReview(r, s) PROVE GovernanceInv'
    BY <1>2, NewReviewStep
<1>3. ASSUME NEW s, NEW k \in DOMAIN ResultingStatus, Decide(k, s) PROVE GovernanceInv'
    BY <1>3, DecideStep
<1>4. ASSUME NEW s, NEW c \in ReviewChoices(s), NEW r \in project.released, NewCandidate(r, c, s)
      PROVE  GovernanceInv'
    BY <1>4, NewCandidateStep
<1>5. ASSUME NEW s, NEW c \in ReviewChoices(s), ReleaseConstraintSet(c, s)
      PROVE  GovernanceInv'
    BY <1>5, ReleaseConstraintSetStep
<1>6. ASSUME NEW s, NEW c \in ReviewChoices(s), Revoke(c, s)
      PROVE  GovernanceInv'
    BY <1>6, RevokeStep
<1>7. ASSUME NEW s, NEW c, NEW p \in project.packers, StartPackage(p, c, s)
      PROVE  GovernanceInv'
    <2>1. p \in Packers
        BY PackersAssumption DEF Shaped
    <2> QED BY <1>7, <2>1, StartPackageStep
<1>8. ASSUME NEW p \in Packers, WriteFile(p) PROVE GovernanceInv'
    BY <1>8, WriteFileStep
<1>9. ASSUME NEW p \in Packers, WriteManifest(p) PROVE GovernanceInv'
    BY <1>9, WriteManifestStep
<1>10. ASSUME NEW p \in Packers, AbandonPackage(p) PROVE GovernanceInv'
    BY <1>10, AbandonPackageStep
<1>11. ASSUME NEW kind \in DOMAIN dir, DamageFile(kind) PROVE GovernanceInv'
    BY <1>11, DamageFileStep
<1>12. ASSUME UNCHANGED <<review, release, packing, dir>>, verified' \in {verified, None}
       PROVE  GovernanceInv'
    BY <1>12 DEF GovernanceInv, ReviewInv, PackerSound, DirSound, VerifiedSound
<1>13. ASSUME NEW t \in Targets, NEW c \in Configs, Prepare(t, c) PROVE GovernanceInv'
    BY <1>12, <1>13 DEF Prepare
<1>14. CASE Execute
    BY <1>12, <1>14 DEF Execute
<1>15. CASE UNCHANGED vars
    BY <1>12, <1>15 DEF vars
<1>16. ASSUME NEW p \in Packers, HashFile(p) PROVE GovernanceInv'
    BY <1>16, HashFileStep
<1>17. CASE VerifyPackage
    BY <1>17, VerifyPackageStep
<1> QED BY <1>1, <1>2, <1>3, <1>4, <1>5, <1>6, <1>7, <1>8, <1>9, <1>10, <1>11,
           <1>13, <1>14, <1>15, <1>16, <1>17 DEF Next

\* In every reachable state every record, packer and packaged file is sound.
THEOREM GovernanceInvariant == Spec => []GovernanceInv
BY InitGovernance, GovernanceStep, ShapeInvariant, PTL DEF Spec

-----------------------------------------------------------------------------
(* Typing, on top of it: statuses and numbers of decisions.                *)

ReviewStatuses == {"INVALID", "BLOCKED", "UNSUPPORTED", "UNKNOWN", "INCOMPLETE", "NEEDS_REVIEW"}
                  \cup Approvals \cup {"REJECTED", "DEFERRED", "REVOKED"}
ReleaseStatuses == {"INVALID", "BLOCKED", "UNKNOWN", "CANDIDATE", "READY", "REVOKED"}
                   \cup Released

TypeInv ==
    /\ ucm \in Ucms
    /\ review # None => /\ review.status \in ReviewStatuses
                        /\ review.history \in Seq(DOMAIN ResultingStatus)
                        /\ Len(review.history) <= project.decisions
    /\ release # None => /\ release.status \in ReleaseStatuses
                         /\ release.history \in Seq(Kinds)
                         /\ Len(release.history) <= project.decisions
    /\ handoff # None => handoff.status \in {"HANDOFF_PREPARED", "UNAVAILABLE"}

\* The types hold before the first command.
LEMMA InitTyped == Init => TypeInv
BY DEF Init, TypeInv

\* A decision below the bound keeps the history within it.
LEMMA DecisionCounted ==
    ASSUME NEW S, NEW h \in Seq(S), NEW kind \in S, NEW bound \in Nat, Len(h) < bound
    PROVE  Append(h, kind) \in Seq(S) /\ Len(Append(h, kind)) <= bound
OBVIOUS

\* Every command keeps the types.
LEMMA TypeStep == Shaped /\ GovernanceInv /\ TypeInv /\ [Next]_vars => TypeInv'
<1> SUFFICES ASSUME Shaped, GovernanceInv, TypeInv, [Next]_vars PROVE TypeInv'
    OBVIOUS
<1>0. project.decisions \in Nat
    BY DecisionsAssumption DEF Shaped
<1>1. CASE EditUcm
    BY <1>1 DEF EditUcm, TypeInv
<1>2. ASSUME NEW s, NEW r \in project.reviewed, NewReview(r, s) PROVE TypeInv'
    <2> DEFINE n == CreateReview(ucm, project.review, r[1], r[2], s)
    <2>1. n.status \in ReviewStatuses /\ n.history = <<>>
        BY DEF CreateReview, InitialReviewStatus, ReviewStatuses
    <2>2. n.history \in Seq(DOMAIN ResultingStatus) /\ Len(n.history) <= project.decisions
        BY <1>0, <2>1
    <2> HIDE DEF n
    <2>3. review' = n
        BY <1>2 DEF NewReview, n
    <2> QED BY <1>2, <2>1, <2>2, <2>3 DEF NewReview, TypeInv
<1>3. ASSUME NEW s, NEW k \in DOMAIN ResultingStatus, Decide(k, s) PROVE TypeInv'
    <2> DEFINE n == DecideReview(review, k, AssessReview(review, ucm, s))
    <2>1. ReviewFounded(review)
        BY <1>3 DEF Decide, GovernanceInv, ReviewInv
    <2>2. n.status = ResultingStatus[k] /\ n.history = Append(review.history, k)
        BY <2>1 DEF DecideReview, ReviewFounded, ReviewFields
    <2>3. n.status \in ReviewStatuses
        BY <2>2 DEF ResultingStatus, ReviewStatuses, Approvals
    <2>4. /\ n.history \in Seq(DOMAIN ResultingStatus)
          /\ Len(n.history) <= project.decisions
        BY <1>0, <1>3, <2>2, DecisionCounted DEF Decide, TypeInv
    <2> HIDE DEF n
    <2>5. review' = n
        BY <1>3 DEF Decide, n
    <2> QED BY <1>3, <2>3, <2>4, <2>5 DEF Decide, TypeInv
<1>4. ASSUME NEW s, NEW c \in ReviewChoices(s), NEW r \in project.released, NewCandidate(r, c, s)
      PROVE  TypeInv'
    <2> DEFINE n == CreateCandidate(ucm, project.release, r[1], r[2], c, s)
    <2>1. n.status \in ReleaseStatuses /\ n.history = <<>>
        BY DEF CreateCandidate, CandidateStatus, ReleaseStatuses
    <2>2. n.history \in Seq(Kinds) /\ Len(n.history) <= project.decisions
        BY <1>0, <2>1
    <2> HIDE DEF n
    <2>3. release' = n
        BY <1>4 DEF NewCandidate, n
    <2> QED BY <1>4, <2>1, <2>2, <2>3 DEF NewCandidate, TypeInv
<1>5. ASSUME NEW s, NEW c, ReleaseConstraintSet(c, s) PROVE TypeInv'
    <2> DEFINE n == ReleaseSet(release, AssessRelease(release, ucm, c, s))
    <2>1. ReleaseSound(release)
        BY <1>5 DEF ReleaseConstraintSet, GovernanceInv
    <2>2. n.status \in ReleaseStatuses /\ n.history = Append(release.history, "RELEASE")
        BY <2>1 DEF ReleaseSet, DecideRelease, ReleaseSound, ReleaseFields, ReleaseStatuses, Released
    <2>3. n.history \in Seq(Kinds) /\ Len(n.history) <= project.decisions
        <3>1. "RELEASE" \in Kinds
            BY DEF Kinds
        <3> QED BY <1>0, <1>5, <2>2, <3>1, DecisionCounted DEF ReleaseConstraintSet, TypeInv
    <2> HIDE DEF n
    <2>4. release' = n
        BY <1>5 DEF ReleaseConstraintSet, n
    <2> QED BY <1>5, <2>2, <2>3, <2>4 DEF ReleaseConstraintSet, TypeInv
<1>6. ASSUME NEW s, NEW c, Revoke(c, s) PROVE TypeInv'
    <2> DEFINE n == RevokeRelease(release, AssessRelease(release, ucm, c, s))
    <2>1. ReleaseSound(release)
        BY <1>6 DEF Revoke, GovernanceInv
    <2>2. n.status \in ReleaseStatuses /\ n.history = Append(release.history, "REVOKE")
        BY <2>1 DEF RevokeRelease, DecideRelease, ReleaseSound, ReleaseFields, ReleaseStatuses
    <2>3. n.history \in Seq(Kinds) /\ Len(n.history) <= project.decisions
        <3>1. "REVOKE" \in Kinds
            BY DEF Kinds
        <3> QED BY <1>0, <1>6, <2>2, <3>1, DecisionCounted DEF Revoke, TypeInv
    <2> HIDE DEF n
    <2>4. release' = n
        BY <1>6 DEF Revoke, n
    <2> QED BY <1>6, <2>2, <2>3, <2>4 DEF Revoke, TypeInv
<1>7. ASSUME NEW s, NEW c, NEW p \in project.packers, StartPackage(p, c, s)
      PROVE  TypeInv'
    BY <1>7 DEF StartPackage, TypeInv
<1>8. ASSUME NEW p \in Packers,
             WriteFile(p) \/ HashFile(p) \/ WriteManifest(p) \/ AbandonPackage(p)
      PROVE  TypeInv'
    BY <1>8 DEF WriteFile, HashFile, WriteManifest, AbandonPackage, TypeInv
<1>9. CASE VerifyPackage
    BY <1>9 DEF VerifyPackage, TypeInv
<1>10. ASSUME NEW kind, DamageFile(kind) PROVE TypeInv'
    BY <1>10 DEF DamageFile, TypeInv
<1>11. ASSUME NEW t, NEW c, Prepare(t, c) PROVE TypeInv'
    <2>1. handoff' = handoff \/ handoff'.status = "HANDOFF_PREPARED"
        BY <1>11 DEF Prepare, PrepareHandoff, AssessHandoff
    <2> QED BY <1>11, <2>1 DEF Prepare, TypeInv
<1>12. CASE Execute
    <2>1. handoff'.status = "UNAVAILABLE"
        BY <1>12 DEF Execute, Shaped
    <2> QED BY <1>12, <2>1 DEF Execute, TypeInv
<1>13. CASE UNCHANGED vars
    BY <1>13 DEF vars, TypeInv
<1> QED BY <1>1, <1>2, <1>3, <1>4, <1>5, <1>6, <1>7, <1>8, <1>9, <1>10, <1>11, <1>12, <1>13
        DEF Next

\* Every record has a status its engine can give it, no record more decisions
\* than the bound, and no packer has written more files than it has.
THEOREM TypeCorrect == Spec => []TypeOK
<1>1. Shaped /\ GovernanceInv /\ TypeInv => TypeOK
    BY DEF Shaped, GovernanceInv, PackerSound, TypeInv, TypeOK, ReviewStatuses, ReleaseStatuses
<1> QED BY <1>1, InitTyped, TypeStep, ShapeInvariant, GovernanceInvariant, PTL DEF Spec

-----------------------------------------------------------------------------
(* What it is for.                                                         *)

\* Whatever is edited, decided, revoked or supplied in between, what is
\* released is justified by the evidence it was released on.
THEOREM ReleaseTheorem == Spec => []ReleaseJustified
<1>1. GovernanceInv => ReleaseJustified
    BY SoundIsJustified DEF GovernanceInv, ReleaseJustified
<1> QED BY <1>1, GovernanceInvariant, PTL

\* No sequence of decisions brings a revoked release back.
THEOREM RevocationTheorem == Spec => []RevokedReleaseFinal
<1>1. GovernanceInv => RevokedReleaseFinal
    BY DEF GovernanceInv, RevokedReleaseFinal, ReleaseSound, Revoked, Released
<1> QED BY <1>1, GovernanceInvariant, PTL

\* What a handoff needs of the package it is prepared from: the files its
\* manifest requires are there, and what the release means is known.
LEMMA PreparedIntact ==
    ASSUME NEW seen, NEW target, NEW policy, NEW config,
           PrepareAllowed(AssessHandoff(dir, seen, target, policy, config))
    PROVE  /\ dir["manifest"].release.snapshot.meaning # None
           /\ \A kind \in DOMAIN dir["manifest"].artifacts :
                 dir["manifest"].artifacts[kind].required =>
                     File(dir, kind) = dir["manifest"].artifacts[kind].content
<1> DEFINE issues == HandoffIssues(dir, seen, target, policy, config)
           m == dir["manifest"]
           unclear == m.release.snapshot.meaning = None
           changed == \E kind \in DOMAIN m.artifacts :
                         m.artifacts[kind].required /\ File(dir, kind) # m.artifacts[kind].content
<1>1. HandoffStatus(dir, seen, target, policy, config) = "HANDOFF_READY"
    BY DEF PrepareAllowed, AssessHandoff
<1>2. ~HasBlocker(issues)
    BY <1>1 DEF HandoffStatus
<1>3. Blocker(unclear, "UCM") \subseteq issues /\ Blocker(changed, "ARTIFACT") \subseteq issues
    BY DEF HandoffIssues, HandoffReleaseGate, HandoffArtifactGate
<1>4. ~HasBlocker(Blocker(unclear, "UCM")) /\ ~HasBlocker(Blocker(changed, "ARTIFACT"))
    BY <1>2, <1>3, NoBlockerIn
<1>5. ~unclear /\ ~changed
    <2> HIDE DEF unclear, changed
    <2> QED BY <1>4 DEF Blocker, Finding, HasBlocker
<1> QED BY <1>5

\* What a directory holds whose required files are those of a sealed manifest.
LEMMA PreparedTraced ==
    ASSUME NEW m, Sealed(m), m.release.snapshot.meaning # None,
           \A kind \in DOMAIN m.artifacts :
               m.artifacts[kind].required => File(dir, kind) = m.artifacts[kind].content
    PROVE  /\ {"ucm", "release"} \subseteq DOMAIN dir
           /\ dir["release"].status \in Released
           /\ dir["ucm"].content = dir["release"].snapshot.content
           /\ dir["ucm"].meaning # None
           /\ dir["release"].policy.require_review =>
                 /\ "review" \in DOMAIN dir
                 /\ ApprovalFounded(dir["review"])
                 /\ dir["review"].snapshot.content = dir["ucm"].content
                 /\ dir["release"].scope.covered \subseteq dir["review"].scope.covered
<1> DEFINE r == m.release
<1>1. /\ "release" \in DOMAIN dir /\ dir["release"] = r
      /\ "ucm" \in DOMAIN dir /\ UcmBound(dir["ucm"], r.snapshot)
    BY DEF Sealed, ManifestSound, File
<1>2. SoundReleased(r) /\ r.root = r.evidence
    BY DEF Sealed
<1>3. ASSUME r.policy.require_review
      PROVE  /\ "review" \in DOMAIN dir
             /\ ApprovalFounded(dir["review"])
             /\ dir["review"].snapshot.content = dir["ucm"].content
             /\ r.scope.covered \subseteq dir["review"].scope.covered
    <2> DEFINE v == r.snapshot.review
    <2>1. /\ v # None /\ ReviewFounded(v) /\ v.status \in Approvals
          /\ v.snapshot.content = r.snapshot.content
          /\ r.scope.covered \subseteq v.scope.covered
        BY <1>2, <1>3 DEF SoundReleased, ReleaseSound, Reviewed
    <2>2. "review" \in DOMAIN dir /\ dir["review"] = v
        BY <2>1 DEF Sealed, ManifestSound, File
    <2>3. ApprovalFounded(v)
        BY <2>1, FoundedApproval
    <2> QED BY <1>1, <2>1, <2>2, <2>3 DEF UcmBound
<1> QED BY <1>1, <1>2, <1>3 DEF SoundReleased, UcmBound

\* A handoff of the package it verified is prepared from one justified release,
\* whatever crashes, damage and releasers that wrote at once, or between
\* verification and preparation, have left in the directory.
THEOREM HandoffTheorem == Spec => HandoffTraced
<1> DEFINE Traced ==
      (/\ handoff' # handoff
       /\ handoff'.status = "HANDOFF_PREPARED"
       /\ handoff'.package = handoff'.verified) =>
         /\ {"ucm", "release"} \subseteq DOMAIN dir
         /\ dir["release"].status \in Released
         /\ dir["ucm"].content = dir["release"].snapshot.content
         /\ dir["ucm"].meaning # None
         /\ dir["release"].policy.require_review =>
               /\ "review" \in DOMAIN dir
               /\ ApprovalFounded(dir["review"])
               /\ dir["review"].snapshot.content = dir["ucm"].content
               /\ dir["release"].scope.covered \subseteq dir["review"].scope.covered
<1>1. Shaped /\ GovernanceInv /\ [Next]_vars => [Traced]_vars
    <2> SUFFICES ASSUME Shaped, GovernanceInv, Next, handoff' # handoff,
                        handoff'.status = "HANDOFF_PREPARED",
                        handoff'.package = handoff'.verified
                 PROVE  Traced
        BY DEF vars
    <2>1. ASSUME NEW t \in Targets, NEW c \in Configs, Prepare(t, c) PROVE Traced
        <3> DEFINE a == AssessHandoff(dir, verified, t, project.handoff, c)
        <3>1. verified # None /\ PrepareAllowed(a) /\ handoff' = PrepareHandoff(a)
            BY <2>1 DEF Prepare
        <3>2. handoff'.package = File(dir, "manifest") /\ handoff'.verified = verified
            BY <3>1 DEF PrepareHandoff, AssessHandoff
        <3>3. dir["manifest"] = verified /\ Sealed(verified)
            BY <3>1, <3>2 DEF File, GovernanceInv, VerifiedSound
        <3> HIDE DEF a
        <3>4. /\ verified.release.snapshot.meaning # None
              /\ \A kind \in DOMAIN verified.artifacts :
                    verified.artifacts[kind].required =>
                        File(dir, kind) = verified.artifacts[kind].content
            BY <3>1, <3>3, PreparedIntact DEF a
        <3> QED BY <3>3, <3>4, PreparedTraced
    <2>2. ~Execute
        BY DEF Execute, Shaped
    <2>3. \E t \in Targets, c \in Configs : Prepare(t, c)
        BY <2>2 DEF Next, EditUcm, NewReview, Decide, NewCandidate, ReleaseConstraintSet,
                    Revoke, StartPackage, WriteFile, HashFile, WriteManifest, AbandonPackage,
                    DamageFile, VerifyPackage
    <2> QED BY <2>1, <2>3
<1> QED BY <1>1, GovernanceInvariant, ShapeInvariant, PTL DEF Spec, HandoffTraced
=============================================================================
