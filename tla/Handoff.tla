------------------------------ MODULE Handoff ------------------------------
(***************************************************************************)
(* Implementation handoff (handoff/engine.py): a package directory, a      *)
(* target, a policy and a configuration decide whether the package may go  *)
(* downstream.  Nothing is written; the record is its id.                  *)
(***************************************************************************)
EXTENDS Release

\* SDC dialects a target accepts.
Dialects ==
    [GENERIC |-> {"GENERIC", "OPENSTA", "SYNOPSYS", "CADENCE", "UNKNOWN"},
     OPENSTA_OPENROAD |-> {"GENERIC", "OPENSTA"},
     SYNOPSYS |-> {"SYNOPSYS"}, CADENCE |-> {"CADENCE"}, FUTURE_VENDOR |-> {}]

TargetGate(target, policy) ==
    Blocker(IF target = "FUTURE_VENDOR" THEN TRUE
            ELSE IF policy.dialect = "UNKNOWN"
            THEN target # "GENERIC" /\ ~policy.allow_unknown_dialect
            ELSE policy.dialect \notin Dialects[target],
            "TARGET")

HandoffArtifactGate(dir, manifest, target, policy) ==
    Blocker(\E kind \in DOMAIN manifest.artifacts :
               /\ manifest.artifacts[kind].required
               /\ File(dir, kind) # manifest.artifacts[kind].content,
            "ARTIFACT")
    \cup Blocker(/\ "sdc" \notin DOMAIN manifest.artifacts
                 /\ policy.require_sdc \/ target # "GENERIC",
                 "SDC")

HandoffConfigurationGate(manifest, policy, config) ==
    Blocker(config = None /\ policy.require_config, "CONFIGURATION")
    \cup Blocker(Differ(manifest.release.snapshot.config, config), "CONFIGURATION")

\* What the two records themselves say, apart from the verifier.
HandoffReleaseGate(record, manifest, policy) ==
    Blocker(policy.require_released /\ record.status \notin Released, "RELEASE")
    \cup Blocker(record.status = "REVOKED", "RELEASE")
    \cup Blocker(manifest.release.snapshot.meaning = None, "UCM")
    \cup Blocker(LET scope == manifest.release.scope
                 IN scope.covered = {} /\ scope.active # {}, "MCMM_SCOPE")

\* The package verify_release_package found in order, or None.
Verification(dir) == IF PackageVerified(dir) THEN dir["manifest"] ELSE None

HandoffIssues(dir, verified, target, policy, config) ==
    LET manifest == dir["manifest"] IN
    Finding(verified = None,
            IF policy.require_verified THEN "BLOCKER" ELSE "WARNING",
            "RELEASE_PACKAGE")
    \cup HandoffReleaseGate(dir["release"], manifest, policy)
    \cup HandoffConfigurationGate(manifest, policy, config)
    \cup HandoffArtifactGate(dir, manifest, target, policy)
    \cup TargetGate(target, policy)

\* Both records of the package can be read.
PackageReadable(dir) ==
    \A kind \in {"manifest", "release"} : File(dir, kind) \notin {None, Torn}

HandoffStatus(dir, verified, target, policy, config) ==
    LET issues == HandoffIssues(dir, verified, target, policy, config) IN
    IF ~PackageReadable(dir) THEN "INVALID"
    ELSE IF HasBlocker(issues) \/ (HasWarning(issues) /\ ~policy.allow_warnings)
    THEN "FAILED"
    ELSE IF verified # None THEN "HANDOFF_READY" ELSE "PACKAGE_READY"

\* assess_constraint_handoff, after the package was verified: the records of
\* the package are read again.  The id of the result hashes all but the
\* verification, which is evidence.
AssessHandoff(dir, verified, target, policy, config) ==
    [package |-> File(dir, "manifest"), verified |-> verified, target |-> target,
     policy |-> policy, config |-> config,
     status |-> HandoffStatus(dir, verified, target, policy, config)]

\* prepare_constraint_handoff
PrepareAllowed(assessment) == assessment.status = "HANDOFF_READY"

PrepareHandoff(assessment) == [assessment EXCEPT !.status = "HANDOFF_PREPARED"]

\* verify_constraint_handoff assesses again, with no configuration.
HandoffVerified(handoff, dir) ==
    LET expected == AssessHandoff(dir, Verification(dir), handoff.target, handoff.policy, None) IN
    /\ expected.status = "HANDOFF_READY"
    /\ handoff.package = expected.package
    /\ handoff.config = expected.config
=============================================================================
