----------------------------- MODULE Governance -----------------------------
(***************************************************************************)
(* The governed path of a constraint set: review, release, package,        *)
(* handoff.  No engine keeps state; the records do, and their users hold   *)
(* them in files.  One file per kind of record is modelled, overwritten by *)
(* the operation that succeeds, beside a working constraint set that may   *)
(* be edited at any time and a package directory that several releasers    *)
(* may write at once, that a crash may leave unfinished and that may be    *)
(* damaged afterwards.                                                     *)
(***************************************************************************)
EXTENDS Handoff

CONSTANTS
    Ucms,           \* constraint sets the project may be edited into
    Projects,       \* the settings a behaviour is played in:
                    \*   review, release, handoff: the policies in force
                    \*   supplies: what analyses yield, with or without an SDC
                    \*   reviewed, released: the scopes asked for, each
                    \*       <<scenarios, all active ones?>>
                    \*   packers: who writes packages
                    \*   decisions: bound on the decisions of one record
    Configs,        \* configurations a handoff may be given, None among them
    Targets,        \* handoff targets
    Packers,        \* processes that may write packages
    MaxFaults       \* bound on the files damaged

ASSUME MaxFaultsAssumption == MaxFaults \in Nat
ASSUME DecisionsAssumption == \A p \in Projects : p.decisions \in Nat
ASSUME PackersAssumption == \A p \in Projects : p.packers \subseteq Packers

VARIABLES
    project,    \* which of Projects this is
    ucm,        \* the working constraint set
    review,     \* review.json, or None
    release,    \* release.json, or None
    packing,    \* packer -> [release, files, placed, written] or None: placed
                \* files are on disk, those in written were hashed, too
    dir,        \* the package directory: kind of file -> contents
    faults,     \* files damaged so far
    verified,   \* the package a handoff under way has verified, or None
    handoff     \* handoff.json, or None

vars == <<project, ucm, review, release, packing, dir, faults, verified, handoff>>

NoFiles == [kind \in {} |-> None]

Init ==
    /\ project \in Projects
    /\ ucm \in Ucms
    /\ review = None
    /\ release = None
    /\ packing = [p \in Packers |-> None]
    /\ dir = NoFiles
    /\ faults = 0
    /\ verified = None
    /\ handoff = None

\* Bound: the working files change only until a packer writes.  From then on
\* packers hold their own copies and a handoff reads the directory alone, so
\* whatever happened to the working files could as well have happened before.
Open == dir = NoFiles

\* Anything outside this path may change the constraint set.
EditUcm ==
    /\ Open
    /\ \E u \in Ucms \ {ucm} : ucm' = u
    /\ UNCHANGED <<project, review, release, packing, dir, faults, verified, handoff>>

(***************************************************************************)
(* Review.                                                                 *)
(***************************************************************************)
\* Bound: reviews are created while there is no release record yet; their
\* decisions go on afterwards.
NewReview(request, supply) ==
    /\ Open
    /\ release = None
    /\ review' = CreateReview(ucm, project.review, request[1], request[2], supply)
    /\ UNCHANGED <<project, ucm, release, packing, dir, faults, verified, handoff>>

Decide(kind, supply) ==
    /\ Open
    /\ review # None
    /\ Len(review.history) < project.decisions
    /\ LET assessment == AssessReview(review, ucm, supply) IN
       /\ DecisionAllowed(review, kind, assessment)
       /\ review' = DecideReview(review, kind, assessment)
    /\ UNCHANGED <<project, ucm, release, packing, dir, faults, verified, handoff>>

(***************************************************************************)
(* Release.  The review handed in is none, the record, or its assessment   *)
(* against the same supply.                                                *)
(***************************************************************************)
ReviewChoices(supply) ==
    {None} \cup
    (IF review = None THEN {}
     ELSE {[record |-> review, status |-> status] :
           status \in {review.status, AssessReview(review, ucm, supply).status}})

NewCandidate(request, choice, supply) ==
    /\ Open
    /\ release' = CreateCandidate(ucm, project.release, request[1], request[2],
                                  choice, supply)
    /\ UNCHANGED <<project, ucm, review, packing, dir, faults, verified, handoff>>

ReleaseConstraintSet(choice, supply) ==
    /\ Open
    /\ release # None
    /\ Len(release.history) < project.decisions
    /\ LET assessment == AssessRelease(release, ucm, choice, supply) IN
       /\ ReleaseAllowed(assessment)
       /\ release' = ReleaseSet(release, assessment)
    /\ UNCHANGED <<project, ucm, review, packing, dir, faults, verified, handoff>>

Revoke(choice, supply) ==
    /\ Open
    /\ release # None
    /\ release.status \in Released
    /\ Len(release.history) < project.decisions
    /\ release' = RevokeRelease(release, AssessRelease(release, ucm, choice, supply))
    /\ UNCHANGED <<project, ucm, review, packing, dir, faults, verified, handoff>>

(***************************************************************************)
(* Packaging: checks first, then one file at a time, the manifest last.    *)
(***************************************************************************)
StartPackage(p, choice, supply) ==
    /\ packing[p] = None
    /\ release # None
    /\ PackageAllowed(release, AssessRelease(release, ucm, choice, supply))
    /\ dir = NoFiles
    /\ packing' = [packing EXCEPT ![p] =
           [release |-> release, placed |-> 0, written |-> <<>>,
            files |-> PackageFiles(release, ucm, choice, supply)]]
    /\ UNCHANGED <<project, ucm, review, release, dir, faults, verified, handoff>>

DirWith(kind, content) ==
    [k \in DOMAIN dir \cup {kind} |-> IF k = kind THEN content ELSE dir[k]]

\* The next file appears whole (write_json_atomic, _copy_file_atomic).
WriteFile(p) ==
    /\ packing[p] # None
    /\ packing[p].placed = Len(packing[p].written)
    /\ packing[p].placed < Len(packing[p].files)
    /\ LET file == packing[p].files[packing[p].placed + 1] IN
       /\ file[2] # Unreadable
       /\ dir' = DirWith(file[1], file[2])
    /\ packing' = [packing EXCEPT ![p].placed = @ + 1]
    /\ UNCHANGED <<project, ucm, review, release, faults, verified, handoff>>

\* What is hashed is what lies there now; a file that is gone ends the command.
HashFile(p) ==
    /\ packing[p] # None
    /\ packing[p].placed > Len(packing[p].written)
    /\ LET kind == packing[p].files[packing[p].placed][1] IN
       /\ kind \in DOMAIN dir
       /\ packing' = [packing EXCEPT ![p].written = Append(@, <<kind, dir[kind]>>)]
    /\ UNCHANGED <<project, ucm, review, release, dir, faults, verified, handoff>>

WriteManifest(p) ==
    /\ packing[p] # None
    /\ Len(packing[p].written) = Len(packing[p].files)
    /\ PackageComplete(packing[p].release, packing[p].written)
    /\ dir' = DirWith("manifest", Manifest(packing[p].release, packing[p].written))
    /\ packing' = [packing EXCEPT ![p] = None]
    /\ UNCHANGED <<project, ucm, review, release, faults, verified, handoff>>

\* A crash, an SDC that cannot be read, a file gone before it was hashed, a
\* required kind that is missing: the files written so far stay.
AbandonPackage(p) ==
    /\ packing[p] # None
    /\ packing' = [packing EXCEPT ![p] = None]
    /\ UNCHANGED <<project, ucm, review, release, dir, faults, verified, handoff>>

\* A file of the directory is lost or spoiled.
DamageFile(kind) ==
    /\ faults < MaxFaults
    /\ faults' = faults + 1
    /\ \/ dir' = [k \in DOMAIN dir \ {kind} |-> dir[k]]
       \/ dir' = [dir EXCEPT ![kind] = Torn]
    /\ UNCHANGED <<project, ucm, review, release, packing, verified, handoff>>

(***************************************************************************)
(* Handoff.                                                                *)
(***************************************************************************)
\* verify_release_package.  A package that does not verify is refused in the
\* end, which changes nothing.
VerifyPackage ==
    /\ verified = None
    /\ PackageVerified(dir)
    /\ verified' = Verification(dir)
    /\ UNCHANGED <<project, ucm, review, release, packing, dir, faults, handoff>>

\* The records are read again, and the artifacts hashed again.
Prepare(target, config) ==
    /\ verified # None
    /\ verified' = None
    /\ LET assessment == AssessHandoff(dir, verified, target, project.handoff, config) IN
       handoff' = IF PrepareAllowed(assessment) THEN PrepareHandoff(assessment) ELSE handoff
    /\ UNCHANGED <<project, ucm, review, release, packing, dir, faults>>

\* execute_constraint_handoff: no tool is ever run.
Execute ==
    /\ handoff # None
    /\ handoff.status = "HANDOFF_PREPARED"
    /\ handoff' = [handoff EXCEPT !.status = "UNAVAILABLE"]
    /\ UNCHANGED <<project, ucm, review, release, packing, dir, faults, verified>>

Next ==
    \/ EditUcm
    \/ \E s \in {[t EXCEPT !.sdc = None] : t \in project.supplies} :
          \/ \E r \in project.reviewed : NewReview(r, s)
          \/ \E k \in DOMAIN ResultingStatus : Decide(k, s)
    \/ \E s \in project.supplies : \E c \in ReviewChoices(s) :
          \/ \E r \in project.released : NewCandidate(r, c, s)
          \/ ReleaseConstraintSet(c, s)
          \/ Revoke(c, s)
          \/ \E p \in project.packers : StartPackage(p, c, s)
    \/ \E p \in Packers :
          WriteFile(p) \/ HashFile(p) \/ WriteManifest(p) \/ AbandonPackage(p)
    \/ \E kind \in DOMAIN dir : DamageFile(kind)
    \/ VerifyPackage
    \/ \E t \in Targets, c \in Configs : Prepare(t, c)
    \/ Execute

Spec == Init /\ [][Next]_vars

-----------------------------------------------------------------------------
\* Every record has a status its engine can give it, and a packer has placed
\* no more than its files and at most one that is not hashed.
TypeOK ==
    /\ project \in Projects
    /\ ucm \in Ucms
    /\ review # None =>
          /\ review.status \in {"INVALID", "BLOCKED", "UNSUPPORTED", "UNKNOWN",
                                "INCOMPLETE", "NEEDS_REVIEW"}
                               \cup Approvals \cup {"REJECTED", "DEFERRED", "REVOKED"}
          /\ Len(review.history) <= project.decisions
    /\ release # None =>
          /\ release.status \in {"INVALID", "BLOCKED", "UNKNOWN", "CANDIDATE",
                                 "READY", "REVOKED"} \cup Released
          /\ Len(release.history) <= project.decisions
    /\ \A p \in Packers :
          packing[p] # None =>
              /\ packing[p].placed <= Len(packing[p].files)
              /\ packing[p].placed - Len(packing[p].written) \in {0, 1}
    /\ handoff # None => handoff.status \in {"HANDOFF_PREPARED", "UNAVAILABLE"}

\* What an approval under a policy must have seen.
ApprovalFounded(r) ==
    /\ r.status \in Approvals
    /\ r.policy.require_readiness =>
          /\ r.evidence.readiness # None
          /\ ~r.evidence.readiness.blocked
    /\ r.policy.require_coverage =>
          /\ r.evidence.validation # None
          /\ CoverageComplete(r.evidence.validation.coverage)

\* A release record that is released: no gate of its policy is open, the
\* evidence it was released on is of its own contents and scope, and a review
\* it needs is of the same contents, over at least its scenarios, and approved
\* on what the review's policy asks for.
Justified(r) ==
    /\ ~HasBlocker(r.issues)
    /\ r.evidence.snapshot.content = r.snapshot.content
    /\ r.evidence.scope.covered = r.scope.covered
    /\ r.policy.require_review =>
          LET v == r.evidence.snapshot.review IN
          /\ v # None
          /\ ApprovalFounded(v)
          /\ v.snapshot.content = r.snapshot.content
          /\ r.scope.covered \subseteq v.scope.covered

\* Whatever was edited, decided, revoked or supplied in between, what is
\* released is justified (release/engine.py:217, review/engine.py:185).
ReleaseJustified == (release # None /\ release.status \in Released) => Justified(release)

\* What a review is approved on are reports of the constraint set reviewed
\* ("A supplied lineage or readiness report whose own UCM snapshot does not
\* match the UCM being reviewed is a review blocker",
\* docs/STEP31_CONSTRAINT_REVIEW.md:160).  A review that is deferred or
\* rejected while another set is in force takes over that set's reports, and
\* approving it later without supplying any rests on those.
ApprovedOnOwnReports ==
    (review # None /\ review.status \in Approvals) =>
        \A report \in {review.evidence.readiness, review.evidence.lineage} \ {None} :
            report.ucm \in {None, review.snapshot.content}

\* No sequence of decisions brings a revoked release back
\* (release/engine.py:246, 270).
RevokedReleaseFinal ==
    (release # None /\ release.status \in Released) =>
        \A i \in DOMAIN release.history : release.history[i] # "REVOKE"

\* When a handoff of the package it has verified is prepared, what lies in the
\* directory, after crashes, damage and releasers that wrote at once, is one
\* released constraint set of known meaning with the approved review it was
\* released under, though records and hashes were read at different times
\* (handoff/engine.py:63, 166, release/engine.py:415).
HandoffTraced ==
    [][(/\ handoff' # handoff
        /\ handoff'.status = "HANDOFF_PREPARED"
        /\ handoff'.package = handoff'.verified) =>
         /\ {"ucm", "release"} \subseteq DOMAIN dir
         /\ dir["release"].status \in Released
         /\ dir["ucm"].content = dir["release"].snapshot.content
         /\ dir["ucm"].meaning # None
         /\ dir["release"].policy.require_review =>
               /\ "review" \in DOMAIN dir
               /\ ApprovalFounded(dir["review"])
               /\ dir["review"].snapshot.content = dir["ucm"].content
               /\ dir["release"].scope.covered \subseteq dir["review"].scope.covered
      ]_vars
=============================================================================
