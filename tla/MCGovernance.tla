---------------------------- MODULE MCGovernance ----------------------------
(***************************************************************************)
(* Two constraint sets, the second with an option nobody can interpret;    *)
(* analyses of the first that are clean or have warnings, and of the       *)
(* second.                                                                 *)
(***************************************************************************)
EXTENDS Governance

Clean ==
    [content |-> "a", meaning |-> "m", scenarios |-> {"s1", "s2"},
     active |-> {"s1", "s2"}, types |-> [c1 |-> "false_path"]]
Opaque == [Clean EXCEPT !.content = "b", !.meaning = None]

MCUcms == {Clean, Opaque}

Config == [name |-> "project", active |-> {"s1", "s2"}]

Analysed(status) ==
    [config |-> Config, design |-> "d",
     lineage |-> [ucm |-> "a", stale |-> FALSE],
     readiness |-> [ucm |-> "a", status |-> status, blocked |-> FALSE,
                    warned |-> status # "READY", stale |-> FALSE],
     validation |-> [status |-> "PASS", issues |-> {},
                     coverage |-> [graph |-> TRUE, uncovered |-> FALSE,
                                   percentages |-> {100}]],
     formal |-> {<<"c1", "VERIFIED">>}, sdc |-> None]
Elsewhere ==
    [Analysed("READY") EXCEPT !.lineage.ucm = "b", !.readiness.ucm = "b", !.sdc = "v1"]

Supplied(status, sdcs) ==
    {NothingSupplied} \cup {[Analysed(status) EXCEPT !.sdc = x] : x \in sdcs}

MCConfigs == {None, Config}

\* The default policies, and a project that tolerates warnings and looks at
\* selected scenarios.
Strict ==
    [review |-> [require_readiness |-> TRUE, require_ready |-> TRUE,
                 require_validation |-> TRUE, require_coverage |-> TRUE,
                 require_all_active |-> TRUE, allow_warnings |-> FALSE,
                 formal_types |-> {}, unresolved |-> {}],
     release |-> [require_review |-> TRUE, allow_review_with_warnings |-> FALSE,
                  require_config |-> TRUE, require_design |-> TRUE,
                  require_readiness |-> TRUE, readiness_statuses |-> {"READY"},
                  require_validation |-> TRUE, require_coverage |-> TRUE,
                  require_lineage |-> TRUE, require_all_active |-> TRUE,
                  formal_types |-> {}, require_sdc |-> FALSE,
                  allow_warnings |-> FALSE, unresolved |-> {}],
     handoff |-> [require_verified |-> TRUE, require_released |-> TRUE,
                  require_config |-> TRUE, require_sdc |-> FALSE,
                  dialect |-> "OPENSTA", allow_unknown_dialect |-> FALSE,
                  allow_warnings |-> FALSE]]

Tolerant ==
    [Strict EXCEPT !.review.allow_warnings = TRUE,
                   !.review.require_all_active = FALSE,
                   !.release.allow_review_with_warnings = TRUE,
                   !.release.allow_warnings = TRUE,
                   !.release.readiness_statuses = {"READY", "READY_WITH_WARNINGS"},
                   !.release.require_all_active = FALSE,
                   !.handoff.require_config = FALSE]

Whole == <<{}, FALSE>>
Part == <<{"s1"}, FALSE>>

Project(policies, supplies, reviewed, released, packers, decisions) ==
    [review |-> policies.review, release |-> policies.release,
     handoff |-> policies.handoff, supplies |-> supplies,
     reviewed |-> reviewed, released |-> released, packers |-> packers,
     decisions |-> decisions]

\* One project per question: warnings and partial scopes; the way from review
\* to handoff under the default policies; two releasers and one directory.
MCProjects ==
    {Project(Tolerant, Supplied("READY_WITH_WARNINGS", {"v1"}) \cup {Elsewhere},
             {Whole, Part}, {Whole, Part}, {}, 2),
     Project(Strict, Supplied("READY", {"v1"}), {Whole}, {Whole}, {"p1"}, 2),
     Project([Strict EXCEPT !.release.require_review = FALSE],
             Supplied("READY", {"v1"}), {}, {Whole}, {"p1", "p2"}, 3)}
=============================================================================
