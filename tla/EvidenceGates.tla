--------------------------- MODULE EvidenceGates ---------------------------
(***************************************************************************)
(* What a reviewer or a releaser is shown, and what it counts for: the     *)
(* scope of a decision, the evidence a caller supplies, and the findings   *)
(* the gates of review/engine.py and release/engine.py derive from it.     *)
(*                                                                         *)
(* Identities in the code are content hashes; here a content is its own    *)
(* identity.  Findings that only inform are left out: nothing reads them.  *)
(***************************************************************************)
EXTENDS Naturals, FiniteSets

CONSTANTS
    None,       \* nothing was supplied, or the identity is unknown
    Unreadable, \* a path at which no file can be read
    Torn        \* contents that no longer parse or hash as they did

(***************************************************************************)
(* Shapes.                                                                 *)
(*   constraint set  [content, meaning, scenarios, active, types]          *)
(*       content: what stable_hash_cset hashes, the constraints only;      *)
(*       meaning: the normalised semantics, None if some option of a       *)
(*       constraint is unsupported; types: constraint -> type              *)
(*   supply          [config, design, lineage, readiness, validation,      *)
(*                    formal, sdc], each None (formal: {}) if absent       *)
(***************************************************************************)
NothingSupplied ==
    [config |-> None, design |-> None, lineage |-> None, readiness |-> None,
     validation |-> None, formal |-> {}, sdc |-> None]

\* A finding <<severity, category>>, raised under a condition.
Finding(condition, severity, category) ==
    IF condition THEN {<<severity, category>>} ELSE {}
Blocker(condition, category) == Finding(condition, "BLOCKER", category)
Warning(condition, category) == Finding(condition, "WARNING", category)

HasBlocker(findings) == \E f \in findings : f[1] = "BLOCKER"
HasWarning(findings) == \E f \in findings : f[1] = "WARNING"

\* Missing evidence may be downgraded to a warning by the recorded policy.
Unresolved(condition, category, policy) ==
    Finding(condition,
            IF category \in policy.unresolved THEN "WARNING" ELSE "BLOCKER",
            category)

(***************************************************************************)
(* Scope: a configuration, when given, decides which scenarios are active. *)
(***************************************************************************)
ActiveScenarios(cset, config) ==
    IF config = None THEN cset.active ELSE config.active

ScenarioDefinition(cset, config) ==
    IF config = None THEN <<cset.scenarios, cset.active>>
    ELSE <<{}, config.active>>

Scope(cset, config, requested, all) ==
    LET active == ActiveScenarios(cset, config) IN
    [kind |-> IF all THEN "ALL_ACTIVE_SCENARIOS"
              ELSE IF requested # {} THEN "SELECTED_SCENARIOS" ELSE "GLOBAL",
     requested |-> requested,
     active |-> active,
     covered |-> IF requested # {} /\ ~all THEN requested \cap active
                 ELSE active,
     unknown |-> \/ ~(requested \subseteq cset.scenarios \cup active)
                 \/ all /\ requested # {},
     definition |-> ScenarioDefinition(cset, config)]

\* The scope a stored record is assessed under: what was requested then, in
\* today's scenarios.
ScopeAgain(scope, cset, config) ==
    Scope(cset, config, scope.requested, scope.kind = "ALL_ACTIVE_SCENARIOS")

ScopeFindings(scope, policy) ==
    Blocker(\/ scope.unknown
            \/ policy.require_all_active /\ ~(scope.active \subseteq scope.covered),
            "MCMM_SCOPE")

(***************************************************************************)
(* Coverage, lineage, issues and formal results mean the same to both.     *)
(***************************************************************************)
\* coverage: [graph, uncovered, percentages], where a percentage may be None.
CoverageComplete(coverage) ==
    /\ coverage.graph
    /\ ~coverage.uncovered
    /\ \A p \in coverage.percentages : p # None /\ p >= 100

\* lineage: [ucm, stale]
LineageMatches(lineage, cset) == lineage.ucm = cset.content

LineageFindings(lineage, cset) ==
    IF lineage = None THEN {}
    ELSE Blocker(~LineageMatches(lineage, cset), "LINEAGE")
         \cup Warning(LineageMatches(lineage, cset) /\ lineage.stale, "LINEAGE")

Passed == {"PASS", "READY", "VALID", "COMPLETE"}
PassedWithWarnings ==
    {"PASS_WITH_WARNINGS", "READY_WITH_WARNINGS", "WARNING", "WARNINGS"}

\* validation: [status, issues, coverage], issues a set of severities.
IssueFindings(validation) ==
    Blocker(validation.issues \cap {"CRITICAL", "ERROR", "HIGH"} # {}, "VALIDATION")
    \cup Warning(validation.issues \cap {"WARNING", "MEDIUM"} # {}, "VALIDATION")

Proven == {"VERIFIED", "PASS", "PROVEN"}

\* formal: a set of <<constraint, status>>, one per constraint.  A constraint
\* of a type the policy names needs a proof.
FormalFindings(formal, cset, policy) ==
    Blocker(\E f \in formal : f[2] \in {"FAILED", "INVALID", "ERROR"}, "FORMAL")
    \cup Warning(\E f \in formal :
                    f[2] \in {"UNVERIFIED", "UNRESOLVED", "UNKNOWN", "UNSUPPORTED"},
                 "FORMAL")
    \cup Unresolved(\E c \in DOMAIN cset.types :
                        /\ cset.types[c] \in policy.formal_types
                        /\ \A f \in formal : f[1] = c => f[2] \notin Proven,
                    "FORMAL", policy)

\* Two identities disagree only if both are known.
Differ(old, new) == old # None /\ new # None /\ old # new
=============================================================================
