----------------------------- MODULE Readiness -----------------------------
(***************************************************************************)
(* readiness/engine.py: the report that says whether a constraint set is   *)
(* ready, from the validation of it and from evidence handed in.  It is a  *)
(* function of what it is given:                                           *)
(*   u  the constraints, d the design, v the validation,                   *)
(*   w  the rest of the world: ucmGiven, enabled and active (the MCMM      *)
(*      matrix), formalRequired, eda (is a real tool configured, and what  *)
(*      its preflight said), ledger (assumptions), stored and external     *)
(*      (receipts of applications), candidates (of an inference), and      *)
(*      identity (the version of each source now).                         *)
(* A finding is its status and scenario: its severity is BLOCKER exactly   *)
(* when the status is BLOCKED or UNSUPPORTED.                              *)
(***************************************************************************)
EXTENDS Coverage

Outstanding == {"UNKNOWN", "UNRESOLVED", "REQUIRES_USER_INPUT"}
Unresolved(issues) == {i \in issues : i.resolution \in Outstanding}
Coded(issues, codes) == {i \in issues : i.code \in codes}

Supports(status, scenario) == [status |-> status, scenario |-> scenario]
Global(status) == {Supports(status, NoScenario)}

\* The finding a requirement that is not ready carries when it has one only.
Requirement(id, status, required) ==
    [id |-> id, status |-> status, required |-> required, scenario |-> NoScenario,
     findings |-> IF status = "READY" THEN {} ELSE Global(status)]

IssueStatus(i) ==
    IF i.blocking \/ Blocks(i.severity) THEN "BLOCKED"
    ELSE IF i.resolution \in Outstanding THEN "UNKNOWN" ELSE "READY_WITH_WARNINGS"

\* A blocked or incomplete requirement marks all of its findings so; otherwise
\* each has the status of its issue.
IssueFindings(status, issues) ==
    {Supports(IF status \in {"BLOCKED", "INCOMPLETE"} THEN status ELSE IssueStatus(i), i.scenario) : i \in issues}

WithFindings(r, findings) == [r EXCEPT !.findings = findings]

\* ------------------------------------------------------------ source, clocks

SourceRequirements(d, w) ==
    {Requirement("DESIGN_ELABORATED", IF d.available THEN "READY" ELSE "BLOCKED", TRUE),
     Requirement("TIMING_GRAPH_AVAILABLE", IF d.graph THEN "READY" ELSE "BLOCKED", TRUE),
     Requirement("CANONICAL_UCM_AVAILABLE", IF w.ucmGiven THEN "READY" ELSE "INCOMPLETE", TRUE)}

PrimaryClockIntent(v) ==
    LET value == v.coverage["clock_source"]
    IN Requirement("PRIMARY_CLOCK_INTENT_RESOLVED",
        CASE value = Unknowable -> "UNKNOWN" [] value = Short -> "BLOCKED" [] OTHER -> "READY",
        value # NotApplicable)

ValidationRequirement(id, v, codes, status) ==
    LET matching == Coded(v.report, codes)
        actual == IF matching = {} THEN "READY" ELSE status
    IN WithFindings(Requirement(id, actual, TRUE), IssueFindings(actual, matching))

ClockPeriods(v) ==
    ValidationRequirement("CLOCK_PERIODS_RESOLVED", v,
        {"CLOCK_PERIOD_MISSING", "CLOCK_PERIOD_INVALID"}, "BLOCKED")

ClockRelationships(d, v) ==
    IF d.graph /\ d.edges # {}
    THEN {ValidationRequirement("CLOCK_RELATIONSHIPS_RESOLVED", v,
            {"COMPLETENESS_CLOCK_RELATIONSHIP"}, "INCOMPLETE")}
    ELSE {}

GeneratedCodes == {"COMPLETENESS_GENERATED_CLOCK", "GCLK_SOURCE_MISSING", "GCLK_MASTER_MISSING",
    "GCLK_TARGET_MISSING", "GCLK_INVALID_DIV", "GCLK_INVALID_MUL", "GCLK_EDGES_INVALID"}

\* A candidate of the graph is unresolved whatever the set says of it.
GeneratedClockIntent(u, d, v) ==
    LET candidates == d.graph /\ d.derived # {}
        checked == ValidationRequirement("GENERATED_CLOCK_INTENT_RESOLVED", v, GeneratedCodes, "INCOMPLETE")
    IN IF GeneratedClocks(u) = {} /\ ~candidates THEN {}
       ELSE IF candidates
       THEN {WithFindings([checked EXCEPT !.status = "INCOMPLETE"], checked.findings \cup Global("INCOMPLETE"))}
       ELSE {checked}

\* ------------------------------------------------------------ I/O, exceptions

IoTiming(v) ==
    LET relevant == Coded(v.report, {"COMPLETENESS_IO_TIMING", "COMPLETENESS_ENVIRONMENT",
                                     "IO_CLOCK_UNKNOWN", "IO_DELAY_INVALID"})
        values == {v.coverage["input"], v.coverage["output"]}
        status == IF Unknowable \in values THEN "UNKNOWN"
                  ELSE IF relevant # {} \/ Short \in values THEN "INCOMPLETE"
                  ELSE "READY"
    IN WithFindings(Requirement("IO_TIMING_RESOLVED", status, values # {NotApplicable}),
        IssueFindings(status, relevant)
            \cup (IF Short \in values /\ relevant = {} THEN Global(status) ELSE {})
            \cup (IF Unknowable \in values THEN Global(status) ELSE {}))

Refuting == {"EXCEPTION_FORMAL_INVALID", "EXCEPTION_VERIFICATION_ERROR",
             "EXCEPTION_BAD_CYCLES", "EXCEPTION_SETUP_HOLD_INCOHERENT"}

\* Whatever blocks, and an unproved exception when proofs are configured,
\* blocks; without exceptions there is nothing to require.
ExceptionsValidated(u, v, formalRequired) ==
    LET matching == {i \in v.report : i.category = "EXCEPTION"}
        unverified == Coded(matching, {"EXCEPTION_UNVERIFIED"})
        refuted == Coded(matching, Refuting) \cup Blocking(matching)
        status == IF refuted # {} THEN "BLOCKED"
                  ELSE IF unverified # {} /\ formalRequired THEN "BLOCKED"
                  ELSE IF Unresolved(matching) # {} /\ formalRequired THEN "UNKNOWN"
                  ELSE IF matching # {} THEN "READY_WITH_WARNINGS"
                  ELSE "READY"
        findings == IssueFindings(status, unverified) \cup IssueFindings("", matching \ unverified)
    IN IF Exceptions(u) = {} THEN {}
       ELSE {WithFindings(Requirement("EXCEPTIONS_VALIDATED", status, TRUE),
                IF matching = {} THEN Global("READY") ELSE findings)}

\* ------------------------------------------------------------------ scenarios

\* What a report is asked about: nothing when the matrix is off, every active
\* scenario when nothing is requested, else the active ones of the request.
Selected(w, requested) ==
    IF ~w.enabled THEN {} ELSE IF requested = {} THEN w.active ELSE requested \cap w.active

SelectionRequirement(w, requested) ==
    IF w.enabled /\ ~(requested \subseteq w.active)
    THEN {Requirement("SCENARIO_SELECTION_VALID", "BLOCKED", TRUE)} ELSE {}

ScenarioStatusOf(issues) ==
    IF Coded(issues, {"SCENARIO_UNKNOWN_ID"}) # {} THEN "BLOCKED"
    ELSE IF issues # {} THEN "INCOMPLETE"
    ELSE "READY"

ScenarioRequirements(v, w) ==
    LET issues == {i \in v.report : i.category = "SCENARIO"}
        homeless == {i \in issues : i.scenario \notin w.active}
        status == IF w.active = {} THEN "BLOCKED" ELSE ScenarioStatusOf(issues)
        stray == {Supports(IF i.code = "SCENARIO_UNKNOWN_ID" THEN "BLOCKED" ELSE status, i.scenario) :
                    i \in homeless}
        own(s) == {i \in issues : i.scenario = s}
        intent(s) ==
            LET actual == IF Blocking(own(s)) # {} THEN "BLOCKED" ELSE ScenarioStatusOf(own(s))
            IN [Requirement("SCENARIO_INTENT_VALID", actual, TRUE) EXCEPT
                    !.scenario = s, !.findings = IssueFindings(actual, own(s))]
    IN IF ~w.enabled THEN {}
       ELSE {WithFindings(Requirement("SCENARIOS_VALID", status, TRUE),
                stray \cup (IF w.active = {} THEN Global(status) ELSE {}))}
            \cup {intent(s) : s \in w.active}

\* ------------------------------------------------------ validation, coverage

\* The finding is scoped when every issue that drives the status is of one
\* scenario, and global otherwise.
ValidationClean(v, formalRequired) ==
    LET unresolved == Unresolved(v.report) \
            (IF formalRequired THEN {} ELSE Coded(v.report, {"EXCEPTION_UNVERIFIED"}))
        status == IF v.status = "BLOCKED" THEN "BLOCKED"
                  ELSE IF unresolved # {} THEN "UNKNOWN"
                  ELSE IF v.status = "PASS_WITH_WARNINGS" \/ Warnings(v.report) # {} THEN "READY_WITH_WARNINGS"
                  ELSE "READY"
        scopes == {i.scenario : i \in IF status = "BLOCKED" THEN Blocking(v.report) ELSE unresolved}
        scope == IF \E s \in scopes : scopes = {s} THEN CHOOSE s \in scopes : TRUE ELSE NoScenario
    IN WithFindings(Requirement("VALIDATION_CLEAN", status, TRUE),
        IF status = "READY" THEN {} ELSE {Supports(status, scope)})

CoverageKnown(v) ==
    LET values == {v.coverage[m] : m \in Measures}
    IN Requirement("COVERAGE_KNOWN",
        IF Unknowable \in values THEN "UNKNOWN" ELSE IF Short \in values THEN "INCOMPLETE" ELSE "READY", TRUE)

\* ------------------------------------------------------------------ evidence

\* Disabled constraints are looked at too.
EvidencePresent(u, w) ==
    LET bare == {c \in u : c.source \in {"INFERENCE", "DERIVED"} /\ c.evidence = {}}
        open == {a \in w.ledger : a.required /\ ~a.confirmed}
    IN Requirement("REQUIRED_EVIDENCE_PRESENT", IF bare \cup open = {} THEN "READY" ELSE "INCOMPLETE", TRUE)

\* A snapshot is compared on the sources it names and that are there now.
Moved(snapshot, w, sources) ==
    {s \in sources \cap DOMAIN snapshot \cap DOMAIN w.identity : snapshot[s] # w.identity[s]}
Sources == {"design", "timing_graph", "config"}

StaleStored(r, u, w) ==
    r.applied = {} \/ ~(r.applied \subseteq {c.id : c \in u}) \/ Moved(r.snapshot, w, Sources) # {}

\* A receipt handed in must also speak of the set as it is now.
StaleExternal(r, u, w) ==
    \/ r.after # {} /\ r.after # {w.identity.constraint_set}
    \/ Moved(r.snapshot, w, Sources) # {}
    \/ ~(r.applied \subseteq {c.id : c \in u})

StaleEvidence(u, w) ==
    LET stale == {r \in w.stored : StaleStored(r, u, w)} \cup {r \in w.external : StaleExternal(r, u, w)}
                     \cup {k \in w.candidates : Moved(k.snapshot, w, Sources \cup {"constraint_set"}) # {}}
    IN Requirement("STALE_EVIDENCE_CLEAR", IF stale = {} THEN "READY" ELSE "BLOCKED", TRUE)

\* Advice is never required.
AdvisoryReview(w) ==
    IF w.candidates = {} THEN {}
    ELSE {Requirement("ADVISORY_INFERENCE_REVIEW",
            IF \E k \in w.candidates : ~k.complete THEN "INCOMPLETE" ELSE "READY", FALSE)}

EdaPreflight(w) ==
    Requirement("EDA_PREFLIGHT_READY",
        IF ~w.eda.real THEN "READY"
        ELSE IF w.eda.preflight = "none" THEN "UNKNOWN"
        ELSE IF w.eda.preflight = "unsupported" THEN "UNSUPPORTED"
        ELSE IF w.eda.preflight = "ready" /\ w.eda.matches THEN "READY"
        ELSE "BLOCKED", w.eda.real)

\* ------------------------------------------------------------------ verdicts

Requirements(u, d, v, w, requested) ==
    SourceRequirements(d, w) \cup {PrimaryClockIntent(v), ClockPeriods(v)}
        \cup ClockRelationships(d, v) \cup GeneratedClockIntent(u, d, v)
        \cup {IoTiming(v)} \cup ExceptionsValidated(u, v, w.formalRequired)
        \cup SelectionRequirement(w, requested) \cup ScenarioRequirements(v, w)
        \cup {ValidationClean(v, w.formalRequired), CoverageKnown(v), EvidencePresent(u, w),
              StaleEvidence(u, w), EdaPreflight(w)} \cup AdvisoryReview(w)

\* From worst to best; the worst status there is.
StatusOrder == <<"BLOCKED", "UNSUPPORTED", "INCOMPLETE", "UNKNOWN", "READY_WITH_WARNINGS", "READY">>
AggregateStatus(statuses) ==
    StatusOrder[Min({i \in 1 .. Len(StatusOrder) : StatusOrder[i] \in statuses} \cup {Len(StatusOrder)})]

\* The findings of a requirement are there and are all of some scenario.
Localized(r) == r.findings # {} /\ \A x \in r.findings : x.scenario # NoScenario
Touches(r, selected) == \E x \in r.findings : x.scenario \in selected

\* A requirement of a scenario counts when it is selected; a global one unless
\* all it found is of scenarios that are not.
Counts(r, requirements, selected) ==
    LET unready == {x \in requirements : x.scenario # NoScenario /\ x.status # "READY"}
    IN /\ r.required
       /\ IF r.scenario # NoScenario THEN selected = {} \/ r.scenario \in selected
          ELSE selected # {} =>
                 /\ Localized(r) => Touches(r, selected)
                 /\ r.id = "SCENARIOS_VALID" /\ unready # {} => \E x \in unready : x.scenario \in selected

OverallReadiness(requirements, selected) ==
    AggregateStatus({r.status : r \in {x \in requirements : Counts(x, requirements, selected)}})

\* One scenario's result leaves out every global requirement whose findings
\* are scoped, those scoped to the scenario itself included.
ScenarioResult(requirements, s) ==
    AggregateStatus({r.status : r \in {x \in requirements :
        \/ x.scenario = s
        \/ x.required /\ x.scenario = NoScenario /\ x.id # "SCENARIOS_VALID" /\ ~Localized(x)}})

AssessReadiness(u, d, v, w, requested) ==
    LET requirements == Requirements(u, d, v, w, requested)
        selected == Selected(w, requested)
        shown == IF ~w.enabled THEN {} ELSE IF selected = {} THEN w.active ELSE selected
    IN [status |-> OverallReadiness(requirements, selected),
        blockers |-> {<<r.id, r.scenario>> : r \in {x \in requirements :
            \E y \in x.findings : y.status \in {"BLOCKED", "UNSUPPORTED"}}},
        scenarios |-> [s \in shown |-> ScenarioResult(requirements, s)]]
=============================================================================
