----------------------------- MODULE Coverage -----------------------------
(***************************************************************************)
(* Coverage of the timing graph by the constraints (validation/coverage),  *)
(* and run_validation, which runs every layer and coverage last.           *)
(***************************************************************************)
EXTENDS Conflicts

CONSTANT RoundedAway   \* 2000 in the code: one missing of so many is no gap

ASSUME RoundingAssumption == RoundedAway \in Nat \ {0}

Unknowable == "UNKNOWN"
NotApplicable == "NOT_APPLICABLE"
Full == "100"
Short == "SHORT"      \* some percentage below 100

\* CoverageReport._pct, as far as readiness tells values apart: rounded to one
\* decimal, 99.95 and above is 100.
Percentage(covered, total) ==
    IF total = {} THEN NotApplicable
    ELSE IF RoundedAway * Cardinality(total \ covered) <= Cardinality(total) THEN Full ELSE Short

Constrained(u) == Names(Clocks(u)) \cup Names(GeneratedClocks(u))

\* The pairs some exception between them names, whichever direction it has: a
\* broad one earns nothing.
ExceptionPairs(u) ==
    DistinctPairs(UNION {{Pair(a, b) : a \in c.from, b \in c.to} : c \in Exceptions(u)})

PathsOf(d, classes) == {p \in d.paths : p.class \in classes}
InputPaths(d)  == PathsOf(d, {"INPUT_TO_REG", "INPUT_TO_OUTPUT"})
OutputPaths(d) == PathsOf(d, {"REG_TO_OUTPUT", "INPUT_TO_OUTPUT"})

MutantDelaysOn(u, type, port, clock) ==
    {c \in ByType(u, type) : port \in c.targets /\ IoClock(c) # NoClock}

\* The delays of one kind on a port for a clock; one without a clock covers
\* nothing.
DelaysOn(u, type, port, clock) ==
    {c \in ByType(u, type) : port \in c.targets /\ IoClock(c) = clock /\ clock # NoClock}

CoverageGap(severity, code, objects) == About(Issue(severity, "COVERAGE", code, ""), objects)

Ends(p) == {p.launch, p.capture}
\* Both clocks are identified and constrained.
Anchored(p, u) == NoClock \notin Ends(p) /\ Ends(p) \subseteq Constrained(u)

RegToReg(u, d) ==
    LET paths == PathsOf(d, {"REG_TO_REG"})
        related(p) == Ends(p) \in ClockGroupPairs(u) \cup ExceptionPairs(u)
    IN [total |-> paths,
        covered |-> {p \in paths : Anchored(p, u) /\ (p.launch = p.capture \/ related(p))},
        gap |-> [p \in paths |->
            IF NoClock \notin Ends(p) /\ ~Anchored(p, u)
            THEN CoverageGap("ERROR", "COVERAGE_CLOCK_GAP", Ends(p) \ Constrained(u))
            ELSE CoverageGap("WARNING", "COVERAGE_REG2REG_GAP", {p.start, p.end})]]

\* A clock group declared for the pair is not enough: a crossing needs an
\* exception of its own.
CdcPaths(u, d) ==
    LET paths == PathsOf(d, {"CDC"})
    IN [total |-> paths,
        covered |-> {p \in paths : Anchored(p, u) /\ Ends(p) \in ExceptionPairs(u)},
        gap |-> [p \in paths |-> CoverageGap("ERROR", "COVERAGE_CDC_GAP", {p.start, p.end})]]

\* Pairs from the edges and from the paths; only a clock group handles one.
ClockPairs(u, d) ==
    LET pairs == DistinctPairs({Pair(e.a, e.b) : e \in d.edges} \cup {Ends(p) : p \in d.paths})
        known == {p \in pairs : NoClock \notin p}
    IN [total |-> known, covered |-> known \cap ClockGroupPairs(u),
        gap |-> [p \in known |-> CoverageGap("ERROR", "COVERAGE_CDC_GAP", p)]]

\* A port's path is covered by a delay against the path's own clock; a delay
\* against another one is a mismatch, and so is none.
Timed(u, paths, type, port(_), clock(_), code) ==
    LET unconstrained(p) == clock(p) # NoClock /\ clock(p) \notin Constrained(u)
    IN [total |-> paths,
        covered |-> {p \in paths : /\ clock(p) \in Constrained(u)
                                   /\ DelaysOn(u, type, port(p), clock(p)) # {}},
        gap |-> [p \in paths |-> CoverageGap(IF unconstrained(p) THEN "ERROR" ELSE "WARNING",
                                     code, {port(p), clock(p)})]]

InputTiming(u, d) ==
    LET start(p) == p.start
        capture(p) == p.capture
    IN Timed(u, InputPaths(d), "set_input_delay", start, capture, "COVERAGE_INPUT_GAP")

OutputTiming(u, d) ==
    LET end(p) == p.end
        launch(p) == p.launch
    IN Timed(u, OutputPaths(d), "set_output_delay", end, launch, "COVERAGE_OUTPUT_GAP")

ClockSourceCoverage(u, d) ==
    [total |-> d.clocks, covered |-> d.clocks \cap Constrained(u),
     gap |-> [n \in d.clocks |-> CoverageGap("ERROR", "COVERAGE_CLOCK_GAP", {n})]]

Measures == {"clock_source", "input", "output", "reg_to_reg", "cdc", "clock_relationship"}

Measure(m, u, d) ==
    CASE m = "clock_source"       -> ClockSourceCoverage(u, d)
      [] m = "input"              -> InputTiming(u, d)
      [] m = "output"             -> OutputTiming(u, d)
      [] m = "reg_to_reg"         -> RegToReg(u, d)
      [] m = "cdc"                -> CdcPaths(u, d)
      [] m = "clock_relationship" -> ClockPairs(u, d)

Measurable(d) == d.available /\ d.graph

ComputeCoverage(u, d) ==
    [m \in Measures |-> IF ~Measurable(d) THEN Unknowable
                        ELSE LET c == Measure(m, u, d) IN Percentage(c.covered, c.total)]

CoverageIssues(u, d) ==
    IF ~Measurable(d) THEN {Issue("INFO", "COVERAGE", "COVERAGE_UNKNOWN", "")}
    ELSE UNION {LET c == Measure(m, u, d)
                IN {c.gap[x] : x \in c.total \ c.covered} : m \in Measures}

\* ---------------------------------------------------------- run_validation

\* _hydrate_provenance: an issue of a constraint of exactly one scenario is an
\* issue of that scenario.
Hydrated(i, u) ==
    LET of == {c \in u : c.id = i.on /\ Cardinality(c.scenarios) = 1}
    IN IF i.scenario = NoScenario /\ of # {}
       THEN [i EXCEPT !.scenario = CHOOSE s \in UNION {c.scenarios : c \in of} : TRUE] ELSE i

\* How the run is asked for: the proof backend, the SDC backend and mode, the
\* scenarios of the set, which of them are active, and those the project names.
ValidationRaises(u) == ConflictsRaise(u)

RunValidation(u, d, how) ==
    LET found == ReferenceIssues(u, d) \cup SemanticIssues(u, d) \cup ConflictIssues(u)
                     \cup ExceptionIssues(u, d, how.formal)
                     \cup ScenarioIssues(u, how.known, how.active, how.projectActive)
                     \cup CompletenessIssues(u, d)
                     \cup IF BackendRaises(u, how.mode) THEN {} ELSE BackendIssues(u, how.backend, how.mode)
        report == {Hydrated(i, u) : i \in found \cup CoverageIssues(u, d)}
    IN [report |-> report, status |-> OverallStatus(report), coverage |-> ComputeCoverage(u, d)]
=============================================================================
