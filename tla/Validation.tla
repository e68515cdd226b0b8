---------------------------- MODULE Validation ----------------------------
(***************************************************************************)
(* The layers of validation/ before coverage: references, semantics,       *)
(* conflicts, exceptions, scenarios, completeness and the backend's        *)
(* preflight.  Each is an operator from a constraint set u and a design d  *)
(* to the set of issues it reports; ValidationReport.add drops repeats, so *)
(* a set is what a report keeps.                                           *)
(***************************************************************************)
EXTENDS TimingExceptions, ConstraintSet

CONSTANTS Backends       \* the SDC backends the generator knows

\* ------------------------------------------------------------------ issues

Blocks(severity) == severity \in {"CRITICAL", "HIGH", "ERROR"}

\* _issue: a severity of error or above blocks unless the caller says not.
Issue(severity, category, code, on) ==
    [severity |-> severity, category |-> category, code |-> code, on |-> on, objects |-> {},
     scenario |-> NoScenario, blocking |-> Blocks(severity), resolution |-> "RESOLVED"]

About(i, objects) == [i EXCEPT !.objects = objects]
Unblocking(i) == [i EXCEPT !.blocking = FALSE]
WithResolution(i, resolution) == [i EXCEPT !.resolution = resolution]
If(condition, issue) == IF condition THEN {issue} ELSE {}

Errors(report)   == {i \in report : Blocks(i.severity)}
Warnings(report) == {i \in report : i.severity \in {"WARNING", "MEDIUM"}}
Blocking(report) == {i \in report : i.blocking}

\* ValidationReport.overall_status.  A HIGH issue that does not block, alone,
\* leaves the report at PASS.
OverallStatus(report) ==
    IF \E i \in report : i.severity = "CRITICAL" THEN "BLOCKED"
    ELSE IF Blocking(report) # {} /\ Errors(report) # {} THEN "BLOCKED"
    ELSE IF \E i \in report : i.severity = "ERROR" THEN "PASS_WITH_WARNINGS"
    ELSE IF Warnings(report) # {} THEN "PASS_WITH_WARNINGS"
    ELSE "PASS"

\* -------------------------------------------------------------- references

\* The clocks a reference may name; without a graph generated clocks are not
\* among them.
ClockIndex(u, d) ==
    IF d.graph THEN d.clocks \cup Names(Clocks(u)) \cup Names(GeneratedClocks(u))
    ELSE Names(Clocks(u))

DesignNames(d) == IF d.available THEN DOMAIN d.dir \cup d.objects ELSE {}
Unknown(names, u, d) == names \ (Wildcards \cup DesignNames(d) \cup ClockIndex(u, d) \cup {""})
Certainty(d) == IF d.available THEN "RESOLVED" ELSE "UNRESOLVED"

NeedsTarget == {"set_input_delay", "set_output_delay", "set_load", "set_input_transition",
    "set_max_transition", "set_max_capacitance", "set_max_fanout", "set_driving_cell"}
BroadKinds == {"ALL_INPUTS", "ALL_OUTPUTS", "ALL_CLOCKS", "ALL_REGISTERS"}

UnknownIssues(c, names, u, d) ==
    {WithResolution(About(Issue("WARNING", "REFERENCE", "REF_UNKNOWN", c.id), {n}), Certainty(d)) :
        n \in Unknown(names, u, d)}

\* Typed references are authoritative, plain names the fallback.
OperandIssues(c, refs, names, u, d) ==
    IF refs # {}
    THEN {WithResolution(Issue("WARNING", "REFERENCE", "REF_UNSUPPORTED_SELECTOR", c.id), "UNRESOLVED") :
              r \in {x \in refs : x.kind = "EXPR" /\ ~x.resolved}}
         \cup UNION {UnknownIssues(c, r.names, u, d) :
              r \in {x \in refs : x.kind \notin BroadKinds /\ (x.kind = "EXPR" => x.resolved)}}
    ELSE UnknownIssues(c, names, u, d)

\* A target may be required; a source never is.
TargetIssues(c, u, d) ==
    OperandIssues(c, c.refs, c.targets, u, d)
        \cup If(c.refs = {} /\ c.targets = {} /\ c.type \in NeedsTarget,
                Issue("ERROR", "REFERENCE", "REF_UNKNOWN", c.id))
SourceIssues(c, u, d) == OperandIssues(c, c.sourceRefs, c.sources, u, d)

\* The kinds a constraint's targets are expected to be.
ExpectedKinds(type) ==
    CASE type \in IoTypes \cup {"set_input_transition", "set_driving_cell"} -> {"PORT"}
      [] type = "set_load"                                                  -> {"PORT", "NET"}
      [] type \in {"set_max_transition", "set_max_capacitance", "set_max_fanout"} -> {"PORT", "PIN"}
      [] type \in {"create_clock", "set_clock_uncertainty"}                 -> {"PORT", "PIN", "CLOCK"}
      [] OTHER                                                              -> {}

KindIssues(c) ==
    {About(Issue("WARNING", "REFERENCE", "REF_KIND_INCONSISTENT", c.id), r.names) :
        r \in {x \in c.refs : /\ ExpectedKinds(c.type) # {}
                              /\ x.kind \notin BroadKinds \cup {"EXPR", "UNRESOLVED", "LITERAL"} \cup ExpectedKinds(c.type)}}

\* An unknown clock is an error even when the design is not there to tell.
ClockRefIssues(c, u, d) ==
    {WithResolution(About(Issue("ERROR", "REFERENCE", "REF_UNKNOWN", c.id), {n}), Certainty(d)) :
        n \in {c.clockRefs[i] : i \in DOMAIN c.clockRefs} \ (Wildcards \cup ClockIndex(u, d) \cup {""})}

SelectorIssues(c, u, d) ==
    IF c.selector
    THEN UnknownIssues(c, c.from \cup c.to \cup UNION {c.through[i] : i \in DOMAIN c.through}, u, d)
    ELSE {}

\* Every constraint is checked, disabled ones too.
ReferenceIssues(u, d) ==
    UNION {TargetIssues(c, u, d) \cup SourceIssues(c, u, d) \cup KindIssues(c)
               \cup ClockRefIssues(c, u, d) \cup SelectorIssues(c, u, d) : c \in u}

\* --------------------------------------------------------------- semantics

KnownClocks(u, d) ==
    Names(Clocks(u)) \cup Names(GeneratedClocks(u)) \cup IF d.graph THEN d.clocks ELSE {}

\* The source a clock without a target is on is its name, or its id.
ClockSources(c) == IF c.targets # {} THEN c.targets ELSE {IF c.name # "" THEN c.name ELSE c.id}
Period(c) == c.values.period
ReadablePeriod(c) == Has(c, "period") /\ Period(c) # Garbled

WaveformIssues(c) ==
    LET w == c.values.waveform
        fault(code) == {Issue("ERROR", "CLOCK", code, c.id)}
    IN IF ~Has(c, "waveform") THEN {}
       ELSE IF Len(w) < 2 THEN fault("CLOCK_WAVEFORM_INVALID")
       ELSE IF w[1] < 0 \/ w[2] < 0 THEN fault("CLOCK_WAVEFORM_INVALID")
       ELSE IF w[2] <= w[1] THEN fault("CLOCK_WAVEFORM_INCOHERENT")
       ELSE IF Period(c) # 0 /\ w[2] >= Period(c) THEN fault("CLOCK_WAVEFORM_INCOHERENT")
       ELSE {}

\* A clock whose period cannot be read is checked no further, and is on no
\* source as far as the last check can tell.
ClockIssues(u) ==
    LET readable == {c \in Clocks(u) : ReadablePeriod(c)}
        plain(src) == {c \in readable : src \in ClockSources(c) /\ ~Flag(c, "add")}
    IN {Issue("ERROR", "CLOCK", "CLOCK_PERIOD_MISSING", c.id) : c \in {x \in Clocks(u) : ~Has(x, "period")}}
       \cup {Issue("CRITICAL", "CLOCK", "CLOCK_PERIOD_INVALID", c.id) : c \in {x \in Clocks(u) :
                Has(x, "period") /\ (ReadablePeriod(x) => Period(x) <= 0)}}
       \cup {About(Issue("ERROR", "CLOCK", "CLOCK_MULTIPLE", First(plain(src)).id), {src}) :
                src \in {s \in UNION {ClockSources(c) : c \in readable} : Cardinality(plain(s)) > 1}}
       \cup UNION {WaveformIssues(c) : c \in readable}

Ratio(c, field) == Has(c, field) /\ (c.values[field] = Garbled \/ c.values[field] < 1)

GeneratedClockFaults(c, u, d) ==
    LET edges == Value(c, "edges", <<>>)
        transformed == Has(c, "divide_by") \/ Has(c, "multiply_by")
        fault(condition, code) == If(condition, Issue("ERROR", "CLOCK", code, c.id))
    IN If(~Has(c, "source"), Issue("WARNING", "CLOCK", "GCLK_SOURCE_MISSING", c.id))
       \cup fault(Has(c, "master") /\ c.values.master \notin KnownClocks(u, d), "GCLK_MASTER_MISSING")
       \cup fault(c.targets = {} /\ ~Has(c, "source"), "GCLK_TARGET_MISSING")
       \cup fault(Ratio(c, "divide_by"), "GCLK_INVALID_DIV")
       \cup fault(Ratio(c, "multiply_by"), "GCLK_INVALID_MUL")
       \cup fault(Has(c, "divide_by") /\ Has(c, "multiply_by"), "GCLK_CONTRADICTORY_OPTIONS")
       \cup fault(Has(c, "edges") /\ (Len(edges) < 3 \/ \E i \in 1 .. 3 : edges[i] \notin {1, 2}),
                  "GCLK_EDGES_INVALID")
       \cup fault(Has(c, "edge_shift") /\ edges = <<>>, "GCLK_EDGE_SHIFT_WITHOUT_EDGES")
       \cup fault(Flag(c, "combinational") /\ (transformed \/ Has(c, "edges")), "GCLK_CONTRADICTORY_OPTIONS")

\* Of generated clocks with one name only the last is looked at, and one
\* without a name is not looked at.
GeneratedClockIssues(u, d) ==
    UNION {GeneratedClockFaults(Last({c \in GeneratedClocks(u) : c.name = n}), u, d) :
        n \in Names(GeneratedClocks(u))}

\* What tells two delays on one target apart.
IoKey(c, target) == <<c.type, target, IoClock(c), Value(c, "min_max", "max"),
                      Value(c, "edge", ""), Flag(c, "add_delay")>>
\* A delay without a target has the one key of no target.
IoKeys(c) == {IoKey(c, t) : t \in IF c.targets # {} THEN c.targets ELSE {""}}
Delay(c) == c.values.delay
ReadableDelay(c) == Has(c, "delay") /\ Delay(c) # Garbled
ValidDelay(c) == IF ReadableDelay(c) THEN Delay(c) >= 0 ELSE FALSE

IoIssues(u, d) ==
    LET valid == {c \in IoConstraints(u) : ValidDelay(c)}
        fault(c, condition, code) == If(condition, Issue("ERROR", "TIMING", code, c.id))
        direction(t) == IF d.available /\ t \in DOMAIN d.dir THEN d.dir[t] ELSE ""
        wrong(c) == {t \in c.targets : direction(t) = (IF c.type = "set_input_delay" THEN "output" ELSE "input")}
        keys == UNION {{IoKey(c, t) : t \in c.targets} : c \in valid}
        sharing(key) == {c \in valid : \E t \in c.targets : IoKey(c, t) = key}
    IN {Issue("ERROR", "TIMING", "IO_DELAY_INVALID", c.id) : c \in IoConstraints(u) \ valid}
       \cup {About(Issue("WARNING", "TIMING", "IO_DUPLICATE", First(sharing(k)).id), {k[2]}) :
                k \in {x \in keys : Cardinality(sharing(x)) > 1}}
       \cup UNION {fault(c, Value(c, "min_max", "max") \notin {"min", "max", "both"}, "IO_MIN_MAX_INCOHERENT")
                   \cup fault(c, Value(c, "edge", "") \notin {"", "rise", "fall"}, "IO_MIN_MAX_INCOHERENT")
                   \cup fault(c, IoClock(c) \notin KnownClocks(u, d) \cup {NoClock}, "IO_CLOCK_UNKNOWN")
                   \cup fault(c, wrong(c) # {}, "IO_WRONG_DIRECTION") : c \in valid}

Relationships == {"asynchronous", "logically_exclusive", "physically_exclusive"}
RelationshipOf(c) == Value(c, "relationship", "asynchronous")
WellFormedGroups(c) == RelationshipOf(c) \in Relationships /\ Len(c.groups) >= 2

\* A declaration that is not well formed is checked no further and relates
\* no clocks.
GroupIssues(u, d) ==
    LET groups == ByType(u, "set_clock_groups")
        formed == {c \in groups : WellFormedGroups(c)}
        members(c) == UNION {c.groups[i] : i \in DOMAIN c.groups}
        twice(c) == {m \in members(c) : Cardinality({i \in DOMAIN c.groups : m \in c.groups[i]}) > 1}
        relating(pair) == {c \in formed : pair \in GroupPairs(c)}
        pairs == DistinctPairs(UNION {GroupPairs(c) : c \in formed})
    IN {Issue("ERROR", "CLOCK", "GROUPS_EMPTY", c.id) :
            c \in (groups \ formed) \cup {x \in formed : \E i \in DOMAIN x.groups : x.groups[i] = {}}}
       \cup {Issue("WARNING", "CLOCK", "GROUPS_DUPLICATE_MEMBER", c.id) : c \in {x \in formed : twice(x) # {}}}
       \cup {Issue("ERROR", "CLOCK", "GROUPS_CLOCK_UNKNOWN", c.id) :
                c \in {x \in formed : members(x) \ (Wildcards \cup KnownClocks(u, d)) # {}}}
       \cup {About(Issue("ERROR", "CONFLICT", "GROUPS_CONTRADICTORY_RELATIONSHIP", First(relating(p)).id), p) :
                p \in {q \in pairs : Cardinality({RelationshipOf(c) : c \in relating(q)}) > 1}}

BadCycles(c, least) ==
    LET cycles == Value(c, "cycles", Garbled)
    IN IF cycles = Garbled THEN TRUE ELSE cycles < least

PathSelectorIssues(u) ==
    LET selectors == {c \in u : c.selector}
        multicycles == {c \in selectors : c.type = "set_multicycle_path"}
        repeats(c) == \E i, j \in DOMAIN c.through : i < j /\ c.through[i] = c.through[j]
    IN {Issue("WARNING", "EXCEPTION", "PATH_SELECTOR_DUPLICATE_STAGE", c.id) : c \in {x \in selectors : repeats(x)}}
       \cup {Issue("ERROR", "EXCEPTION", "EXCEPTION_BAD_CYCLES", c.id) : c \in {x \in multicycles : BadCycles(x, 1)}}
       \cup {Issue("WARNING", "EXCEPTION", "EXCEPTION_SETUP_HOLD_INCOHERENT", c.id) :
                c \in {x \in multicycles : Flag(x, "start") /\ Flag(x, "end")}}

\* The value each kind of constraint must carry, and where zero is one.
ValueField == [set_clock_uncertainty |-> "uncertainty", set_clock_transition |-> "transition",
    set_input_transition |-> "transition", set_load |-> "load", set_max_transition |-> "max_transition",
    set_max_capacitance |-> "max_capacitance", set_max_fanout |-> "max_fanout",
    set_min_delay |-> "delay", set_max_delay |-> "delay"]
ZeroAllowed == {"set_clock_uncertainty", "set_load", "set_min_delay", "set_max_delay"}

\* A fanout that is no whole number is as bad as one that is no number.
BadValue(c) ==
    LET v == Value(c, ValueField[c.type], Garbled)
    IN IF v = Garbled THEN TRUE ELSE v < 0 \/ (v = 0 /\ c.type \notin ZeroAllowed)

ValueIssues(u) ==
    LET untargeted == {c \in u : c.targets = {}}
        ofType(s, types) == {c \in s : c.type \in types}
    IN {Issue("ERROR", "TIMING", "VALUE_INVALID", c.id) :
            c \in {x \in ofType(u, DOMAIN ValueField) : BadValue(x)}}
       \cup {Issue("ERROR", "CLOCK", "CLOCK_LATENCY_INVALID", c.id) :
                c \in {x \in ofType(u, {"set_clock_latency"}) : Value(x, "latency", 0) = Garbled}}
       \cup {Issue("WARNING", "CLOCK", "NO_TARGET_CLOCK", c.id) :
                c \in {x \in ofType(untargeted, {"set_clock_uncertainty", "set_clock_latency"}) : x.clockRefs = <<>>}}
       \cup {Issue("ERROR", "TIMING", "NO_TARGET_PORT", c.id) :
                c \in ofType(untargeted, {"set_input_transition", "set_load", "set_driving_cell"})}
       \cup {Issue("WARNING", "TIMING", "DRIVING_CELL_INVALID", c.id) :
                c \in {x \in ofType(u, {"set_driving_cell"}) : ~Has(x, "lib_cell")}}
       \cup {Issue("WARNING", "EXCEPTION", "MINMAX_DELAY_INVALID", c.id) :
                c \in {x \in ofType(u, {"set_min_delay", "set_max_delay"}) : x.selector /\ EmptySelector(x)}}

SemanticIssues(u, d) ==
    ClockIssues(u) \cup GeneratedClockIssues(u, d) \cup IoIssues(u, d) \cup GroupIssues(u, d)
        \cup PathSelectorIssues(u) \cup ValueIssues(u)
=============================================================================
