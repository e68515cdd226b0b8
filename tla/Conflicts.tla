----------------------------- MODULE Conflicts -----------------------------
(***************************************************************************)
(* The later layers of validation/: conflicts between constraints and      *)
(* their precedence, overlapping and unverified exceptions, scenario       *)
(* coherence, completeness, and the SDC backend's preflight.               *)
(***************************************************************************)
EXTENDS Validation

\* --------------------------------------------------------------- conflicts

ClockName(c) == IF c.name # "" THEN c.name ELSE IF c.targets # {} THEN CHOOSE t \in c.targets : TRUE ELSE c.id
Periods(s) == {Period(c) : c \in {x \in s : Has(x, "period")}}
Delays(s)  == {Delay(c) : c \in {x \in s : Has(x, "delay")}}

ValuesOf(s, field) == {c.values[field] : c \in {x \in s : Has(x, field)}}

\* The constraints under one key, where there are several.
Groups(s, keys(_)) ==
    {g \in {{c \in s : k \in keys(c)} : k \in UNION {keys(c) : c \in s}} : Cardinality(g) > 1}

Options == {"source", "early", "late", "min", "max", "rise", "fall", "setup", "hold"}
\* What a latency or an uncertainty is set on: its targets, else its clocks.
SettingKeys(c) ==
    LET on == IF c.targets # {} THEN c.targets
              ELSE IF c.clockRefs # <<>> THEN {c.clockRefs[i] : i \in DOMAIN c.clockRefs} ELSE {""}
    IN {<<t, {o \in Options : Flag(c, o)}>> : t \in on}
Endpoints(c) == {<<c.from, c.to>>}

\* What is set twice: the groups of each such type and the field they set.
Settings(u) ==
    {<<g, "latency", "CONFLICT_LATENCY">> : g \in Groups(ByType(u, "set_clock_latency"), SettingKeys)}
    \cup {<<g, "uncertainty", "CONFLICT_UNCERTAINTY">> :
              g \in Groups(ByType(u, "set_clock_uncertainty"), SettingKeys)}
    \cup {<<g, "delay", "CONFLICT_MINMAX_DELAY">> :
              g \in UNION {Groups(ByType(u, t), Endpoints) : t \in {"set_min_delay", "set_max_delay"}}}

\* Exceptions on one selector.  Disabled ones take part: the set is iterated,
\* not filtered.
Selector(c) == <<c.from, c.to, c.through>>
SharedSelectors(u) ==
    LET excs == {c \in u : c.type \in ExceptionTypes /\ c.selector}
    IN {{x \in excs : Selector(x) = Selector(c)} : c \in excs}
Types(s) == {c.type : c \in s}
Contradictory(s) ==
    "set_false_path" \in Types(s) /\ Types(s) \cap {"set_multicycle_path", "set_max_delay"} # {}
Budgets(s, t) == Delays({c \in s : c.type = t})

\* float() is applied to every period and to the values that share a key: one
\* that does not parse raises, and no report comes out of the run.
ConflictsRaise(u) ==
    \/ Garbled \in Periods(Clocks(u))
    \/ \E g \in Groups(IoConstraints(u), IoKeys) : Garbled \in Delays(g)
    \/ \E s \in Settings(u) : Garbled \in ValuesOf(s[1], s[2])
    \/ \E g \in SharedSelectors(u) :
          /\ ~Contradictory(g) /\ {"set_min_delay", "set_max_delay"} \subseteq Types(g)
          /\ Garbled \in Budgets(g, "set_min_delay") \cup Budgets(g, "set_max_delay")

SourceRank(source) ==
    CASE source = "USER"                                    -> 6
      [] source = "EXISTING_SDC"                            -> 5
      [] source \in {"LIBRARY", "TOOL", "PHYSICAL_DATA"}    -> 4
      [] source = "RTL"                                     -> 3
      [] source = "INFERENCE"                               -> 2
      [] OTHER                                              -> 1

PrecedenceRank(c) ==
    IF c.status = "FIXED" THEN 100
    ELSE IF c.status = "CONFIRMED" /\ c.source = "USER" THEN 90 ELSE SourceRank(c.source)

\* The group's constraints disagree on what they set: an error that blocks,
\* and when one outranks another a warning that says which.  The stable sort
\* by rank names the last of the highest and the first of the lowest.
Disagreement(group, code, objects) ==
    LET ranks == {PrecedenceRank(c) : c \in group}
        loser == First({c \in group : PrecedenceRank(c) = Min(ranks)})
    IN {About(Issue("ERROR", "CONFLICT", code, First(group).id), objects)}
       \cup If(Cardinality(ranks) > 1,
               About(Issue("WARNING", "CONFLICT", "CONFLICT_USER_VS_INFERENCE", loser.id), objects))

Duplicate(group, objects) ==
    {About(Issue("LOW", "OVERLAP", "OVERLAP_DUPLICATE", First(group).id), objects)}

ClockConflicts(u) ==
    LET named(n) == {c \in Clocks(u) : ClockName(c) = n}
        shared == {n \in {ClockName(c) : c \in Clocks(u)} : Cardinality(named(n)) > 1}
    IN UNION {IF Cardinality(Periods(named(n))) > 1
              THEN Disagreement(named(n), "CONFLICT_CLOCK_PERIOD", {n})
              ELSE Duplicate(named(n), {n}) : n \in shared}

\* A delay without a target still has a key.
IoConflicts(u) ==
    LET keys == UNION {IoKeys(c) : c \in IoConstraints(u)}
        sharing(key) == {c \in IoConstraints(u) : key \in IoKeys(c)}
    IN UNION {IF Cardinality(Delays(sharing(k))) > 1
              THEN Disagreement(sharing(k), "CONFLICT_IO_DELAY", {k[2]})
              ELSE Duplicate(sharing(k), {k[2]}) : k \in {x \in keys : Cardinality(sharing(x)) > 1}}

SettingConflicts(u) ==
    {Issue("WARNING", "CONFLICT", s[3], First(s[1]).id) :
        s \in {x \in Settings(u) : Cardinality(ValuesOf(x[1], x[2])) > 1}}

ContradictoryExceptions(u) ==
    LET inverted(s) == LET mins == Budgets(s, "set_min_delay")
                           maxs == Budgets(s, "set_max_delay")
                       IN IF mins # {} /\ maxs # {} THEN Min(mins) > Min(maxs) ELSE FALSE
    IN {Issue("HIGH", "CONFLICT", "CONFLICT_EXCEPTION", First(g).id) :
            g \in {x \in SharedSelectors(u) : Contradictory(x)}}
       \cup {Issue("WARNING", "CONFLICT", "CONFLICT_MINMAX_DELAY", First(g).id) :
                g \in {x \in SharedSelectors(u) : ~Contradictory(x) /\ inverted(x)}}

\* _selector_subset_of.  Every -through stage of the narrow one must lie in a
\* later stage of the broad one; broad stages left over ask nothing.
SelectorSubset(narrow, broad) ==
    LET within(a, b) == b = {} \/ (a # {} /\ a \subseteq b)
        m == Len(broad.through)
        after[i \in 0 .. Len(narrow.through)] ==
            IF i = 0 THEN 0
            ELSE LET next == {j \in (after[i - 1] + 1) .. m : narrow.through[i] \subseteq broad.through[j]}
                 IN IF next = {} THEN m + 1 ELSE Min(next)
    IN /\ narrow.selector
       /\ broad.selector =>
            /\ within(narrow.from, broad.from)
            /\ within(narrow.to, broad.to)
            /\ broad.through # <<>> =>
                  narrow.through # <<>> /\ after[Len(narrow.through)] <= m

ExceptionOverlaps(u) ==
    LET excs == {c \in u : c.type \in ExceptionTypes}
        sameChecks(a, b) == /\ a.type = b.type
                            /\ Value(a, "min_max", "") = Value(b, "min_max", "")
                            /\ Value(a, "setup_hold", "") = Value(b, "setup_hold", "")
    IN {Issue("MEDIUM", "OVERLAP", "EXCEPTION_BROAD", c.id) : c \in {x \in excs : EmptySelector(x)}}
       \cup {Issue("LOW", "OVERLAP", "OVERLAP_REDUNDANT", p[1].id) :
                p \in {q \in excs \X excs : q[1] # q[2] /\ SelectorSubset(q[1], q[2]) /\ sameChecks(q[1], q[2])}}

ConflictIssues(u) ==
    ClockConflicts(u) \cup IoConflicts(u) \cup SettingConflicts(u)
        \cup ContradictoryExceptions(u) \cup ExceptionOverlaps(u)

\* -------------------------------------------------------------- exceptions

\* A path whose ends, or whose clocks, the two lists name.
AnyPathExists(c, d) ==
    \E p \in d.paths : {p.start, p.launch} \cap c.from # {} /\ {p.end, p.capture} \cap c.to # {}

CrossesUnknown(c, d) ==
    \E a \in c.from \cap d.clocks, b \in c.to \cap d.clocks :
        a # b /\ \E e \in EdgesBetween(d, a, b) : e.rel = "UNKNOWN"

\* A broad exception is reported as one and looked at no further.
ExceptionShape(c, d) ==
    LET ends == d.graph /\ c.from # {} /\ c.to # {}
        multicycle == c.type = "set_multicycle_path"
        exception(severity, code) == Issue(severity, "EXCEPTION", code, c.id)
    IN If(multicycle /\ BadCycles(c, 0), exception("ERROR", "EXCEPTION_BAD_CYCLES"))
       \cup If(multicycle /\ Flag(c, "start") /\ Flag(c, "end"),
               exception("WARNING", "EXCEPTION_SETUP_HOLD_INCOHERENT"))
       \cup IF EmptySelector(c)
            THEN {IF c.type = "set_false_path" THEN Unblocking(exception("HIGH", "EXCEPTION_BROAD"))
                  ELSE exception("MEDIUM", "EXCEPTION_BROAD")}
            ELSE If(ends /\ d.paths # {} /\ ~AnyPathExists(c, d), exception("LOW", "EXCEPTION_NO_EFFECT"))
                 \cup If(ends /\ CrossesUnknown(c, d), exception("MEDIUM", "EXCEPTION_SUSPICIOUS"))

\* _record_verification_state: a proof that is VERIFIED, and an exception that
\* is not applicable, leave no trace.
VerificationIssues(u, d, backend) ==
    LET of(v) == CASE v.status = "UNRESOLVED" ->
                        {WithResolution(Issue("INFO", "EXCEPTION", "EXCEPTION_UNVERIFIED", v.c.id), "UNRESOLVED")}
                   [] v.status = "INVALID" -> {Issue("ERROR", "EXCEPTION", "EXCEPTION_FORMAL_INVALID", v.c.id)}
                   [] v.status = "ERROR" ->
                        {WithResolution(Issue("ERROR", "EXCEPTION", "EXCEPTION_VERIFICATION_ERROR", v.c.id), "UNRESOLVED")}
                   [] OTHER -> {}
    IN UNION {of(v) : v \in VerifyExceptions(u, d, backend, {}, {})}

ExceptionIssues(u, d, backend) ==
    VerificationIssues(u, d, backend)
        \cup UNION {ExceptionShape(c, d) : c \in {x \in u : x.type \in ExceptionTypes}}

\* --------------------------------------------------------------- scenarios

\* A scenario of the set is known, and active or not; those the project names
\* as active are known and active whatever the set says of them.
ScenarioIssues(u, known, active, projectActive) ==
    LET isKnown == known \cup projectActive
        isActive(s) == IF s \in known THEN s \in active ELSE s \in projectActive
        referring(s) == {c \in u : s \in c.scenarios}
        referenced == UNION {c.scenarios : c \in u}
        unknown == {s \in referenced : s \notin isKnown \/ ~isActive(s)}
        scenario(severity, code, s) == [Issue(severity, "SCENARIO", code, "") EXCEPT !.scenario = s]
    IN {scenario("WARNING", "SCENARIO_UNKNOWN_ID", s) : s \in unknown}
       \cup {scenario("LOW", "SCENARIO_MISMATCH", s) : s \in {x \in referenced :
                \A y \in referenced : Cardinality(referring(y)) <= 1}}

\* ------------------------------------------------------------ completeness

RequiresUserInput(code, objects) ==
    WithResolution(About(Issue("WARNING", "COMPLETENESS", code, ""), objects), "REQUIRES_USER_INPUT")

\* Ports are compared by the last part of their names, however they are given.
Leaf(d, n) == IF n \in DOMAIN d.leaf THEN d.leaf[n] ELSE n

MissingIoTiming(u, d) ==
    LET inputs  == {p.start : p \in {q \in d.paths : q.class \in {"INPUT_TO_REG", "INPUT_TO_OUTPUT"}}}
        outputs == {p.end : p \in {q \in d.paths : q.class \in {"REG_TO_OUTPUT", "INPUT_TO_OUTPUT"}}}
        delayed(t) == {Leaf(d, n) : n \in UNION {c.targets : c \in ByType(u, t)}}
        missing(ports, t) == {p \in ports : Leaf(d, p) \notin delayed(t)}
    IN {RequiresUserInput("COMPLETENESS_IO_TIMING", {p}) :
            p \in missing(inputs, "set_input_delay") \cup missing(outputs, "set_output_delay")}

CompletenessIssues(u, d) ==
    LET gclk(c) == [RequiresUserInput("COMPLETENESS_GENERATED_CLOCK", {}) EXCEPT !.on = c.id]
        untransformed(c) == ~(\E f \in {"divide_by", "multiply_by", "edges"} : Has(c, f)) /\ ~Flag(c, "combinational")
        unassociated(assoc) == {h \in DOMAIN assoc : assoc[h] = NoClock}
    IN {gclk(c) : c \in {x \in GeneratedClocks(u) : untransformed(x) \/ ~Has(x, "source")}}
       \cup IF ~d.graph THEN {} ELSE
            {RequiresUserInput("COMPLETENESS_CLOCK_RELATIONSHIP", {e.a, e.b}) :
                e \in {x \in d.edges : x.rel = "UNKNOWN" /\ x.confirm}}
            \cup MissingIoTiming(u, d)
            \cup {WithResolution(About(Issue("WARNING", "COMPLETENESS", "COMPLETENESS_ENVIRONMENT", ""), {Leaf(d, h)}), "UNRESOLVED") :
                    h \in unassociated(d.inClock) \cup unassociated(d.outClock)}

\* --------------------------------------------------------- backend preflight

\* preflight_constraint for a backend with every capability: what stops the
\* generator from writing the command.
ClockUnwritable(c) ==
    CASE c.type = "create_clock" -> ~Has(c, "period") \/ (c.targets = {} /\ c.refs = {} /\ c.name = "")
      [] c.type = "create_generated_clock" ->
            \/ c.name = ""
            \/ Has(c, "divide_by") /\ Has(c, "multiply_by")
            \/ Has(c, "edge_shift") /\ ~Has(c, "edges")
      [] c.type = "set_clock_groups" -> ~WellFormedGroups(c)
      [] OTHER -> FALSE

ValueUnwritable(c) ==
    CASE c.type \in IoTypes ->
            \/ ~Has(c, "delay") \/ (c.targets = {} /\ c.refs = {})
            \/ Value(c, "min_max", "both") \notin {"min", "max", "both"}
            \/ Value(c, "edge", "") \notin {"", "rise", "fall"}
      [] c.type = "set_clock_uncertainty" -> ~Has(c, "uncertainty")
      [] c.type = "set_clock_latency" -> ~Has(c, "latency")
      [] c.type = "set_clock_transition" -> ~Has(c, "transition")
      [] c.type = "set_multicycle_path" -> BadCycles(c, 1)
      [] c.type \in {"set_min_delay", "set_max_delay"} -> ~Has(c, "delay")
      [] c.type \in NeedsTarget -> \A f \in {"value", "transition", "lib_cell", "capacitance", "fanout"} : ~Has(c, f)
      [] OTHER -> FALSE

\* A cycle count that does not parse raises in the preflight, and the engine
\* then goes on without this layer.
BackendRaises(u, mode) ==
    \E c \in u : SafeToEmit(c, mode) /\ c.type = "set_multicycle_path" /\ Value(c, "cycles", 1) = Garbled

BackendIssues(u, backend, mode) ==
    IF backend \notin Backends THEN {Issue("ERROR", "BACKEND", "BACKEND_UNSUPPORTED", "")}
    ELSE {Issue("ERROR", "BACKEND", "BACKEND_BLOCKED", c.id) :
            c \in {x \in u : SafeToEmit(x, mode) /\ (ClockUnwritable(x) \/ ValueUnwritable(x))}}
=============================================================================
