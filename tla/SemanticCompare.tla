-------------------------- MODULE SemanticCompare --------------------------
(***************************************************************************)
(* equivalence/: two constraint sets compared by meaning.  Constraints are *)
(* normalised to signatures, grouped by match key, paired within a group   *)
(* with decreasing strength, and the pairs rolled up to one verdict.       *)
(*                                                                         *)
(* A side is [cons, scenarios]: its constraints and the scenario           *)
(* definitions it declares, a function from ids to [active, key].          *)
(***************************************************************************)
EXTENDS TimingConstraints

ClockTypes == {"create_clock", "create_generated_clock"}

\* ----------------------------------------------------------- normalisation

\* Fields with a default: absent and explicitly the default are the same.
FieldDefaults(type) ==
    CASE type = "create_clock" -> [add |-> FALSE]
      [] type = "create_generated_clock" -> [add |-> FALSE, combinational |-> FALSE, invert |-> FALSE]
      [] type \in IoTypes -> [min_max |-> "max", edge |-> "both", add_delay |-> FALSE, clock_fall |-> FALSE]
      [] type = "set_clock_uncertainty" -> [setup |-> TRUE, hold |-> TRUE, from |-> {}, to |-> {}]
      [] type = "set_clock_latency" ->
            [min_max |-> "max", source |-> FALSE, network |-> TRUE, early |-> FALSE, late |-> FALSE]
      [] type = "set_clock_transition" -> [min_max |-> "max", rise |-> TRUE, fall |-> TRUE]
      [] type = "set_false_path" ->
            [min_max |-> "both", setup_hold |-> "both", add_delay |-> FALSE, reset_path |-> FALSE]
      [] type = "set_multicycle_path" ->
            [cycles |-> 1, min_max |-> "max", setup_hold |-> "setup", start |-> FALSE, end |-> TRUE]
      [] OTHER -> <<>>

\* What tells constraints of one type apart, the name of a clock aside; and
\* the other fields without a default.
IdentityFields(type) ==
    CASE type = "create_clock" -> {"source"}
      [] type = "create_generated_clock" -> {"source", "master"}
      [] type \in IoTypes -> {"clock"}
      [] type = "set_clock_groups" -> {"relationship"}
      [] OTHER -> {}
OptionalFields(type) ==
    CASE type = "create_generated_clock" -> {"divide_by", "multiply_by", "duty_cycle"}
      [] type = "set_false_path" -> {"edge"}
      [] OTHER -> {}

\* The value of a field, if there is one.
Given(c, field) == {c.values[k] : k \in {field} \cap DOMAIN c.values}

\* Times: one that is absent, and one that cannot be read, are the same.
TimeFields(type) ==
    CASE type = "create_clock" -> {"period"}
      [] type \in IoTypes \cup {"set_min_delay", "set_max_delay"} -> {"delay"}
      [] type = "set_clock_uncertainty" -> {"uncertainty"}
      [] type = "set_clock_latency" -> {"latency", "early_latency", "late_latency", "source_latency"}
      [] type = "set_clock_transition" -> {"transition"}
      [] OTHER -> {}

\* Fields whose order counts.
SequenceFields(type) ==
    CASE type = "create_clock" -> {"waveform"}
      [] type = "create_generated_clock" -> {"waveform", "edges", "edge_shift"}
      [] OTHER -> {}

\* Types without a documented rule compare as they are; of the first nothing
\* is proved.
Unmodelled == {"set_driving_cell", "set_input_transition", "set_load", "set_max_transition",
    "set_max_capacitance", "set_max_fanout", "set_case_analysis", "set_disable_timing"}
Documented == ClockTypes \cup IoTypes \cup ExceptionTypes \cup {"set_clock_uncertainty",
    "set_clock_latency", "set_clock_transition", "set_propagated_clock", "set_clock_groups"}

\* The partition a set_clock_groups makes: neither order matters, a group
\* given twice counts twice.
Partition(c) ==
    [g \in {c.groups[i] : i \in DOMAIN c.groups} |-> Cardinality({i \in DOMAIN c.groups : c.groups[i] = g})]

SelectorKey(c) == IF c.selector THEN <<c.from, c.to, c.through>> ELSE <<>>
ClockRefSet(c) == {c.clockRefs[i] : i \in DOMAIN c.clockRefs}

\* normalize_constraint: what a constraint means; ids, status, source and
\* provenance play no part.  The two ends of a path selector replace targets.
Signature(c) ==
    LET exception == c.type \in ExceptionTypes
        defaults == FieldDefaults(c.type)
    IN [type |-> c.type, scenarios |-> c.scenarios,
        name |-> IF c.type \in ClockTypes THEN c.name ELSE "",
        given |-> [k \in IdentityFields(c.type) \cup OptionalFields(c.type) |-> Given(c, k)],
        fields |-> [k \in DOMAIN defaults |-> Value(c, k, defaults[k])],
        times |-> [k \in TimeFields(c.type) |-> Value(c, k, Garbled)],
        lists |-> [k \in SequenceFields(c.type) |-> Value(c, k, <<>>)],
        selector |-> IF exception THEN SelectorKey(c) ELSE <<>>,
        targets |-> IF exception THEN {} ELSE c.targets,
        sources |-> IF c.type = "create_clock" THEN c.sources ELSE {},
        clocks |-> IF exception THEN {} ELSE ClockRefSet(c),
        groups |-> IF c.type = "set_clock_groups" THEN Partition(c) ELSE <<>>,
        raw |-> IF c.type \in Documented THEN {} ELSE {c.values}]

\* int() of a cycle count or a clock edge that is no number raises out of the
\* comparison.
CompareRaises(cons) ==
    \E c \in cons :
        /\ ~c.disabled
        /\ \/ c.type = "set_multicycle_path" /\ Value(c, "cycles", 1) = Garbled
           \/ /\ c.type = "create_generated_clock"
              /\ \E i \in DOMAIN Value(c, "edges", <<>>) : c.values.edges[i] = Garbled

\* semantic_match_key: what is constrained, not to what.
MatchGroup(c) ==
    <<c.type, c.scenarios, Signature(c).name,
      [k \in IdentityFields(c.type) |-> Given(c, k)],
      IF c.type \in ExceptionTypes THEN <<c.from, c.to>> ELSE <<c.targets, ClockRefSet(c)>>>>

\* _identity_sig: the scalar identity within a group.
IdentityOf(c) ==
    LET s == Signature(c)
        on == <<s.clocks, s.targets, Value(c, "min_max", "max"), Value(c, "edge", "both")>>
    IN <<c.type, s.name, s.selector, s.groups,
         IF c.type = "create_generated_clock" THEN <<Given(c, "source"), Given(c, "master")>> ELSE <<>>,
         IF c.type \in IoTypes \cup {"set_clock_uncertainty", "set_clock_latency",
                                     "set_clock_transition", "set_propagated_clock"} THEN on ELSE <<>>,
         IF c.type = "set_multicycle_path" THEN Value(c, "setup_hold", "setup") ELSE "">>

\* has_unsupported_options: an undocumented type, an unresolved reference or a
\* partial import leaves the meaning unknown.
Unsupported(c) == c.type \in Unmodelled \/ c.unsupported

\* ---------------------------------------------------------------- scenarios

ActiveScenarios(side) == {s \in DOMAIN side.scenarios : side.scenarios[s].active}

\* No matrix on either side is the comparison of a single scenario; a matrix
\* on one side only cannot be compared.
BothScoped(a, b) == ActiveScenarios(a) # {} /\ ActiveScenarios(b) # {}
OneScoped(a, b) == (ActiveScenarios(a) = {}) # (ActiveScenarios(b) = {})

ScenarioDifferences(a, b) ==
    IF ~BothScoped(a, b) THEN {}
    ELSE {s \in ActiveScenarios(a) \cup ActiveScenarios(b) :
            \/ s \notin ActiveScenarios(a) \cap ActiveScenarios(b)
            \/ a.scenarios[s].key # b.scenarios[s].key}

UnknownScope(c, side) == ~(c.scenarios \subseteq DOMAIN side.scenarios)
Effective(c, side) ==
    IF c.scenarios = {} THEN ActiveScenarios(side) ELSE c.scenarios \cap ActiveScenarios(side)

\* What a side contributes: with a matrix on both sides each constraint under
\* the active scenarios it applies to, else all that is not disabled.
Projected(side, scoped) ==
    LET enabled == {c \in side.cons : ~c.disabled}
    IN IF scoped
       THEN {[c EXCEPT !.scenarios = Effective(c, side)] : c \in
                {x \in enabled : ~UnknownScope(x, side) /\ Effective(x, side) # {}}}
       ELSE enabled

ScopeUnknown(side, scoped) ==
    {c \in side.cons : scoped /\ ~c.disabled /\ UnknownScope(c, side)}

\* ------------------------------------------------------------------ pairing

\* One more pair, the first on the left that has a partner with its first
\* partner, and so on while there is one.
PairUp(s, partners(_, _)) ==
    LET ready == {a \in s.left : partners(a, s.right) # {}}
        a == First(ready)
        b == First(partners(a, s.right))
    IN IF ready = {} THEN s
       ELSE [left |-> s.left \ {a}, right |-> s.right \ {b}, pairs |-> s.pairs \cup {<<a, b>>}]

Exhaust(s, partners(_, _)) ==
    LET n == Cardinality(s.left)
        after[i \in 0 .. n] == IF i = 0 THEN s ELSE PairUp(after[i - 1], partners)
    IN after[n]

SameSignature(a, right) == {b \in right : Signature(b) = Signature(a)}
OnlyIdentity(a, right) ==
    LET hits == {b \in right : IdentityOf(b) = IdentityOf(a)}
    IN IF Cardinality(hits) = 1 THEN hits ELSE {}

MutantPairMultiset(left, right) ==
    LET known(c, cons) == \E x \in cons : Signature(x) = Signature(c)
    IN [left |-> {c \in left : ~known(c, right)}, right |-> {c \in right : ~known(c, left)},
        pairs |-> {p \in left \X right : Signature(p[1]) = Signature(p[2])}]

\* _pair_multiset: exact signatures, then identities with one hit, then the
\* last one on each side.  What is left over has no counterpart.
PairMultiset(left, right) ==
    LET exact == Exhaust([left |-> left, right |-> right, pairs |-> {}], SameSignature)
        named == Exhaust(exact, OnlyIdentity)
    IN IF Cardinality(named.left) = 1 /\ Cardinality(named.right) = 1
       THEN [left |-> {}, right |-> {}, pairs |-> named.pairs \cup (named.left \X named.right)]
       ELSE named

PairStatus(a, b) ==
    IF Unsupported(a) \/ Unsupported(b) THEN "UNKNOWN"
    ELSE IF Signature(a) = Signature(b) THEN "EQUIVALENT" ELSE "DIFFERENT"

ProvenanceDiffers(a, b) == a.source # b.source

\* _detect_side_duplicates, of one group of one side.
DuplicateClass(group) ==
    LET rep == First(group)
        sharing(k) == \E c \in group \ {rep} : Has(rep, k) /\ Has(c, k) /\ Value(rep, k, "") = Value(c, k, "")
    IN IF Cardinality({Signature(c) : c \in group}) = 1 THEN "DUPLICATE"
       ELSE IF (rep.type \in ClockTypes /\ rep.name # "") \/ sharing("clock") THEN "CONFLICTING"
       ELSE "REDUNDANT"

\* ------------------------------------------------------------------ verdict

Compare(a, b) ==
    LET scoped == BothScoped(a, b)
        left == Projected(a, scoped)
        right == Projected(b, scoped)
        keys == {MatchGroup(c) : c \in left \cup right}
        group(cons, k) == {c \in cons : MatchGroup(c) = k}
        paired(k) == PairMultiset(group(left, k), group(right, k))
        pairs == UNION {paired(k).pairs : k \in keys}
        alone == UNION {paired(k).left \cup paired(k).right : k \in keys}
        statuses == {PairStatus(p[1], p[2]) : p \in pairs}
        doubtful == ScopeUnknown(a, scoped) \cup ScopeUnknown(b, scoped)
        duplicates(cons) == {DuplicateClass(group(cons, k)) :
                                k \in {x \in keys : Cardinality(group(cons, x)) > 1}}
    IN [status |->
            IF "DIFFERENT" \in statuses \/ alone # {} \/ ScenarioDifferences(a, b) # {} THEN "DIFFERENT"
            ELSE IF "UNKNOWN" \in statuses \/ doubtful # {} \/ OneScoped(a, b) THEN "UNKNOWN"
            ELSE IF \E p \in pairs : ProvenanceDiffers(p[1], p[2]) THEN "EQUIVALENT_AFTER_NORMALIZATION"
            ELSE "EQUIVALENT",
        duplicates |-> <<duplicates(left), duplicates(right)>>]

\* compare_sdc_text: an import that raised, or reported an error, decides.
CompareTexts(a, b, failed) ==
    IF failed # {} THEN [status |-> "ERROR", duplicates |-> <<{}, {}>>] ELSE Compare(a, b)
=============================================================================
