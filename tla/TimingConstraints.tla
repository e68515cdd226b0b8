------------------------ MODULE TimingConstraints ------------------------
(***************************************************************************)
(* What the analyses of validation/, exceptions/, readiness/ and           *)
(* equivalence/ see: constraints with their values, and the elaborated     *)
(* design with its timing graph.                                           *)
(*                                                                         *)
(* A constraint is a record                                                *)
(*   id, at (position in the set), type, name ("" for none),               *)
(*   values (a partial function: an absent value is outside its domain),   *)
(*   targets (plain names), refs (typed collections), sources and          *)
(*   sourceRefs (the same of its sources), clockRefs (a sequence),         *)
(*   selector (is there one), from, to, through, groups (a sequence of     *)
(*   sets of clocks), scenarios, status, pinned (its own optimisation      *)
(*   status is FIXED), source, disabled, assumptions, evidence,            *)
(*   unsupported.  A list of names holds a name once.                      *)
(* A number that does not parse is Garbled.                                *)
(*                                                                         *)
(* A design is a record                                                    *)
(*   available, graph (was each built), clocks, dir (the direction of each *)
(*   port), objects (the other names; resets and tests among them; and     *)
(*   <cell>/<pin> for a known cell, whatever the pin), leaf (the last part *)
(*   of each hierarchical name),                                           *)
(*   drives (the registers of each clock), paths, edges, inClock, outClock *)
(*   (the clock each port is associated with), derived (candidates for     *)
(*   generated clocks).  "" stands for a clock nothing identified.         *)
(***************************************************************************)
EXTENDS Integers, Sequences, FiniteSets, FiniteSetsExt

CONSTANTS Garbled,      \* a value that is not a number
          Wildcards     \* the names that hold a *, ? or [ pattern

NoScenario == ""
NoClock == ""

ExceptionTypes == {"set_false_path", "set_multicycle_path", "set_min_delay", "set_max_delay"}
IoTypes == {"set_input_delay", "set_output_delay"}

Has(c, field) == field \in DOMAIN c.values
Value(c, field, default) == IF Has(c, field) THEN c.values[field] ELSE default
\* A flag counts when it is present and true.
Flag(c, field) == Value(c, field, FALSE)

\* ConstraintSet.by_type and its shorthands leave disabled constraints out;
\* iterating the set does not.
ByType(u, t) == {c \in u : c.type = t /\ ~c.disabled}
Clocks(u) == ByType(u, "create_clock")
GeneratedClocks(u) == ByType(u, "create_generated_clock")
Exceptions(u) == {c \in u : c.type \in ExceptionTypes /\ ~c.disabled}
IoConstraints(u) == {c \in u : c.type \in IoTypes /\ ~c.disabled}

Names(s) == {c.name : c \in s} \ {""}
First(s) == CHOOSE c \in s : \A d \in s : c.at <= d.at
Last(s)  == CHOOSE c \in s : \A d \in s : c.at >= d.at

\* values.clock, or the first clock reference.
IoClock(c) ==
    IF Has(c, "clock") THEN c.values.clock
    ELSE IF c.clockRefs # <<>> THEN Head(c.clockRefs) ELSE NoClock

EmptySelector(c) == c.from = {} /\ c.to = {} /\ c.through = <<>>

\* An unordered pair of clocks, whichever way a path between them runs.
Pair(a, b) == {a, b}

\* The pairs two different groups of a set_clock_groups tell apart.
GroupPairs(c) ==
    UNION {{Pair(a, b) : a \in c.groups[p[1]], b \in c.groups[p[2]]} :
        p \in {q \in (DOMAIN c.groups) \X (DOMAIN c.groups) : q[1] < q[2]}}
DistinctPairs(pairs) == {p \in pairs : Cardinality(p) = 2}
ClockGroupPairs(u) == DistinctPairs(UNION {GroupPairs(c) : c \in ByType(u, "set_clock_groups")})

\* The graph's edge between two clocks, whichever way it is written.
EdgesBetween(d, a, b) == {e \in d.edges : {e.a, e.b} = {a, b}}
=============================================================================
