------------------------------ MODULE Analysis ------------------------------
(***************************************************************************)
(* A constraint set under edit and the two questions asked of it: is it    *)
(* ready (validation and readiness), and is it equivalent to one kept      *)
(* aside (semantic comparison).  The user edits the set, its scenarios,    *)
(* the assumptions, the design and the record of applications; an answer   *)
(* holds of the state it was given in, and the next change drops it.       *)
(***************************************************************************)
EXTENDS Readiness, SemanticCompare

CONSTANTS Catalogue,        \* the constraints an edit may put into the set
          Starting,         \* those it starts from
          Designs,          \* the designs, one of which is elaborated
          Projects,         \* the project settings: mcmm, formalRequired, scenarios
          Proofs,           \* the formal backends a validation may be given
          Snapshots,        \* the source snapshots an application may name
          RequiredAssumptions,
          NoAnswer,         \* a model value: the question was not asked
          MaxEdits          \* bound on the number of changes

\* What the analyses rely on of a constraint: its fields, numbers where there
\* are numbers, and finitely many scenarios.
ConstraintFields ==
    {"id", "at", "type", "name", "values", "targets", "refs", "sources", "sourceRefs", "clockRefs",
     "selector", "from", "to", "through", "groups", "scenarios", "status", "pinned", "source",
     "disabled", "assumptions", "evidence", "unsupported", "high"}
IsConstraint(c) ==
    /\ c = [f \in ConstraintFields |-> c[f]]
    /\ c.at \in Int
    /\ {c.disabled, c.selector, c.unsupported} \subseteq BOOLEAN
    /\ IsFiniteSet(c.scenarios)
    /\ Has(c, "period") => c.values.period \in Int \cup {Garbled}

\* One position belongs to one id.
ASSUME ConstraintsAssumption ==
    /\ IsFiniteSet(Starting)
    /\ \A c \in Catalogue \cup Starting : IsConstraint(c)
    /\ \A c1, c2 \in Catalogue \cup Starting : c1.at = c2.at <=> c1.id = c2.id
    /\ \A c1, c2 \in Starting : c1.id = c2.id => c1 = c2

ASSUME DesignsAssumption ==
    \A d \in Designs : IsFiniteSet(d.paths) /\ {d.available, d.graph} \subseteq BOOLEAN

\* No scenario is called by the name that stands for none.
IsScenarios(s) ==
    /\ s = [x \in DOMAIN s |-> s[x]]
    /\ NoScenario \notin DOMAIN s
    /\ \A x \in DOMAIN s : s[x] = [active |-> s[x].active, key |-> s[x].key] /\ s[x].active \in BOOLEAN
ASSUME ProjectsAssumption ==
    \A p \in Projects : IsScenarios(p.scenarios) /\ {p.mcmm, p.formalRequired} \subseteq BOOLEAN

ASSUME SnapshotsAssumption == Snapshots \subseteq SUBSET Sources

VARIABLES ucm, scenarios, design, project, confirmed, sources, receipts,
          reference, edits, report, verdict

vars == <<ucm, scenarios, design, project, confirmed, sources, receipts, reference, edits, report, verdict>>
world == <<ucm, scenarios, design, project, confirmed, sources, receipts>>

Init ==
    /\ ucm = Starting
    /\ design \in Designs
    /\ project \in Projects
    /\ scenarios = project.scenarios
    /\ confirmed = RequiredAssumptions
    /\ sources = [design |-> 0, timing_graph |-> 0, config |-> 0]
    /\ receipts = {}
    /\ reference = NoAnswer
    /\ edits = 0
    /\ report = NoAnswer
    /\ verdict = NoAnswer

\* A change, which the answers given so far know nothing of.
Edit ==
    /\ edits < MaxEdits
    /\ edits' = edits + 1
    /\ report' = NoAnswer
    /\ verdict' = NoAnswer
    /\ UNCHANGED <<design, project, reference>>

AddConstraint(c) ==
    /\ c.id \notin {x.id : x \in ucm}
    /\ Edit
    /\ ucm' = ucm \cup {c}
    /\ UNCHANGED <<scenarios, confirmed, sources, receipts>>

RemoveConstraint(c) ==
    /\ Edit
    /\ ucm' = ucm \ {c}
    /\ UNCHANGED <<scenarios, confirmed, sources, receipts>>

\* The stored set is edited: disabled is a field of each of its records, and
\* a disabled constraint keeps its place.
ToggleConstraint(c) ==
    /\ Edit
    /\ ucm' = (ucm \ {c}) \cup {[c EXCEPT !.disabled = ~c.disabled]}
    /\ UNCHANGED <<scenarios, confirmed, sources, receipts>>

WithdrawAssumption(a) ==
    /\ a \in confirmed
    /\ Edit
    /\ confirmed' = confirmed \ {a}
    /\ UNCHANGED <<ucm, scenarios, sources, receipts>>

\* The RTL is edited and elaborated again: the same names, another snapshot.
ReElaborate ==
    /\ Edit
    /\ sources' = [sources EXCEPT !.design = @ + 1, !.timing_graph = @ + 1]
    /\ UNCHANGED <<ucm, scenarios, confirmed, receipts>>

\* An application of an inferred candidate stores a receipt in the set.
RecordApplication(c, snapshot) ==
    /\ c \in ucm
    /\ Edit
    /\ receipts' = receipts \cup {[applied |-> {c.id},
                                   snapshot |-> [s \in snapshot |-> sources[s]]]}
    /\ UNCHANGED <<ucm, scenarios, confirmed, sources>>

ChangeScenario(s, definition) ==
    /\ scenarios[s] # definition
    /\ Edit
    /\ scenarios' = [scenarios EXCEPT ![s] = definition]
    /\ UNCHANGED <<ucm, confirmed, sources, receipts>>

\* The set is copied aside, to be compared with later.
TakeReference ==
    /\ reference = NoAnswer
    /\ report = NoAnswer /\ verdict = NoAnswer
    /\ reference' = [cons |-> ucm, scenarios |-> scenarios]
    /\ UNCHANGED <<world, edits, report, verdict>>

Active == {s \in DOMAIN scenarios : scenarios[s].active}
\* build_scenario_matrix: without any definition the matrix is off.
MatrixOn == project.mcmm /\ DOMAIN scenarios # {}

\* What was not built has no identity to compare with.
Present == {s \in Sources : (s = "design" => design.available) /\ (s = "timing_graph" => design.graph)}

World == [ucmGiven |-> TRUE, enabled |-> MatrixOn, active |-> Active,
          formalRequired |-> project.formalRequired, eda |-> [real |-> FALSE],
          ledger |-> {[id |-> a, required |-> TRUE, confirmed |-> a \in confirmed] : a \in RequiredAssumptions},
          stored |-> receipts, external |-> {}, candidates |-> {},
          identity |-> [s \in Present |-> sources[s]]]

Request(backend) ==
    [formal |-> backend, backend |-> "generic", mode |-> "balanced", known |-> DOMAIN scenarios,
     active |-> Active, projectActive |-> IF MatrixOn THEN Active ELSE {}]

\* One readiness report, on a validation run for it with one proof backend.
AssessSet(requested, backend) ==
    /\ report = NoAnswer /\ verdict = NoAnswer
    /\ ~ValidationRaises(ucm)
    /\ report' = [requested |-> requested, backend |-> backend,
                  answer |-> AssessReadiness(ucm, design, RunValidation(ucm, design, Request(backend)),
                                             World, requested)]
    /\ UNCHANGED <<world, reference, edits, verdict>>

\* The comparison with the copy, from texts one of which may not import.
CompareSets(failed) ==
    /\ reference # NoAnswer
    /\ report = NoAnswer /\ verdict = NoAnswer
    /\ ~CompareRaises(ucm) /\ ~CompareRaises(reference.cons)
    /\ verdict' = CompareTexts([cons |-> ucm, scenarios |-> scenarios], reference, failed)
    /\ UNCHANGED <<world, reference, edits, report>>

Next ==
    \/ \E c \in Catalogue : AddConstraint(c)
    \/ \E c \in ucm : RemoveConstraint(c) \/ ToggleConstraint(c)
    \/ \E c \in ucm, snapshot \in Snapshots : RecordApplication(c, snapshot)
    \/ \E a \in RequiredAssumptions : WithdrawAssumption(a)
    \/ ReElaborate
    \/ \E s \in DOMAIN scenarios, key \in {0, 1}, on \in BOOLEAN : ChangeScenario(s, [active |-> on, key |-> key])
    \/ TakeReference
    \/ \E requested \in SUBSET DOMAIN scenarios, backend \in Proofs : AssessSet(requested, backend)
    \/ \E failed \in {{}, {"A"}} : CompareSets(failed)

Spec == Init /\ [][Next]_vars

-----------------------------------------------------------------------------
Enabled(cons) == {c \in cons : ~c.disabled}
ReadyStates == {"READY", "READY_WITH_WARNINGS"}

\* Every clock of the graph has a definition, every definition a positive
\* period, and definitions under one name the same one.
ClocksSettled ==
    LET clocks == {c \in Enabled(ucm) : c.type = "create_clock"}
    IN /\ design.clocks \subseteq {c.name : c \in Enabled(ucm)}
       /\ \A c \in clocks : Has(c, "period") /\ c.values.period # Garbled
       /\ \A c \in clocks : c.values.period > 0
       /\ \A c1, c2 \in clocks : c1.name = c2.name /\ c1.name # ""
                                    => c1.values.period = c2.values.period

\* The delays of one kind that say something.
DelaysOf(type) == {c \in Enabled(ucm) : c.type = type /\ Has(c, "delay")}
GivenDelay(type, port, clock) ==
    \E c \in DelaysOf(type) : port \in c.targets /\ IoClock(c) = clock /\ c.values.delay # Garbled

\* Every path from an input or to an output has a delay against the path's
\* own clock.
PortsTimed ==
    /\ \A p \in InputPaths(design) : GivenDelay("set_input_delay", p.start, p.capture)
    /\ \A p \in OutputPaths(design) : GivenDelay("set_output_delay", p.end, p.launch)

\* Delays that set the same thing set it to the same value.
DelaysAgree ==
    \A type \in IoTypes : \A c1, c2 \in DelaysOf(type) :
        (/\ c1.targets = c2.targets /\ IoClock(c1) = IoClock(c2)
         /\ c1.values = [c2.values EXCEPT !.delay = c1.values.delay])
            => c1.values.delay = c2.values.delay

\* Every crossing between two clocks is named by an exception, in whichever
\* direction, no exception is refuted, each is proved when proofs are
\* required, and none waives what another one times on the same selector.
CrossingsSettled ==
    LET excs == {c \in Enabled(ucm) : c.type \in ExceptionTypes}
        selecting == {c \in excs : c.selector}
        answers == VerifyExceptions(ucm, design, report.backend, {}, {})
    IN /\ \A p \in PathsOf(design, {"CDC"}) : \E c \in excs :
            \/ p.launch \in c.from /\ p.capture \in c.to
            \/ p.capture \in c.from /\ p.launch \in c.to
       /\ \A v \in answers : v.status \notin {"INVALID", "ERROR"}
       /\ project.formalRequired => \A v \in answers : v.status # "UNRESOLVED"
       /\ \A c1, c2 \in selecting : (c1.type = "set_false_path" /\ c2.type \in {"set_multicycle_path", "set_max_delay"})
                => Selector(c1) # Selector(c2)

EvidenceSettled ==
    /\ confirmed = RequiredAssumptions
    /\ \A c \in ucm : c.source \in {"INFERENCE", "DERIVED"} => c.evidence # {}
    /\ \A r \in receipts : /\ r.applied \subseteq {c.id : c \in ucm}
                           /\ \A s \in DOMAIN r.snapshot : r.snapshot[s] = sources[s]

\* The report calls the whole of an active set ready.
CalledReady ==
    /\ report # NoAnswer
    /\ report.requested = {}
    /\ report.answer.status \in ReadyStates
    /\ MatrixOn => \A c \in ucm : c.scenarios \subseteq Active

\* A set is called ready, with nothing in particular requested, only when
\* what readiness stands for holds of it directly: whatever layer of the
\* validation would have noticed, no other layer, scope or aggregation hides
\* it.  (readiness/engine.py assess_constraint_readiness, over validation/.)
\* A constraint of a scenario that is not active is outside, and so is a path
\* of so many that its percentage is rounded away: see the README.
ReadyIsEarned ==
    CalledReady =>
        /\ design.graph /\ ClocksSettled /\ DelaysAgree /\ CrossingsSettled /\ EvidenceSettled
        /\ Cardinality(design.paths) < RoundedAway => PortsTimed

\* The constraints that hold in one scenario, with their number, as a
\* comparison by meaning should see them; without a matrix, all of them.
Meaning(side, s) ==
    LET plain(c) == IF s = NoScenario THEN Signature(c) ELSE [Signature(c) EXCEPT !.scenarios = {}]
        holding == {c \in Enabled(side.cons) : s = NoScenario \/ c.scenarios = {} \/ s \in c.scenarios}
    IN [x \in {plain(c) : c \in holding} |-> Cardinality({c \in holding : plain(c) = x})]

\* Two sets are called equivalent only when the same scenarios are active
\* with the same definitions and in every one of them the two sides hold the
\* same constraints the same number of times, nothing of them unknown; and a
\* set is always equivalent to an unchanged copy of a known one.
\* (equivalence/semantic_compare.py compare.)
CompareExact ==
    verdict # NoAnswer =>
        LET here == [cons |-> ucm, scenarios |-> scenarios]
            on(side) == {s \in DOMAIN side.scenarios : side.scenarios[s].active}
            doubtful(side) == \E c \in Enabled(side.cons) :
                (Unsupported(c) /\ (on(side) = {} \/ c.scenarios = {} \/ c.scenarios \cap on(side) # {}))
                    \/ (on(side) # {} /\ ~(c.scenarios \subseteq DOMAIN side.scenarios))
        IN /\ verdict.status \in {"EQUIVALENT", "EQUIVALENT_AFTER_NORMALIZATION"} =>
                /\ on(here) = on(reference)
                /\ \A s \in on(here) : here.scenarios[s] = reference.scenarios[s]
                /\ \A s \in on(here) \cup (IF on(here) = {} THEN {NoScenario} ELSE {}) :
                        Meaning(here, s) = Meaning(reference, s)
                /\ ~doubtful(here) /\ ~doubtful(reference)
           /\ (here = reference /\ ~doubtful(here) /\ verdict.status # "ERROR") => verdict.status = "EQUIVALENT"
=============================================================================
