-------------------------- MODULE IntentInference --------------------------
(***************************************************************************)
(* inference/: rules read a design, its timing graph and the user's        *)
(* configuration and propose constraints; the engine merges the proposals  *)
(* and either materialises them (run) or turns them into advisory          *)
(* candidates against a baseline set (infer_candidates).                   *)
(*                                                                         *)
(* A world w is everything the rules read:                                 *)
(*   w.clocks : clock -> [regs : does it drive registers, period]          *)
(*   w.user   : clock -> [period, fixed]          (user-declared clocks)   *)
(*   w.ports  : port  -> [kind, assoc, delay, clock, fixed]                *)
(*   w.async  : pairs of clocks the user declared asynchronous             *)
(*   w.cdc    : pairs of clocks with paths of unknown relationship         *)
(*   w.derived: nets that look like divided, gated or muxed clocks ->      *)
(*              the clocks they may come from                              *)
(*   w.hints  : ports that look like clocks by name only                   *)
(*   w.active : scenarios MCMM enables, {} when it is off                  *)
(*   w.defined: scenarios the project file defines                         *)
(* None stands for an absent value.                                        *)
(***************************************************************************)
EXTENDS ConstraintSet, Sequences

CONSTANT None

\* Clock, port and pair names in the order the rules walk them.
CONSTANT NameOrder

ASSUME NameOrderAssumption == NameOrder \in Seq(Range(NameOrder))

\* The members of a set of names as the sorted sequence a rule walks.
Sorted(names) ==
    LET walked[n \in 0 .. Len(NameOrder)] ==
            IF n = 0 THEN <<>>
            ELSE IF NameOrder[n] \in names THEN Append(walked[n - 1], NameOrder[n])
            ELSE walked[n - 1]
    IN walked[Len(NameOrder)]

\* What a rule contributes: one proposal, or one thing it misses.
Proposal(kind, object, value, source, high, fixed) ==
    [kind |-> kind, object |-> object, value |-> value, source |-> source,
     high |-> high, fixed |-> fixed]
Missing(category, object, level, possible) ==
    [category |-> category, object |-> object, level |-> level, possible |-> possible]

\* -------------------------------------------------------------- the rules

\* CLK-003, first in the list: a declared period is proposed as the user's,
\* and written into the (private) timing graph for the rules that follow.
UserClockProposals(user) ==
    LET declared == Sorted({n \in DOMAIN user : user[n].period # None})
        proposal(n) == Proposal("create_clock", n, user[n].period, "USER", TRUE, user[n].fixed)
    IN [i \in DOMAIN declared |-> proposal(declared[i])]

UserClockMissing(w) ==
    {Missing("clock_period", n, "REQUIRED", {}) :
        n \in {m \in DOMAIN w.user : w.user[m].period = None}}

UserDeclares(user, n) == n \in DOMAIN user /\ user[n].period # None
Enriched(clocks, user) ==
    [n \in DOMAIN clocks |->
        IF UserDeclares(user, n) THEN [clocks[n] EXCEPT !.period = user[n].period]
                                 ELSE clocks[n]]

\* CLK-001: a clock the structure shows, with the period the graph knows.  A
\* clock of inferred origin that drives nothing is passed over.
Structural(clocks, user) == {n \in DOMAIN clocks : clocks[n].regs \/ n \in DOMAIN user}

ClockProposals(clocks, user) ==
    LET period(n) == Enriched(clocks, user)[n].period
        known == Sorted({n \in Structural(clocks, user) : period(n) # None})
        proposal(n) == IF n \in DOMAIN user
            THEN Proposal("create_clock", n, period(n), "USER", TRUE, user[n].fixed)
            ELSE Proposal("create_clock", n, period(n), Inferred, FALSE, FALSE)
    IN [i \in DOMAIN known |-> proposal(known[i])]

ClockMissing(clocks, user) ==
    {Missing("clock_period", n, "REQUIRED", {}) :
        n \in {m \in Structural(clocks, user) : Enriched(clocks, user)[m].period = None}}

\* REL-001: only the user makes clocks asynchronous; crossing paths with no
\* declared relationship are reported, never classified.
RelationshipProposals(async) ==
    LET pairs == Sorted(async)
    IN [i \in DOMAIN pairs |->
            Proposal("set_clock_groups", pairs[i], "asynchronous", "USER", TRUE, TRUE)]

RelationshipMissing(w) ==
    {Missing("clock_relationship", p, "UNSAFE_TO_INFER",
             {"asynchronous", "synchronous", "related"}) : p \in w.cdc \ w.async}

\* GCLK-001 to -003: a divider, gate or mux structure is a question, never a
\* generated clock; a mux lists the clocks it selects from.
DerivedMissing(w) ==
    {Missing("generated_clock_intent", n, "UNSAFE_TO_INFER", w.derived[n]) :
        n \in DOMAIN w.derived}

\* IO-002 and IO-003 by _handle_port: a delay needs a number and one clock,
\* the user's or the only one the structure leaves.
PossibleClocks(port) == IF port.clock # None THEN {port.clock} ELSE port.assoc
PortTimed(port) == port.delay # None /\ Cardinality(PossibleClocks(port)) = 1

TimedPorts(ports, clocks) == DOMAIN ports \ DOMAIN clocks

PortProposals(ports, clocks) ==
    LET timed == Sorted({p \in TimedPorts(ports, clocks) : PortTimed(ports[p])})
        proposal(p) ==
            Proposal(ports[p].kind, p,
                     <<ports[p].delay, CHOOSE c \in PossibleClocks(ports[p]) : TRUE>>,
                     "USER", TRUE, ports[p].clock # None /\ ports[p].fixed)
    IN [i \in DOMAIN timed |-> proposal(timed[i])]

PortMissing(w) ==
    {Missing(IF w.ports[p].delay = None THEN "io_delay" ELSE "clock_association", p,
             IF w.ports[p].delay = None /\ Cardinality(PossibleClocks(w.ports[p])) = 1
             THEN "RECOMMENDED" ELSE "REQUIRED",
             PossibleClocks(w.ports[p])) :
        p \in {q \in TimedPorts(w.ports, w.clocks) : ~PortTimed(w.ports[q])}}

\* The rules in the order they are registered: the user's first.
ClockIntent(w) ==
    UserClockProposals(w.user) \o ClockProposals(w.clocks, w.user) \o RelationshipProposals(w.async)
Proposals(w) == ClockIntent(w) \o PortProposals(w.ports, w.clocks)

AllMissing(w) ==
    UserClockMissing(w) \cup ClockMissing(w.clocks, w.user) \cup RelationshipMissing(w)
      \cup DerivedMissing(w) \cup PortMissing(w)

\* -------------------------------------------------------------- the engine

\* A slot merges the proposals of one merge key: a user's value overrides a
\* structural one, the source is USER if any is, the confidence the best.  It
\* is named by the position of its first proposal.
Key(p) == <<p.kind, p.object>>
Slot(props, first) == {i \in DOMAIN props : Key(props[i]) = Key(props[first])}
Openers(props) == {i \in DOMAIN props : \A j \in 1 .. (i - 1) : Key(props[j]) # Key(props[i])}

\* _build_constraint.
Build(props, first) ==
    LET slot == Slot(props, first)
        told == {i \in slot : props[i].source = "USER"}
        user == told # {}
        high == user \/ \E i \in slot : props[i].high
    IN [scope |-> Key(props[first]),
        value |-> IF user THEN props[Max(told)].value ELSE props[first].value,
        scenarios |-> {}, disabled |-> FALSE, unsupported |-> FALSE, high |-> high,
        source |-> IF user THEN "USER" ELSE Inferred,
        status |-> IF user /\ \E i \in slot : props[i].fixed THEN "FIXED"
                   ELSE IF high THEN "CONFIRMED" ELSE "PROPOSED",
        pinned |-> user /\ \E i \in slot : props[i].fixed,
        deps |-> {}, downs |-> {}, assumptions |-> {}]

\* The id a built constraint asks for: CLK__clk, INP__data, CG__a_b, ...
BuiltId(c) == <<c.scope[1], c.scope[2], 0>>

\* Materialisation of one slot: evidence is merged onto a constraint of the
\* same meaning, which keeps its own values; otherwise the new one is added.
Materialise(u, c) ==
    IF \E id \in Ids(u) : Normal(u.cons[id]) = Normal(c) THEN u ELSE Add(u, BuiltId(c), c)

\* run(): the slots in the order their first proposal appeared.
Run(w, u) ==
    LET props == Proposals(w)
        run[n \in 0 .. Len(props)] ==
            IF n = 0 THEN u
            ELSE IF n \in Openers(props) THEN Materialise(run[n - 1], Build(props, n))
            ELSE run[n - 1]
    IN run[Len(props)]

\* The source snapshot a candidate carries: what it was inferred from.  The
\* timing graph already holds the declared clocks and relationships, not the
\* port delays.
SourceIdentity(w, u) ==
    [design |-> [w EXCEPT !.active = {}, !.defined = {}, !.ports = [p \in DOMAIN @ |-> @[p].assoc]],
     config |-> [user |-> w.user, async |-> w.async, active |-> w.active, defined |-> w.defined,
                 ports |-> [p \in DOMAIN w.ports |-> [w.ports[p] EXCEPT !.assoc = {}]]],
     ucm |-> Hash(u)]

Exact(u, c) ==
    {id \in Ids(u) : ~u.cons[id].unsupported /\ Normal(u.cons[id]) = Normal(c)}
Conflicting(u, c) ==
    {id \in Ids(u) : /\ ~u.cons[id].unsupported
                     /\ MatchKey(u.cons[id]) = MatchKey(c)
                     /\ Normal(u.cons[id]) # Normal(c)}

\* _candidate_from_constraint: what the baseline already says of its subject.
CandidateOf(c, w, baseline) ==
    LET conflict == Conflicting(baseline, c) # {}
    IN [subject |-> c.scope,
        status |-> IF conflict THEN "CONFLICTING" ELSE "INFERRED",
        decision |-> IF conflict THEN "REJECTED"
                     ELSE IF c.source # Inferred \/ Exact(baseline, c) # {}
                     THEN "ALREADY_PRESENT" ELSE "ACCEPTABLE",
        missing |-> {}, templates |-> <<[id |-> BuiltId(c), con |-> c]>>,
        source |-> SourceIdentity(w, baseline)]

\* _candidates_from_missing: a hole is never filled with a number.
MissingStatus(m) ==
    IF Cardinality(m.possible) > 1 THEN "AMBIGUOUS"
    ELSE IF m.level = "UNSAFE_TO_INFER" THEN "CONFIRMATION_REQUIRED"
    ELSE "INSUFFICIENT_EVIDENCE"

CandidateOfMissing(m, w, baseline) ==
    [subject |-> <<m.category, m.object>>, status |-> MissingStatus(m),
     decision |-> IF MissingStatus(m) = "CONFIRMATION_REQUIRED"
                  THEN "REQUIRES_CONFIRMATION" ELSE "REJECTED",
     missing |-> {m}, templates |-> <<>>, source |-> SourceIdentity(w, baseline)]

\* _candidates_from_ambiguities: a clock-like name alone is never a clock.
CandidateOfHint(port, w, baseline) ==
    [subject |-> <<"clock_name", port>>, status |-> "AMBIGUOUS", decision |-> "REJECTED",
     missing |-> {}, templates |-> <<>>, source |-> SourceIdentity(w, baseline)]

\* infer_candidates: the rules run on a scratch set, the baseline is only read.
InferCandidates(w, baseline) ==
    LET scratch == Run(w, EmptySet({}))
    IN {CandidateOf(scratch.cons[id], w, baseline) : id \in Ids(scratch)}
         \cup {CandidateOfMissing(m, w, baseline) : m \in AllMissing(w)}
         \cup {CandidateOfHint(p, w, baseline) : p \in w.hints}
=============================================================================
