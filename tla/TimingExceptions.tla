------------------------- MODULE TimingExceptions -------------------------
(***************************************************************************)
(* Timing exceptions of exceptions/: the structural analysis of each one,  *)
(* the formal proof asked of a backend, the binding of its answer to the   *)
(* constraint it was asked about, and the decision to emit.                *)
(***************************************************************************)
EXTENDS TimingConstraints

CONSTANTS HighAbove, FormalAbove, CriticalAbove   \* 20, 100 and 200 paths in the code

ASSUME ThresholdAssumption == HighAbove < FormalAbove /\ FormalAbove < CriticalAbove

\* ------------------------------------------------------- structural analysis

\* A clock in a selector stands for its registers too.
Expanded(names, d) ==
    IF d.graph THEN names \cup UNION {d.drives[n] : n \in names \cap d.clocks} ELSE names

\* Stage by stage, the earliest place after the previous stage's where the
\* path meets the stage; an empty stage asks nothing.
ThroughMatches(hay, through) ==
    LET meets(i, pos) == {j \in (pos + 1) .. Len(hay) : hay[j] \in through[i]}
        after[i \in 0 .. Len(through)] ==
            IF i = 0 THEN 0
            ELSE IF after[i - 1] = -1 THEN -1
            ELSE IF through[i] = {} THEN after[i - 1]
            ELSE IF meets(i, after[i - 1]) = {} THEN -1 ELSE Min(meets(i, after[i - 1]))
    IN after[Len(through)] # -1

PathsMatching(c, d) ==
    IF ~d.graph THEN {}
    ELSE {p \in d.paths :
        /\ c.from = {} \/ p.start \in Expanded(c.from, d) \/ p.launch \in c.from
        /\ c.to = {} \/ p.end \in Expanded(c.to, d) \/ p.capture \in c.to
        /\ c.through = <<>> \/ ThroughMatches(<<p.start>> \o p.elems \o <<p.end>>, c.through)}

CrossClock(paths) ==
    {p \in paths : p.launch # NoClock /\ p.capture # NoClock /\ p.launch # p.capture}
ClocksOf(paths) == ({p.launch : p \in paths} \cup {p.capture : p \in paths}) \ {NoClock}

Finding(kind, severity) == [kind |-> kind, severity |-> severity]
When(condition, finding) == IF condition THEN {finding} ELSE {}

\* A reset or test name in the selector only asks for a review.
FalsePathFindings(c, d, groupPairs) ==
    LET paths == PathsMatching(c, d)
        cross == CrossClock(paths)
        names == c.from \cup c.to \cup UNION {c.through[i] : i \in DOMAIN c.through}
    IN When(EmptySelector(c), Finding("BROAD", "CRITICAL"))
       \cup When(d.graph /\ paths = {} /\ ~EmptySelector(c), Finding("NO_EFFECT", "WARNING"))
       \cup When(cross # {}, Finding("CLOCK_DOMAIN_CROSSING", "HIGH"))
       \cup When(\E p \in cross : Pair(p.launch, p.capture) \in groupPairs,
                 Finding("CLOCK_GROUP_OVERLAP", "INFO"))
       \cup When(names \cap d.resets # {}, Finding("RESET_RELATED", "MEDIUM"))
       \cup When(names \cap d.tests # {}, Finding("TEST_MODE", "INFO"))
       \cup When(Cardinality(paths) > FormalAbove \/ EmptySelector(c),
                 Finding("REQUIRES_FORMAL_VERIFICATION", "HIGH"))

\* A cycle count that is no count ends the analysis of the constraint.
MulticycleFindings(c, d) ==
    LET paths == PathsMatching(c, d)
        cycles == Value(c, "cycles", Garbled)
        count(n) == Cardinality(paths) > n
    IN IF cycles = Garbled THEN {Finding("CYCLE_COUNT_INVALID", "ERROR")}
       ELSE IF cycles < 0 THEN {Finding("CYCLE_COUNT_INVALID", "ERROR")}
       ELSE When(cycles = 0, Finding("CYCLE_COUNT_INVALID", "ERROR"))
            \cup When(Flag(c, "start") /\ Flag(c, "end"), Finding("SETUP_HOLD_INCOHERENT", "WARNING"))
            \cup When(d.graph /\ paths = {}, Finding("NO_EFFECT", "WARNING"))
            \cup When(CrossClock(paths) # {}, Finding("CLOCK_DOMAIN_CROSSING", "HIGH"))
            \cup When(paths = {}, Finding("MULTICYCLE_NO_EVIDENCE", "MEDIUM"))
            \cup When(count(CriticalAbove), Finding("REQUIRES_FORMAL_VERIFICATION", "HIGH"))

DelayFindings(c, d) ==
    LET paths == PathsMatching(c, d)
    IN When(paths = {} /\ c.from # {} /\ c.to # {}, Finding("NO_EFFECT", "WARNING"))
       \cup When(Cardinality(paths) > CriticalAbove, Finding("BROAD", "HIGH"))

Findings(c, d, groupPairs) ==
    CASE c.type = "set_false_path" -> FalsePathFindings(c, d, groupPairs)
      [] c.type = "set_multicycle_path" -> MulticycleFindings(c, d)
      [] OTHER -> DelayFindings(c, d)

Severities(findings) == {f.severity : f \in findings}

ClassifyRisk(c, findings, paths) ==
    IF "CRITICAL" \in Severities(findings) THEN "CRITICAL"
    ELSE IF Cardinality(paths) > CriticalAbove THEN "CRITICAL"
    ELSE IF "HIGH" \in Severities(findings) THEN "HIGH"
    ELSE IF paths = {} THEN "LOW"
    ELSE IF Cardinality(paths) > HighAbove THEN "HIGH"
    ELSE IF c.from # {} /\ c.to # {} THEN "MEDIUM"
    ELSE IF Cardinality(ClocksOf(paths)) >= 2 THEN "MEDIUM"
    ELSE "LOW"

\* An exception without effect is not applicable even when it is malformed.
Lifecycle(findings) ==
    IF \E f \in findings : f.kind = "NO_EFFECT" THEN "NOT_APPLICABLE"
    ELSE IF "ERROR" \in Severities(findings) THEN "INVALID" ELSE "STRUCTURALLY_ANALYZED"

Approval(c, confirmed, rejected) ==
    IF c.id \in rejected THEN "USER_REJECTED"
    ELSE IF c.id \in confirmed \/ c.status = "FIXED" THEN "USER_CONFIRMED" ELSE "NONE"

AnalyzeException(c, d, groupPairs, confirmed, rejected) ==
    LET findings == Findings(c, d, groupPairs)
    IN [id |-> c.id, lifecycle |-> Lifecycle(findings),
        approval |-> Approval(c, confirmed, rejected),
        risk |-> ClassifyRisk(c, findings, PathsMatching(c, d))]

\* ------------------------------------------------------------ formal backends

\* SymbiYosysFormalBackend._run_proof.  A run is the configured proof's kind
\* ("none": no mapping), whether its file and the tool are there, whether the
\* work directory is contained, how the tool ended, and the status markers and
\* exit code it left.  Only a single PASS with exit code 0 verifies.
SymbiYosys(run, kind) ==
    IF run.kind = "none" THEN "UNRESOLVED"
    ELSE IF run.kind # kind THEN "ERROR"
    ELSE IF ~run.file \/ ~run.tool THEN "UNRESOLVED"
    ELSE IF ~run.contained THEN "ERROR"
    ELSE IF run.ended \in {"timeout", "os_error"} THEN "UNRESOLVED"
    ELSE IF run.markers \in {{}, {"UNKNOWN"}} THEN "UNRESOLVED"
    ELSE IF run.markers = {"PASS"} /\ run.code = 0 THEN "VERIFIED"
    ELSE IF run.markers = {"FAIL"} THEN "INVALID"
    ELSE "ERROR"

\* ConservativeFormalBackend proves nothing, MockFormalBackend answers what it
\* was given, and a backend that raises has produced no proof.
BackendAnswer(backend, id, kind) ==
    CASE backend.kind = "conservative" -> "UNRESOLVED"
      [] backend.kind = "symbiyosys" -> SymbiYosys(backend.run[id], kind)
      [] backend.kind = "raises" -> "ERROR"
      [] backend.kind = "mock" ->
            IF id \in DOMAIN backend.verdicts THEN backend.verdicts[id] ELSE "UNRESOLVED"

\* The identity a verdict is bound to: the whole canonical constraint.
SemanticIdentity(c) == [c EXCEPT !.at = 0]

\* bind_verification_result binds an answer to the constraint as it is now.
Bound(c, status) == [status |-> status, of |-> c.id, identity |-> SemanticIdentity(c)]

FormalResultIsCurrent(result, c) ==
    result.of = c.id /\ result.identity = SemanticIdentity(c)

\* What structural analysis alone says, which a backend is not asked to
\* overturn.
StructuralStatus(r) ==
    IF r.lifecycle \in {"INVALID", "NOT_APPLICABLE"} THEN r.lifecycle ELSE "UNRESOLVED"

\* verify_exceptions: no proof is implemented for a min or max delay.
VerificationStatus(c, r, backend) ==
    IF StructuralStatus(r) # "UNRESOLVED" THEN StructuralStatus(r)
    ELSE IF c.type \in {"set_false_path", "set_multicycle_path"}
         THEN BackendAnswer(backend, c.id, c.type) ELSE "UNRESOLVED"

VerifyExceptions(u, d, backend, confirmed, rejected) ==
    {LET r == AnalyzeException(c, d, ClockGroupPairs(u), confirmed, rejected)
     IN [r |-> r, c |-> c, status |-> VerificationStatus(c, r, backend)] : c \in Exceptions(u)}

\* ------------------------------------------------------------------ emission

EmissionStatus(v) ==
    IF v.r.approval = "USER_REJECTED" THEN "BLOCKED_REJECTED"
    ELSE IF v.status = "INVALID" THEN "BLOCKED_INVALID"
    ELSE IF v.status = "ERROR" THEN "BLOCKED_ERROR"
    ELSE IF v.status = "NOT_APPLICABLE" THEN "BLOCKED_NO_EFFECT"
    ELSE IF v.r.risk = "CRITICAL" /\ (v.status = "VERIFIED") # (v.r.approval = "USER_CONFIRMED")
         THEN "BLOCKED_CRITICAL_RISK"
    ELSE IF v.status = "VERIFIED" THEN "ALLOWED"
    ELSE IF v.r.approval = "USER_CONFIRMED" THEN "ALLOWED_USER_CONFIRMED"
    ELSE "BLOCKED_UNVERIFIED"

\* is_emittable: no mode emits what is refuted, rejected or of no effect, nor
\* a critical exception that is not both proved and confirmed.
Emittable(v, mode) ==
    /\ v.status \notin {"INVALID", "ERROR", "NOT_APPLICABLE"}
    /\ v.r.approval # "USER_REJECTED"
    /\ v.r.risk = "CRITICAL" => v.status = "VERIFIED" /\ v.r.approval = "USER_CONFIRMED"
    /\ \/ mode = "exploratory"
       \/ v.status = "VERIFIED"
       \/ /\ mode = "balanced"
          /\ \/ v.r.approval = "USER_CONFIRMED"
             \/ v.status = "UNRESOLVED" /\ v.r.risk \in {"LOW", "MEDIUM"}

EmittableExceptions(report, mode) == {v.c.id : v \in {w \in report : Emittable(w, mode)}}
=============================================================================
