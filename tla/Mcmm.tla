-------------------------------- MODULE Mcmm --------------------------------
(***************************************************************************)
(* Multi-corner multi-mode results (mcmm/aggregate.py, mcmm/matrix.py).    *)
(* A candidate is [id, results, baseline]: results maps the scenarios that *)
(* were run to a QoR, NoQoR where the run gave none; baseline is the map   *)
(* of baseline slacks its margin was measured against.                     *)
(***************************************************************************)
EXTENDS QoRSelection

\* The evaluator asks for no margins and no unsafe exceptions, whatever the
\* configuration says: it calls the aggregation with its defaults.
Bare == INSTANCE QoRSelection
            WITH RequiredSetup <- 0, RequiredHold <- 0, AllowUnsafe <- FALSE

-----------------------------------------------------------------------------
(* The matrix: which scenarios are active, which of them have a definition. *)

\* definitions, specs: what the constraint set and the configuration define,
\* scenario -> active?; selected: mcmm.active_scenario_ids, in order.
Matrix(definitions, specs, selected) ==
    LET given == definitions @@ specs
        known == IF DOMAIN given = {} THEN "S000" :> TRUE ELSE given
    IN [known |-> DOMAIN known,
        active |-> IF selected # {} THEN selected
                   ELSE {s \in DOMAIN known : known[s]}]

\* The scenarios that are run: an active one without a definition is not.
Runnable(matrix) == matrix.active \cap matrix.known

-----------------------------------------------------------------------------
(* Feasibility: one scenario, and all of them.                             *)

TimingMet(q) ==
    /\ q.setup_wns # Unknown /\ q.setup_wns >= -Eps
    /\ q.hold_wns # Unknown /\ q.hold_wns >= -Eps

ScenarioStatus(q) ==
    IF q # NoQoR /\ TimingMet(q) /\ q.validation_errors > 0 THEN "invalid"
    ELSE Bare!Classify(q)

\* A scenario nobody ran has no result, which counts as blocked.
ResultOf(results, sid) == IF sid \in DOMAIN results THEN results[sid] ELSE NoQoR

WorstFirst == <<"invalid", "blocked", "infeasible", "feasible">>
Worst(found) == WorstFirst[Min({i \in DOMAIN WorstFirst : WorstFirst[i] \in found})]

\* Mutant: scenarios without a result are skipped.
GlobalStatusOfRun(results, active) ==
    LET found == {ScenarioStatus(results[sid]) : sid \in DOMAIN results}
    IN  IF found = {} THEN "blocked"
        ELSE Worst(found)

GlobalStatus(results, active) ==
    LET found == {ScenarioStatus(ResultOf(results, sid)) : sid \in active}
    IN  IF active = {} THEN "blocked"
        ELSE Worst(found)

\* The scenarios a verdict is about.
Deciding(results, active) ==
    {sid \in active : ScenarioStatus(ResultOf(results, sid)) = GlobalStatus(results, active)}

GloballyEligible(c, active) ==
    /\ GlobalStatus(c.results, active) = "feasible"
    /\ \A sid \in DOMAIN c.results : Bare!Classify(c.results[sid]) = "feasible"

-----------------------------------------------------------------------------
(* Global objectives: the worst scenario binds, an unknown one makes the   *)
(* whole unknown, and real areas do not mix with proxies.                  *)

ScenarioMetric(results, sid, m) ==
    LET q == ResultOf(results, sid) IN
    IF q = NoQoR THEN Unknown ELSE RawMetric(q, m)

AreaSources(results, active) == {AreaSource(ResultOf(results, sid)) : sid \in active}

\* Mutant: the best scenario binds.
BindingBest(m, values) == IF m \in Minimized THEN Min(values) ELSE Max(values)
Binding(m, values) == IF m \in Minimized THEN Max(values) ELSE Min(values)

Objective(results, active, m) ==
    LET values == {ScenarioMetric(results, sid, m) : sid \in active} IN
    IF \/ values = {} \/ Unknown \in values
       \/ m = "area" /\ Cardinality(AreaSources(results, active)) > 1
    THEN Unknown
    ELSE Binding(m, values)

\* The scenarios that bind an objective, or leave it unknown.
BindingScenarios(results, active, m) ==
    {sid \in active : ScenarioMetric(results, sid, m) = Objective(results, active, m)}

-----------------------------------------------------------------------------
(* Margins, scenario by scenario against the baseline's slacks there.      *)

NoSlacks == [setup_wns |-> Unknown, hold_wns |-> Unknown]
Slacks(q) == [setup_wns |-> q.setup_wns, hold_wns |-> q.hold_wns]

ScenarioUtilization(q, slacks) ==
    IF q = NoQoR THEN Unknown
    ELSE Bare!Utilization([id |-> 1, qor |-> q], [id |-> 0, qor |-> slacks])

Utilizations(c, active) ==
    [sid \in active |->
        ScenarioUtilization(ResultOf(c.results, sid),
            IF sid \in DOMAIN c.baseline THEN c.baseline[sid] ELSE NoSlacks)]

GlobalUtilization(c, active) ==
    LET known == Range(Utilizations(c, active)) \ {Unknown}
    IN  IF known = {} THEN Unknown ELSE CHOOSE x \in known : \A y \in known : ~Smaller(x, y)

\* finalize_limiting: which scenarios hold the candidate back.
Limiting(c, active) ==
    LET verdict == GlobalStatus(c.results, active)
        metrics == {m \in Metrics : Objective(c.results, active, m) # Unknown}
        tight == {sid \in active :
                    /\ Utilizations(c, active)[sid] # Unknown
                    /\ ~Smaller(Utilizations(c, active)[sid], GlobalUtilization(c, active))}
        binding == tight \cup UNION {BindingScenarios(c.results, active, m) : m \in metrics}
    IN  IF verdict # "feasible" THEN Deciding(c.results, active)
        ELSE IF binding = {} THEN active ELSE binding

-----------------------------------------------------------------------------
(* Dominance over the complete scenario set, and the front.                *)

McmmDominates(a, b, active) ==
    /\ GloballyEligible(a, active) /\ GloballyEligible(b, active)
    /\ \A sid \in active : NoWorse(ResultOf(a.results, sid), ResultOf(b.results, sid))
    /\ \E sid \in active : SomeBetter(ResultOf(a.results, sid), ResultOf(b.results, sid))

\* found: the candidates there are, by id.
Eligibles(found, active) == {id \in DOMAIN found : GloballyEligible(found[id], active)}

\* Mutant: beaten members stay.
McmmAdmitKeepsBeaten(found, front, id, active) ==
    IF \/ id \notin Eligibles(found, active)
       \/ \E j \in front : McmmDominates(found[j], found[id], active)
    THEN front ELSE front \cup {id}

\* One round of the loop over the eligible candidates.
McmmAdmit(found, front, id, active) ==
    LET beaten == {j \in front : /\ ~McmmDominates(found[j], found[id], active)
                                 /\ McmmDominates(found[id], found[j], active)}
    IN  IF id \notin Eligibles(found, active) THEN front
        ELSE IF \E j \in front : McmmDominates(found[j], found[id], active)
        THEN front \ beaten
        ELSE (front \ beaten) \cup {id}

\* The loop runs in order of the ids; no id is as large as this.
Ids(found) == Max({0} \cup DOMAIN found) + 1

\* pass[k]: the front after the candidates with ids below k.
McmmFront(found, active) ==
    LET pass[k \in 0..Ids(found)] ==
            IF k = 0 THEN {} ELSE McmmAdmit(found, pass[k - 1], k - 1, active)
    IN  pass[Ids(found)]

-----------------------------------------------------------------------------
(* The final pick: binding objectives bucket by bucket, then the margin,   *)
(* then the id.  0 where two candidates tie or do not compare.             *)

CmpObjective(a, b, active, m) ==
    LET x == Objective(a.results, active, m)
        y == Objective(b.results, active, m)
    IN  IF x = Unknown \/ y = Unknown THEN 0 ELSE Sign(Gain(m, x, y), Eps)

CmpGlobalTiming(a, b, active) ==
    LET setup == CmpObjective(a, b, active, "setup_wns") IN
    IF Unknown \in {Objective(c.results, active, m) : c \in {a, b},
                                                     m \in {"setup_wns", "hold_wns"}}
    THEN 0
    ELSE IF setup # 0 THEN setup ELSE CmpObjective(a, b, active, "hold_wns")

CmpGlobalArea(a, b, active) ==
    IF AreaSources(a.results, active) # AreaSources(b.results, active) THEN 0
    ELSE CmpObjective(a, b, active, "area")

\* Mutant: more power is better.
CmpGlobalMorePower(bucket, a, b, active) ==
    CASE bucket = "timing"  -> CmpGlobalTiming(a, b, active)
      [] bucket = "quality" -> CmpObjective(a, b, active, "constraint_quality")
      [] bucket = "area"    -> CmpGlobalArea(a, b, active)
      [] bucket = "power"   -> -CmpObjective(a, b, active, "power")

CmpGlobal(bucket, a, b, active) ==
    CASE bucket = "timing"  -> CmpGlobalTiming(a, b, active)
      [] bucket = "quality" -> CmpObjective(a, b, active, "constraint_quality")
      [] bucket = "area"    -> CmpGlobalArea(a, b, active)
      [] bucket = "power"   -> CmpObjective(a, b, active, "power")

CmpBuckets(a, b, active) ==
    Lexical([bucket \in Buckets |-> CmpGlobal(bucket, a, b, active)])

McmmPriority(a, b, active) ==
    LET bucket == CmpBuckets(a, b, active)
        margin == CmpShare(GlobalUtilization(a, active), GlobalUtilization(b, active))
    IN  IF bucket # 0 THEN bucket ELSE IF margin # 0 THEN margin ELSE Sign(b.id - a.id, 0)

\* Nobody: no candidate has this id.
NoId == -1

\* The best so far after candidate id; a later one must compare strictly greater.
McmmKeep(found, front, held, id, active) ==
    IF /\ id \in front
       /\ held = NoId \/ McmmPriority(found[id], found[held], active) > 0
    THEN id ELSE held

\* max(front, key=cmp_to_key(...))
McmmBest(found, front, active) ==
    LET best[k \in 0..Ids(found)] ==
            IF k = 0 THEN NoId ELSE McmmKeep(found, front, best[k - 1], k - 1, active)
    IN  best[Ids(found)]

\* The baseline, 0, comes last in the pool, when it is eligible and not in the
\* front.  NoId: there is no front, and nothing is selected.
McmmSelectFinal(found, front, active) ==
    LET best == McmmBest(found, front, active) IN
    IF front = {} THEN NoId
    ELSE IF /\ 0 \in Eligibles(found, active) \ front
            /\ McmmPriority(found[0], found[best], active) > 0
    THEN 0 ELSE best
=============================================================================
