--------------------------- MODULE McmmEvaluation ---------------------------
(***************************************************************************)
(* One MCMMEvaluator (mcmm/evaluate.py) called by the optimizer: for the   *)
(* baseline first, then by worker threads for the candidates.  A call runs *)
(* every scenario of the matrix, aggregates, and measures margins against  *)
(* a baseline map that all calls share and the first one to miss it fills. *)
(* Tools may fail in any run, and a run may raise.                         *)
(***************************************************************************)
EXTENDS Mcmm

CONSTANTS
    Plays,          \* [measured : candidate -> scenario -> QoR, unchanged, matrix, faults]
    Workers

\* A play has a baseline, numbered candidates, finitely many of them and of
\* active scenarios, and tools that report a QoR or nothing.  The set of an
\* unchanged candidate is the base set: the optimizer hands out none, but the
\* evaluator takes any candidate.
ASSUME PlaysAssumption ==
    /\ NoQoR \notin QoR
    /\ \A p \in Plays :
          /\ 0 \in DOMAIN p.measured
          /\ DOMAIN p.measured \subseteq Nat /\ IsFiniteSet(DOMAIN p.measured)
          /\ IsFiniteSet(p.matrix.active) /\ p.unchanged \subseteq DOMAIN p.measured
          /\ \A c \in DOMAIN p.measured : \A sid \in DOMAIN p.measured[c] :
                p.measured[c][sid] \in QoR \cup {NoQoR}

VARIABLES
    play,           \* which of Plays this is
    work,           \* worker -> its call, or Idle
    baselineBy,     \* self.baseline_by_scenario: whether it is filled, and the map
    outcome,        \* candidate -> Waiting, Failed or its result
    faults          \* runs that failed or raised

vars == <<play, work, baselineBy, outcome, faults>>

Candidates == DOMAIN play.measured      \* 0 is the baseline
Order == SetToSeq(Runnable(play.matrix))
Active == play.matrix.active

Idle    == [at |-> "idle"]
Waiting == [status |-> "waiting"]
Failed  == [status |-> "failed"]

Init ==
    /\ play \in Plays
    /\ work = [w \in Workers |-> Idle]
    /\ baselineBy = [filled |-> FALSE, map |-> [sid \in {} |-> NoSlacks]]
    /\ outcome = [c \in Candidates |-> Waiting]
    /\ faults = 0

\* A call: the candidate, its results, the map it builds, and the runs made in
\* the current pass over the scenarios.
Call(c) == [candidate |-> c, at |-> "candidate", made |-> 0,
            results |-> [sid \in {} |-> NoQoR], map |-> [sid \in {} |-> NoSlacks]]

\* _is_baseline: the id is C000, or the set hashes as the base set does.
IsBaseline(c) == c = 0 \/ c \in play.unchanged

\* The coordinator evaluates the baseline before it hands out anything; a
\* candidate goes to one worker once.
MayStart(c) ==
    /\ outcome[c].status = "waiting"
    /\ \A v \in Workers : work[v].at # "idle" => work[v].candidate # c
    /\ c # 0 => outcome[0].status # "waiting"

Start(w, c) ==
    /\ work[w].at = "idle"
    /\ MayStart(c)
    /\ work' = [work EXCEPT ![w] = Call(c)]
    /\ UNCHANGED <<play, baselineBy, outcome, faults>>

At(w, place) == work[w].at = place

\* A map with one more entry, or another one.
With(map, sid, value) ==
    [s \in DOMAIN map \cup {sid} |-> IF s = sid THEN value ELSE map[s]]

\* The QoR of the next run for candidate c, or a tool failure.
RunOutcome(c, sid, qor) ==
    \/ qor = play.measured[c][sid] /\ UNCHANGED faults
    \/ /\ faults < play.faults
       /\ faults' = faults + 1
       /\ qor = NoQoR

RunScenario(w, qor) ==
    LET call == work[w]
        sid == Order[call.made + 1] IN
    /\ At(w, "candidate")
    /\ call.made < Len(Order)
    /\ RunOutcome(call.candidate, sid, qor)
    /\ work' = [work EXCEPT ![w].made = @ + 1, ![w].results = With(@, sid, qor)]
    /\ UNCHANGED <<play, baselineBy, outcome>>

Raise(w) ==
    /\ work[w].at \in {"candidate", "baseline"}
    /\ work[w].made < Len(Order)
    /\ faults < play.faults
    /\ faults' = faults + 1
    /\ outcome' = [outcome EXCEPT ![work[w].candidate] = Failed]
    /\ work' = [work EXCEPT ![w] = Idle]
    /\ UNCHANGED <<play, baselineBy>>

MeasuredSlacks(results) ==
    [sid \in {s \in DOMAIN results : results[s] # NoQoR} |-> Slacks(results[sid])]

\* Mutant: every call that is not the baseline's measures the baseline anew.
LookForBaselineAlways(w) ==
    LET call == work[w] IN
    /\ At(w, "candidate")
    /\ call.made = Len(Order)
    /\ work' = [work EXCEPT ![w] =
           IF IsBaseline(call.candidate)
           THEN [call EXCEPT !.at = "assign", !.map = MeasuredSlacks(call.results)]
           ELSE [call EXCEPT !.at = "baseline", !.made = 0]]
    /\ UNCHANGED <<play, baselineBy, outcome, faults>>

\* Is there a baseline map yet?  The baseline's own results are one; another
\* candidate runs the baseline again.
LookForBaseline(w) ==
    LET call == work[w] IN
    /\ At(w, "candidate")
    /\ call.made = Len(Order)
    /\ work' = [work EXCEPT ![w] =
           IF baselineBy.filled THEN [call EXCEPT !.at = "margin"]
           ELSE IF IsBaseline(call.candidate)
           THEN [call EXCEPT !.at = "assign", !.map = MeasuredSlacks(call.results)]
           ELSE [call EXCEPT !.at = "baseline", !.made = 0]]
    /\ UNCHANGED <<play, baselineBy, outcome, faults>>

RunBaseline(w, qor) ==
    LET call == work[w]
        sid == Order[call.made + 1] IN
    /\ At(w, "baseline")
    /\ call.made < Len(Order)
    /\ RunOutcome(0, sid, qor)
    /\ work' = [work EXCEPT
           ![w].made = @ + 1,
           ![w].map = IF qor = NoQoR THEN @ ELSE With(@, sid, Slacks(qor)),
           ![w].at = IF call.made + 1 = Len(Order) THEN "assign" ELSE @]
    /\ UNCHANGED <<play, baselineBy, outcome>>

AssignBaseline(w) ==
    /\ At(w, "assign")
    /\ baselineBy' = [filled |-> TRUE, map |-> work[w].map]
    /\ work' = [work EXCEPT ![w].at = "margin"]
    /\ UNCHANGED <<play, outcome, faults>>

\* The margin is taken against whatever map is shared now.
Finish(w) ==
    LET call == work[w] IN
    /\ At(w, "margin")
    /\ outcome' = [outcome EXCEPT ![call.candidate] =
           [status |-> "evaluated", id |-> call.candidate, results |-> call.results,
            baseline |-> baselineBy.map]]
    /\ work' = [work EXCEPT ![w] = Idle]
    /\ UNCHANGED <<play, baselineBy, faults>>

Done == \A c \in Candidates : outcome[c].status # "waiting"

Next == \E w \in Workers :
    \/ \E c \in Candidates : Start(w, c)
    \/ \E qor \in {NoQoR} \cup UNION {Range(play.measured[c]) : c \in Candidates} :
          RunScenario(w, qor) \/ RunBaseline(w, qor)
    \/ Raise(w) \/ LookForBaseline(w) \/ AssignBaseline(w) \/ Finish(w)

Spec == Init /\ [][Next]_vars

-----------------------------------------------------------------------------
(* The optimizer's view once all candidates have been evaluated.           *)

Returned(c) == outcome[c].status = "evaluated"
Results == {outcome[c] : c \in {d \in Candidates : Returned(d)}}
Found == [c \in {d \in Candidates : Returned(d)} |-> outcome[c]]
ParetoMembers == McmmFront(Found, Active)
Final == McmmSelectFinal(Found, ParetoMembers, Active)

\* Whoever filled the shared map, and however the calls of the workers
\* interleave: if the baseline was evaluated, every margin is measured against
\* what it measured, no less and no more (evaluate.py:51, 89).
MarginsComparable ==
    Returned(0) =>
        \A r \in Results : r.baseline = MeasuredSlacks(outcome[0].results)

\* Nothing rescues a scenario: a candidate is globally feasible only if every
\* active scenario has a definition, was run, and met its constraints with
\* nothing invalid or unsafe in it (aggregate.py:138).
FeasibleEverywhere ==
    \A r \in Results : GlobalStatus(r.results, Active) = "feasible" =>
        /\ Active # {}
        /\ \A sid \in Active :
              /\ sid \in DOMAIN r.results
              /\ r.results[sid] # NoQoR
              /\ r.results[sid] = play.measured[r.id][sid]
              /\ TimingMet(r.results[sid])
              /\ r.results[sid].validation_errors = 0
              /\ r.results[sid].unsafe_exceptions = 0

\* No two eligible candidates report values for a scenario that differ by the
\* tolerance or less.
ResultsToldApart ==
    \A c, d \in Eligibles(Found, Active), sid \in Active :
        ToldApart(ResultOf(Found[c].results, sid), ResultOf(Found[d].results, sid), Metrics)

\* Whatever the tolerance, no member of the front over all scenarios dominates
\* another and an eligible candidate is left out only if one dominates it.  Unless
\* the tolerance blurs reported values, the front is exactly the undominated
\* candidates, and who is left out is dominated by one that is in
\* (aggregate.py:561).
FrontExact ==
    Done =>
        /\ \A c, d \in ParetoMembers : ~McmmDominates(Found[c], Found[d], Active)
        /\ \A c \in Eligibles(Found, Active) \ ParetoMembers :
              \E d \in DOMAIN Found : McmmDominates(Found[d], Found[c], Active)
        /\ ResultsToldApart =>
              /\ ParetoMembers = {c \in Eligibles(Found, Active) :
                    \A d \in DOMAIN Found : ~McmmDominates(Found[d], Found[c], Active)}
              /\ \A c \in Eligibles(Found, Active) \ ParetoMembers :
                    \E d \in ParetoMembers : McmmDominates(Found[d], Found[c], Active)

\* The binding objectives never speak against dominance: a candidate that
\* dominates another scenario by scenario is not behind it in any bucket the
\* selection can look at (aggregate.py:261, 522, 695).
BindingRespectsDominance ==
    \A r, s \in Results : McmmDominates(r, s, Active) =>
        \A bucket \in Range(BucketOrder) : CmpGlobal(bucket, r, s, Active) >= 0

WorstSetup(r) == Min({r.results[sid].setup_wns : sid \in Active})

TimingFirst == Buckets # {} /\ First(Buckets) = "timing"

\* Whom the selection may choose from: the front and the eligible baseline.
FinalPool == ParetoMembers \cup ({0} \cap Eligibles(Found, Active))

\* The objectives a bucket looks at are known for all of them or for none, from
\* the same sources, in values that are told apart.
ObjectivesSettled(b) ==
    \A c, d \in FinalPool :
        /\ b = "area" => AreaSources(Found[c].results, Active) = AreaSources(Found[d].results, Active)
        /\ \A m \in BucketMetrics(b) :
              LET x == Objective(Found[c].results, Active, m)
                  y == Objective(Found[d].results, Active, m)
              IN  (x = Unknown <=> y = Unknown) /\ Apart(x, y)

MarginsApart ==
    \A c, d \in FinalPool :
        SharesApart(GlobalUtilization(Found[c], Active), GlobalUtilization(Found[d], Active))

\* What is selected is eligible, whatever the metrics and the tolerance.  With
\* timing first, nothing it could have been has a better slack in its worst
\* scenario, whatever else is missing for whom, if the binding slacks are told
\* apart; nothing at all is ahead of it if the baseline was evaluated and all
\* objectives are settled (aggregate.py:635).
FinalIsBest ==
    (Done /\ Final # NoId) =>
        /\ Final \in Eligibles(Found, Active)
        /\ TimingFirst /\ ObjectivesSettled("timing") => \A c \in FinalPool :
              WorstSetup(Found[c]) <= WorstSetup(Found[Final])
        /\ (Returned(0) /\ (\A b \in Buckets : ObjectivesSettled(b)) /\ MarginsApart) =>
              \A c \in FinalPool : McmmPriority(Found[c], Found[Final], Active) <= 0
=============================================================================
