---------------------------- MODULE QoRSelection ----------------------------
(***************************************************************************)
(* The objective vector, hard feasibility, Pareto dominance and the final  *)
(* pick of src/src/rca/qor/objectives.py.  Every metric is an integer      *)
(* number of steps of which Eps make 1e-12 of its unit, the tolerance of   *)
(* all comparisons; a metric the tool did not report is Unknown.           *)
(* A candidate is a record with the fields id (an integer, the number in   *)
(* "C007") and qor; qor is NoQoR for an experiment that produced none.     *)
(***************************************************************************)
EXTENDS Integers, Sequences, SequencesExt

CONSTANTS
    Unknown,           \* a metric that was not measured (None)
    NoQoR,             \* the qor of a blocked or failed experiment (None)
    Eps,               \* 1e-12, the tolerance of every metric
    Resolution,        \* 1e12: shares of a margin this close are taken as one
    RequiredSetup,     \* optimization.required_setup_margin_ns
    RequiredHold,      \* optimization.required_hold_margin_ns
    AllowUnsafe,       \* allow_unsafe_exceptions (exploratory mode)
    Priorities         \* optimization.priorities: bucket -> high ... off

ASSUME SelectionAssumption ==
    /\ Eps \in Nat /\ Resolution \in Nat \ {0}
    /\ RequiredSetup \in Int /\ RequiredHold \in Int
    /\ AllowUnsafe \in BOOLEAN
    /\ Unknown \notin Int \cup [spent : Nat, of : Nat]

TimingMetrics == {"setup_wns", "hold_wns", "setup_tns", "hold_tns"}
Metrics == TimingMetrics \cup {"area", "power", "constraint_quality"}
Minimized == {"area", "power"}

Measured == Int \cup {Unknown}
QoR == [setup_wns : Measured, hold_wns : Measured,
        setup_tns : Measured, hold_tns : Measured,
        area : Measured, area_proxy : Measured, power : Measured,
        constraint_quality : Measured,
        validation_errors : Nat, unsafe_exceptions : Nat,
        tool_error : BOOLEAN,
        context : STRING]        \* scenario, corner and flow stage

-----------------------------------------------------------------------------
(* Hard feasibility: the verdict and, when it is not "feasible", why.      *)

Classify(q) ==
    CASE q = NoQoR -> "blocked"
      [] q # NoQoR /\ ( \/ q.setup_wns = Unknown
                        \/ q.setup_wns < RequiredSetup - Eps
                        \/ q.hold_wns = Unknown
                        \/ q.hold_wns < RequiredHold - Eps
                        \/ q.validation_errors > 0
                        \/ q.unsafe_exceptions > 0 /\ ~AllowUnsafe ) -> "infeasible"
      [] OTHER -> IF q.tool_error THEN "blocked" ELSE "feasible"

Feasible(c) == Classify(c.qor) = "feasible"
IsUnsafe(c) == c.qor # NoQoR /\ c.qor.unsafe_exceptions > 0
Eligible(c) == Feasible(c) /\ ~IsUnsafe(c)

-----------------------------------------------------------------------------
(* The objective vector and its comparison.                                *)

AreaSource(q) ==
    IF q.area # Unknown THEN "real"
    ELSE IF q.area_proxy # Unknown THEN "proxy" ELSE "unknown"

AreaValue(q) == IF q.area # Unknown THEN q.area ELSE q.area_proxy

\* A TNS the tool left out is 0 when the WNS of that side is not negative.
Tns(tns, wns) ==
    IF tns # Unknown THEN tns
    ELSE IF wns # Unknown /\ wns >= 0 THEN 0 ELSE Unknown

RawMetric(q, m) ==
    CASE m = "setup_wns" -> q.setup_wns
      [] m = "hold_wns"  -> q.hold_wns
      [] m = "setup_tns" -> Tns(q.setup_tns, q.setup_wns)
      [] m = "hold_tns"  -> Tns(q.hold_tns, q.hold_wns)
      [] m = "area"      -> AreaValue(q)
      [] m = "power"     -> q.power
      [] m = "constraint_quality" -> q.constraint_quality

\* How much better x is than y on metric m.
Gain(m, x, y) == IF m \in Minimized THEN y - x ELSE x - y

CmpMetric(m, a, b) ==
    LET x == RawMetric(a, m)
        y == RawMetric(b, m)
    IN  IF m = "area" /\ AreaSource(a) # AreaSource(b) THEN "incomparable"
        ELSE IF x = Unknown /\ y = Unknown THEN "equal"
        ELSE IF x = Unknown \/ y = Unknown THEN "incomparable"
        ELSE IF Gain(m, x, y) > Eps THEN "better"
        ELSE IF Gain(m, x, y) < -Eps THEN "worse"
        ELSE "equal"

NoWorse(a, b) == \A m \in Metrics : CmpMetric(m, a, b) \in {"better", "equal"}
SomeBetter(a, b) == \E m \in Metrics : CmpMetric(m, a, b) = "better"

Dominates(a, b) ==
    /\ Eligible(a) /\ Eligible(b)
    /\ a.qor.context = b.qor.context
    /\ NoWorse(a.qor, b.qor)
    /\ SomeBetter(a.qor, b.qor)

\* What is known of one of the results is known of the other, from one source.
ReportedAlike(a, b, metrics) ==
    /\ "area" \in metrics => AreaSource(a) = AreaSource(b)
    /\ \A m \in metrics : RawMetric(a, m) = Unknown <=> RawMetric(b, m) = Unknown

\* Numbers the tolerance does not blur: equal, or further apart than it.
Apart(x, y) == Unknown \in {x, y} \/ x = y \/ x - y > Eps \/ y - x > Eps
ToldApart(a, b, metrics) == \A m \in metrics : Apart(RawMetric(a, m), RawMetric(b, m))

-----------------------------------------------------------------------------
(* The Pareto front: one pass over the candidates in the order given.      *)
(* Admit is the body of the loop; front holds positions in cands.          *)

\* Mutants of Admit: a position off by one; beaten members stay; the member that
\* dominates the newcomer is not copied to the new front.
AdmitOffByOne(cands, front, i) ==
    IF Eligible(cands[i]) THEN front \cup {i + 1} ELSE front
AdmitKeepsBeaten(cands, front, i) ==
    IF \/ ~Eligible(cands[i])
       \/ \E j \in front : Dominates(cands[j], cands[i]) THEN front ELSE front \cup {i}
AdmitLosesWinner(cands, front, i) ==
    LET kept == {j \in front : /\ ~Dominates(cands[j], cands[i])
                               /\ ~Dominates(cands[i], cands[j])}
    IN  IF ~Eligible(cands[i]) THEN front
        ELSE IF \E j \in front : Dominates(cands[j], cands[i]) THEN kept
        ELSE kept \cup {i}

Admit(cands, front, i) ==
    LET beaten == {j \in front : /\ ~Dominates(cands[j], cands[i])
                                 /\ Dominates(cands[i], cands[j])}
    IN  IF ~Eligible(cands[i]) THEN front
        ELSE IF \E j \in front : Dominates(cands[j], cands[i]) THEN front \ beaten
        ELSE (front \ beaten) \cup {i}

\* One pass over the candidates.
ParetoFront(cands) ==
    LET pass[k \in 0..Len(cands)] ==
            IF k = 0 THEN {} ELSE Admit(cands, pass[k - 1], k)
    IN  pass[Len(cands)]

-----------------------------------------------------------------------------
(* Priority ordering of front members and the final pick.                  *)

BucketOrder == <<"timing", "quality", "area", "power">>

Weight(bucket) ==
    CASE Priorities[bucket] = "high" -> 3 [] Priorities[bucket] = "medium" -> 2
      [] Priorities[bucket] = "low" -> 1 [] OTHER -> 0

\* Buckets that are off are dropped; the others are looked at by descending
\* weight, and in the given order among those of one weight.
Buckets == {b \in Range(BucketOrder) : Weight(b) > 0}
BucketMetrics(b) ==
    CASE b = "timing" -> {"setup_wns", "hold_wns"} [] b = "quality" -> {"constraint_quality"}
      [] b = "area"   -> {"area"}                  [] b = "power"   -> {"power"}
Turn(b) == (CHOOSE i \in DOMAIN BucketOrder : BucketOrder[i] = b) - 4 * Weight(b)

First(buckets) == CHOOSE b \in buckets : \A c \in buckets : Turn(b) <= Turn(c)

\* The verdict of the first bucket that has one.
Lexical(verdicts) ==
    LET decisive == {b \in Buckets : verdicts[b] # 0}
    IN  IF decisive = {} THEN 0
        ELSE verdicts[First(decisive)]

\* 1: the first argument is preferred; -1: the second; 0: a tie or incomparable.
Sign(gain, tol) == IF gain > tol THEN 1 ELSE IF gain < -tol THEN -1 ELSE 0

CmpTiming(a, b) ==
    IF Unknown \in {a.setup_wns, a.hold_wns, b.setup_wns, b.hold_wns} THEN 0
    ELSE LET setup == Sign(a.setup_wns - b.setup_wns, Eps)
         IN  IF setup # 0 THEN setup ELSE Sign(a.hold_wns - b.hold_wns, Eps)

CmpArea(a, b) ==
    IF AreaSource(a) # AreaSource(b) \/ AreaSource(a) = "unknown" THEN 0
    ELSE Sign(AreaValue(b) - AreaValue(a), Eps)

CmpKnown(x, y) == IF x = Unknown \/ y = Unknown THEN 0 ELSE Sign(x - y, Eps)

CmpBucket(bucket, a, b) ==
    CASE bucket = "timing"  -> CmpTiming(a, b)
      [] bucket = "quality" -> CmpKnown(a.constraint_quality, b.constraint_quality)
      [] bucket = "area"    -> CmpArea(a, b)
      [] bucket = "power"   -> CmpKnown(b.power, a.power)

\* compute_margin: the share of the baseline's slack a candidate spends, on the
\* side that spends more; Unknown unless all four slacks are known and the
\* baseline has slack on both sides.  The baseline itself is classified without a
\* baseline and has none.
Shares == [spent : Nat, of : Nat \ {0}]
Smaller(x, y) == x.spent * y.of < y.spent * x.of

Clamp(x) == IF x < 0 THEN 0 ELSE x
Spent(base, wns, required) ==
    LET room == base - required
        used == Clamp(base - wns)
    IN  [spent |-> IF used > room THEN room ELSE used, of |-> room]
Utilization(c, base) ==
    LET q == c.qor
        b == base.qor
    IN  IF \/ c.id = base.id \/ b = NoQoR
           \/ Unknown \in {q.setup_wns, q.hold_wns, b.setup_wns, b.hold_wns}
           \/ b.setup_wns <= RequiredSetup \/ b.hold_wns <= RequiredHold
        THEN Unknown
        ELSE LET s == Spent(b.setup_wns, q.setup_wns, RequiredSetup)
                 h == Spent(b.hold_wns, q.hold_wns, RequiredHold)
             IN  IF Smaller(h, s) THEN s ELSE h

\* The smaller share is preferred, if it is smaller by more than 1/Resolution.
CmpShare(x, y) ==
    IF Unknown \in {x, y} THEN 0
    ELSE LET gap == (y.spent * x.of - x.spent * y.of) * Resolution
         IN  Sign(gap, x.of * y.of)

\* Shares the comparison does not blur.
SharesApart(x, y) == CmpShare(x, y) = 0 /\ Unknown \notin {x, y} => ~Smaller(x, y)

\* margin_headroom_ns of a feasible candidate (both slacks are known).
Headroom(q) ==
    LET s == Clamp(q.setup_wns - RequiredSetup)
        h == Clamp(q.hold_wns - RequiredHold)
    IN  IF s < h THEN s ELSE h

ById(a, b) == Sign(b.id - a.id, 0)

\* Both candidates are eligible: the pool of select_final holds no others.
PriorityCompare(a, c, base) ==
    LET bucket == Lexical([b \in Buckets |-> CmpBucket(b, a.qor, c.qor)])
        margin == CmpShare(Utilization(a, base), Utilization(c, base))
    IN  IF bucket # 0 THEN bucket ELSE IF margin # 0 THEN margin ELSE ById(a, c)

\* The best member so far after position k.  Mutant: min instead of max.
KeepLess(cands, members, held, k) ==
    IF /\ k \in members
       /\ held = 0 \/ PriorityCompare(cands[k], cands[held], cands[1]) < 0
    THEN k ELSE held

\* A later member replaces the best so far only when it compares strictly greater.
Keep(cands, members, held, k) ==
    IF /\ k \in members
       /\ held = 0 \/ PriorityCompare(cands[k], cands[held], cands[1]) > 0
    THEN k ELSE held

\* max(pool, key=cmp_to_key(...))
BestOf(cands, members) ==
    LET best[k \in 0..Len(cands)] ==
            IF k = 0 THEN 0 ELSE Keep(cands, members, best[k - 1], k)
    IN  best[Len(cands)]

\* The front in order, then the baseline (position 1) when it is eligible and
\* not in the front.  None is 0: there is no front, so nothing is selected.
SelectFinal(cands, front) ==
    LET best == BestOf(cands, front) IN
    IF front = {} THEN 0
    ELSE IF /\ 1 \notin front /\ Eligible(cands[1])
            /\ PriorityCompare(cands[1], cands[best], cands[1]) > 0
    THEN 1 ELSE best

-----------------------------------------------------------------------------
(* scalar_score against the baseline, multiplied by the baseline's area    *)
(* and power so that it stays an integer: a positive factor, fixed in a    *)
(* run, which changes neither equality nor order of scores.  A timing unit *)
(* counts as one nanosecond.                                               *)

ScalarScore(c, base) ==
    LET q == c.qor
        b == base.qor
        known == b # NoQoR
        areaOK == known /\ AreaSource(q) = AreaSource(b)
                  /\ AreaSource(q) # "unknown" /\ AreaValue(b) # 0
        powerOK == known /\ q.power # Unknown /\ b.power # Unknown /\ b.power # 0
        pd == IF known /\ b.power # Unknown /\ b.power # 0 THEN b.power ELSE 1
        ad == IF known /\ AreaSource(b) # "unknown" /\ AreaValue(b) # 0
              THEN AreaValue(b) ELSE 1
    IN  Weight("timing") * (q.setup_wns + q.hold_wns) * ad * pd
        + (IF areaOK THEN Weight("area") * (AreaValue(b) - AreaValue(q)) * pd ELSE 0)
        + (IF powerOK THEN Weight("power") * (b.power - q.power) * ad ELSE 0)
=============================================================================
