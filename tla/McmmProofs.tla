----------------------------- MODULE McmmProofs -----------------------------
(***************************************************************************)
(* For any number of workers, candidates and scenarios, whatever the tools *)
(* report, however often they fail or raise and whatever the tolerance:    *)
(* margins are measured against one baseline, a feasible verdict is backed *)
(* by every scenario, and the binding objectives agree with dominance.  No *)
(* member of the front over the scenarios dominates another; where the     *)
(* tolerance blurs no value it holds the undominated candidates, and no    *)
(* candidate is preferred to the final pick (mcmm/evaluate.py,             *)
(* mcmm/aggregate.py).  At the end, the same for one scenario: the loop of *)
(* pareto_front and the pick of select_final (qor/objectives.py).          *)
(***************************************************************************)
EXTENDS McmmEvaluation, ParetoLoop, SelectionProofs, FiniteSetTheorems

-----------------------------------------------------------------------------
(* The first member of a finite set in an order; least and greatest.       *)

Orderly(R, S) ==
    /\ \A x, y \in S : <<x, y>> \in R \/ <<y, x>> \in R
    /\ \A x, y, z \in S : <<x, y>> \in R /\ <<y, z>> \in R => <<x, z>> \in R

FirstOf(R, S, x) == x \in S /\ \A y \in S : <<x, y>> \in R

\* Every non-empty list of members of S has a first one: the shortest list
\* without one would have one when its last entry is left out.
LEMMA ListHasFirst ==
    ASSUME NEW S, NEW R, Orderly(R, S), NEW n \in Nat, n > 0, NEW f \in [1..n -> S]
    PROVE  \E i \in 1..n : \A j \in 1..n : <<f[i], f[j]>> \in R
  <1> DEFINE Without(k) == \E g \in [1..k -> S] :
                              ~\E i \in 1..k : \A j \in 1..k : <<g[i], g[j]>> \in R
             Bad == {k \in Nat : k > 0 /\ Without(k)}
  <1>1. SUFFICES ASSUME Bad # {} PROVE FALSE
    OBVIOUS
  <1>2. PICK k \in Bad : \A m \in Bad : <<m, k>> \notin OpToRel(<, Nat)
    BY <1>1, NatLessThanWellFounded, WFMin, Bad \in SUBSET Nat
  <1>3. \A m \in Bad : ~(m < k)
    BY <1>2 DEF OpToRel
  <1>4. k \in Nat /\ k > 0
    OBVIOUS
  <1>5. PICK g \in [1..k -> S] : ~\E i \in 1..k : \A j \in 1..k : <<g[i], g[j]>> \in R
    OBVIOUS
  <1>6. k > 1
    <2>1. CASE k = 1
      <3>1. g[1] \in S /\ <<g[1], g[1]>> \in R
        BY <1>5, <2>1 DEF Orderly
      <3>2. \A j \in 1..k : <<g[1], g[j]>> \in R
        BY <2>1, <3>1
      <3> QED
        BY <1>5, <2>1, <3>2
    <2> QED
      BY <1>4, <2>1
  <1> HIDE DEF Bad
  <1>7. k - 1 \in Nat /\ k - 1 > 0 /\ k - 1 < k
    BY <1>4, <1>6
  <1>8. ~Without(k - 1)
    BY <1>3, <1>7 DEF Bad
  <1>9. [j \in 1..(k - 1) |-> g[j]] \in [1..(k - 1) -> S]
    BY <1>4, <1>5
  <1>10. PICK i \in 1..(k - 1) : \A j \in 1..(k - 1) : <<g[i], g[j]>> \in R
    BY <1>8, <1>9
  <1> HIDE DEF Without
  <1>j. ASSUME NEW j \in 1..k  PROVE j \in 1..(k - 1) \/ j = k
    BY <1>4, <1>j
  <1>11. i \in 1..k /\ k \in 1..k /\ \A j \in 1..k : g[j] \in S
    BY <1>4, <1>5, <1>6
  <1>12. CASE <<g[i], g[k]>> \in R
    <2>1. \A j \in 1..k : <<g[i], g[j]>> \in R
      BY <1>j, <1>10, <1>12
    <2> QED
      BY <1>5, <1>11, <2>1
  <1>13. CASE <<g[i], g[k]>> \notin R
    <2>0. <<g[k], g[i]>> \in R /\ <<g[k], g[k]>> \in R
      BY <1>11, <1>13 DEF Orderly
    <2>1. ASSUME NEW j \in 1..k  PROVE <<g[k], g[j]>> \in R
      <3>1. CASE j \in 1..(k - 1)
        BY <1>10, <1>11, <2>0, <3>1 DEF Orderly
      <3> QED
        BY <1>j, <2>0, <3>1
    <2> QED
      BY <1>5, <1>11, <2>1
  <1> QED
    BY <1>12, <1>13

\* A finite non-empty set has a first member in any order of its members.
LEMMA FiniteHasFirst ==
    ASSUME NEW S, IsFiniteSet(S), S # {}, NEW R, Orderly(R, S)
    PROVE  \E x \in S : FirstOf(R, S, x)
  <1>1. PICK n \in Nat : ExistsSurjection(1..n, S)
    BY FS_NatSurjection
  <1>2. PICK f \in [1..n -> S] : \A x \in S : \E i \in 1..n : f[i] = x
    BY <1>1 DEF ExistsSurjection, Surjection
  <1>3. n > 0
    <2>1. PICK x \in S : TRUE
      OBVIOUS
    <2>2. PICK i \in 1..n : f[i] = x
      BY <1>2
    <2> QED
      BY <2>2
  <1>4. PICK i \in 1..n : \A j \in 1..n : <<f[i], f[j]>> \in R
    BY <1>3, ListHasFirst
  <1>5. f[i] \in S /\ \A y \in S : <<f[i], y>> \in R
    BY <1>2, <1>4
  <1> QED
    BY <1>5 DEF FirstOf

\* The values of a function on a finite set are finitely many.
LEMMA FiniteValues ==
    ASSUME NEW S, IsFiniteSet(S), NEW f, DOMAIN f = S, f = [x \in S |-> f[x]]
    PROVE  IsFiniteSet({f[x] : x \in S})
  <1>1. f \in Surjection(S, {f[x] : x \in S})
    BY DEF Surjection
  <1> QED
    BY <1>1, FS_Surjection

\* Min of a finite non-empty set of integers is its least member.
LEMMA MinIsLeast ==
    ASSUME NEW S, IsFiniteSet(S), S # {}, S \subseteq Int
    PROVE  Min(S) \in S /\ \A x \in S : Min(S) <= x
  <1> DEFINE R == {p \in Int \X Int : p[1] <= p[2]}
  <1>1. \A x, y \in Int : <<x, y>> \in R <=> x <= y
    OBVIOUS
  <1> HIDE DEF R
  <1>2. Orderly(R, S)
    BY <1>1 DEF Orderly
  <1>3. PICK x \in S : FirstOf(R, S, x)
    BY <1>2, FiniteHasFirst
  <1>4. x \in S /\ \A y \in S : x <= y
    BY <1>1, <1>3 DEF FirstOf
  <1> QED
    BY <1>4 DEF Min

\* Max of one is its greatest member.
LEMMA MaxIsGreatest ==
    ASSUME NEW S, IsFiniteSet(S), S # {}, S \subseteq Int
    PROVE  Max(S) \in S /\ \A x \in S : x <= Max(S)
  <1> DEFINE R == {p \in Int \X Int : p[1] >= p[2]}
  <1>1. \A x, y \in Int : <<x, y>> \in R <=> x >= y
    OBVIOUS
  <1> HIDE DEF R
  <1>2. Orderly(R, S)
    BY <1>1 DEF Orderly
  <1>3. PICK x \in S : FirstOf(R, S, x)
    BY <1>2, FiniteHasFirst
  <1>4. x \in S /\ \A y \in S : x >= y
    BY <1>1, <1>3 DEF FirstOf
  <1>5. Max(S) \in S /\ \A y \in S : Max(S) >= y
    BY <1>4 DEF Max
  <1> QED
    BY <1>5

\* The share CHOOSE finds is known, and none of the others is greater.
LEMMA GreatestShare ==
    ASSUME NEW S, IsFiniteSet(S), S # {}, S \subseteq Shares
    PROVE  LET x == CHOOSE x \in S : \A y \in S : ~Smaller(x, y)
           IN  x \in S /\ \A y \in S : ~Smaller(x, y)
  <1> DEFINE R == {p \in Shares \X Shares : ~Smaller(p[1], p[2])}
  <1>1. \A x, y \in Shares : <<x, y>> \in R <=> ~Smaller(x, y)
    OBVIOUS
  <1> HIDE DEF R
  <1>2. Orderly(R, S)
    <2>1. ASSUME NEW x \in S, NEW y \in S  PROVE ~Smaller(x, y) \/ ~Smaller(y, x)
      <3>1. x.spent * y.of \in Int /\ y.spent * x.of \in Int
        BY DEF Shares
      <3> QED
        BY <3>1 DEF Smaller
    <2>2. \A x, y, z \in S : ~Smaller(x, y) /\ ~Smaller(y, z) => ~Smaller(x, z)
      BY SmallerTransitive
    <2> QED
      BY <1>1, <2>1, <2>2 DEF Orderly
  <1>3. PICK x \in S : FirstOf(R, S, x)
    BY <1>2, FiniteHasFirst
  <1>4. x \in S /\ \A y \in S : ~Smaller(x, y)
    BY <1>1, <1>3 DEF FirstOf
  <1> QED
    BY <1>4

-----------------------------------------------------------------------------
(* One verdict over all scenarios.                                         *)

Verdicts == {"invalid", "blocked", "infeasible", "feasible"}

\* The worst verdict is "feasible" only when no other was found.
LEMMA WorstFeasible ==
    ASSUME NEW found \in SUBSET Verdicts, found # {}, Worst(found) = "feasible"
    PROVE  found = {"feasible"}
  <1> DEFINE at == {i \in DOMAIN WorstFirst : WorstFirst[i] \in found}
  <1>1. DOMAIN WorstFirst = 1..4
    BY DEF WorstFirst
  <1>2. /\ WorstFirst[1] = "invalid" /\ WorstFirst[2] = "blocked"
        /\ WorstFirst[3] = "infeasible" /\ WorstFirst[4] = "feasible"
    BY DEF WorstFirst
  <1>3. at # {} /\ at \subseteq 1..4
    <2>1. PICK v \in found : v \in Verdicts
      OBVIOUS
    <2>2. \E i \in 1..4 : WorstFirst[i] = v
      BY <1>2, <2>1 DEF Verdicts
    <2> QED
      BY <1>1, <2>2
  <1> HIDE DEF at
  <1>4. IsFiniteSet(at) /\ at \subseteq Int
    <2>0. 1 \in Int /\ 4 \in Int
      OBVIOUS
    <2>1. IsFiniteSet(1..4)
      BY <2>0, FS_Interval, Zenon
    <2>2. at \in SUBSET (1..4)
      BY <1>3
    <2>3. IsFiniteSet(at)
      BY <2>1, <2>2, FS_Subset
    <2> QED
      BY <1>3, <2>3
  <1>5. Min(at) \in at /\ \A i \in at : Min(at) <= i
    BY <1>3, <1>4, MinIsLeast
  <1>6. WorstFirst[Min(at)] = "feasible"
    BY DEF Worst, at
  <1>7. Min(at) = 4
    <2>1. Min(at) \in 1..4
      BY <1>3, <1>5
    <2>2. Min(at) = 1 \/ Min(at) = 2 \/ Min(at) = 3 \/ Min(at) = 4
      BY <2>1
    <2> QED
      BY <1>2, <1>6, <2>2
  <1>8. 1 \notin at /\ 2 \notin at /\ 3 \notin at
    BY <1>5, <1>7
  <1>9. \A v \in found : v = "feasible"
    BY <1>1, <1>2, <1>8 DEF at, Verdicts
  <1> QED
    BY <1>9

\* What a feasible scenario has.
LEMMA ScenarioFeasible ==
    ASSUME NEW q \in QoR \cup {NoQoR}
    PROVE  /\ ScenarioStatus(q) \in Verdicts
           /\ Bare!Classify(q) = "feasible" =>
                /\ q \in QoR /\ q # NoQoR /\ TimingMet(q)
                /\ q.validation_errors = 0 /\ q.unsafe_exceptions = 0
           /\ ScenarioStatus(q) = "feasible" => Bare!Classify(q) = "feasible"
  <1>1. Bare!Classify(q) \in {"blocked", "infeasible", "feasible"}
    BY DEF Bare!Classify
  <1>2. ScenarioStatus(q) \in Verdicts
    BY <1>1 DEF ScenarioStatus, Verdicts
  <1>3. ScenarioStatus(q) = "feasible" => Bare!Classify(q) = "feasible"
    BY DEF ScenarioStatus
  <1>4. ASSUME Bare!Classify(q) = "feasible"
        PROVE  /\ q # NoQoR
               /\ q.setup_wns # Unknown /\ ~(q.setup_wns < 0 - Eps)
               /\ q.hold_wns # Unknown /\ ~(q.hold_wns < 0 - Eps)
               /\ ~(q.validation_errors > 0) /\ ~(q.unsafe_exceptions > 0)
    BY <1>4 DEF Bare!Classify
  <1>5. ASSUME Bare!Classify(q) = "feasible"
        PROVE  /\ q \in QoR /\ q # NoQoR /\ TimingMet(q)
               /\ q.validation_errors = 0 /\ q.unsafe_exceptions = 0
    <2>1. q \in QoR /\ q # NoQoR
      BY <1>4, <1>5
    <2>2. /\ q.setup_wns \in Int /\ q.hold_wns \in Int
          /\ q.validation_errors \in Nat /\ q.unsafe_exceptions \in Nat
      BY <1>4, <1>5, <2>1 DEF QoR, Measured
    <2>3. Eps \in Nat
      BY SelectionAssumption
    <2>4. q.setup_wns >= -Eps /\ q.hold_wns >= -Eps
      BY <1>4, <1>5, <2>2, <2>3
    <2>5. q.validation_errors = 0 /\ q.unsafe_exceptions = 0
      BY <1>4, <1>5, <2>2
    <2>6. TimingMet(q)
      BY <1>4, <1>5, <2>4 DEF TimingMet
    <2> QED
      BY <2>1, <2>5, <2>6
  <1> QED
    BY <1>2, <1>3, <1>5

\* A result that is globally feasible is feasible in every active scenario.
LEMMA FeasibleResult ==
    ASSUME NEW results, NEW active, GlobalStatus(results, active) = "feasible",
           \A sid \in DOMAIN results : results[sid] \in QoR \cup {NoQoR}
    PROVE  /\ active # {}
           /\ \A sid \in active : ScenarioStatus(ResultOf(results, sid)) = "feasible"
  <1> DEFINE found == {ScenarioStatus(ResultOf(results, sid)) : sid \in active}
  <1>1. active # {}
    BY DEF GlobalStatus
  <1>2. \A sid \in active : ResultOf(results, sid) \in QoR \cup {NoQoR}
    BY DEF ResultOf
  <1>3. found \in SUBSET Verdicts /\ found # {}
    BY <1>1, <1>2, ScenarioFeasible
  <1>4. Worst(found) = "feasible"
    BY <1>1 DEF GlobalStatus
  <1>5. found = {"feasible"}
    BY <1>3, <1>4, WorstFeasible
  <1> QED
    BY <1>1, <1>5

-----------------------------------------------------------------------------
(* Dominance and the binding objectives.                                   *)

\* In one scenario: not worse means not behind by more than the tolerance.
LEMMA NotWorseGains ==
    ASSUME NEW a \in QoR, NEW b \in QoR, NEW m \in Metrics, NoWorse(a, b),
           RawMetric(a, m) # Unknown, RawMetric(b, m) # Unknown
    PROVE  Gain(m, RawMetric(a, m), RawMetric(b, m)) >= -Eps
  <1> DEFINE x == RawMetric(a, m)
             y == RawMetric(b, m)
  <1>1. x \in Int /\ y \in Int
    BY MetricMeasured DEF Measured
  <1>2. Eps \in Nat
    BY SelectionAssumption
  <1>3. Gain(m, x, y) \in Int
    BY <1>1 DEF Gain
  <1>4. CmpMetric(m, a, b) \in {"better", "equal"}
    BY DEF NoWorse
  <1>5. ~(Gain(m, x, y) < -Eps) \/ Gain(m, x, y) > Eps
    BY <1>4 DEF CmpMetric
  <1> HIDE DEF x, y
  <1>6. Gain(m, x, y) >= -Eps
    BY <1>2, <1>3, <1>5
  <1> QED
    BY <1>6 DEF x, y

\* The sign of a gain that is not below the tolerance.
LEMMA SignNotNegative ==
    ASSUME NEW g \in Int, NEW tol \in Nat, g >= -tol
    PROVE  Sign(g, tol) \in {0, 1}
  BY DEF Sign

\* Over all scenarios: the binding value of the one that is nowhere worse is
\* not behind, although the two may be bound by different scenarios.
LEMMA ObjectiveFollows ==
    ASSUME NEW ra, NEW rb, NEW active, IsFiniteSet(active), NEW m \in Metrics,
           \A sid \in active : ResultOf(ra, sid) \in QoR /\ ResultOf(rb, sid) \in QoR,
           \A sid \in active : NoWorse(ResultOf(ra, sid), ResultOf(rb, sid)),
           Objective(ra, active, m) # Unknown, Objective(rb, active, m) # Unknown
    PROVE  Sign(Gain(m, Objective(ra, active, m), Objective(rb, active, m)), Eps)
              \in {0, 1}
  <1> DEFINE A(sid) == RawMetric(ResultOf(ra, sid), m)
             B(sid) == RawMetric(ResultOf(rb, sid), m)
             as == {A(sid) : sid \in active}
             bs == {B(sid) : sid \in active}
             x == Objective(ra, active, m)
             y == Objective(rb, active, m)
  <1>0. NoQoR \notin QoR
    BY PlaysAssumption
  <1>1. \A sid \in active : ScenarioMetric(ra, sid, m) = A(sid)
                            /\ ScenarioMetric(rb, sid, m) = B(sid)
    BY <1>0 DEF ScenarioMetric
  <1>2. {ScenarioMetric(ra, sid, m) : sid \in active} = as
        /\ {ScenarioMetric(rb, sid, m) : sid \in active} = bs
    BY <1>1
  <1>3. /\ as # {} /\ Unknown \notin as /\ x = Binding(m, as)
        /\ bs # {} /\ Unknown \notin bs /\ y = Binding(m, bs)
    BY <1>2 DEF Objective
  <1>4. \A sid \in active : A(sid) \in Int /\ B(sid) \in Int
    BY <1>3, MetricMeasured DEF Measured
  <1>5. IsFiniteSet(as) /\ IsFiniteSet(bs)
    <2> DEFINE f == [sid \in active |-> A(sid)]
               g == [sid \in active |-> B(sid)]
    <2>1. IsFiniteSet({f[sid] : sid \in active}) /\ IsFiniteSet({g[sid] : sid \in active})
      BY FiniteValues
    <2> QED
      BY <2>1
  <1>6. as \subseteq Int /\ bs \subseteq Int
    BY <1>4
  <1>7. \A sid \in active : Gain(m, A(sid), B(sid)) >= -Eps
    <2> SUFFICES ASSUME NEW sid \in active
                 PROVE  Gain(m, A(sid), B(sid)) >= -Eps
      OBVIOUS
    <2>1. A(sid) # Unknown /\ B(sid) # Unknown
      BY <1>3
    <2> QED
      BY <2>1, NotWorseGains
  <1>8. Eps \in Nat
    BY SelectionAssumption
  <1> HIDE DEF A, B, as, bs, x, y
  <1>9. Gain(m, x, y) \in Int /\ Gain(m, x, y) >= -Eps
    <2>1. CASE m \in Minimized
      <3>1. /\ x = Max(as) /\ y = Max(bs)
            /\ \A sid \in active : B(sid) - A(sid) >= -Eps
        BY <1>3, <1>7, <2>1 DEF Binding, Gain
      <3>2. /\ x \in as /\ \A u \in as : u <= x
            /\ y \in bs /\ \A u \in bs : u <= y
        BY <1>3, <1>5, <1>6, <3>1, MaxIsGreatest
      <3>3. PICK sid \in active : x = A(sid)
        BY <3>2 DEF as
      <3>4. B(sid) <= y /\ B(sid) - A(sid) >= -Eps
        BY <3>1, <3>2 DEF bs
      <3>5. x \in Int /\ y \in Int /\ A(sid) \in Int /\ B(sid) \in Int
        BY <1>4, <1>6, <3>2
      <3>6. y - x \in Int /\ y - x >= -Eps
        BY <1>8, <3>3, <3>4, <3>5
      <3> QED
        BY <2>1, <3>6 DEF Gain
    <2>2. CASE m \notin Minimized
      <3>1. /\ x = Min(as) /\ y = Min(bs)
            /\ \A sid \in active : A(sid) - B(sid) >= -Eps
        BY <1>3, <1>7, <2>2 DEF Binding, Gain
      <3>2. /\ x \in as /\ \A u \in as : x <= u
            /\ y \in bs /\ \A u \in bs : y <= u
        BY <1>3, <1>5, <1>6, <3>1, MinIsLeast
      <3>3. PICK sid \in active : x = A(sid)
        BY <3>2 DEF as
      <3>4. y <= B(sid) /\ A(sid) - B(sid) >= -Eps
        BY <3>1, <3>2 DEF bs
      <3>5. x \in Int /\ y \in Int /\ A(sid) \in Int /\ B(sid) \in Int
        BY <1>4, <1>6, <3>2
      <3>6. x - y \in Int /\ x - y >= -Eps
        BY <1>8, <3>3, <3>4, <3>5
      <3> QED
        BY <2>2, <3>6 DEF Gain
    <2> QED
      BY <2>1, <2>2
  <1>10. Sign(Gain(m, x, y), Eps) \in {0, 1}
    BY <1>8, <1>9, SignNotNegative
  <1> QED
    BY <1>10 DEF x, y

\* Each bucket the selection may look at.
LEMMA BucketsFollow ==
    ASSUME NEW r, NEW s, NEW active, IsFiniteSet(active),
           \A sid \in active : ResultOf(r.results, sid) \in QoR
                               /\ ResultOf(s.results, sid) \in QoR,
           \A sid \in active : NoWorse(ResultOf(r.results, sid), ResultOf(s.results, sid)),
           NEW bucket \in Range(BucketOrder)
    PROVE  CmpGlobal(bucket, r, s, active) >= 0
  <1>1. ASSUME NEW m \in Metrics  PROVE CmpObjective(r, s, active, m) \in {0, 1}
    BY ObjectiveFollows DEF CmpObjective
  <1>2. \A m \in {"setup_wns", "hold_wns", "constraint_quality", "area", "power"} :
            CmpObjective(r, s, active, m) \in {0, 1}
    BY <1>1 DEF Metrics, TimingMetrics
  <1>3. CmpGlobalTiming(r, s, active) \in {0, 1}
    BY <1>2 DEF CmpGlobalTiming
  <1>4. CmpGlobalArea(r, s, active) \in {0, 1}
    BY <1>2 DEF CmpGlobalArea
  <1>5. bucket \in {"timing", "quality", "area", "power"}
    <2>1. DOMAIN BucketOrder = 1..4
      BY DEF BucketOrder
    <2>2. PICK k \in 1..4 : bucket = BucketOrder[k]
      BY <2>1 DEF Range
    <2>3. k = 1 \/ k = 2 \/ k = 3 \/ k = 4
      OBVIOUS
    <2> QED
      BY <2>2, <2>3 DEF BucketOrder
  <1>6. CmpGlobal(bucket, r, s, active) \in {0, 1}
    BY <1>2, <1>3, <1>4, <1>5 DEF CmpGlobal
  <1> QED
    BY <1>6

-----------------------------------------------------------------------------
(* The evaluator's state.                                                  *)

\* Results that were reported: the measurement of that candidate, or nothing.
Reported(c, results) ==
    \A sid \in DOMAIN results :
        \/ results[sid] = NoQoR
        \/ results[sid] = play.measured[c][sid] /\ results[sid] \in QoR

Calling(w) == work[w].at # "idle"

CallTyped(w) ==
    /\ work[w] = [candidate |-> work[w].candidate, at |-> work[w].at, made |-> work[w].made,
                  results |-> work[w].results, map |-> work[w].map]
    /\ work[w].candidate \in Candidates
    /\ work[w].at \in {"candidate", "baseline", "assign", "margin"}
    /\ Reported(work[w].candidate, work[w].results)

OutcomeTyped(c) ==
    /\ outcome[c].status \in {"waiting", "failed", "evaluated"}
    /\ Returned(c) => outcome[c].id = c /\ Reported(c, outcome[c].results)

EvaluatorTyped ==
    /\ play \in Plays
    /\ DOMAIN work = Workers /\ DOMAIN outcome = Candidates
    /\ \A w \in Workers : Calling(w) => CallTyped(w)
    /\ \A c \in Candidates : OutcomeTyped(c)

\* While the baseline is evaluated it is evaluated alone, and what fills the
\* shared map is what it measures.
BaselineAlone ==
    outcome[0].status = "waiting" =>
        /\ \A c \in Candidates : outcome[c].status = "waiting"
        /\ \A v, w \in Workers : Calling(v) /\ Calling(w) => v = w /\ work[w].candidate = 0
        /\ baselineBy.filled <=> \E w \in Workers : work[w].at = "margin"
        /\ \A w \in Workers :
              /\ work[w].at # "baseline"
              /\ work[w].at = "assign" => work[w].map = MeasuredSlacks(work[w].results)
              /\ work[w].at = "margin" => baselineBy.map = MeasuredSlacks(work[w].results)

\* Once it has returned nobody fills the map again.
BaselineFixed ==
    /\ outcome[0].status # "waiting" =>
          \A w \in Workers : Calling(w) => work[w].candidate # 0
    /\ Returned(0) =>
          /\ baselineBy.filled /\ baselineBy.map = MeasuredSlacks(outcome[0].results)
          /\ \A w \in Workers : work[w].at \notin {"baseline", "assign"}
          /\ \A c \in Candidates : Returned(c) => outcome[c].baseline = baselineBy.map

EvaluatorInv == EvaluatorTyped /\ BaselineAlone /\ BaselineFixed

\* What each step does to the worker that takes it; the others stay.
Others(w) == DOMAIN work' = Workers /\ \A v \in Workers \ {w} : work'[v] = work[v]

\* A call that starts.
LEMMA StartShape ==
    ASSUME EvaluatorTyped, NEW w \in Workers, NEW c \in Candidates, Start(w, c)
    PROVE  /\ Others(w) /\ ~Calling(w) /\ MayStart(c) /\ UNCHANGED <<play, baselineBy, outcome>>
           /\ work'[w].candidate = c /\ work'[w].at = "candidate"
           /\ CallTyped(w)'
  <1>1. /\ work' = [work EXCEPT ![w] = Call(c)]
        /\ work[w].at = "idle" /\ MayStart(c) /\ UNCHANGED <<play, baselineBy, outcome>>
    BY DEF Start
  <1>2. Others(w) /\ work'[w] = Call(c)
    BY <1>1 DEF EvaluatorTyped, Others
  <1>3. /\ work'[w].candidate = c /\ work'[w].at = "candidate"
        /\ work'[w].results = [sid \in {} |-> NoQoR]
        /\ work'[w] = [candidate |-> work'[w].candidate, at |-> work'[w].at,
                       made |-> work'[w].made, results |-> work'[w].results,
                       map |-> work'[w].map]
    BY <1>2 DEF Call
  <1>4. Candidates' = Candidates
    BY <1>1 DEF Candidates
  <1>5. CallTyped(w)'
    BY <1>3, <1>4 DEF CallTyped, Reported
  <1> QED
    BY <1>1, <1>2, <1>3, <1>5 DEF Calling

\* Evidence that is added is what the tools reported.
LEMMA WithReported ==
    ASSUME NEW c, NEW results, Reported(c, results), NEW sid, NEW qor \in QoR \cup {NoQoR},
           qor = play.measured[c][sid] \/ qor = NoQoR
    PROVE  Reported(c, With(results, sid, qor))
  <1> DEFINE r == With(results, sid, qor)
  <1>1. DOMAIN r = DOMAIN results \cup {sid}
        /\ \A s \in DOMAIN r : r[s] = IF s = sid THEN qor ELSE results[s]
    BY DEF With
  <1> HIDE DEF r
  <1>2. Reported(c, r)
    BY <1>1 DEF Reported
  <1> QED
    BY <1>2 DEF r

\* What the step offers as a QoR is one.
LEMMA OfferedQoR ==
    ASSUME EvaluatorTyped, NEW qor \in {NoQoR} \cup UNION {Range(play.measured[c]) : c \in Candidates}
    PROVE  qor \in QoR \cup {NoQoR}
  <1>1. CASE qor # NoQoR
    <2>1. PICK c \in Candidates : qor \in Range(play.measured[c])
      BY <1>1
    <2>2. PICK sid \in DOMAIN play.measured[c] : qor = play.measured[c][sid]
      BY <2>1 DEF Range
    <2> QED
      BY <2>2, PlaysAssumption DEF EvaluatorTyped, Candidates
  <1> QED
    BY <1>1

\* One more scenario of the candidate.
LEMMA RunScenarioShape ==
    ASSUME EvaluatorTyped, NEW w \in Workers, NEW qor \in QoR \cup {NoQoR}, RunScenario(w, qor)
    PROVE  /\ Others(w) /\ Calling(w) /\ UNCHANGED <<play, baselineBy, outcome>>
           /\ work[w].at = "candidate" /\ work'[w].at = "candidate"
           /\ work'[w].candidate = work[w].candidate
           /\ CallTyped(w)'
  <1> DEFINE sid == Order[work[w].made + 1]
             r == With(work[w].results, sid, qor)
             n == work[w].made + 1
  <1>1. /\ work' = [work EXCEPT ![w].made = n, ![w].results = r]
        /\ work[w].at = "candidate" /\ UNCHANGED <<play, baselineBy, outcome>>
        /\ qor = play.measured[work[w].candidate][sid] \/ qor = NoQoR
    <2>1. work' = [work EXCEPT ![w].made = @ + 1, ![w].results = With(@, sid, qor)]
      BY DEF RunScenario
    <2>2. work' = [work EXCEPT ![w].made = n, ![w].results = r]
      BY <2>1 DEF EvaluatorTyped
    <2> QED
      BY <2>2 DEF RunScenario, RunOutcome, At
  <1>2. CallTyped(w)
    BY <1>1 DEF EvaluatorTyped, Calling
  <1>3. Reported(work[w].candidate, r)
    BY <1>1, <1>2, WithReported DEF CallTyped
  <1> HIDE DEF r, n
  <1>4. /\ Others(w)
        /\ work'[w] = [work[w] EXCEPT !.made = n, !.results = r]
    BY <1>1 DEF EvaluatorTyped, Others
  <1>5. work'[w] = [candidate |-> work[w].candidate, at |-> work[w].at, made |-> n,
                    results |-> r, map |-> work[w].map]
    BY <1>2, <1>4 DEF CallTyped
  <1>6. CallTyped(w)'
    <2>1. /\ work'[w].candidate = work[w].candidate /\ work'[w].at = "candidate"
          /\ work'[w].results = r /\ work'[w].made = n /\ work'[w].map = work[w].map
      BY <1>1, <1>5
    <2>3. Candidates' = Candidates
      BY <1>1 DEF Candidates
    <2>4. Reported(work[w].candidate, work[w].results)'
      BY <1>1, <1>3, <2>1 DEF Reported
    <2>5. work'[w] = [candidate |-> work'[w].candidate, at |-> work'[w].at,
                      made |-> work'[w].made, results |-> work'[w].results,
                      map |-> work'[w].map]
      BY <1>1, <1>5, <2>1
    <2> QED
      BY <1>2, <2>1, <2>3, <2>4, <2>5 DEF CallTyped
  <1> QED
    BY <1>1, <1>4, <1>5, <1>6 DEF Calling

\* One more scenario of the baseline, for a call that is another's.
LEMMA RunBaselineShape ==
    ASSUME EvaluatorTyped, NEW w \in Workers, NEW qor, RunBaseline(w, qor)
    PROVE  /\ Others(w) /\ UNCHANGED <<play, baselineBy, outcome>>
           /\ work[w].at = "baseline" /\ work'[w].at \in {"baseline", "assign"}
           /\ work'[w].candidate = work[w].candidate
           /\ CallTyped(w)'
  <1> DEFINE sid == Order[work[w].made + 1]
             n == work[w].made + 1
             m == IF qor = NoQoR THEN work[w].map ELSE With(work[w].map, sid, Slacks(qor))
             place == IF n = Len(Order) THEN "assign" ELSE "baseline"
  <1>1. /\ work' = [work EXCEPT ![w].made = n, ![w].map = m, ![w].at = place]
        /\ place \in {"baseline", "assign"}
    <2>1. work[w].at = "baseline"
      BY DEF RunBaseline, At
    <2>2. work' = [work EXCEPT ![w].made = n, ![w].map = m, ![w].at = place]
      BY <2>1 DEF RunBaseline, EvaluatorTyped
    <2> QED
      BY <2>2
  <1> HIDE DEF sid, n, m, place
  <1>2. work[w].at = "baseline" /\ UNCHANGED <<play, baselineBy, outcome>>
    BY DEF RunBaseline, At
  <1>3. CallTyped(w)
    BY <1>2 DEF EvaluatorTyped, Calling
  <1>4. /\ Others(w)
        /\ work'[w] = [work[w] EXCEPT !.made = n, !.map = m, !.at = place]
    BY <1>1 DEF EvaluatorTyped, Others
  <1>5. work'[w] = [candidate |-> work[w].candidate, at |-> place, made |-> n,
                    results |-> work[w].results, map |-> m]
    BY <1>3, <1>4 DEF CallTyped
  <1>6. CallTyped(w)'
    <2>1. /\ work'[w].candidate = work[w].candidate /\ work'[w].at = place
          /\ work'[w].results = work[w].results /\ work'[w].made = n /\ work'[w].map = m
      BY <1>5
    <2>2. Candidates' = Candidates
      BY <1>2 DEF Candidates
    <2>3. Reported(work[w].candidate, work[w].results)'
      BY <1>2, <1>3, <2>1 DEF CallTyped, Reported
    <2>4. work'[w] = [candidate |-> work'[w].candidate, at |-> work'[w].at,
                      made |-> work'[w].made, results |-> work'[w].results,
                      map |-> work'[w].map]
      BY <1>5, <2>1
    <2> QED
      BY <1>1, <1>3, <2>1, <2>2, <2>3, <2>4 DEF CallTyped
  <1> QED
    BY <1>1, <1>2, <1>4, <1>5, <1>6

\* All scenarios run: the map is there, or the call has to make one.
LEMMA LookForBaselineShape ==
    ASSUME EvaluatorTyped, NEW w \in Workers, LookForBaseline(w)
    PROVE  /\ Others(w) /\ UNCHANGED <<play, baselineBy, outcome>>
           /\ work[w].at = "candidate" /\ Calling(w) /\ CallTyped(w)'
           /\ work'[w].candidate = work[w].candidate /\ work'[w].results = work[w].results
           /\ baselineBy.filled => work'[w].at = "margin"
           /\ ~baselineBy.filled /\ work[w].candidate = 0 =>
                 work'[w].at = "assign" /\ work'[w].map = MeasuredSlacks(work[w].results)
  <1>0. work[w].at = "candidate" /\ UNCHANGED <<play, baselineBy, outcome>>
    BY DEF LookForBaseline, At
  <1>1. CallTyped(w) /\ Calling(w)
    BY <1>0 DEF EvaluatorTyped, Calling
  <1> DEFINE place == IF baselineBy.filled THEN "margin"
                      ELSE IF IsBaseline(work[w].candidate) THEN "assign" ELSE "baseline"
             m == IF place = "assign" THEN MeasuredSlacks(work[w].results) ELSE work[w].map
             n == IF place = "baseline" THEN 0 ELSE work[w].made
  <1>2. /\ work' = [work EXCEPT ![w] = work'[w]]
        /\ work'[w] = [candidate |-> work[w].candidate, at |-> place, made |-> n,
                       results |-> work[w].results, map |-> m]
    <2>1. CASE place = "margin"
      <3>1. work' = [work EXCEPT ![w] = [work[w] EXCEPT !.at = "margin"]] /\ baselineBy.filled
        BY <2>1 DEF LookForBaseline
      <3> QED
        BY <1>1, <2>1, <3>1 DEF CallTyped, EvaluatorTyped
    <2>2. CASE place = "assign"
      <3> DEFINE slacks == MeasuredSlacks(work[w].results)
      <3>1. work' = [work EXCEPT ![w] = [work[w] EXCEPT !.at = "assign", !.map = slacks]]
        BY <2>2 DEF LookForBaseline
      <3>2. m = slacks /\ n = work[w].made
        BY <2>2
      <3> HIDE DEF slacks, m, n, place
      <3>3. work'[w] = [work[w] EXCEPT !.at = "assign", !.map = slacks]
        BY <3>1 DEF EvaluatorTyped
      <3>4. work'[w] = [candidate |-> work[w].candidate, at |-> place, made |-> n,
                        results |-> work[w].results, map |-> m]
        <4>1. work[w] = [candidate |-> work[w].candidate, at |-> work[w].at,
                         made |-> work[w].made, results |-> work[w].results,
                         map |-> work[w].map]
          BY <1>1 DEF CallTyped
        <4> QED
          BY <2>2, <3>2, <3>3, <4>1
      <3>5. work' = [work EXCEPT ![w] = work'[w]]
        BY <3>1, <3>3, Zenon
      <3> QED
        BY <3>4, <3>5
    <2>3. CASE place = "baseline"
      <3>1. work' = [work EXCEPT ![w] = [work[w] EXCEPT !.at = "baseline", !.made = 0]]
        BY <2>3 DEF LookForBaseline
      <3>2. m = work[w].map /\ n = 0
        BY <2>3
      <3> HIDE DEF m, n, place
      <3>3. work'[w] = [work[w] EXCEPT !.at = "baseline", !.made = 0]
        BY <3>1 DEF EvaluatorTyped
      <3>4. work'[w] = [candidate |-> work[w].candidate, at |-> place, made |-> n,
                        results |-> work[w].results, map |-> m]
        <4>1. work[w] = [candidate |-> work[w].candidate, at |-> work[w].at,
                         made |-> work[w].made, results |-> work[w].results,
                         map |-> work[w].map]
          BY <1>1 DEF CallTyped
        <4> QED
          BY <2>3, <3>2, <3>3, <4>1
      <3>5. work' = [work EXCEPT ![w] = work'[w]]
        BY <3>1, <3>3, Zenon
      <3> QED
        BY <3>4, <3>5
    <2> QED
      BY <2>1, <2>2, <2>3
  <1>5. /\ place \in {"margin", "assign", "baseline"}
        /\ baselineBy.filled => place = "margin"
        /\ ~baselineBy.filled /\ work[w].candidate = 0 =>
              place = "assign" /\ m = MeasuredSlacks(work[w].results)
    BY DEF IsBaseline
  <1> HIDE DEF place, m, n
  <1>3. /\ Others(w)
        /\ work'[w] = [candidate |-> work[w].candidate, at |-> place, made |-> n,
                       results |-> work[w].results, map |-> m]
    BY <1>2 DEF EvaluatorTyped, Others
  <1>4. CallTyped(w)'
    BY <1>0, <1>1, <1>3, <1>5 DEF CallTyped, Candidates, Reported
  <1> QED
    BY <1>0, <1>1, <1>3, <1>4, <1>5

\* The shared map is filled.
LEMMA AssignBaselineShape ==
    ASSUME EvaluatorTyped, NEW w \in Workers, AssignBaseline(w)
    PROVE  /\ Others(w) /\ UNCHANGED <<play, outcome>>
           /\ work[w].at = "assign" /\ work'[w].at = "margin" /\ CallTyped(w)'
           /\ work'[w].candidate = work[w].candidate /\ work'[w].results = work[w].results
           /\ baselineBy'.filled /\ baselineBy'.map = work[w].map
  <1>1. /\ work[w].at = "assign" /\ UNCHANGED <<play, outcome>>
        /\ work' = [work EXCEPT ![w].at = "margin"]
        /\ baselineBy'.filled /\ baselineBy'.map = work[w].map
    BY DEF AssignBaseline, At
  <1>2. CallTyped(w)
    BY <1>1 DEF EvaluatorTyped, Calling
  <1>3. Others(w) /\ work'[w] = [work[w] EXCEPT !.at = "margin"]
    BY <1>1 DEF EvaluatorTyped, Others
  <1>4. work'[w] = [candidate |-> work[w].candidate, at |-> "margin", made |-> work[w].made,
                    results |-> work[w].results, map |-> work[w].map]
    BY <1>2, <1>3 DEF CallTyped
  <1>5. CallTyped(w)'
    BY <1>1, <1>2, <1>4 DEF CallTyped, Candidates, Reported
  <1> QED
    BY <1>1, <1>3, <1>4, <1>5

\* A call that ends: with a result, or by raising.
LEMMA EndShape ==
    ASSUME EvaluatorTyped, NEW w \in Workers, Finish(w) \/ Raise(w)
    PROVE  /\ Others(w) /\ UNCHANGED <<play, baselineBy>>
           /\ Calling(w) /\ work'[w].at = "idle"
           /\ DOMAIN outcome' = Candidates
           /\ \A c \in Candidates \ {work[w].candidate} : outcome'[c] = outcome[c]
           /\ LET c == work[w].candidate IN
              \/ outcome'[c].status = "failed"
              \/ /\ work[w].at = "margin" /\ outcome'[c].status = "evaluated"
                 /\ outcome'[c].id = c /\ outcome'[c].results = work[w].results
                 /\ outcome'[c].baseline = baselineBy.map
  <1>1. Calling(w) /\ work' = [work EXCEPT ![w] = Idle] /\ UNCHANGED <<play, baselineBy>>
    BY DEF Finish, Raise, At, Calling
  <1>2. work[w].candidate \in Candidates
    BY <1>1 DEF EvaluatorTyped, CallTyped
  <1>3. Others(w) /\ work'[w] = Idle
    BY <1>1 DEF EvaluatorTyped, Others
  <1>4. CASE Raise(w)
    BY <1>1, <1>2, <1>3, <1>4 DEF Raise, EvaluatorTyped, Failed, Idle
  <1>5. CASE Finish(w)
    BY <1>1, <1>2, <1>3, <1>5 DEF Finish, At, EvaluatorTyped, Idle
  <1> QED
    BY <1>4, <1>5

-----------------------------------------------------------------------------
(* The invariant, one action at a time.                                    *)

\* There is a baseline.
LEMMA BaselineIsCandidate == EvaluatorTyped => 0 \in Candidates
  BY PlaysAssumption DEF EvaluatorTyped, Candidates

\* A step inside one call leaves what the others hold.
LEMMA TypedWithin ==
    ASSUME EvaluatorTyped, NEW w \in Workers, Others(w), UNCHANGED <<play, outcome>>,
           CallTyped(w)'
    PROVE  EvaluatorTyped'
  <1>1. ASSUME NEW v \in Workers, Calling(v)'  PROVE CallTyped(v)'
    <2>1. CASE v = w
      BY <2>1
    <2>2. CASE v # w
      <3>1. work'[v] = work[v]
        BY <2>2 DEF Others
      <3>2. CallTyped(v)
        BY <1>1, <3>1 DEF Calling, EvaluatorTyped
      <3> QED
        BY <3>1, <3>2 DEF CallTyped, Candidates, Reported
    <2> QED
      BY <2>1, <2>2
  <1>2. ASSUME NEW c \in Candidates  PROVE OutcomeTyped(c)'
    BY DEF EvaluatorTyped, OutcomeTyped, Returned, Reported
  <1>3. Candidates' = Candidates
    BY DEF Candidates
  <1> QED
    BY <1>1, <1>2, <1>3 DEF EvaluatorTyped, Others

\* So does the end of one.
LEMMA TypedEnd ==
    ASSUME EvaluatorTyped, NEW w \in Workers, Finish(w) \/ Raise(w)
    PROVE  EvaluatorTyped'
  <1> DEFINE mine == work[w].candidate
  <1>0. /\ Others(w) /\ UNCHANGED <<play, baselineBy>>
        /\ Calling(w) /\ work'[w].at = "idle"
        /\ DOMAIN outcome' = Candidates
        /\ \A c \in Candidates \ {mine} : outcome'[c] = outcome[c]
        /\ \/ outcome'[mine].status = "failed"
           \/ /\ work[w].at = "margin" /\ outcome'[mine].status = "evaluated"
              /\ outcome'[mine].id = mine /\ outcome'[mine].results = work[w].results
              /\ outcome'[mine].baseline = baselineBy.map
    BY EndShape
  <1>1. ASSUME NEW v \in Workers, Calling(v)'  PROVE CallTyped(v)'
    <2>1. v # w
      BY <1>0, <1>1 DEF Calling
    <2>2. work'[v] = work[v]
      BY <1>0, <2>1 DEF Others
    <2>3. CallTyped(v)
      BY <1>1, <2>2 DEF Calling, EvaluatorTyped
    <2> QED
      BY <1>0, <2>2, <2>3 DEF CallTyped, Candidates, Reported
  <1>2. ASSUME NEW c \in Candidates  PROVE OutcomeTyped(c)'
    <2>1. CASE c = mine
      <3>1. Reported(mine, work[w].results)
        BY <1>0 DEF EvaluatorTyped, CallTyped
      <3>2. CASE outcome'[c].status = "failed"
        BY <3>2 DEF OutcomeTyped, Returned
      <3>3. CASE outcome'[c].status # "failed"
        <4>1. /\ outcome'[c].status = "evaluated" /\ outcome'[c].id = c
              /\ outcome'[c].results = work[w].results
          BY <1>0, <2>1, <3>3
        <4>2. Reported(c, outcome[c].results)'
          BY <1>0, <2>1, <3>1, <4>1 DEF Reported
        <4> QED
          BY <4>1, <4>2 DEF OutcomeTyped, Returned
      <3> QED
        BY <3>2, <3>3
    <2>2. CASE c # mine
      <3>1. outcome'[c] = outcome[c] /\ OutcomeTyped(c)
        BY <1>0, <2>2 DEF EvaluatorTyped
      <3> QED
        BY <1>0, <3>1 DEF OutcomeTyped, Returned, Reported
    <2> QED
      BY <2>1, <2>2
  <1>3. Candidates' = Candidates
    BY <1>0 DEF Candidates
  <1> QED
    BY <1>0, <1>1, <1>2, <1>3 DEF EvaluatorTyped, Others

\* A call that starts: the baseline's when nothing runs, another's when it is over.
LEMMA StartKeeps ==
    ASSUME EvaluatorInv, NEW w \in Workers, NEW c \in Candidates, Start(w, c)
    PROVE  EvaluatorInv'
  <1>0. EvaluatorTyped /\ BaselineAlone /\ BaselineFixed /\ 0 \in Candidates
    BY BaselineIsCandidate DEF EvaluatorInv
  <1>1. /\ Others(w) /\ ~Calling(w) /\ MayStart(c) /\ UNCHANGED <<play, baselineBy, outcome>>
        /\ work'[w].candidate = c /\ work'[w].at = "candidate"
        /\ CallTyped(w)'
    BY <1>0, StartShape
  <1>2. EvaluatorTyped'
    BY <1>0, <1>1, TypedWithin
  <1>3. Candidates' = Candidates
    BY <1>1 DEF Candidates
  <1>4. BaselineAlone'
    <2> SUFFICES ASSUME outcome[0].status = "waiting"  PROVE BaselineAlone'
      BY <1>1 DEF BaselineAlone
    <2>1. c = 0
      BY <1>1 DEF MayStart
    <2>2. \A v \in Workers : ~Calling(v)
      BY <1>0, <1>1, <2>1 DEF MayStart, Calling, BaselineAlone
    <2>3. \A v \in Workers : v # w => work'[v].at = "idle"
      BY <1>1, <2>2 DEF Others, Calling
    <2>4. ~baselineBy.filled
      BY <1>0, <2>2 DEF BaselineAlone, Calling
    <2> QED
      BY <1>0, <1>1, <1>3, <2>1, <2>3, <2>4 DEF BaselineAlone, Calling
  <1>5. BaselineFixed'
    <2>1. outcome[0].status # "waiting" => c # 0
      BY <1>1 DEF MayStart
    <2>2. \A v \in Workers : v # w => work'[v] = work[v]
      BY <1>1 DEF Others
    <2> QED
      BY <1>0, <1>1, <1>3, <2>1, <2>2 DEF BaselineFixed, Calling, Returned
  <1> QED
    BY <1>2, <1>4, <1>5 DEF EvaluatorInv

\* A call that runs a scenario of its candidate.
LEMMA RunScenarioKeeps ==
    ASSUME EvaluatorInv, NEW w \in Workers, NEW qor \in QoR \cup {NoQoR}, RunScenario(w, qor)
    PROVE  EvaluatorInv'
  <1>0. EvaluatorTyped /\ BaselineAlone /\ BaselineFixed
    BY DEF EvaluatorInv
  <1>1. /\ Others(w) /\ Calling(w) /\ UNCHANGED <<play, baselineBy, outcome>>
        /\ work[w].at = "candidate" /\ work'[w].at = "candidate"
        /\ work'[w].candidate = work[w].candidate
        /\ CallTyped(w)'
    BY <1>0, RunScenarioShape
  <1>2. EvaluatorTyped'
    BY <1>0, <1>1, TypedWithin
  <1>3. Candidates' = Candidates
    BY <1>1 DEF Candidates
  <1>4. \A v \in Workers : v # w => work'[v] = work[v]
    BY <1>1 DEF Others
  <1>5. BaselineAlone'
    <2> SUFFICES ASSUME outcome[0].status = "waiting"  PROVE BaselineAlone'
      BY <1>1 DEF BaselineAlone
    <2>1. /\ \A v \in Workers : v # w => work'[v].at = "idle"
          /\ work[w].candidate = 0
      BY <1>0, <1>1, <1>4 DEF BaselineAlone, Calling
    <2>2. ~baselineBy.filled
      BY <1>0, <1>1, <1>4, <2>1 DEF BaselineAlone, Calling
    <2> QED
      BY <1>0, <1>1, <1>3, <2>1, <2>2 DEF BaselineAlone, Calling
  <1>6. BaselineFixed'
    BY <1>0, <1>1, <1>3, <1>4 DEF BaselineFixed, Calling, Returned
  <1> QED
    BY <1>2, <1>5, <1>6 DEF EvaluatorInv

\* A call that runs a scenario of the baseline: only once that is lost.
LEMMA RunBaselineKeeps ==
    ASSUME EvaluatorInv, NEW w \in Workers, NEW qor, RunBaseline(w, qor)
    PROVE  EvaluatorInv'
  <1>0. EvaluatorTyped /\ BaselineAlone /\ BaselineFixed
    BY DEF EvaluatorInv
  <1>1. /\ Others(w) /\ UNCHANGED <<play, baselineBy, outcome>>
        /\ work[w].at = "baseline" /\ work'[w].at \in {"baseline", "assign"}
        /\ work'[w].candidate = work[w].candidate
        /\ CallTyped(w)'
    BY <1>0, RunBaselineShape
  <1>2. EvaluatorTyped'
    BY <1>0, <1>1, TypedWithin
  <1>3. outcome[0].status # "waiting" /\ ~Returned(0)
    BY <1>0, <1>1 DEF BaselineAlone, BaselineFixed
  <1>4. BaselineAlone'
    BY <1>1, <1>3 DEF BaselineAlone
  <1>5. \A v \in Workers : v # w => work'[v] = work[v]
    BY <1>1 DEF Others
  <1>6. BaselineFixed'
    BY <1>0, <1>1, <1>3, <1>5 DEF BaselineFixed, Calling, Returned
  <1> QED
    BY <1>2, <1>4, <1>6 DEF EvaluatorInv

\* A call that looks for the map finds it, unless it is the baseline's.
LEMMA LookForBaselineKeeps ==
    ASSUME EvaluatorInv, NEW w \in Workers, LookForBaseline(w)
    PROVE  EvaluatorInv'
  <1>0. EvaluatorTyped /\ BaselineAlone /\ BaselineFixed
    BY DEF EvaluatorInv
  <1>1. /\ Others(w) /\ UNCHANGED <<play, baselineBy, outcome>>
        /\ work[w].at = "candidate" /\ Calling(w) /\ CallTyped(w)'
        /\ work'[w].candidate = work[w].candidate /\ work'[w].results = work[w].results
        /\ baselineBy.filled => work'[w].at = "margin"
        /\ ~baselineBy.filled /\ work[w].candidate = 0 =>
              work'[w].at = "assign" /\ work'[w].map = MeasuredSlacks(work[w].results)
    BY <1>0, LookForBaselineShape
  <1>2. EvaluatorTyped'
    BY <1>0, <1>1, TypedWithin
  <1>3. Candidates' = Candidates
    BY <1>1 DEF Candidates
  <1>4. \A v \in Workers : v # w => work'[v] = work[v]
    BY <1>1 DEF Others
  <1>5. BaselineAlone'
    <2> SUFFICES ASSUME outcome[0].status = "waiting"  PROVE BaselineAlone'
      BY <1>1 DEF BaselineAlone
    <2>1. /\ \A v \in Workers : v # w => work'[v].at = "idle"
          /\ work[w].candidate = 0
      BY <1>0, <1>1, <1>4 DEF BaselineAlone, Calling
    <2>2. ~baselineBy.filled
      BY <1>0, <1>1, <1>4, <2>1 DEF BaselineAlone, Calling
    <2>3. work'[w].at = "assign" /\ work'[w].map = MeasuredSlacks(work'[w].results)
      BY <1>1, <2>1, <2>2
    <2> QED
      BY <1>0, <1>1, <1>3, <2>1, <2>2, <2>3 DEF BaselineAlone, Calling
  <1>6. BaselineFixed'
    BY <1>0, <1>1, <1>3, <1>4 DEF BaselineFixed, Calling, Returned
  <1> QED
    BY <1>2, <1>5, <1>6 DEF EvaluatorInv

\* The map is filled by the baseline's own call, or after that was lost.
LEMMA AssignBaselineKeeps ==
    ASSUME EvaluatorInv, NEW w \in Workers, AssignBaseline(w)
    PROVE  EvaluatorInv'
  <1>0. EvaluatorTyped /\ BaselineAlone /\ BaselineFixed
    BY DEF EvaluatorInv
  <1>1. /\ Others(w) /\ UNCHANGED <<play, outcome>>
        /\ work[w].at = "assign" /\ work'[w].at = "margin" /\ CallTyped(w)'
        /\ work'[w].candidate = work[w].candidate /\ work'[w].results = work[w].results
        /\ baselineBy'.filled /\ baselineBy'.map = work[w].map
    BY <1>0, AssignBaselineShape
  <1>2. EvaluatorTyped'
    BY <1>0, <1>1, TypedWithin
  <1>3. Candidates' = Candidates
    BY <1>1 DEF Candidates
  <1>4. \A v \in Workers : v # w => work'[v] = work[v]
    BY <1>1 DEF Others
  <1>5. BaselineAlone'
    <2> SUFFICES ASSUME outcome[0].status = "waiting"  PROVE BaselineAlone'
      BY <1>1 DEF BaselineAlone
    <2>1. /\ \A v \in Workers : v # w => work'[v].at = "idle"
          /\ work[w].candidate = 0
      BY <1>0, <1>1, <1>4 DEF BaselineAlone, Calling
    <2>2. baselineBy'.map = MeasuredSlacks(work'[w].results)
      BY <1>0, <1>1 DEF BaselineAlone
    <2> QED
      BY <1>0, <1>1, <1>3, <2>1, <2>2 DEF BaselineAlone, Calling
  <1>6. BaselineFixed'
    BY <1>0, <1>1, <1>3, <1>4 DEF BaselineFixed, Calling, Returned
  <1> QED
    BY <1>2, <1>5, <1>6 DEF EvaluatorInv

\* A call that ends: the baseline's leaves its own map, another's does not touch it.
LEMMA EndKeeps ==
    ASSUME EvaluatorInv, NEW w \in Workers, Finish(w) \/ Raise(w)
    PROVE  EvaluatorInv'
  <1> DEFINE mine == work[w].candidate
  <1>0. EvaluatorTyped /\ BaselineAlone /\ BaselineFixed /\ 0 \in Candidates
    BY BaselineIsCandidate DEF EvaluatorInv
  <1>1. /\ Others(w) /\ UNCHANGED <<play, baselineBy>>
        /\ Calling(w) /\ work'[w].at = "idle"
        /\ DOMAIN outcome' = Candidates
        /\ \A c \in Candidates \ {mine} : outcome'[c] = outcome[c]
        /\ \/ outcome'[mine].status = "failed"
           \/ /\ work[w].at = "margin" /\ outcome'[mine].status = "evaluated"
              /\ outcome'[mine].id = mine /\ outcome'[mine].results = work[w].results
              /\ outcome'[mine].baseline = baselineBy.map
    BY <1>0, EndShape
  <1>2. EvaluatorTyped'
    BY <1>0, TypedEnd
  <1>3. Candidates' = Candidates
    BY <1>1 DEF Candidates
  <1>4. \A v \in Workers : v # w => work'[v] = work[v]
    BY <1>1 DEF Others
  <1> HIDE DEF mine
  <1>5. outcome'[0].status # "waiting"
    <2>1. CASE mine = 0
      BY <1>1, <2>1
    <2>2. CASE mine # 0
      <3>1. outcome[0].status # "waiting"
        BY <1>0, <1>1, <2>2 DEF BaselineAlone, mine
      <3> QED
        BY <1>0, <1>1, <2>2, <3>1
    <2> QED
      BY <2>1, <2>2
  <1>6. BaselineAlone'
    BY <1>5 DEF BaselineAlone
  <1>7. CASE mine = 0
    <2>1. outcome[0].status = "waiting"
      BY <1>0, <1>1, <1>7 DEF BaselineFixed, mine
    <2>2. /\ \A v \in Workers : work'[v].at = "idle"
          /\ \A c \in Candidates : outcome[c].status = "waiting"
      BY <1>0, <1>1, <1>4, <2>1 DEF BaselineAlone, Calling
    <2>3. Returned(0)' =>
            /\ baselineBy'.filled /\ baselineBy'.map = MeasuredSlacks(outcome'[0].results)
            /\ outcome'[0].baseline = baselineBy'.map
      <3> SUFFICES ASSUME Returned(0)'
                   PROVE  /\ baselineBy'.filled
                          /\ baselineBy'.map = MeasuredSlacks(outcome'[0].results)
                          /\ outcome'[0].baseline = baselineBy'.map
        OBVIOUS
      <3>1. /\ work[w].at = "margin" /\ outcome'[0].results = work[w].results
            /\ outcome'[0].baseline = baselineBy.map
        BY <1>1, <1>7 DEF Returned
      <3> QED
        BY <1>0, <1>1, <2>1, <3>1 DEF BaselineAlone
    <2>4. \A c \in Candidates : c # 0 => ~Returned(c)'
      BY <1>1, <1>7, <2>2 DEF Returned
    <2> QED
      BY <1>2, <1>3, <1>6, <2>2, <2>3, <2>4 DEF EvaluatorInv, BaselineFixed, Calling
  <1>8. CASE mine # 0
    <2>1. outcome'[0] = outcome[0]
      BY <1>0, <1>1, <1>8
    <2>2. \A v \in Workers : work'[v].at = "idle" \/ work'[v] = work[v]
      BY <1>1, <1>4
    <2>3. Returned(0) => \A c \in Candidates : Returned(c)' => outcome'[c].baseline = baselineBy.map
      BY <1>0, <1>1 DEF BaselineFixed, Returned
    <2>4. BaselineFixed'
      BY <1>0, <1>1, <1>3, <1>5, <2>1, <2>2, <2>3 DEF BaselineFixed, Calling, Returned
    <2> QED
      BY <1>2, <1>6, <2>4 DEF EvaluatorInv
  <1> QED
    BY <1>7, <1>8

\* Nothing has been called, and nothing is filled.
LEMMA EvaluatorStarts == Init => EvaluatorInv
  <1> SUFFICES ASSUME Init  PROVE EvaluatorInv
    OBVIOUS
  <1>1. /\ play \in Plays /\ DOMAIN work = Workers /\ DOMAIN outcome = Candidates
        /\ \A w \in Workers : work[w].at = "idle"
        /\ \A c \in Candidates : outcome[c].status = "waiting"
        /\ ~baselineBy.filled
    BY DEF Init, Idle, Waiting
  <1>2. EvaluatorTyped
    BY <1>1 DEF EvaluatorTyped, Calling, OutcomeTyped, Returned
  <1>3. 0 \in Candidates
    BY <1>2, BaselineIsCandidate
  <1> QED
    BY <1>1, <1>2, <1>3 DEF EvaluatorInv, BaselineAlone, BaselineFixed, Calling, Returned

\* No step of a worker leaves the invariant.
LEMMA EvaluatorStep == EvaluatorInv /\ [Next]_vars => EvaluatorInv'
  <1> SUFFICES ASSUME EvaluatorInv, [Next]_vars  PROVE EvaluatorInv'
    OBVIOUS
  <1>1. CASE UNCHANGED vars
    BY <1>1 DEF vars, EvaluatorInv, EvaluatorTyped, BaselineAlone, BaselineFixed, Calling,
                CallTyped, OutcomeTyped, Returned, Reported, Candidates
  <1>2. CASE Next
    <2>1. PICK w \in Workers :
            \/ \E c \in Candidates : Start(w, c)
            \/ \E qor \in {NoQoR} \cup UNION {Range(play.measured[c]) : c \in Candidates} :
                  RunScenario(w, qor) \/ RunBaseline(w, qor)
            \/ Raise(w) \/ LookForBaseline(w) \/ AssignBaseline(w) \/ Finish(w)
      BY <1>2 DEF Next
    <2>2. CASE \E c \in Candidates : Start(w, c)
      BY <2>2, StartKeeps
    <2>3. CASE \E qor \in {NoQoR} \cup UNION {Range(play.measured[c]) : c \in Candidates} :
                  RunScenario(w, qor) \/ RunBaseline(w, qor)
      <3>1. PICK qor \in {NoQoR} \cup UNION {Range(play.measured[c]) : c \in Candidates} :
                  RunScenario(w, qor) \/ RunBaseline(w, qor)
        BY <2>3
      <3>2. qor \in QoR \cup {NoQoR}
        BY OfferedQoR DEF EvaluatorInv
      <3> QED
        BY <3>1, <3>2, RunScenarioKeeps, RunBaselineKeeps
    <2>4. CASE Raise(w) \/ Finish(w)
      BY <2>4, EndKeeps
    <2>5. CASE LookForBaseline(w)
      BY <2>5, LookForBaselineKeeps
    <2>6. CASE AssignBaseline(w)
      BY <2>6, AssignBaselineKeeps
    <2> QED
      BY <2>1, <2>2, <2>3, <2>4, <2>5, <2>6
  <1> QED
    BY <1>1, <1>2

\* In every state of the evaluator: the baseline is evaluated alone, what fills
\* the shared map is what it measured, and results hold only what the tools
\* reported (evaluate.py:41).
THEOREM EvaluatorInvariant == Spec => []EvaluatorInv
  BY EvaluatorStarts, EvaluatorStep, PTL DEF Spec

-----------------------------------------------------------------------------
(* What the callers rely on.                                               *)

\* A result is the outcome of its own candidate, with evidence the tools gave.
LEMMA ResultTyped ==
    ASSUME EvaluatorTyped, NEW r \in Results
    PROVE  /\ r.id \in Candidates /\ r = outcome[r.id] /\ Returned(r.id)
           /\ Reported(r.id, r.results)
           /\ \A sid \in DOMAIN r.results : r.results[sid] \in QoR \cup {NoQoR}
  <1>1. PICK c \in Candidates : Returned(c) /\ r = outcome[c]
    BY DEF Results
  <1>2. r.id = c /\ Reported(c, r.results)
    BY <1>1 DEF EvaluatorTyped, OutcomeTyped
  <1> QED
    BY <1>1, <1>2 DEF Reported

\* An eligible result has a QoR that is feasible in every active scenario.
LEMMA EligibleResult ==
    ASSUME EvaluatorTyped, NEW r \in Results, NEW active,
           GlobalStatus(r.results, active) = "feasible"
    PROVE  /\ active # {}
           /\ \A sid \in active :
                 /\ sid \in DOMAIN r.results /\ r.results[sid] \in QoR
                 /\ ResultOf(r.results, sid) = r.results[sid] /\ r.results[sid] # NoQoR
                 /\ TimingMet(r.results[sid])
                 /\ r.results[sid].validation_errors = 0
                 /\ r.results[sid].unsafe_exceptions = 0
  <1>1. \A sid \in DOMAIN r.results : r.results[sid] \in QoR \cup {NoQoR}
    BY ResultTyped
  <1>2. /\ active # {}
        /\ \A sid \in active : ScenarioStatus(ResultOf(r.results, sid)) = "feasible"
    BY <1>1, FeasibleResult
  <1>3. ASSUME NEW sid \in active
        PROVE  /\ sid \in DOMAIN r.results /\ r.results[sid] \in QoR
               /\ ResultOf(r.results, sid) = r.results[sid] /\ r.results[sid] # NoQoR
               /\ TimingMet(r.results[sid])
               /\ r.results[sid].validation_errors = 0
               /\ r.results[sid].unsafe_exceptions = 0
    <2> DEFINE q == ResultOf(r.results, sid)
    <2>1. q \in QoR \cup {NoQoR} /\ (q = NoQoR \/ (sid \in DOMAIN r.results /\ q = r.results[sid]))
      BY <1>1 DEF ResultOf
    <2>2. ScenarioStatus(q) = "feasible"
      BY <1>2
    <2> HIDE DEF q
    <2>3. /\ q \in QoR /\ q # NoQoR /\ TimingMet(q)
          /\ q.validation_errors = 0 /\ q.unsafe_exceptions = 0
      BY <2>1, <2>2, ScenarioFeasible
    <2>4. sid \in DOMAIN r.results /\ q = r.results[sid]
      BY <2>1, <2>3
    <2>5. ResultOf(r.results, sid) = q
      BY DEF q
    <2> QED
      BY <2>3, <2>4, <2>5
  <1> QED
    BY <1>2, <1>3

\* Whoever filled the shared map, and however the calls of the workers
\* interleave: if the baseline was evaluated, every margin is measured against
\* what it measured (evaluate.py:51, 89).
THEOREM MarginsTheorem == Spec => []MarginsComparable
  <1>1. EvaluatorInv => MarginsComparable
    <2> SUFFICES ASSUME EvaluatorInv, Returned(0), NEW r \in Results
                 PROVE  r.baseline = MeasuredSlacks(outcome[0].results)
      BY DEF MarginsComparable
    <2>1. r.id \in Candidates /\ r = outcome[r.id] /\ Returned(r.id)
      BY ResultTyped DEF EvaluatorInv
    <2> QED
      BY <2>1 DEF EvaluatorInv, BaselineFixed
  <1> QED
    BY <1>1, EvaluatorInvariant, PTL

\* A candidate is globally feasible only if every active scenario has a
\* definition, was run, and met its constraints with nothing invalid or unsafe
\* in it (aggregate.py:138).
THEOREM FeasibleTheorem == Spec => []FeasibleEverywhere
  <1>1. EvaluatorInv => FeasibleEverywhere
    <2> SUFFICES ASSUME EvaluatorInv, NEW r \in Results,
                        GlobalStatus(r.results, Active) = "feasible"
                 PROVE  /\ Active # {}
                        /\ \A sid \in Active :
                              /\ sid \in DOMAIN r.results
                              /\ r.results[sid] # NoQoR
                              /\ r.results[sid] = play.measured[r.id][sid]
                              /\ TimingMet(r.results[sid])
                              /\ r.results[sid].validation_errors = 0
                              /\ r.results[sid].unsafe_exceptions = 0
      BY DEF FeasibleEverywhere
    <2>1. EvaluatorTyped
      BY DEF EvaluatorInv
    <2>2. /\ Active # {}
          /\ \A sid \in Active :
                /\ sid \in DOMAIN r.results /\ r.results[sid] # NoQoR
                /\ TimingMet(r.results[sid])
                /\ r.results[sid].validation_errors = 0
                /\ r.results[sid].unsafe_exceptions = 0
      BY <2>1, EligibleResult
    <2>3. \A sid \in Active : r.results[sid] = play.measured[r.id][sid]
      BY <2>1, <2>2, ResultTyped DEF Reported
    <2> QED
      BY <2>2, <2>3
  <1> QED
    BY <1>1, EvaluatorInvariant, PTL

\* A candidate that dominates another scenario by scenario is not behind it in
\* any bucket the selection can look at (aggregate.py:261, 522, 695).
THEOREM DominanceTheorem == Spec => []BindingRespectsDominance
  <1>1. EvaluatorInv => BindingRespectsDominance
    <2> SUFFICES ASSUME EvaluatorInv, NEW r \in Results, NEW s \in Results,
                        McmmDominates(r, s, Active), NEW bucket \in Range(BucketOrder)
                 PROVE  CmpGlobal(bucket, r, s, Active) >= 0
      BY DEF BindingRespectsDominance
    <2>1. EvaluatorTyped
      BY DEF EvaluatorInv
    <2>2. IsFiniteSet(Active)
      BY <2>1, PlaysAssumption DEF EvaluatorTyped, Active
    <2>3. /\ GlobalStatus(r.results, Active) = "feasible"
          /\ GlobalStatus(s.results, Active) = "feasible"
          /\ \A sid \in Active : NoWorse(ResultOf(r.results, sid), ResultOf(s.results, sid))
      BY DEF McmmDominates, GloballyEligible
    <2>4. \A sid \in Active : ResultOf(r.results, sid) \in QoR
                              /\ ResultOf(s.results, sid) \in QoR
      BY <2>1, <2>3, EligibleResult
    <2> QED
      BY <2>2, <2>3, <2>4, BucketsFollow
  <1> QED
    BY <1>1, EvaluatorInvariant, PTL

-----------------------------------------------------------------------------
(* One round of a front, for any dominance: a relation as a set of pairs.  *)

\* The members of S that no other dominates; D holds the pairs <<i, j>> where i
\* dominates j.
Undominated(S, D) == {i \in S : \A j \in S : <<j, i>> \notin D}

\* Who is left out has a member of the front to blame.
Covers(front, S, D) == \A i \in S \ front : \E j \in front : <<j, i>> \in D

\* Dominance among S is a strict order.
Before(D, S) ==
    \A i, j \in S : /\ <<i, j>> \in D => <<j, i>> \notin D
                    /\ \A k \in S : <<i, j>> \in D /\ <<j, k>> \in D => <<i, k>> \in D

\* It is one among fewer, too.
LEMMA BeforeFewer ==
    ASSUME NEW D, NEW S, Before(D, S), NEW T, T \subseteq S
    PROVE  Before(D, T)
  BY DEF Before

\* What a candidate n makes of a front.
Round(front, n, D) ==
    LET kept == front \ {j \in front : <<j, n>> \notin D /\ <<n, j>> \in D}
    IN  IF \E j \in front : <<j, n>> \in D THEN kept ELSE kept \cup {n}

\* One candidate more, admitted or not, keeps a front exact and covering.
LEMMA RoundExact ==
    ASSUME NEW S, NEW n, n \notin S, NEW D, Before(D, S \cup {n}),
           NEW front, front = Undominated(S, D), Covers(front, S, D),
           NEW next, next = Round(front, n, D)
    PROVE  next = Undominated(S \cup {n}, D) /\ Covers(next, S \cup {n}, D)
  <1> DEFINE T == S \cup {n}
  <1>1. \A i, j \in T : <<i, j>> \in D => <<j, i>> \notin D
    BY DEF Before
  <1>2. \A i, j, k \in T : <<i, j>> \in D /\ <<j, k>> \in D => <<i, k>> \in D
    BY DEF Before
  <1>3. front = {i \in S : \A j \in S : <<j, i>> \notin D}
    BY DEF Undominated
  <1>4. \A i \in S \ front : \E j \in front : <<j, i>> \in D
    BY DEF Covers
  <1>5. n \in T /\ front \subseteq S /\ S \subseteq T
    BY <1>3
  <1>6. CASE \E j \in front : <<j, n>> \in D
    <2>1. PICK d \in front : <<d, n>> \in D
      BY <1>6
    <2>2. \A j \in front : <<n, j>> \notin D
      <3> SUFFICES ASSUME NEW j \in front, <<n, j>> \in D  PROVE FALSE
        OBVIOUS
      <3>1. <<d, j>> \in D
        BY <1>2, <1>5, <2>1
      <3> QED
        BY <1>3, <1>5, <3>1
    <2>3. next = front
      BY <1>6, <2>2 DEF Round
    <2>4. Undominated(T, D) = front
      <3>1. ASSUME NEW i \in front  PROVE i \in Undominated(T, D)
        BY <1>3, <2>2 DEF Undominated
      <3>2. ASSUME NEW i \in Undominated(T, D)  PROVE i \in front
        <4>1. i # n
          BY <1>5, <2>1, <3>2 DEF Undominated
        <4> QED
          BY <1>3, <3>2, <4>1 DEF Undominated
      <3> QED
        BY <3>1, <3>2
    <2>5. Covers(front, T, D)
      BY <1>4, <2>1 DEF Covers
    <2> QED
      BY <2>3, <2>4, <2>5
  <1>7. CASE ~\E j \in front : <<j, n>> \in D
    <2>1. next = {j \in front : <<n, j>> \notin D} \cup {n}
      BY <1>7 DEF Round
    <2>2. \A j \in T : <<j, n>> \notin D
      <3> SUFFICES ASSUME NEW j \in T, <<j, n>> \in D  PROVE FALSE
        OBVIOUS
      <3>1. j \in S
        BY <1>1, <1>5
      <3>2. j \notin front
        BY <1>7
      <3>3. PICK k \in front : <<k, j>> \in D
        BY <1>4, <3>1, <3>2
      <3>4. <<k, n>> \in D
        BY <1>2, <1>5, <3>3
      <3> QED
        BY <1>7, <3>4
    <2>3. Undominated(T, D) = next
      <3>1. ASSUME NEW i \in next  PROVE i \in Undominated(T, D)
        BY <1>3, <1>5, <2>1, <2>2 DEF Undominated
      <3>2. ASSUME NEW i \in Undominated(T, D)  PROVE i \in next
        BY <1>3, <1>5, <2>1, <3>2 DEF Undominated
      <3> QED
        BY <3>1, <3>2
    <2>4. ASSUME NEW i \in T \ next  PROVE \E j \in next : <<j, i>> \in D
      <3>1. i \in S
        BY <2>1, <2>4
      <3>2. CASE <<n, i>> \in D
        BY <2>1, <3>2
      <3>3. CASE <<n, i>> \notin D
        <4>1. PICK j \in front : <<j, i>> \in D
          BY <1>4, <2>1, <2>4, <3>1, <3>3
        <4>2. <<n, j>> \notin D
          BY <1>2, <1>5, <3>1, <3>3, <4>1
        <4> QED
          BY <2>1, <4>1, <4>2
      <3> QED
        BY <3>2, <3>3
    <2> QED
      BY <2>3, <2>4 DEF Covers
  <1> QED
    BY <1>6, <1>7

\* A front of S: no member dominates another, and whoever is left out is
\* dominated by someone.  It is exact where dominance is a strict order.
FrontOf(front, S, D) ==
    /\ front \subseteq S
    /\ \A i, j \in front : <<i, j>> \notin D
    /\ \A i \in S \ front : \E j \in S : <<j, i>> \in D
    /\ Before(D, S) => front = Undominated(S, D) /\ Covers(front, S, D)

\* One candidate more keeps it one, even where dominance is no order.
LEMMA RoundKeepsFront ==
    ASSUME NEW S, NEW n, n \notin S, NEW D, <<n, n>> \notin D,
           NEW front, FrontOf(front, S, D), NEW next, next = Round(front, n, D)
    PROVE  FrontOf(next, S \cup {n}, D)
  <1>1. /\ front \subseteq S /\ \A i, j \in front : <<i, j>> \notin D
        /\ \A i \in S \ front : \E j \in S : <<j, i>> \in D
    BY DEF FrontOf
  <1>2. next \subseteq S \cup {n}
    BY <1>1 DEF Round
  <1>3. ASSUME NEW i \in next, NEW j \in next  PROVE <<i, j>> \notin D
    <2>1. CASE \E k \in front : <<k, n>> \in D
      BY <1>1, <1>3, <2>1 DEF Round
    <2>2. CASE ~\E k \in front : <<k, n>> \in D
      <3>1. next = {k \in front : <<n, k>> \notin D} \cup {n}
        BY <2>2 DEF Round
      <3> QED
        BY <1>1, <1>3, <2>2, <3>1
    <2> QED
      BY <2>1, <2>2
  <1>4. ASSUME NEW i \in (S \cup {n}) \ next  PROVE \E j \in S \cup {n} : <<j, i>> \in D
    <2>1. CASE i = n
      BY <1>1, <1>4, <2>1 DEF Round
    <2>2. CASE i \in front
      BY <1>1, <1>4, <2>2 DEF Round
    <2>3. CASE i \in S \ front
      BY <1>1, <2>3
    <2> QED
      BY <1>4, <2>1, <2>2, <2>3
  <1>5. ASSUME Before(D, S \cup {n})
        PROVE  next = Undominated(S \cup {n}, D) /\ Covers(next, S \cup {n}, D)
    <2>1. Before(D, S)
      BY <1>5, BeforeFewer
    <2>2. front = Undominated(S, D) /\ Covers(front, S, D)
      BY <2>1 DEF FrontOf
    <2> QED
      BY <1>5, <2>2, RoundExact
  <1> QED
    BY <1>2, <1>3, <1>4, <1>5 DEF FrontOf

\* Where nobody has come there is nobody in front.
LEMMA EmptyFront == ASSUME NEW D PROVE FrontOf({}, {}, D)
  BY DEF FrontOf, Undominated, Covers

-----------------------------------------------------------------------------
(* The loop of mcmm_pareto_front.                                          *)

\* The fronts after the candidates with ids below each of the first n numbers.
FrontPass(found, active, pass, n) ==
    pass = [k \in 0..n |-> IF k = 0 THEN {} ELSE McmmAdmit(found, pass[k - 1], k - 1, active)]

\* The loop has a run of every length.
LEMMA FrontPassExists ==
    ASSUME NEW found, NEW active, NEW n \in Nat
    PROVE  \E pass : FrontPass(found, active, pass, n)
  <1> DEFINE P == {m \in Nat : \E pass : FrontPass(found, active, pass, m)}
  <1>1. 0 \in P
    <2>1. FrontPass(found, active, [k \in 0..0 |-> {}], 0)
      BY DEF FrontPass
    <2> QED
      BY <2>1
  <1>2. ASSUME NEW m \in Nat, m \in P  PROVE m + 1 \in P
    <2>1. PICK pass : FrontPass(found, active, pass, m)
      BY <1>2
    <2> DEFINE step(f, k) == IF k = 0 THEN {} ELSE McmmAdmit(found, f[k - 1], k - 1, active)
               more == [k \in 0..(m + 1) |-> IF k = m + 1
                                             THEN McmmAdmit(found, pass[m], m, active)
                                             ELSE pass[k]]
    <2>2. pass = [k \in 0..m |-> step(pass, k)]
      BY <2>1 DEF FrontPass
    <2>3. ASSUME NEW k \in 0..(m + 1)  PROVE more[k] = step(more, k)
      <3>1. CASE k = m + 1
        <4>1. k # 0 /\ k - 1 = m /\ m \in 0..(m + 1) /\ m # m + 1
          BY <3>1
        <4>2. more[k - 1] = pass[m] /\ more[k] = McmmAdmit(found, pass[m], k - 1, active)
          BY <3>1, <4>1
        <4> QED
          BY <4>1, <4>2
      <3>2. CASE k # m + 1
        <4>1. k \in 0..m /\ (k # 0 => k - 1 \in 0..(m + 1) /\ k - 1 # m + 1)
          BY <2>3, <3>2
        <4>2. more[k] = pass[k] /\ (k # 0 => more[k - 1] = pass[k - 1])
          BY <2>3, <3>2, <4>1
        <4>3. pass[k] = step(pass, k)
          BY <2>2, <4>1
        <4> HIDE DEF more
        <4> QED
          BY <4>2, <4>3
      <3> QED
        BY <3>1, <3>2
    <2>4. more = [k \in 0..(m + 1) |-> more[k]]
      OBVIOUS
    <2> HIDE DEF more
    <2>5. FrontPass(found, active, more, m + 1)
      BY <2>3, <2>4 DEF FrontPass
    <2> QED
      BY <2>5
  <1> HIDE DEF P
  <1>3. n \in P
    BY <1>1, <1>2, SetInduction
  <1> QED
    BY <1>3 DEF P

\* The front is the end of such a run.
LEMMA McmmFrontIsPass ==
    ASSUME NEW found, NEW active, Ids(found) \in Nat
    PROVE  \E pass : /\ FrontPass(found, active, pass, Ids(found))
                     /\ McmmFront(found, active) = pass[Ids(found)]
  <1> DEFINE n == Ids(found)
  <1>0. n \in Nat
    OBVIOUS
  <1> HIDE DEF n
  <1>e. \E f : FrontPass(found, active, f, n)
    BY <1>0, FrontPassExists
  <1>1. \E f : f = [k \in 0..n |-> IF k = 0 THEN {}
                                    ELSE McmmAdmit(found, f[k - 1], k - 1, active)]
    BY <1>e DEF FrontPass
  <1> DEFINE pass[k \in 0..n] ==
                IF k = 0 THEN {} ELSE McmmAdmit(found, pass[k - 1], k - 1, active)
  <1>2. pass = [k \in 0..n |-> IF k = 0 THEN {}
                                ELSE McmmAdmit(found, pass[k - 1], k - 1, active)]
    BY <1>1
  <1>3. McmmFront(found, active) = pass[n]
    BY DEF McmmFront, n
  <1> HIDE DEF pass
  <1>4. FrontPass(found, active, pass, n)
    BY <1>2 DEF FrontPass
  <1> QED
    BY <1>3, <1>4 DEF n

\* The next front is the last one after a round.
LEMMA FrontPassNext ==
    ASSUME NEW found, NEW active, NEW n \in Nat, NEW pass, FrontPass(found, active, pass, n)
    PROVE  /\ pass[0] = {}
           /\ \A k \in Nat : k + 1 <= n =>
                 pass[k + 1] = McmmAdmit(found, pass[k], k, active)
  <1> DEFINE step(j) == IF j = 0 THEN {} ELSE McmmAdmit(found, pass[j - 1], j - 1, active)
  <1>1. pass = [j \in 0..n |-> step(j)]
    BY DEF FrontPass
  <1>2. \A j \in 0..n : pass[j] = step(j)
    BY <1>1
  <1>3. pass[0] = {}
    BY <1>2
  <1>4. ASSUME NEW k \in Nat, k + 1 <= n
        PROVE  pass[k + 1] = McmmAdmit(found, pass[k], k, active)
    <2>1. k + 1 \in 0..n /\ k + 1 # 0 /\ (k + 1) - 1 = k
      BY <1>4
    <2> QED
      BY <1>2, <2>1
  <1> QED
    BY <1>3, <1>4

\* Dominance among some candidates, as a relation.
Dominance(found, active) ==
    {p \in (DOMAIN found) \X (DOMAIN found) : McmmDominates(found[p[1]], found[p[2]], active)}

\* The relation is McmmDominates.
LEMMA DominanceRelates ==
    ASSUME NEW found, NEW active, NEW i \in DOMAIN found, NEW j \in DOMAIN found
    PROVE  <<i, j>> \in Dominance(found, active) <=> McmmDominates(found[i], found[j], active)
  BY DEF Dominance

\* What the loop over the eligible candidates makes is a front.
LEMMA FrontUndominated ==
    ASSUME NEW found, NEW active, DOMAIN found \subseteq Nat, Ids(found) \in Nat,
           \A id \in DOMAIN found : id < Ids(found),
           NEW E, E = Eligibles(found, active),
           NEW D, D = Dominance(found, active), \A i \in E : <<i, i>> \notin D
    PROVE  FrontOf(McmmFront(found, active), E, D)
  <1> DEFINE n == Ids(found)
  <1>1. PICK pass : FrontPass(found, active, pass, n) /\ McmmFront(found, active) = pass[n]
    BY McmmFrontIsPass
  <1>2. n \in Nat /\ E \subseteq Nat /\ \A id \in E : id < n
    BY DEF Eligibles
  <1> HIDE DEF n
  <1> DEFINE Below(k) == {id \in E : id < k}
             P == {k \in Nat : k <= n => FrontOf(pass[k], Below(k), D)}
  <1>3. pass[0] = {} /\ \A k \in Nat : k + 1 <= n => pass[k + 1] = McmmAdmit(found, pass[k], k, active)
    <2> HIDE DEF Below, P
    <2>1. n \in Nat /\ FrontPass(found, active, pass, n)
      BY <1>1, <1>2
    <2> QED
      BY <2>1, FrontPassNext
  <1>4. 0 \in P
    <2>1. Below(0) = {}
      BY <1>2
    <2> HIDE DEF Below
    <2>2. FrontOf(pass[0], Below(0), D)
      BY <1>3, <2>1, EmptyFront
    <2> QED
      BY <2>2
  <1>5. ASSUME NEW k \in Nat, k \in P  PROVE k + 1 \in P
    <2> SUFFICES ASSUME k + 1 <= n  PROVE FrontOf(pass[k + 1], Below(k + 1), D)
      OBVIOUS
    <2>1. FrontOf(pass[k], Below(k), D)
      BY <1>2, <1>5
    <2>2. pass[k + 1] = McmmAdmit(found, pass[k], k, active)
      BY <1>3
    <2>3. CASE k \notin E
      <3>1. Below(k + 1) = Below(k)
        BY <1>2, <2>3
      <3>2. pass[k + 1] = pass[k]
        BY <2>2, <2>3 DEF McmmAdmit
      <3> QED
        BY <2>1, <3>1, <3>2
    <2>4. CASE k \in E
      <3>1. Below(k + 1) = Below(k) \cup {k} /\ k \notin Below(k) /\ Below(k) \cup {k} \subseteq E
        BY <1>2, <2>4
      <3>2. \A i, j \in E : <<i, j>> \in D <=> McmmDominates(found[i], found[j], active)
        BY DominanceRelates DEF Eligibles
      <3>3. pass[k] \subseteq E
        BY <2>1, <3>1 DEF FrontOf
      <3>4. <<k, k>> \notin D
        BY <2>4
      <3> DEFINE S == Below(k)
                 next == pass[k + 1]
      <3>5. next = Round(pass[k], k, D)
        BY <2>2, <2>4, <3>2, <3>3 DEF McmmAdmit, Round
      <3>6. k \notin S /\ FrontOf(pass[k], S, D)
        BY <2>1, <3>1
      <3> HIDE DEF S, next
      <3>7. FrontOf(next, S \cup {k}, D)
        BY <3>4, <3>5, <3>6, RoundKeepsFront
      <3> QED
        BY <3>1, <3>7 DEF S, next
    <2> QED
      BY <2>3, <2>4
  <1> HIDE DEF P
  <1>6. n \in P
    BY <1>2, <1>4, <1>5, SetInduction
  <1>7. FrontOf(pass[n], Below(n), D)
    BY <1>2, <1>6 DEF P
  <1>8. Below(n) = E
    BY <1>2
  <1> QED
    BY <1>1, <1>7, <1>8

-----------------------------------------------------------------------------
(* Dominance over the scenarios.                                           *)

\* A candidate with a QoR in each of the scenarios.
Complete(c, active) == \A sid \in active : ResultOf(c.results, sid) \in QoR

\* No candidate dominates one that dominates it, whatever the tolerance.
LEMMA McmmAsymmetric ==
    ASSUME NEW active, NEW a, NEW b, Complete(a, active), Complete(b, active),
           McmmDominates(a, b, active)
    PROVE  ~McmmDominates(b, a, active)
  <1>1. PICK sid \in active : SomeBetter(ResultOf(a.results, sid), ResultOf(b.results, sid))
    BY DEF McmmDominates
  <1> DEFINE p == ResultOf(a.results, sid)
             q == ResultOf(b.results, sid)
  <1>2. p \in QoR /\ q \in QoR
    BY DEF Complete
  <1>3. PICK m \in Metrics : CmpMetric(m, p, q) = "better"
    BY <1>1 DEF SomeBetter
  <1> HIDE DEF p, q
  <1>4. CmpMetric(m, q, p) = "worse"
    BY <1>2, <1>3, CmpAntisymmetric
  <1>5. ~NoWorse(q, p)
    BY <1>4 DEF NoWorse
  <1> QED
    BY <1>5 DEF McmmDominates, p, q

\* Two candidates whose values are told apart in every scenario.
ToldApartIn(a, b, active) ==
    \A sid \in active : ToldApart(ResultOf(a.results, sid), ResultOf(b.results, sid), Metrics)

\* Between candidates that are told apart dominance composes: scenario by scenario
\* and metric by metric.
LEMMA McmmTransitive ==
    ASSUME NEW active, NEW a, NEW b, NEW c,
           Complete(a, active), Complete(b, active), Complete(c, active),
           ToldApartIn(a, b, active), ToldApartIn(b, c, active), ToldApartIn(a, c, active),
           McmmDominates(a, b, active), McmmDominates(b, c, active)
    PROVE  McmmDominates(a, c, active)
  <1> DEFINE x(sid) == ResultOf(a.results, sid)
             y(sid) == ResultOf(b.results, sid)
             z(sid) == ResultOf(c.results, sid)
  <1>1. \A sid \in active : x(sid) \in QoR /\ y(sid) \in QoR /\ z(sid) \in QoR
    BY DEF Complete
  <1>2. /\ \A sid \in active : NoWorse(x(sid), y(sid)) /\ NoWorse(y(sid), z(sid))
        /\ \E sid \in active : SomeBetter(x(sid), y(sid))
        /\ GloballyEligible(a, active) /\ GloballyEligible(c, active)
    BY DEF McmmDominates
  <1>t. ASSUME NEW sid \in active, NEW m \in Metrics
        PROVE  /\ Apart(RawMetric(x(sid), m), RawMetric(y(sid), m))
               /\ Apart(RawMetric(y(sid), m), RawMetric(z(sid), m))
               /\ Apart(RawMetric(x(sid), m), RawMetric(z(sid), m))
    BY DEF ToldApartIn, ToldApart
  <1> HIDE DEF x, y, z
  <1>3. ASSUME NEW sid \in active, NEW m \in Metrics
        PROVE  /\ CmpMetric(m, x(sid), z(sid)) \in {"better", "equal"}
               /\ CmpMetric(m, x(sid), y(sid)) = "better"
                    => CmpMetric(m, x(sid), z(sid)) = "better"
    <2>1. /\ CmpMetric(m, x(sid), y(sid)) \in {"better", "equal"}
          /\ CmpMetric(m, y(sid), z(sid)) \in {"better", "equal"}
      BY <1>2 DEF NoWorse
    <2>2. x(sid) \in QoR /\ y(sid) \in QoR /\ z(sid) \in QoR
      BY <1>1
    <2> QED
      BY <1>t, <2>1, <2>2, CmpTransitive
  <1>4. \A sid \in active : NoWorse(x(sid), z(sid))
    BY <1>3 DEF NoWorse
  <1>5. \E sid \in active : SomeBetter(x(sid), z(sid))
    BY <1>2, <1>3 DEF SomeBetter
  <1> QED
    BY <1>2, <1>4, <1>5 DEF McmmDominates, x, z

-----------------------------------------------------------------------------
(* The front of an evaluator's results.                                    *)

\* The results there are, by number; no number is as large as Ids.
LEMMA FoundTyped ==
    ASSUME EvaluatorTyped
    PROVE  /\ DOMAIN Found \subseteq Candidates /\ DOMAIN Found \subseteq Nat
           /\ Ids(Found) \in Nat /\ \A c \in DOMAIN Found : c < Ids(Found)
           /\ \A c \in DOMAIN Found : /\ Found[c] = outcome[c] /\ Found[c] \in Results
                                      /\ Found[c].id = c
           /\ \A c \in Candidates : Returned(c) <=> c \in DOMAIN Found
  <1>1. /\ DOMAIN Found = {d \in Candidates : Returned(d)}
        /\ \A c \in DOMAIN Found : Found[c] = outcome[c]
    BY DEF Found
  <1>2. Candidates \subseteq Nat /\ IsFiniteSet(Candidates)
    BY PlaysAssumption DEF EvaluatorTyped, Candidates
  <1> DEFINE S == {0} \cup DOMAIN Found
  <1>3. IsFiniteSet(DOMAIN Found)
    BY <1>1, <1>2, FS_Subset
  <1>4. IsFiniteSet(S)
    BY <1>3, FS_AddElement
  <1>5. S \subseteq Nat /\ 0 \in S
    <2>1. DOMAIN Found \subseteq Nat
      BY <1>1, <1>2
    <2>2. 0 \in Nat
      OBVIOUS
    <2> QED
      BY ONLY <2>1, <2>2, Zenon DEF S
  <1>7. Ids(Found) = Max(S) + 1
    BY DEF Ids
  <1> HIDE DEF S
  <1>6. Max(S) \in S /\ \A x \in S : x <= Max(S)
    <2>1. S # {} /\ S \subseteq Int
      BY <1>5
    <2> QED
      BY <1>4, <2>1, MaxIsGreatest
  <1> DEFINE greatest == Max(S)
  <1>8. Ids(Found) \in Nat /\ \A x \in S : x < Ids(Found)
    <2>1. /\ greatest \in S /\ \A x \in S : x <= greatest
          /\ Ids(Found) = greatest + 1
      BY <1>6, <1>7
    <2> HIDE DEF greatest
    <2> QED
      BY ONLY <1>5, <2>1
  <1>9. \A c \in DOMAIN Found : Found[c] \in Results /\ Found[c].id = c
    BY <1>1 DEF Results, EvaluatorTyped, OutcomeTyped
  <1> QED
    BY <1>1, <1>2, <1>8, <1>9 DEF S

\* An eligible result has a QoR that meets timing in every scenario.
LEMMA EligiblesComplete ==
    ASSUME EvaluatorTyped, NEW c \in Eligibles(Found, Active)
    PROVE  /\ c \in DOMAIN Found /\ Found[c] \in Results
           /\ GlobalStatus(Found[c].results, Active) = "feasible"
           /\ Active # {} /\ Complete(Found[c], Active)
           /\ \A sid \in Active : /\ sid \in DOMAIN Found[c].results
                                  /\ ResultOf(Found[c].results, sid) = Found[c].results[sid]
                                  /\ TimingMet(Found[c].results[sid])
  <1>1. c \in DOMAIN Found /\ GlobalStatus(Found[c].results, Active) = "feasible"
    BY DEF Eligibles, GloballyEligible
  <1>2. Found[c] \in Results
    BY <1>1, FoundTyped
  <1> QED
    BY <1>1, <1>2, EligibleResult DEF Complete

\* No eligible result dominates itself.
LEMMA DominanceIrreflexive ==
    ASSUME EvaluatorTyped, NEW i \in Eligibles(Found, Active)
    PROVE  <<i, i>> \notin Dominance(Found, Active)
  <1>1. i \in DOMAIN Found /\ Complete(Found[i], Active)
    BY EligiblesComplete
  <1> QED
    BY <1>1, DominanceRelates, McmmAsymmetric

\* Among eligible results that are told apart dominance is a strict order.
LEMMA DominanceOrders ==
    ASSUME EvaluatorTyped, ResultsToldApart
    PROVE  Before(Dominance(Found, Active), Eligibles(Found, Active))
  <1> DEFINE E == Eligibles(Found, Active)
             D == Dominance(Found, Active)
  <1>1. \A i, j \in E : <<i, j>> \in D <=> McmmDominates(Found[i], Found[j], Active)
    BY DominanceRelates, EligiblesComplete
  <1>2. \A i \in E : Complete(Found[i], Active)
    BY EligiblesComplete
  <1>t. \A i, j \in E : ToldApartIn(Found[i], Found[j], Active)
    BY DEF ResultsToldApart, ToldApartIn
  <1> HIDE DEF E, D
  <1>3. ASSUME NEW i \in E, NEW j \in E, <<i, j>> \in D  PROVE <<j, i>> \notin D
    BY <1>1, <1>2, <1>3, McmmAsymmetric
  <1>4. ASSUME NEW i \in E, NEW j \in E, NEW k \in E, <<i, j>> \in D, <<j, k>> \in D
        PROVE  <<i, k>> \in D
    BY <1>1, <1>2, <1>t, <1>4, McmmTransitive
  <1>5. Before(D, E)
    BY <1>3, <1>4 DEF Before
  <1> QED
    BY <1>5 DEF D, E

\* So the front of the run is one.
LEMMA ParetoMembersFront ==
    ASSUME EvaluatorTyped
    PROVE  FrontOf(ParetoMembers, Eligibles(Found, Active), Dominance(Found, Active))
  BY FoundTyped, DominanceIrreflexive, FrontUndominated DEF ParetoMembers

\* For any results, any tolerance and however the calls interleaved: no member of
\* the front over all scenarios dominates another, whoever is left out is
\* dominated by someone, and unless the tolerance blurs reported values the front
\* is exactly the undominated candidates (aggregate.py:561).
THEOREM FrontTheorem == Spec => []FrontExact
  <1>1. EvaluatorInv => FrontExact
    <2> SUFFICES ASSUME EvaluatorInv  PROVE FrontExact
      OBVIOUS
    <2> DEFINE E == Eligibles(Found, Active)
               D == Dominance(Found, Active)
    <2>1. EvaluatorTyped
      BY DEF EvaluatorInv
    <2>2. FrontOf(ParetoMembers, E, D)
      BY <2>1, ParetoMembersFront
    <2>3. E \subseteq DOMAIN Found
      BY DEF Eligibles
    <2>4. \A i, j \in DOMAIN Found : <<i, j>> \in D <=> McmmDominates(Found[i], Found[j], Active)
      BY DominanceRelates
    <2>5. \A i, j \in DOMAIN Found : McmmDominates(Found[i], Found[j], Active) => i \in E
      BY DEF McmmDominates, Eligibles
    <2>6. ASSUME ResultsToldApart
          PROVE  /\ ParetoMembers = {i \in E : \A j \in E : <<j, i>> \notin D}
                 /\ \A i \in E \ ParetoMembers : \E j \in ParetoMembers : <<j, i>> \in D
      BY <2>1, <2>2, <2>6, DominanceOrders DEF FrontOf, Undominated, Covers
    <2> HIDE DEF E, D
    <2>7. /\ \A c, d \in ParetoMembers : ~McmmDominates(Found[c], Found[d], Active)
          /\ \A c \in E \ ParetoMembers :
                \E d \in DOMAIN Found : McmmDominates(Found[d], Found[c], Active)
      <3>1. ParetoMembers \subseteq E /\ \A i, j \in ParetoMembers : <<i, j>> \notin D
        BY <2>2 DEF FrontOf
      <3>2. \A i \in E \ ParetoMembers : \E j \in E : <<j, i>> \in D
        BY <2>2 DEF FrontOf
      <3> QED
        BY <2>3, <2>4, <3>1, <3>2
    <2>8. ASSUME ResultsToldApart
          PROVE  /\ ParetoMembers = {c \in E :
                        \A d \in DOMAIN Found : ~McmmDominates(Found[d], Found[c], Active)}
                 /\ \A c \in E \ ParetoMembers :
                        \E d \in ParetoMembers : McmmDominates(Found[d], Found[c], Active)
      <3>1. ParetoMembers \subseteq E
        BY <2>2 DEF FrontOf
      <3> QED
        BY <2>3, <2>4, <2>5, <2>6, <2>8, <3>1
    <2> QED
      BY <2>7, <2>8 DEF FrontExact, E
  <1> QED
    BY <1>1, EvaluatorInvariant, PTL

-----------------------------------------------------------------------------
(* The search for the best front member.                                   *)

\* The best member with an id below each of the first n numbers.
BestScan(found, front, active, best, n) ==
    best = [k \in 0..n |-> IF k = 0 THEN NoId
                           ELSE McmmKeep(found, front, best[k - 1], k - 1, active)]

\* The loop of max() has a run of every length.
LEMMA BestScanExists ==
    ASSUME NEW found, NEW front, NEW active, NEW n \in Nat
    PROVE  \E best : BestScan(found, front, active, best, n)
  <1> DEFINE P == {m \in Nat : \E best : BestScan(found, front, active, best, m)}
  <1>1. 0 \in P
    <2>1. BestScan(found, front, active, [k \in 0..0 |-> NoId], 0)
      BY DEF BestScan
    <2> QED
      BY <2>1
  <1>2. ASSUME NEW m \in Nat, m \in P  PROVE m + 1 \in P
    <2>1. PICK best : BestScan(found, front, active, best, m)
      BY <1>2
    <2> DEFINE step(f, k) == IF k = 0 THEN NoId
                             ELSE McmmKeep(found, front, f[k - 1], k - 1, active)
               more == [k \in 0..(m + 1) |-> IF k = m + 1
                                             THEN McmmKeep(found, front, best[m], m, active)
                                             ELSE best[k]]
    <2>2. best = [k \in 0..m |-> step(best, k)]
      BY <2>1 DEF BestScan
    <2>3. ASSUME NEW k \in 0..(m + 1)  PROVE more[k] = step(more, k)
      <3>1. CASE k = m + 1
        <4>1. k # 0 /\ k - 1 = m /\ m \in 0..(m + 1) /\ m # m + 1
          BY <3>1
        <4>2. more[k - 1] = best[m] /\ more[k] = McmmKeep(found, front, best[m], k - 1, active)
          BY <3>1, <4>1
        <4> QED
          BY <4>1, <4>2
      <3>2. CASE k # m + 1
        <4>1. k \in 0..m /\ (k # 0 => k - 1 \in 0..(m + 1) /\ k - 1 # m + 1)
          BY <2>3, <3>2
        <4>2. more[k] = best[k] /\ (k # 0 => more[k - 1] = best[k - 1])
          BY <2>3, <3>2, <4>1
        <4>3. best[k] = step(best, k)
          BY <2>2, <4>1
        <4> HIDE DEF more
        <4> QED
          BY <4>2, <4>3
      <3> QED
        BY <3>1, <3>2
    <2>4. more = [k \in 0..(m + 1) |-> more[k]]
      OBVIOUS
    <2> HIDE DEF more
    <2>5. BestScan(found, front, active, more, m + 1)
      BY <2>3, <2>4 DEF BestScan
    <2> QED
      BY <2>5
  <1> HIDE DEF P
  <1>3. n \in P
    BY <1>1, <1>2, SetInduction
  <1> QED
    BY <1>3 DEF P

\* The best member is the end of such a run.
LEMMA McmmBestIsScan ==
    ASSUME NEW found, NEW front, NEW active, Ids(found) \in Nat
    PROVE  \E best : /\ BestScan(found, front, active, best, Ids(found))
                     /\ McmmBest(found, front, active) = best[Ids(found)]
  <1> DEFINE n == Ids(found)
  <1>0. n \in Nat
    OBVIOUS
  <1> HIDE DEF n
  <1>e. \E f : BestScan(found, front, active, f, n)
    BY <1>0, BestScanExists
  <1>1. \E f : f = [k \in 0..n |-> IF k = 0 THEN NoId
                                    ELSE McmmKeep(found, front, f[k - 1], k - 1, active)]
    BY <1>e DEF BestScan
  <1> DEFINE best[k \in 0..n] ==
                IF k = 0 THEN NoId ELSE McmmKeep(found, front, best[k - 1], k - 1, active)
  <1>2. best = [k \in 0..n |-> IF k = 0 THEN NoId
                                ELSE McmmKeep(found, front, best[k - 1], k - 1, active)]
    BY <1>1
  <1>3. McmmBest(found, front, active) = best[n]
    BY DEF McmmBest, n
  <1> HIDE DEF best
  <1>4. BestScan(found, front, active, best, n)
    BY <1>2 DEF BestScan
  <1> QED
    BY <1>3, <1>4 DEF n

\* A search starts with nobody; the next best is the last one or the newcomer.
LEMMA BestScanNext ==
    ASSUME NEW found, NEW front, NEW active, NEW n \in Nat, NEW best,
           BestScan(found, front, active, best, n)
    PROVE  /\ best[0] = NoId
           /\ \A k \in Nat : k + 1 <= n =>
                 best[k + 1] = McmmKeep(found, front, best[k], k, active)
  <1> DEFINE step(j) == IF j = 0 THEN NoId
                        ELSE McmmKeep(found, front, best[j - 1], j - 1, active)
  <1>1. best = [j \in 0..n |-> step(j)]
    BY DEF BestScan
  <1>2. \A j \in 0..n : best[j] = step(j)
    BY <1>1
  <1>3. best[0] = NoId
    BY <1>2
  <1>4. ASSUME NEW k \in Nat, k + 1 <= n
        PROVE  best[k + 1] = McmmKeep(found, front, best[k], k, active)
    <2>1. k + 1 \in 0..n /\ k + 1 # 0 /\ (k + 1) - 1 = k
      BY <1>4
    <2> QED
      BY <1>2, <2>1
  <1> QED
    BY <1>3, <1>4

\* The best of some members is one of them.
LEMMA McmmBestIsMember ==
    ASSUME NEW found, NEW front, NEW active, Ids(found) \in Nat,
           front \subseteq Nat, front # {}, \A id \in front : id < Ids(found)
    PROVE  McmmBest(found, front, active) \in front
  <1> DEFINE n == Ids(found)
  <1>1. PICK best : /\ BestScan(found, front, active, best, n)
                    /\ McmmBest(found, front, active) = best[n]
    BY McmmBestIsScan
  <1>2. n \in Nat /\ \A id \in front : id < n
    OBVIOUS
  <1> HIDE DEF n
  <1>3. best[0] = NoId /\ \A k \in Nat : k + 1 <= n =>
                             best[k + 1] = McmmKeep(found, front, best[k], k, active)
    BY <1>1, <1>2, BestScanNext
  <1> DEFINE Held(k) == /\ best[k] \in front \cup {NoId}
                        /\ best[k] = NoId => \A j \in front : ~(j < k)
             P == {k \in Nat : k <= n => Held(k)}
  <1>4. 0 \in P
    BY <1>3
  <1>5. ASSUME NEW k \in Nat, k \in P  PROVE k + 1 \in P
    <2> SUFFICES ASSUME k + 1 <= n  PROVE Held(k + 1)
      OBVIOUS
    <2>1. best[k + 1] = McmmKeep(found, front, best[k], k, active)
      BY <1>3
    <2>2. Held(k)
      BY <1>2, <1>5
    <2>3. CASE best[k + 1] = k /\ k \in front
      BY <2>3 DEF NoId
    <2>4. CASE best[k + 1] = best[k] /\ (k \in front => best[k] # NoId)
      <3>1. \A j \in front : j < k + 1 => j < k \/ j = k
        OBVIOUS
      <3> QED
        BY <2>2, <2>4, <3>1
    <2> QED
      BY <2>1, <2>3, <2>4 DEF McmmKeep
  <1> HIDE DEF P
  <1>6. n \in P
    BY <1>2, <1>4, <1>5, SetInduction
  <1>7. Held(n)
    BY <1>2, <1>6 DEF P
  <1> QED
    BY <1>1, <1>2, <1>7

\* What a consistent comparison says of verdicts taken one by one.
LEMMA OrdersPairs ==
    ASSUME NEW V, NEW M, Orders(V, M), NEW i \in M, NEW j \in M
    PROVE  /\ V[i][j] \in {-1, 0, 1} /\ V[i][i] <= 0
           /\ V[i][j] >= 0 => V[j][i] <= 0
           /\ \A k \in M : V[i][j] <= 0 /\ V[j][k] <= 0 => V[i][k] <= 0
  <1>1. /\ V[i][j] \in {-1, 0, 1} /\ V[j][i] = -V[i][j]
        /\ V[i][i] \in {-1, 0, 1} /\ V[i][i] = -V[i][i]
    BY DEF Orders
  <1>2. \A k \in M : V[i][j] <= 0 /\ V[j][k] <= 0 => V[i][k] <= 0
    BY DEF Orders
  <1> QED
    BY <1>1, <1>2

\* The comparison as such a function.
McmmPreference(found, M, active) ==
    [i \in M |-> [j \in M |-> McmmPriority(found[i], found[j], active)]]

\* What an order says that never contradicts the comparison.
LEMMA CoarserPairs ==
    ASSUME NEW found, NEW M, NEW active, NEW V,
           Coarser(V, McmmPreference(found, M, active), M), NEW i \in M, NEW j \in M
    PROVE  /\ McmmPriority(found[i], found[j], active) > 0 => V[i][j] >= 0
           /\ ~(McmmPriority(found[i], found[j], active) > 0) => V[i][j] <= 0
  BY DEF Coarser, McmmPreference

\* An order that never contradicts the comparison puts no member before the best.
LEMMA McmmBestIsBest ==
    ASSUME NEW found, NEW front, NEW active, Ids(found) \in Nat,
           front \subseteq Nat, \A id \in front : id < Ids(found),
           NEW V, Orders(V, front), Coarser(V, McmmPreference(found, front, active), front),
           NEW i \in front
    PROVE  V[i][McmmBest(found, front, active)] <= 0
  <1> DEFINE n == Ids(found)
  <1>1. PICK best : /\ BestScan(found, front, active, best, n)
                    /\ McmmBest(found, front, active) = best[n]
    BY McmmBestIsScan
  <1>2. n \in Nat /\ \A id \in front : id < n
    OBVIOUS
  <1> HIDE DEF n
  <1>3. best[0] = NoId /\ \A k \in Nat : k + 1 <= n =>
                             best[k + 1] = McmmKeep(found, front, best[k], k, active)
    BY <1>1, <1>2, BestScanNext
  <1> DEFINE Held(k) == /\ best[k] \in front \cup {NoId}
                        /\ \A j \in front : j < k => best[k] # NoId /\ V[j][best[k]] <= 0
             P == {k \in Nat : k <= n => Held(k)}
  <1>4. 0 \in P
    BY <1>3
  <1> HIDE DEF Held
  <1>5. ASSUME NEW k \in Nat, k \in P  PROVE k + 1 \in P
    <2> SUFFICES ASSUME k + 1 <= n  PROVE Held(k + 1)
      OBVIOUS
    <2>1. best[k + 1] = McmmKeep(found, front, best[k], k, active)
      BY <1>3
    <2>2. /\ best[k] \in front \cup {NoId}
          /\ \A j \in front : j < k => best[k] # NoId /\ V[j][best[k]] <= 0
      <3>1. Held(k)
        BY <1>2, <1>5
      <3> QED
        BY <3>1 DEF Held
    <2>3. \A j \in front : j < k + 1 => j < k \/ j = k
      OBVIOUS
    <2>4. \/ k \in front /\ best[k + 1] = k /\ best[k] = NoId
          \/ k \in front /\ best[k + 1] = k /\ best[k] # NoId /\ V[k][best[k]] >= 0
          \/ k \in front /\ best[k + 1] = best[k] /\ best[k] # NoId /\ V[k][best[k]] <= 0
          \/ k \notin front /\ best[k + 1] = best[k]
      BY <2>1, <2>2, CoarserPairs DEF McmmKeep
    <2>5. CASE k \in front /\ best[k + 1] = k /\ best[k] = NoId
      <3>1. V[k][k] <= 0 /\ k # NoId
        BY <2>5, OrdersPairs DEF NoId
      <3>2. \A j \in front : ~(j < k)
        BY <2>2, <2>5
      <3> QED
        BY <2>3, <2>5, <3>1, <3>2 DEF Held
    <2>6. CASE k \in front /\ best[k + 1] = k /\ best[k] # NoId /\ V[k][best[k]] >= 0
      <3>1. best[k] \in front
        BY <2>2, <2>6
      <3>2. V[best[k]][k] <= 0 /\ V[k][k] <= 0 /\ k # NoId
        BY <2>6, <3>1, OrdersPairs DEF NoId
      <3>3. ASSUME NEW j \in front, j < k  PROVE V[j][k] <= 0
        <4>1. V[j][best[k]] <= 0
          BY <2>2, <3>3
        <4> QED
          BY <2>6, <3>1, <3>2, <4>1, OrdersPairs
      <3> QED
        BY <2>3, <2>6, <3>2, <3>3 DEF Held
    <2>7. CASE k \in front /\ best[k + 1] = best[k] /\ best[k] # NoId /\ V[k][best[k]] <= 0
      BY <2>2, <2>3, <2>7 DEF Held
    <2>8. CASE k \notin front /\ best[k + 1] = best[k]
      BY <2>2, <2>3, <2>8 DEF Held
    <2> QED
      BY <2>4, <2>5, <2>6, <2>7, <2>8
  <1> HIDE DEF P
  <1>6. n \in P
    BY <1>2, <1>4, <1>5, SetInduction
  <1>7. Held(n)
    BY <1>2, <1>6 DEF P
  <1> QED
    BY <1>1, <1>2, <1>7 DEF Held

-----------------------------------------------------------------------------
(* The order of the pick, among candidates whose objectives are settled.   *)

\* Candidates with a QoR in each of finitely many scenarios.
AllComplete(found, M, active) ==
    active # {} /\ IsFiniteSet(active) /\ \A i \in M : Complete(found[i], active)

\* A binding objective is a number or unknown: the worst value of the scenarios.
LEMMA ObjectiveMeasured ==
    ASSUME NEW c, NEW active, active # {}, IsFiniteSet(active), Complete(c, active),
           NEW m \in Metrics
    PROVE  /\ Objective(c.results, active, m) \in Measured
           /\ Objective(c.results, active, m) # Unknown =>
                Objective(c.results, active, m)
                  = Binding(m, {RawMetric(ResultOf(c.results, sid), m) : sid \in active})
  <1> DEFINE f == [sid \in active |-> RawMetric(ResultOf(c.results, sid), m)]
             values == {f[sid] : sid \in active}
             x == Objective(c.results, active, m)
  <1>0. NoQoR \notin QoR
    BY PlaysAssumption
  <1>1. \A sid \in active : /\ ResultOf(c.results, sid) \in QoR
                            /\ ScenarioMetric(c.results, sid, m) = f[sid]
    BY <1>0 DEF Complete, ScenarioMetric
  <1>2. \A sid \in active : f[sid] \in Measured
    BY <1>1, MetricMeasured
  <1>3. /\ {ScenarioMetric(c.results, sid, m) : sid \in active} = values
        /\ {RawMetric(ResultOf(c.results, sid), m) : sid \in active} = values
    BY <1>1
  <1>4. IsFiniteSet(values)
    BY FiniteValues
  <1> HIDE DEF f
  <1>5. values # {} /\ values \subseteq Measured
    BY <1>2
  <1> HIDE DEF values
  <1>6. x = Unknown \/ (Unknown \notin values /\ x = Binding(m, values))
    BY <1>3 DEF Objective
  <1> HIDE DEF x
  <1>7. CASE x = Unknown
    BY <1>7 DEF Measured, x
  <1>8. CASE Unknown \notin values /\ x = Binding(m, values)
    <2>1. values \subseteq Int
      BY <1>5, <1>8 DEF Measured
    <2>2. Max(values) \in values
      BY <1>4, <1>5, <2>1, MaxIsGreatest
    <2>3. Min(values) \in values
      BY <1>4, <1>5, <2>1, MinIsLeast
    <2>4. x \in values
      BY <1>8, <2>2, <2>3 DEF Binding
    <2> QED
      BY <1>3, <1>5, <1>8, <2>4 DEF x
  <1> QED
    BY <1>6, <1>7, <1>8

\* The objectives of a bucket are known for all or for none, and told apart.
SettledObjectives(found, M, active, b) ==
    \A i, j \in M :
        /\ b = "area" => AreaSources(found[i].results, active) = AreaSources(found[j].results, active)
        /\ \A m \in BucketMetrics(b) :
              LET x == Objective(found[i].results, active, m)
                  y == Objective(found[j].results, active, m)
              IN  (x = Unknown <=> y = Unknown) /\ Apart(x, y)

\* The metrics the buckets look at.
LEMMA BucketMetricsIn ==
    ASSUME NEW b \in {"timing", "quality", "area", "power"}
    PROVE  BucketMetrics(b) \subseteq Metrics
  BY DEF BucketMetrics, Metrics, TimingMetrics

\* V holds the verdicts on one objective; on one bucket.
RanksObjective(V, M, found, active, m) ==
    \A i, j \in M : V[i][j] = CmpObjective(found[i], found[j], active, m)
RanksBucket(V, M, found, active, b) ==
    \A i, j \in M : V[i][j] = CmpGlobal(b, found[i], found[j], active)

\* A settled objective orders the candidates.
LEMMA ObjectiveOrders ==
    ASSUME NEW found, NEW M, NEW active, AllComplete(found, M, active),
           NEW b \in {"timing", "quality", "area", "power"},
           SettledObjectives(found, M, active, b), NEW m \in BucketMetrics(b),
           NEW V, RanksObjective(V, M, found, active, m)
    PROVE  Orders(V, M)
  <1> DEFINE x == [i \in M |-> Objective(found[i].results, active, m)]
  <1>1. \A i \in M : x[i] = Objective(found[i].results, active, m)
    OBVIOUS
  <1> HIDE DEF x
  <1>2. \A i \in M : x[i] \in Measured
    BY <1>1, BucketMetricsIn, ObjectiveMeasured DEF AllComplete
  <1>3. \A i, j \in M : (x[i] = Unknown <=> x[j] = Unknown) /\ Apart(x[i], x[j])
    BY <1>1 DEF SettledObjectives
  <1>4. CASE m \in Minimized
    <2>1. \A i, j \in M : V[i][j] = CmpKnown(x[j], x[i])
      BY <1>1, <1>4 DEF RanksObjective, CmpObjective, CmpKnown, Gain
    <2> QED
      BY <1>2, <1>3, <2>1, KnownOrders
  <1>5. CASE m \notin Minimized
    <2>1. \A i, j \in M : V[i][j] = CmpKnown(x[i], x[j])
      BY <1>1, <1>5 DEF RanksObjective, CmpObjective, CmpKnown, Gain
    <2> QED
      BY <1>2, <1>3, <2>1, KnownOrders
  <1> QED
    BY <1>4, <1>5

\* The timing of two candidates: setup slack, then hold slack, if all are known.
LEMMA TimingVerdict ==
    ASSUME NEW a, NEW b, NEW active
    PROVE  CmpGlobalTiming(a, b, active)
             = IF \/ Objective(a.results, active, "setup_wns") = Unknown
                  \/ Objective(a.results, active, "hold_wns") = Unknown
                  \/ Objective(b.results, active, "setup_wns") = Unknown
                  \/ Objective(b.results, active, "hold_wns") = Unknown
               THEN 0
               ELSE IF CmpObjective(a, b, active, "setup_wns") # 0
               THEN CmpObjective(a, b, active, "setup_wns")
               ELSE CmpObjective(a, b, active, "hold_wns")
  <1>1. Unknown \in {Objective(c.results, active, m) : c \in {a, b},
                                                       m \in {"setup_wns", "hold_wns"}}
          <=> \/ Objective(a.results, active, "setup_wns") = Unknown
              \/ Objective(a.results, active, "hold_wns") = Unknown
              \/ Objective(b.results, active, "setup_wns") = Unknown
              \/ Objective(b.results, active, "hold_wns") = Unknown
    OBVIOUS
  <1> QED
    BY <1>1 DEF CmpGlobalTiming

\* Settled timing orders the candidates.
LEMMA GlobalTimingOrders ==
    ASSUME NEW found, NEW M, NEW active, AllComplete(found, M, active),
           SettledObjectives(found, M, active, "timing"),
           NEW V, RanksBucket(V, M, found, active, "timing")
    PROVE  Orders(V, M)
  <1> DEFINE S == [i \in M |-> [j \in M |-> CmpObjective(found[i], found[j], active, "setup_wns")]]
             H == [i \in M |-> [j \in M |-> CmpObjective(found[i], found[j], active, "hold_wns")]]
             missing(i) == \/ Objective(found[i].results, active, "setup_wns") = Unknown
                           \/ Objective(found[i].results, active, "hold_wns") = Unknown
  <1>1. /\ RanksObjective(S, M, found, active, "setup_wns")
        /\ RanksObjective(H, M, found, active, "hold_wns")
    BY DEF RanksObjective
  <1> HIDE DEF S, H
  <1>m. "setup_wns" \in BucketMetrics("timing") /\ "hold_wns" \in BucketMetrics("timing")
    BY DEF BucketMetrics
  <1>2. Orders(S, M)
    BY <1>1, <1>m, ObjectiveOrders
  <1>3. Orders(H, M)
    BY <1>1, <1>m, ObjectiveOrders
  <1>4. \A i, j \in M : missing(i) <=> missing(j)
    BY <1>m DEF SettledObjectives
  <1>5. ASSUME NEW i \in M, NEW j \in M
        PROVE  V[i][j] = IF missing(i) \/ missing(j) THEN 0
                         ELSE IF S[i][j] # 0 THEN S[i][j] ELSE H[i][j]
    <2>1. V[i][j] = CmpGlobalTiming(found[i], found[j], active)
      BY DEF CmpGlobal, RanksBucket
    <2> QED
      BY <1>1, <2>1, TimingVerdict DEF RanksObjective
  <1> HIDE DEF missing
  <1>6. CASE \E i \in M : missing(i)
    <2>1. \A i, j \in M : V[i][j] = 0
      BY <1>4, <1>5, <1>6
    <2> QED
      BY <2>1, TieOrders
  <1>7. CASE ~\E i \in M : missing(i)
    <2>1. \A i, j \in M : V[i][j] = IF S[i][j] # 0 THEN S[i][j] ELSE H[i][j]
      BY <1>5, <1>7
    <2> QED
      BY <1>2, <1>3, <2>1, ThenOrders
  <1> QED
    BY <1>6, <1>7

\* Every settled bucket orders the candidates.
LEMMA GlobalOrders ==
    ASSUME NEW found, NEW M, NEW active, AllComplete(found, M, active),
           NEW b \in Buckets, SettledObjectives(found, M, active, b),
           NEW V, RanksBucket(V, M, found, active, b)
    PROVE  Orders(V, M)
  <1>1. b \in {"timing", "quality", "area", "power"}
    BY BucketNames DEF Buckets
  <1>2. CASE b = "timing"
    BY <1>2, GlobalTimingOrders
  <1>3. CASE b = "quality"
    <2>1. RanksObjective(V, M, found, active, "constraint_quality")
      BY <1>3 DEF CmpGlobal, RanksBucket, RanksObjective
    <2>2. "constraint_quality" \in BucketMetrics(b)
      BY <1>3 DEF BucketMetrics
    <2> QED
      BY <1>1, <2>1, <2>2, ObjectiveOrders
  <1>4. CASE b = "area"
    <2>1. \A i, j \in M : AreaSources(found[i].results, active) = AreaSources(found[j].results, active)
      BY <1>4 DEF SettledObjectives
    <2>2. RanksObjective(V, M, found, active, "area")
      BY <1>4, <2>1 DEF CmpGlobal, CmpGlobalArea, RanksBucket, RanksObjective
    <2>3. "area" \in BucketMetrics(b)
      BY <1>4 DEF BucketMetrics
    <2> QED
      BY <1>1, <2>2, <2>3, ObjectiveOrders
  <1>5. CASE b = "power"
    <2>1. RanksObjective(V, M, found, active, "power")
      BY <1>5 DEF CmpGlobal, RanksBucket, RanksObjective
    <2>2. "power" \in BucketMetrics(b)
      BY <1>5 DEF BucketMetrics
    <2> QED
      BY <1>1, <2>1, <2>2, ObjectiveOrders
  <1> QED
    BY <1>1, <1>2, <1>3, <1>4, <1>5

\* So does the verdict of the first bucket that has one.
LEMMA GlobalLexical ==
    ASSUME NEW found, NEW M, NEW active, AllComplete(found, M, active),
           \A b \in Buckets : SettledObjectives(found, M, active, b),
           NEW L, \A i, j \in M : L[i][j] = CmpBuckets(found[i], found[j], active)
    PROVE  Orders(L, M)
  <1> DEFINE W == [b \in Buckets |-> [i \in M |-> [j \in M |->
                      CmpGlobal(b, found[i], found[j], active)]]]
  <1>1. \A b \in Buckets : \A i, j \in M : W[b][i][j] = CmpGlobal(b, found[i], found[j], active)
    OBVIOUS
  <1> HIDE DEF W
  <1>2. ASSUME NEW b \in Buckets  PROVE Orders(W[b], M)
    <2> DEFINE X == W[b]
    <2>1. RanksBucket(X, M, found, active, b)
      BY <1>1 DEF RanksBucket
    <2> HIDE DEF X
    <2>2. Orders(X, M)
      BY <2>1, GlobalOrders
    <2> QED
      BY <2>2 DEF X
  <1>3. ASSUME NEW i \in M, NEW j \in M
        PROVE  L[i][j] = Lexical([b \in Buckets |-> W[b][i][j]])
    <2>1. [b \in Buckets |-> W[b][i][j]]
            = [b \in Buckets |-> CmpGlobal(b, found[i], found[j], active)]
      BY <1>1
    <2> QED
      BY <2>1 DEF CmpBuckets
  <1>4. \A b \in Buckets : Orders(W[b], M)
    BY <1>2
  <1>5. RanksInTurn(L, W, M)
    BY <1>3 DEF RanksInTurn
  <1> QED
    BY <1>4, <1>5, LexicalOrders

\* What a map of slacks says of a scenario.
SlacksIn(map, sid) == IF sid \in DOMAIN map THEN map[sid] ELSE NoSlacks

\* A map as the baseline's runs fill it.
SlacksMeasured(map) ==
    \A sid \in DOMAIN map : map[sid].setup_wns \in Measured /\ map[sid].hold_wns \in Measured

\* Against slacks like these no margin is measured.
Silent(slacks) ==
    \/ slacks = NoQoR
    \/ slacks.setup_wns = Unknown \/ slacks.hold_wns = Unknown
    \/ slacks.setup_wns <= 0 \/ slacks.hold_wns <= 0

\* Whether the margin spent in a scenario is known is up to the baseline's slacks.
LEMMA ScenarioUtilizationKnown ==
    ASSUME NEW q \in QoR, q.setup_wns \in Int, q.hold_wns \in Int,
           NEW b, b.setup_wns \in Measured, b.hold_wns \in Measured
    PROVE  /\ ScenarioUtilization(q, b) \in Shares \cup {Unknown}
           /\ ScenarioUtilization(q, b) = Unknown <=> Silent(b)
  <1>0. q # NoQoR /\ q.setup_wns # Unknown /\ q.hold_wns # Unknown
    BY PlaysAssumption, SelectionAssumption
  <1> DEFINE c == [id |-> 1, qor |-> q]
             base == [id |-> 0, qor |-> b]
  <1>1. c.id # base.id /\ c.qor = q /\ base.qor = b
    OBVIOUS
  <1> HIDE DEF c, base
  <1>2. ScenarioUtilization(q, b) = Bare!Utilization(c, base)
    BY <1>0 DEF ScenarioUtilization, c, base
  <1>3. CASE Silent(b)
    BY <1>1, <1>2, <1>3 DEF Bare!Utilization, Silent, Measured
  <1>4. CASE ~Silent(b)
    <2> DEFINE s == Bare!Spent(b.setup_wns, q.setup_wns, 0)
               h == Bare!Spent(b.hold_wns, q.hold_wns, 0)
    <2>1. b.setup_wns \in Int /\ b.hold_wns \in Int
      BY <1>4 DEF Silent, Measured
    <2>2. b.setup_wns > 0 /\ b.hold_wns > 0
      BY <1>4, <2>1 DEF Silent
    <2>3. s \in Shares
      <3>1. Spent(b.setup_wns, q.setup_wns, 0) \in Shares
        BY <2>1, <2>2, SpentShare
      <3> QED
        BY <3>1 DEF Bare!Spent, Bare!Clamp, Spent, Clamp
    <2>4. h \in Shares
      <3>1. Spent(b.hold_wns, q.hold_wns, 0) \in Shares
        BY <2>1, <2>2, SpentShare
      <3> QED
        BY <3>1 DEF Bare!Spent, Bare!Clamp, Spent, Clamp
    <2>5. ScenarioUtilization(q, b) = s \/ ScenarioUtilization(q, b) = h
      BY <1>0, <1>1, <1>2, <1>4 DEF Bare!Utilization, Silent
    <2> HIDE DEF s, h
    <2>6. ScenarioUtilization(q, b) \in Shares
      BY <2>3, <2>4, <2>5
    <2> QED
      BY <1>4, <2>6, ShareKnown
  <1> QED
    BY <1>3, <1>4

\* A candidate that meets timing, measured against this map.
Weighed(c, active, map) ==
    /\ active # {} /\ IsFiniteSet(active) /\ Complete(c, active) /\ c.baseline = map /\ SlacksMeasured(map)
    /\ \A sid \in active : TimingMet(ResultOf(c.results, sid))

\* The margin it spends is a fraction, and known or not as the map has it.
LEMMA GlobalUtilizationKnown ==
    ASSUME NEW c, NEW active, NEW map, Weighed(c, active, map)
    PROVE  /\ GlobalUtilization(c, active) \in Shares \cup {Unknown}
           /\ GlobalUtilization(c, active) = Unknown
                <=> \A sid \in active : Silent(SlacksIn(map, sid))
  <1> DEFINE u == Utilizations(c, active)
             known == Range(u) \ {Unknown}
  <1>1. /\ DOMAIN u = active /\ u = [sid \in active |-> u[sid]]
        /\ \A sid \in active :
              u[sid] = ScenarioUtilization(ResultOf(c.results, sid), SlacksIn(map, sid))
    BY DEF Utilizations, SlacksIn, Weighed
  <1>2. ASSUME NEW sid \in active
        PROVE  u[sid] \in Shares \cup {Unknown} /\ (u[sid] = Unknown <=> Silent(SlacksIn(map, sid)))
    <2> DEFINE q == ResultOf(c.results, sid)
               b == SlacksIn(map, sid)
    <2>1. q \in QoR /\ TimingMet(q)
      BY DEF Weighed, Complete
    <2>2. q.setup_wns \in Int /\ q.hold_wns \in Int
      <3> HIDE DEF q
      <3> QED
        BY <2>1 DEF TimingMet, QoR, Measured
    <2>3. b.setup_wns \in Measured /\ b.hold_wns \in Measured
      BY DEF SlacksIn, SlacksMeasured, Weighed, NoSlacks, Measured
    <2>4. u[sid] = ScenarioUtilization(q, b)
      BY <1>1
    <2> HIDE DEF q, b, u
    <2>5. u[sid] \in Shares \cup {Unknown} /\ (u[sid] = Unknown <=> Silent(b))
      BY <2>1, <2>2, <2>3, <2>4, ScenarioUtilizationKnown
    <2> QED
      BY <2>5 DEF b
  <1>3. Range(u) = {u[sid] : sid \in active}
    BY <1>1 DEF Range
  <1>4. IsFiniteSet(known)
    <2>1. IsFiniteSet(active)
      BY DEF Weighed
    <2> HIDE DEF u
    <2>2. IsFiniteSet({u[sid] : sid \in active})
      BY <1>1, <2>1, FiniteValues
    <2>3. IsFiniteSet(Range(u))
      BY <1>3, <2>2
    <2> QED
      BY <2>3, FS_Subset
  <1>5. GlobalUtilization(c, active)
          = IF known = {} THEN Unknown ELSE CHOOSE x \in known : \A y \in known : ~Smaller(x, y)
    BY DEF GlobalUtilization
  <1> HIDE DEF u
  <1>6. known \subseteq Shares
    BY <1>2, <1>3
  <1>7. known = {} <=> \A sid \in active : Silent(SlacksIn(map, sid))
    BY <1>2, <1>3
  <1> HIDE DEF known
  <1>8. known # {} => GlobalUtilization(c, active) \in Shares
    BY <1>4, <1>5, <1>6, GreatestShare
  <1> QED
    BY <1>5, <1>7, <1>8, ShareKnown

\* Less margin spent, where the comparison tells, then the smaller id.
TieBreak(a, b, active) ==
    LET margin == CmpShare(GlobalUtilization(a, active), GlobalUtilization(b, active))
    IN  IF margin # 0 THEN margin ELSE Sign(b.id - a.id, 0)

\* V holds the verdicts of the tie-break.
RanksTies(V, M, found, active) ==
    \A i, j \in M : V[i][j] = TieBreak(found[i], found[j], active)

\* The margins are not blurred.
SettledMargins(found, M, active) ==
    \A i, j \in M : SharesApart(GlobalUtilization(found[i], active),
                                GlobalUtilization(found[j], active))

\* Candidates by id, all weighed against one map.
AllWeighed(found, M, active, map) ==
    /\ M \subseteq Nat
    /\ \A i \in M : Weighed(found[i], active, map) /\ found[i].id = i

\* The tie-break orders candidates weighed against one map.
LEMMA TiesOrder ==
    ASSUME NEW found, NEW M, NEW active, NEW map, AllWeighed(found, M, active, map),
           SettledMargins(found, M, active), NEW V, RanksTies(V, M, found, active)
    PROVE  Orders(V, M)
  <1> DEFINE u == [i \in M |-> GlobalUtilization(found[i], active)]
             W == [i \in M |-> [j \in M |-> Sign(j - i, 0)]]
             S == [i \in M |-> [j \in M |-> CmpShare(u[i], u[j])]]
             ids == [i \in M |-> i]
             silent == \A sid \in active : Silent(SlacksIn(map, sid))
  <1>1. \A i \in M : u[i] = GlobalUtilization(found[i], active)
    OBVIOUS
  <1>2. ASSUME NEW i \in M  PROVE u[i] \in Shares \cup {Unknown} /\ (u[i] = Unknown <=> silent)
    <2>1. Weighed(found[i], active, map)
      BY DEF AllWeighed
    <2> HIDE DEF u
    <2> QED
      BY <1>1, <2>1, GlobalUtilizationKnown
  <1> HIDE DEF u, silent
  <1>3. \A i, j \in M : W[i][j] = Sign(j - i, 0) /\ S[i][j] = CmpShare(u[i], u[j])
    OBVIOUS
  <1> HIDE DEF W, S
  <1>4. Orders(W, M)
    <2>1. \A i \in M : ids[i] = i /\ ids[i] \in Int
      BY DEF AllWeighed
    <2> HIDE DEF ids
    <2>2. \A i, j \in M : W[i][j] = Sign(ids[j] - ids[i], 0)
      BY <1>3, <2>1
    <2> QED
      BY <2>1, <2>2, NumbersOrder
  <1>5. \A i, j \in M : V[i][j] = IF S[i][j] # 0 THEN S[i][j] ELSE W[i][j]
    BY <1>1, <1>3 DEF RanksTies, TieBreak, AllWeighed
  <1>6. Orders(S, M)
    <2>1. CASE silent
      <3>1. \A i, j \in M : S[i][j] = 0
        BY <1>2, <1>3, <2>1 DEF CmpShare
      <3> QED
        BY <3>1, TieOrders
    <2>2. CASE ~silent
      <3>1. SharesTold(u, M)
        BY <1>1, <1>2, <2>2 DEF SharesTold, SettledMargins
      <3> QED
        BY <1>3, <3>1, SharesOrder
    <2> QED
      BY <2>1, <2>2
  <1> QED
    BY <1>4, <1>5, <1>6, ThenOrders

\* The priority comparison orders candidates weighed against one map whose
\* objectives and margins are settled.
LEMMA McmmPriorityOrders ==
    ASSUME NEW found, NEW M, NEW active, NEW map, AllWeighed(found, M, active, map),
           active # {}, IsFiniteSet(active),
           \A b \in Buckets : SettledObjectives(found, M, active, b),
           SettledMargins(found, M, active),
           NEW V, \A i, j \in M : V[i][j] = McmmPriority(found[i], found[j], active)
    PROVE  Orders(V, M)
  <1> DEFINE L == [i \in M |-> [j \in M |-> CmpBuckets(found[i], found[j], active)]]
             T == [i \in M |-> [j \in M |-> TieBreak(found[i], found[j], active)]]
  <1>1. \A i, j \in M : /\ L[i][j] = CmpBuckets(found[i], found[j], active)
                        /\ T[i][j] = TieBreak(found[i], found[j], active)
    OBVIOUS
  <1> HIDE DEF L, T
  <1>2. Orders(L, M)
    <2>1. AllComplete(found, M, active)
      BY DEF AllComplete, AllWeighed, Weighed
    <2>2. \A i, j \in M : L[i][j] = CmpBuckets(found[i], found[j], active)
      BY <1>1
    <2> QED
      BY <2>1, <2>2, GlobalLexical
  <1>3. Orders(T, M)
    <2>1. RanksTies(T, M, found, active)
      BY <1>1 DEF RanksTies
    <2> QED
      BY <2>1, TiesOrder
  <1>4. \A i, j \in M : V[i][j] = IF L[i][j] # 0 THEN L[i][j] ELSE T[i][j]
    BY <1>1 DEF McmmPriority, TieBreak
  <1> QED
    BY <1>2, <1>3, <1>4, ThenOrders

-----------------------------------------------------------------------------
(* The final pick.                                                         *)

\* Whom it chooses from.
Pool(found, front, active) == front \cup ({0} \cap Eligibles(found, active))

\* The final pick is one of them.
LEMMA McmmFinalIsMember ==
    ASSUME NEW found, NEW front, NEW active, Ids(found) \in Nat,
           front \subseteq Nat, \A id \in front : id < Ids(found),
           McmmSelectFinal(found, front, active) # NoId
    PROVE  front # {} /\ McmmSelectFinal(found, front, active) \in Pool(found, front, active)
  <1>1. front # {}
    BY DEF McmmSelectFinal
  <1>2. McmmBest(found, front, active) \in front
    BY <1>1, McmmBestIsMember
  <1> QED
    BY <1>1, <1>2 DEF McmmSelectFinal, Pool

\* Whoever it may choose from, an order that never contradicts the comparison
\* puts none before its choice.
LEMMA McmmFinalNotBeaten ==
    ASSUME NEW found, NEW front, NEW active, Ids(found) \in Nat,
           front \subseteq Nat, \A id \in front : id < Ids(found),
           McmmSelectFinal(found, front, active) # NoId,
           NEW M, M = Pool(found, front, active),
           NEW V, Orders(V, M), Coarser(V, McmmPreference(found, M, active), M), NEW i \in M
    PROVE  V[i][McmmSelectFinal(found, front, active)] <= 0
  <1> DEFINE best == McmmBest(found, front, active)
             final == McmmSelectFinal(found, front, active)
  <1>1. front # {} /\ front \subseteq M
    BY McmmFinalIsMember DEF Pool
  <1>2. best \in front
    BY <1>1, McmmBestIsMember
  <1>3. Orders(V, front) /\ Coarser(V, McmmPreference(found, front, active), front)
    <2>1. \A j, k \in front : V[j][k] = V[j][k]
      OBVIOUS
    <2>2. Orders(V, front)
      BY <1>1, <2>1, OrdersFewer
    <2>3. ASSUME NEW j \in front, NEW k \in front
          PROVE  /\ McmmPriority(found[j], found[k], active) > 0 => V[j][k] >= 0
                 /\ ~(McmmPriority(found[j], found[k], active) > 0) => V[j][k] <= 0
      BY <1>1, CoarserPairs
    <2>4. Coarser(V, McmmPreference(found, front, active), front)
      BY <2>3 DEF Coarser, McmmPreference
    <2> QED
      BY <2>2, <2>4
  <1>4. \A j \in front : V[j][best] <= 0
    BY <1>3, McmmBestIsBest
  <1>5. final = IF 0 \in Eligibles(found, active) \ front
                   /\ McmmPriority(found[0], found[best], active) > 0
                THEN 0 ELSE best
    BY <1>1 DEF McmmSelectFinal
  <1>6. 0 \in M =>
            /\ McmmPriority(found[0], found[best], active) > 0 => V[0][best] >= 0
            /\ ~(McmmPriority(found[0], found[best], active) > 0) => V[0][best] <= 0
    BY <1>1, <1>2, CoarserPairs
  <1>7. 0 \in Eligibles(found, active) => 0 \in M
    BY DEF Pool
  <1>8. i \in front \/ (i = 0 /\ 0 \in Eligibles(found, active) \ front)
    BY DEF Pool
  <1> HIDE DEF best, final
  <1>9. CASE 0 \in Eligibles(found, active) \ front /\ final = 0 /\ V[0][best] >= 0
    <2>1. final = 0 /\ 0 \in M /\ best \in M
      BY <1>1, <1>2, <1>7, <1>9
    <2>2. V[best][0] <= 0 /\ V[0][0] <= 0
      BY <1>9, <2>1, OrdersPairs
    <2>3. CASE i \in front
      <3>1. V[i][best] <= 0
        BY <1>4, <2>3
      <3> QED
        BY <2>1, <2>2, <3>1, OrdersPairs DEF final
    <2> QED
      BY <1>8, <2>1, <2>2, <2>3 DEF final
  <1>10. CASE /\ final = best
              /\ 0 \in Eligibles(found, active) \ front => V[0][best] <= 0
    <2>1. CASE i \in front
      BY <1>4, <1>10, <2>1 DEF final
    <2> QED
      BY <1>8, <1>10, <2>1 DEF final
  <1> QED
    BY <1>5, <1>6, <1>7, <1>9, <1>10

\* With timing first, who is ahead in timing is preferred.
LEMMA TimingLeads ==
    ASSUME TimingFirst, NEW found, NEW M, NEW active,
           NEW V, RanksBucket(V, M, found, active, "timing"), Orders(V, M)
    PROVE  Coarser(V, McmmPreference(found, M, active), M)
  <1>1. ASSUME NEW i \in M, NEW j \in M
        PROVE  /\ McmmPriority(found[i], found[j], active) > 0 => V[i][j] >= 0
               /\ ~(McmmPriority(found[i], found[j], active) > 0) => V[i][j] <= 0
    <2> DEFINE verdicts == [bucket \in Buckets |-> CmpGlobal(bucket, found[i], found[j], active)]
    <2>1. Buckets # {} /\ First(Buckets) = "timing" /\ "timing" \in Buckets
      BY FirstIsFirst DEF TimingFirst
    <2>2. V[i][j] = verdicts["timing"] /\ V[i][j] \in {-1, 0, 1}
      BY <2>1, OrdersPairs DEF RanksBucket
    <2>3. CmpBuckets(found[i], found[j], active) = Lexical(verdicts)
      BY DEF CmpBuckets
    <2> HIDE DEF verdicts
    <2>4. CASE V[i][j] = 0
      BY <2>4
    <2>5. CASE V[i][j] # 0
      <3>1. Lexical(verdicts) = V[i][j]
        BY <2>1, <2>2, <2>5, LeadDecides
      <3>2. McmmPriority(found[i], found[j], active) = V[i][j]
        BY <2>3, <2>5, <3>1 DEF McmmPriority
      <3> QED
        BY <2>2, <3>2
    <2> QED
      BY <2>4, <2>5
  <1> QED
    BY <1>1 DEF Coarser, McmmPreference

\* When the baseline was evaluated, the eligible results are weighed against what
\* it measured.
LEMMA EligiblesWeighed ==
    ASSUME EvaluatorInv, Returned(0)
    PROVE  AllWeighed(Found, Eligibles(Found, Active), Active, baselineBy.map)
  <1> DEFINE map == baselineBy.map
  <1>1. EvaluatorTyped
    BY DEF EvaluatorInv
  <1>2. map = MeasuredSlacks(outcome[0].results)
        /\ \A c \in Candidates : Returned(c) => outcome[c].baseline = map
    BY DEF EvaluatorInv, BaselineFixed
  <1>3. SlacksMeasured(map)
    <2> SUFFICES ASSUME NEW sid \in DOMAIN map
                 PROVE  map[sid].setup_wns \in Measured /\ map[sid].hold_wns \in Measured
      BY DEF SlacksMeasured
    <2> DEFINE results == outcome[0].results
    <2>1. Reported(0, results)
      BY <1>1, BaselineIsCandidate DEF EvaluatorTyped, OutcomeTyped
    <2>2. /\ sid \in DOMAIN results /\ results[sid] # NoQoR
          /\ map[sid] = Slacks(results[sid])
      BY <1>2 DEF MeasuredSlacks
    <2> HIDE DEF map, results
    <2>3. results[sid] \in QoR
      BY <2>1, <2>2 DEF Reported
    <2> QED
      BY <2>2, <2>3 DEF Slacks, QoR
  <1> HIDE DEF map
  <1>4. IsFiniteSet(Active)
    BY <1>1, PlaysAssumption DEF EvaluatorTyped, Active
  <1>5. ASSUME NEW c \in Eligibles(Found, Active)
        PROVE  Weighed(Found[c], Active, map) /\ Found[c].id = c /\ c \in Nat
    <2> DEFINE r == Found[c]
    <2>1. /\ c \in DOMAIN Found /\ r \in Results /\ Active # {} /\ Complete(r, Active)
          /\ \A sid \in Active : TimingMet(ResultOf(r.results, sid))
      BY <1>1, EligiblesComplete
    <2>2. /\ c \in Candidates /\ c \in Nat /\ r = outcome[c] /\ r.id = c /\ Returned(c)
      BY <1>1, <2>1, FoundTyped
    <2>3. r.baseline = map
      BY <1>2, <2>2
    <2> HIDE DEF r
    <2>6. Weighed(r, Active, map)
      BY <1>3, <1>4, <2>1, <2>3 DEF Weighed
    <2> QED
      BY <2>2, <2>6 DEF r
  <1>6. AllWeighed(Found, Eligibles(Found, Active), Active, map)
    BY <1>5 DEF AllWeighed
  <1> QED
    BY <1>6 DEF map

\* Slacks of an eligible candidate are known in every scenario, so the binding ones
\* are; the worst setup slack is the binding one.
LEMMA WorstSetupBinds ==
    ASSUME EvaluatorTyped, NEW c \in Eligibles(Found, Active)
    PROVE  /\ WorstSetup(Found[c]) = Objective(Found[c].results, Active, "setup_wns")
           /\ WorstSetup(Found[c]) \in Int
           /\ Objective(Found[c].results, Active, "hold_wns") # Unknown
  <1> DEFINE r == Found[c]
             values(m) == {RawMetric(ResultOf(r.results, sid), m) : sid \in Active}
  <1>1. "setup_wns" \in Metrics /\ "setup_wns" \notin Minimized /\ "hold_wns" \in Metrics
    BY DEF Metrics, TimingMetrics, Minimized
  <1>2. /\ Active # {} /\ Complete(r, Active)
        /\ \A sid \in Active : /\ ResultOf(r.results, sid) = r.results[sid]
                               /\ TimingMet(r.results[sid])
    BY EligiblesComplete
  <1>3. IsFiniteSet(Active)
    BY PlaysAssumption DEF EvaluatorTyped, Active
  <1>0. NoQoR \notin QoR
    BY PlaysAssumption
  <1> HIDE DEF r
  <1>4. \A sid \in Active : /\ ResultOf(r.results, sid) \in QoR
                            /\ ResultOf(r.results, sid).setup_wns # Unknown
                            /\ ResultOf(r.results, sid).hold_wns # Unknown
    BY <1>2 DEF Complete, TimingMet
  <1>5. ASSUME NEW m \in {"setup_wns", "hold_wns"}
        PROVE  Objective(r.results, Active, m) \in Int /\ Objective(r.results, Active, m) # Unknown
               /\ Objective(r.results, Active, m) = Binding(m, values(m))
    <2>1. m \in Metrics /\ m # "area"
      BY <1>1
    <2>2. \A sid \in Active : /\ ScenarioMetric(r.results, sid, m) = RawMetric(ResultOf(r.results, sid), m)
                              /\ RawMetric(ResultOf(r.results, sid), m) # Unknown
                              /\ RawMetric(ResultOf(r.results, sid), m) \in Int
      <3> SUFFICES ASSUME NEW sid \in Active
                   PROVE  /\ ScenarioMetric(r.results, sid, m) = RawMetric(ResultOf(r.results, sid), m)
                          /\ RawMetric(ResultOf(r.results, sid), m) # Unknown
                          /\ RawMetric(ResultOf(r.results, sid), m) \in Int
        OBVIOUS
      <3>1. ScenarioMetric(r.results, sid, m) = RawMetric(ResultOf(r.results, sid), m)
        BY <1>0, <1>4 DEF ScenarioMetric
      <3>2. RawMetric(ResultOf(r.results, sid), m) # Unknown
        BY <1>4 DEF RawMetric
      <3>3. RawMetric(ResultOf(r.results, sid), m) \in Measured
        BY <1>4, <2>1, MetricMeasured
      <3> QED
        BY <3>1, <3>2, <3>3 DEF Measured
    <2>3. {ScenarioMetric(r.results, sid, m) : sid \in Active} = values(m)
      BY <2>2
    <2>4. values(m) # {} /\ Unknown \notin values(m) /\ values(m) \subseteq Int
      BY <1>2, <2>2
    <2> HIDE DEF values
    <2>5. Objective(r.results, Active, m) = Binding(m, values(m))
      BY <2>1, <2>3, <2>4 DEF Objective
    <2>6. Objective(r.results, Active, m) = Min(values(m))
      BY <2>5 DEF Binding, Minimized
    <2>7. IsFiniteSet(values(m))
      <3> DEFINE f == [sid \in Active |-> RawMetric(ResultOf(r.results, sid), m)]
      <3>1. IsFiniteSet({f[sid] : sid \in Active})
        BY <1>3, FiniteValues
      <3> QED
        BY <3>1 DEF values
    <2>8. Objective(r.results, Active, m) \in values(m)
      BY <2>4, <2>6, <2>7, MinIsLeast
    <2> QED
      BY <2>4, <2>5, <2>8
  <1>6. values("setup_wns") = {r.results[sid].setup_wns : sid \in Active}
    BY <1>2 DEF RawMetric
  <1> HIDE DEF values
  <1>7. WorstSetup(r) = Min(values("setup_wns"))
    BY <1>6 DEF WorstSetup
  <1>8. Binding("setup_wns", values("setup_wns")) = Min(values("setup_wns"))
    BY <1>1 DEF Binding
  <1> QED
    BY <1>5, <1>7, <1>8 DEF r

\* Who is not behind in settled timing has no worse setup slack.
LEMMA TimingSlack ==
    ASSUME EvaluatorTyped, NEW c \in Eligibles(Found, Active),
           NEW d \in Eligibles(Found, Active),
           Apart(Objective(Found[c].results, Active, "setup_wns"),
                 Objective(Found[d].results, Active, "setup_wns")),
           CmpGlobalTiming(Found[c], Found[d], Active) <= 0
    PROVE  WorstSetup(Found[c]) <= WorstSetup(Found[d])
  <1> DEFINE x == WorstSetup(Found[c])
             y == WorstSetup(Found[d])
  <1>1. /\ x = Objective(Found[c].results, Active, "setup_wns") /\ x \in Int
        /\ Objective(Found[c].results, Active, "hold_wns") # Unknown
    BY WorstSetupBinds
  <1>2. /\ y = Objective(Found[d].results, Active, "setup_wns") /\ y \in Int
        /\ Objective(Found[d].results, Active, "hold_wns") # Unknown
    BY WorstSetupBinds
  <1>3. x # Unknown /\ y # Unknown
    BY <1>1, <1>2, SelectionAssumption
  <1>4. Apart(x, y)
    BY <1>1, <1>2
  <1> HIDE DEF x, y
  <1>5. CmpObjective(Found[c], Found[d], Active, "setup_wns") = Sign(x - y, Eps)
    BY <1>1, <1>2, <1>3 DEF CmpObjective, Gain, Minimized
  <1>6. Sign(x - y, Eps) = Sign(x - y, 0)
    BY <1>1, <1>2, <1>4, ApartExact
  <1>7. x > y => Sign(x - y, Eps) = 1
    BY <1>1, <1>2, <1>6 DEF Sign
  <1>8. x > y => CmpGlobalTiming(Found[c], Found[d], Active) = 1
    BY <1>1, <1>2, <1>3, <1>5, <1>7, TimingVerdict
  <1>9. x <= y
    BY <1>1, <1>2, <1>8
  <1> QED
    BY <1>9 DEF x, y

\* The pool of the run, as the lemmas on the final pick have it.
LEMMA FinalPoolIs ==
    ASSUME EvaluatorTyped, Final # NoId
    PROVE  /\ FinalPool = Pool(Found, ParetoMembers, Active)
           /\ FinalPool \subseteq Eligibles(Found, Active) /\ Final \in FinalPool
           /\ Ids(Found) \in Nat /\ ParetoMembers \subseteq Nat
           /\ \A c \in ParetoMembers : c < Ids(Found)
           /\ McmmSelectFinal(Found, ParetoMembers, Active) # NoId
           /\ AllComplete(Found, FinalPool, Active)
  <1>1. FinalPool = Pool(Found, ParetoMembers, Active)
    BY DEF FinalPool, Pool
  <1>2. ParetoMembers \subseteq Eligibles(Found, Active)
    BY ParetoMembersFront DEF FrontOf
  <1>3. Eligibles(Found, Active) \subseteq DOMAIN Found
    BY DEF Eligibles
  <1>4. /\ Ids(Found) \in Nat /\ DOMAIN Found \subseteq Nat
        /\ \A c \in DOMAIN Found : c < Ids(Found)
    BY FoundTyped
  <1>5. ParetoMembers \subseteq Nat /\ \A c \in ParetoMembers : c < Ids(Found)
    BY <1>2, <1>3, <1>4
  <1>6. McmmSelectFinal(Found, ParetoMembers, Active) # NoId
    BY DEF Final
  <1>7. Final \in FinalPool
    BY <1>1, <1>4, <1>5, <1>6, McmmFinalIsMember DEF Final
  <1>8. FinalPool \subseteq Eligibles(Found, Active)
    BY <1>2 DEF FinalPool
  <1>9. AllComplete(Found, FinalPool, Active)
    <2>1. IsFiniteSet(Active)
      BY PlaysAssumption DEF EvaluatorTyped, Active
    <2>2. \A c \in FinalPool : Complete(Found[c], Active) /\ Active # {}
      BY <1>8, EligiblesComplete
    <2> QED
      BY <1>7, <2>1, <2>2 DEF AllComplete
  <1> QED
    BY <1>1, <1>4, <1>5, <1>6, <1>7, <1>8, <1>9

\* What is selected is eligible.  With timing first, nothing it could have been has
\* a better slack in its worst scenario, if those are told apart; when the baseline
\* was evaluated and all objectives are settled nothing at all is ahead of it
\* (aggregate.py:635).
THEOREM FinalTheorem == Spec => []FinalIsBest
  <1>1. EvaluatorInv => FinalIsBest
    <2> SUFFICES ASSUME EvaluatorInv, Final # NoId  PROVE FinalIsBest
      BY DEF FinalIsBest
    <2> DEFINE E == Eligibles(Found, Active)
               M == FinalPool
    <2>1. EvaluatorTyped
      BY DEF EvaluatorInv
    <2>2. /\ M = Pool(Found, ParetoMembers, Active) /\ M \subseteq E /\ Final \in M
          /\ Ids(Found) \in Nat /\ ParetoMembers \subseteq Nat
          /\ \A c \in ParetoMembers : c < Ids(Found)
          /\ McmmSelectFinal(Found, ParetoMembers, Active) # NoId
          /\ AllComplete(Found, M, Active)
      BY <2>1, FinalPoolIs
    <2>3. \A b : ObjectivesSettled(b) => SettledObjectives(Found, M, Active, b)
      BY DEF ObjectivesSettled, SettledObjectives
    <2>4. MarginsApart => SettledMargins(Found, M, Active)
      BY DEF MarginsApart, SettledMargins
    <2> HIDE DEF M, E
    <2>5. ASSUME NEW V, Orders(V, M), Coarser(V, McmmPreference(Found, M, Active), M), NEW c \in M
          PROVE  V[c][Final] <= 0
      BY <2>2, <2>5, McmmFinalNotBeaten DEF Final
    <2>6. ASSUME TimingFirst, ObjectivesSettled("timing"), NEW c \in M
          PROVE  WorstSetup(Found[c]) <= WorstSetup(Found[Final])
      <3> DEFINE V == [i \in M |-> [j \in M |-> CmpGlobal("timing", Found[i], Found[j], Active)]]
      <3>1. RanksBucket(V, M, Found, Active, "timing")
        BY DEF RanksBucket
      <3>2. V[c][Final] = CmpGlobalTiming(Found[c], Found[Final], Active)
        BY <2>2, <2>6 DEF CmpGlobal
      <3> HIDE DEF V
      <3>3. SettledObjectives(Found, M, Active, "timing")
        BY <2>3, <2>6
      <3>4. Orders(V, M)
        BY <2>2, <3>1, <3>3, GlobalTimingOrders
      <3>5. Coarser(V, McmmPreference(Found, M, Active), M)
        BY <2>6, <3>1, <3>4, TimingLeads
      <3>6. CmpGlobalTiming(Found[c], Found[Final], Active) <= 0
        BY <2>5, <2>6, <3>2, <3>4, <3>5
      <3>7. "setup_wns" \in BucketMetrics("timing")
        BY DEF BucketMetrics
      <3>8. Apart(Objective(Found[c].results, Active, "setup_wns"),
                  Objective(Found[Final].results, Active, "setup_wns"))
        BY <2>2, <2>6, <3>3, <3>7 DEF SettledObjectives
      <3>9. c \in E /\ Final \in E
        BY <2>2, <2>6
      <3> QED
        BY <2>1, <3>6, <3>8, <3>9, TimingSlack DEF E
    <2>7. ASSUME Returned(0), \A b \in Buckets : ObjectivesSettled(b), MarginsApart, NEW c \in M
          PROVE  McmmPriority(Found[c], Found[Final], Active) <= 0
      <3> DEFINE V == [i \in M |-> [j \in M |-> McmmPriority(Found[i], Found[j], Active)]]
      <3>1. AllWeighed(Found, E, Active, baselineBy.map)
        BY <2>7, EligiblesWeighed DEF E
      <3>2. AllWeighed(Found, M, Active, baselineBy.map)
        BY <2>2, <3>1 DEF AllWeighed
      <3>3. \A i, j \in M : V[i][j] = McmmPriority(Found[i], Found[j], Active)
        OBVIOUS
      <3> HIDE DEF V
      <3>4. Active # {} /\ IsFiniteSet(Active)
        BY <2>2 DEF AllComplete
      <3>5. Orders(V, M)
        BY <2>3, <2>4, <2>7, <3>2, <3>3, <3>4, McmmPriorityOrders
      <3>6. Coarser(V, McmmPreference(Found, M, Active), M)
        <4>1. ASSUME NEW i \in M, NEW j \in M
              PROVE  /\ McmmPriority(Found[i], Found[j], Active) > 0 => V[i][j] >= 0
                     /\ ~(McmmPriority(Found[i], Found[j], Active) > 0) => V[i][j] <= 0
          <5>1. V[i][j] \in {-1, 0, 1} /\ V[i][j] = McmmPriority(Found[i], Found[j], Active)
            BY <3>3, <3>5, OrdersPairs
          <5> QED
            BY <5>1
        <4> QED
          BY <4>1 DEF Coarser, McmmPreference
      <3>7. V[c][Final] <= 0
        BY <2>5, <2>7, <3>5, <3>6
      <3> QED
        BY <2>2, <2>7, <3>3, <3>7
    <2> QED
      BY <2>2, <2>6, <2>7 DEF FinalIsBest, M, E
  <1> QED
    BY <1>1, EvaluatorInvariant, PTL

-----------------------------------------------------------------------------
(* One scenario: dominance never runs both ways and, where the tolerance   *)
(* blurs no value, composes.  The one-pass loop of pareto_front keeps a    *)
(* front in every pool and an exact one where dominance composes.          *)

\* No candidate dominates one that dominates it; in particular, none
\* dominates itself (is_dominating).
THEOREM DominanceAsymmetric ==
    ASSUME NEW a \in Arrivals, NEW b \in Arrivals, Dominates(a, b)
    PROVE  ~Dominates(b, a)
  <1>1. a.qor \in QoR /\ b.qor \in QoR
    BY PoolAssumption DEF Arrivals
  <1>2. PICK m \in Metrics : CmpMetric(m, a.qor, b.qor) = "better"
    BY DEF Dominates, SomeBetter
  <1>3. CmpMetric(m, b.qor, a.qor) = "worse"
    BY <1>1, <1>2, CmpAntisymmetric
  <1> QED
    BY <1>3 DEF Dominates, NoWorse

\* Whatever the tolerance, dominance composes among candidates whose reported
\* values it does not blur (compare_objectives, is_dominating).
THEOREM DominanceTransitive ==
    ASSUME NEW a \in Arrivals, NEW b \in Arrivals, NEW c \in Arrivals,
           ToldApart(a.qor, b.qor, Metrics), ToldApart(b.qor, c.qor, Metrics),
           ToldApart(a.qor, c.qor, Metrics),
           Dominates(a, b), Dominates(b, c)
    PROVE  Dominates(a, c)
  <1>1. a.qor \in QoR /\ b.qor \in QoR /\ c.qor \in QoR
    BY PoolAssumption DEF Arrivals
  <1>2. \A m \in Metrics : /\ CmpMetric(m, a.qor, b.qor) \in {"better", "equal"}
                           /\ CmpMetric(m, b.qor, c.qor) \in {"better", "equal"}
    BY DEF Dominates, NoWorse
  <1>3. \A m \in Metrics : /\ Apart(RawMetric(a.qor, m), RawMetric(b.qor, m))
                           /\ Apart(RawMetric(b.qor, m), RawMetric(c.qor, m))
                           /\ Apart(RawMetric(a.qor, m), RawMetric(c.qor, m))
    BY DEF ToldApart
  <1>4. \A m \in Metrics :
            /\ CmpMetric(m, a.qor, c.qor) \in {"better", "equal"}
            /\ CmpMetric(m, a.qor, b.qor) = "better" => CmpMetric(m, a.qor, c.qor) = "better"
    BY <1>1, <1>2, <1>3, CmpTransitive
  <1>5. NoWorse(a.qor, c.qor)
    BY <1>4 DEF NoWorse
  <1>6. SomeBetter(a.qor, c.qor)
    BY <1>4 DEF Dominates, SomeBetter
  <1> QED
    BY <1>5, <1>6 DEF Dominates

-----------------------------------------------------------------------------
\* The state keeps its types (pareto_front).
THEOREM LoopTypeCorrect == LoopSpec => []TypeOK
  <1>1. LoopInit => TypeOK
    BY DEF LoopInit, TypeOK, Arrivals
  <1>2. TypeOK /\ [LoopNext]_loopVars => TypeOK'
    <2> SUFFICES ASSUME TypeOK, NEW q \in QoRs, Consider(q)
                 PROVE  TypeOK'
      BY DEF LoopNext, loopVars, TypeOK
    <2>1. cands' \in Seq(Arrivals) /\ DOMAIN cands' = 1..(Len(cands) + 1)
      BY DEF Consider, TypeOK, Arrivals
    <2>2. survivors' \subseteq survivors \cup {Len(cands) + 1}
      BY DEF Consider, Admit
    <2> QED
      BY <2>1, <2>2 DEF TypeOK
  <1> QED
    BY <1>1, <1>2, PTL DEF LoopSpec

\* Positions of eligible candidates, and which dominates which.
EligibleAt(cs) == {i \in DOMAIN cs : Eligible(cs[i])}
DominanceAt(cs) == {p \in (DOMAIN cs) \X (DOMAIN cs) : Dominates(cs[p[1]], cs[p[2]])}

\* The pairs relate positions.
LEMMA DominanceAtRelates ==
    ASSUME NEW cs, NEW i \in DOMAIN cs, NEW j \in DOMAIN cs
    PROVE  <<i, j>> \in DominanceAt(cs) <=> Dominates(cs[i], cs[j])
  BY DEF DominanceAt

\* What holds of every pool, in any order of arrival: the loop keeps a front, and
\* the candidates are numbered from the baseline, 0, on.
PoolInv == /\ TypeOK
           /\ FrontOf(survivors, EligibleAt(cands), DominanceAt(cands))
           /\ \A i \in DOMAIN cands : cands[i].id = i - 1

\* A front depends on the dominance among its candidates only.
LEMMA FrontOfSame ==
    ASSUME NEW S, NEW front, NEW D, FrontOf(front, S, D),
           NEW F, \A i, j \in S : <<i, j>> \in D <=> <<i, j>> \in F
    PROVE  FrontOf(front, S, F)
  <1>1. /\ front \subseteq S /\ \A i, j \in front : <<i, j>> \notin D
        /\ \A i \in S \ front : \E j \in S : <<j, i>> \in D
        /\ Before(D, S) => front = Undominated(S, D) /\ Covers(front, S, D)
    BY DEF FrontOf
  <1>2. Before(F, S) => Before(D, S)
    BY DEF Before
  <1>3. Undominated(S, D) = Undominated(S, F)
    BY DEF Undominated
  <1>4. Covers(front, S, D) => Covers(front, S, F)
    BY <1>1 DEF Covers
  <1>5. /\ \A i, j \in front : <<i, j>> \notin F
        /\ \A i \in S \ front : \E j \in S : <<j, i>> \in F
    BY <1>1
  <1> QED
    BY <1>1, <1>2, <1>3, <1>4, <1>5 DEF FrontOf

\* One candidate more keeps it so, eligible or not.
LEMMA PoolStep ==
    ASSUME PoolInv, NEW q \in QoRs, Consider(q), TypeOK'
    PROVE  PoolInv'
  <1> DEFINE n == Len(cands) + 1
             E == EligibleAt(cands)
             D == DominanceAt(cands')
  <1>1. /\ n \in Nat /\ DOMAIN cands = 1..(n - 1) /\ DOMAIN cands' = 1..n
        /\ \A i \in 1..(n - 1) : cands'[i] = cands[i]
        /\ cands'[n] = [id |-> n - 1, qor |-> q]
    <2>1. cands \in Seq(Arrivals) /\ cands' \in Seq(Arrivals)
      BY DEF PoolInv, TypeOK
    <2>2. cands' = Append(cands, [id |-> Len(cands), qor |-> q])
      BY DEF Consider
    <2>3. n \in Nat /\ DOMAIN cands = 1..(n - 1) /\ DOMAIN cands' = 1..n
      BY <2>1, <2>2
    <2>4. \A i \in 1..(n - 1) : cands'[i] = cands[i]
      BY <2>1, <2>2
    <2>5. cands'[n] = [id |-> Len(cands), qor |-> q] /\ Len(cands) = n - 1
      BY <2>1, <2>2
    <2> QED
      BY <2>3, <2>4, <2>5
  <1>2. \A i \in 1..n : cands'[i] \in Arrivals
    <2>1. cands' \in Seq(Arrivals)
      BY DEF TypeOK
    <2> QED
      BY <1>1, <2>1
  <1>3. survivors' = Admit(cands', survivors, n)
    BY DEF Consider
  <1> HIDE DEF n
  <1>4. \A i \in 1..n : i # n => i \in 1..(n - 1)
    BY <1>1
  <1>5. n \in 1..n /\ n \notin 1..(n - 1) /\ 1..(n - 1) \subseteq 1..n
    <2>1. n \in 1..n
      <3>1. Len(cands) \in Nat
        BY DEF PoolInv, TypeOK
      <3> QED
        BY <3>1 DEF n
    <2> QED
      BY <1>1, <2>1
  <1>6. \A i, j \in 1..n : <<i, j>> \in D <=> Dominates(cands'[i], cands'[j])
    <2>1. \A i, j \in DOMAIN cands' : <<i, j>> \in D <=> Dominates(cands'[i], cands'[j])
      BY DominanceAtRelates
    <2> QED
      BY <1>1, <2>1
  <1>7. E \subseteq 1..(n - 1) /\ E = {i \in 1..(n - 1) : Eligible(cands'[i])}
    BY <1>1 DEF EligibleAt
  <1>8. FrontOf(survivors, E, D)
    <2>1. FrontOf(survivors, E, DominanceAt(cands))
      BY DEF PoolInv
    <2>2. \A i, j \in E : <<i, j>> \in DominanceAt(cands) <=> <<i, j>> \in D
      <3> SUFFICES ASSUME NEW i \in E, NEW j \in E
                   PROVE  <<i, j>> \in DominanceAt(cands) <=> <<i, j>> \in D
        OBVIOUS
      <3>1. i \in DOMAIN cands /\ j \in DOMAIN cands
        BY <1>1, <1>7
      <3>2. <<i, j>> \in DominanceAt(cands) <=> Dominates(cands[i], cands[j])
        BY <3>1, DominanceAtRelates
      <3> HIDE DEF D
      <3> QED
        BY <1>1, <1>5, <1>6, <1>7, <3>2
    <2> HIDE DEF D, E
    <2> QED
      BY <2>1, <2>2, FrontOfSame
  <1>9. <<n, n>> \notin D
    BY <1>2, <1>5, <1>6, DominanceAsymmetric
  <1>10. survivors \subseteq E
    BY <1>8 DEF FrontOf
  <1>11. FrontOf(survivors', EligibleAt(cands'), D)
    <2>1. CASE ~Eligible(cands'[n])
      <3>1. survivors' = survivors
        BY <1>3, <2>1 DEF Admit
      <3>2. EligibleAt(cands') = E
        BY <1>1, <1>4, <1>5, <1>7, <2>1 DEF EligibleAt
      <3> QED
        BY <1>8, <3>1, <3>2
    <2>2. CASE Eligible(cands'[n])
      <3>1. \A j \in survivors : /\ <<j, n>> \in D <=> Dominates(cands'[j], cands'[n])
                                 /\ <<n, j>> \in D <=> Dominates(cands'[n], cands'[j])
        BY <1>5, <1>6, <1>7, <1>10
      <3>2. survivors' = Round(survivors, n, D)
        <4> HIDE DEF D
        <4>1. {j \in survivors : /\ ~Dominates(cands'[j], cands'[n])
                                 /\ Dominates(cands'[n], cands'[j])}
                = {j \in survivors : <<j, n>> \notin D /\ <<n, j>> \in D}
          BY <3>1
        <4>2. (\E j \in survivors : Dominates(cands'[j], cands'[n]))
                <=> \E j \in survivors : <<j, n>> \in D
          BY <3>1
        <4> QED
          BY <1>3, <2>2, <4>1, <4>2 DEF Admit, Round
      <3>3. EligibleAt(cands') = E \cup {n}
        BY <1>1, <1>4, <1>5, <1>7, <2>2 DEF EligibleAt
      <3>4. n \notin E
        BY <1>5, <1>7
      <3> HIDE DEF D, E
      <3> QED
        BY <1>8, <1>9, <3>2, <3>3, <3>4, RoundKeepsFront
    <2> QED
      BY <2>1, <2>2
  <1>12. ASSUME NEW i \in DOMAIN cands'  PROVE cands'[i].id = i - 1
    BY <1>1, <1>4, <1>12 DEF PoolInv
  <1> QED
    BY <1>11, <1>12 DEF PoolInv

\* The strengthened invariant holds in every state, whatever the tolerance.
LEMMA PoolInvariant == LoopSpec => []PoolInv
  <1>1. LoopInit => PoolInv
    <2> SUFFICES ASSUME LoopInit PROVE PoolInv
      OBVIOUS
    <2>1. cands = <<>> /\ survivors = {} /\ DOMAIN cands = {}
      BY DEF LoopInit
    <2>2. EligibleAt(cands) = {}
      BY <2>1 DEF EligibleAt
    <2> QED
      BY <2>1, <2>2, EmptyFront DEF PoolInv, TypeOK, Arrivals
  <1>2. PoolInv /\ TypeOK' /\ [LoopNext]_loopVars => PoolInv'
    <2> SUFFICES ASSUME PoolInv, TypeOK', [LoopNext]_loopVars PROVE PoolInv'
      OBVIOUS
    <2>1. ASSUME NEW q \in QoRs, Consider(q) PROVE PoolInv'
      BY <2>1, PoolStep
    <2>2. CASE UNCHANGED loopVars
      BY <2>2 DEF loopVars, PoolInv, TypeOK
    <2> QED
      BY <2>1, <2>2 DEF LoopNext
  <1> QED
    BY <1>1, <1>2, LoopTypeCorrect, PTL DEF LoopSpec

\* The parts of the invariant, as the properties name them.
LEMMA PoolFront ==
    ASSUME PoolInv
    PROVE  /\ FrontOf(survivors, EligibleAt(cands), DominanceAt(cands))
           /\ EligibleAt(cands) = {i \in DOMAIN cands : Eligible(cands[i])}
           /\ \A i, j \in DOMAIN cands :
                 <<i, j>> \in DominanceAt(cands) <=> Dominates(cands[i], cands[j])
           /\ \A i, j \in DOMAIN cands :
                 Dominates(cands[i], cands[j]) => i \in EligibleAt(cands)
  <1>1. FrontOf(survivors, EligibleAt(cands), DominanceAt(cands))
    BY DEF PoolInv
  <1>2. EligibleAt(cands) = {i \in DOMAIN cands : Eligible(cands[i])}
    BY DEF EligibleAt
  <1>3. \A i, j \in DOMAIN cands : Dominates(cands[i], cands[j]) => Eligible(cands[i])
    BY DEF Dominates
  <1> QED
    BY <1>1, <1>2, <1>3, DominanceAtRelates

\* Whatever the tolerance, the loop of pareto_front keeps no candidate another one
\* it keeps dominates, and drops none that nobody dominates.
THEOREM LoopFrontIrredundant == LoopSpec => []FrontIrredundant
  <1>1. PoolInv => FrontIrredundant
    <2> SUFFICES ASSUME PoolInv PROVE FrontIrredundant
      OBVIOUS
    <2> DEFINE E == EligibleAt(cands)
               D == DominanceAt(cands)
    <2>1. /\ survivors \subseteq E /\ \A i, j \in survivors : <<i, j>> \notin D
          /\ \A i \in E \ survivors : \E j \in E : <<j, i>> \in D
      BY PoolFront DEF FrontOf
    <2> QED
      BY <2>1, PoolFront DEF FrontIrredundant, Beaten
  <1> QED
    BY <1>1, PoolInvariant, PTL

\* Where the tolerance blurs no reported value dominance is a strict order of the
\* eligible candidates.
LEMMA PoolOrders ==
    ASSUME PoolInv, AllToldApart
    PROVE  Before(DominanceAt(cands), EligibleAt(cands))
  <1> DEFINE E == EligibleAt(cands)
             D == DominanceAt(cands)
  <1>1. \A i \in E : cands[i] \in Arrivals
    <2>1. cands \in Seq(Arrivals)
      BY DEF PoolInv, TypeOK
    <2> QED
      BY <2>1 DEF EligibleAt
  <1>2. \A i, j \in E : /\ <<i, j>> \in D <=> Dominates(cands[i], cands[j])
                        /\ ToldApart(cands[i].qor, cands[j].qor, Metrics)
    BY PoolFront DEF AllToldApart
  <1> HIDE DEF E, D
  <1>3. ASSUME NEW i \in E, NEW j \in E, <<i, j>> \in D  PROVE <<j, i>> \notin D
    BY <1>1, <1>2, <1>3, DominanceAsymmetric
  <1>4. ASSUME NEW i \in E, NEW j \in E, NEW k \in E, <<i, j>> \in D, <<j, k>> \in D
        PROVE  <<i, k>> \in D
    BY <1>1, <1>2, <1>4, DominanceTransitive
  <1>5. Before(D, E)
    BY <1>3, <1>4 DEF Before
  <1> QED
    BY <1>5 DEF D, E

\* Whatever the tolerance, where it blurs no reported value the loop keeps exactly
\* the eligible candidates nothing dominates, in any order of arrival, and each
\* one it drops is dominated by a survivor.
THEOREM LoopFrontExact == LoopSpec => []FrontIsNondominated
  <1>1. PoolInv => FrontIsNondominated
    <2> SUFFICES ASSUME PoolInv, AllToldApart
                 PROVE  /\ survivors = {i \in DOMAIN cands : Eligible(cands[i]) /\ ~Beaten(i)}
                        /\ \A i \in DOMAIN cands \ survivors :
                               Eligible(cands[i])
                                   => \E j \in survivors : Dominates(cands[j], cands[i])
      BY DEF FrontIsNondominated
    <2> DEFINE E == EligibleAt(cands)
               D == DominanceAt(cands)
    <2>1. survivors = {i \in E : \A j \in E : <<j, i>> \notin D}
      BY PoolFront, PoolOrders DEF FrontOf, Undominated
    <2>2. survivors \subseteq E /\ \A k \in E \ survivors : \E j \in survivors : <<j, k>> \in D
      BY PoolFront, PoolOrders DEF FrontOf, Covers
    <2>3. survivors = {i \in DOMAIN cands : Eligible(cands[i]) /\ ~Beaten(i)}
      BY <2>1, PoolFront DEF Beaten
    <2>4. ASSUME NEW i \in DOMAIN cands \ survivors, Eligible(cands[i])
          PROVE  \E j \in survivors : Dominates(cands[j], cands[i])
      BY <2>2, <2>4, PoolFront
    <2> QED
      BY <2>3, <2>4
  <1> QED
    BY <1>1, PoolInvariant, PTL

-----------------------------------------------------------------------------
(* The final pick.                                                         *)

\* What select_final chooses from: numbered, eligible candidates.
LEMMA PoolNumbered ==
    ASSUME PoolInv, survivors # {}
    PROVE  /\ Len(cands) \in Nat /\ survivors \subseteq 1..Len(cands)
           /\ Numbered(cands, LoopPool)
  <1>1. /\ cands \in Seq(Arrivals) /\ Len(cands) \in Nat
        /\ DOMAIN cands = 1..Len(cands)
    BY DEF PoolInv, TypeOK
  <1>2. \A j \in DOMAIN cands : cands[j].id = j - 1 /\ cands[j].qor \in QoR
    <2>1. \A j \in DOMAIN cands : cands[j] \in Arrivals
      BY <1>1
    <2>2. \A j \in DOMAIN cands : cands[j].qor \in QoR
      BY <2>1, PoolAssumption DEF Arrivals
    <2> QED
      BY <2>2 DEF PoolInv
  <1>3. survivors \subseteq EligibleAt(cands)
    BY DEF PoolInv, FrontOf
  <1>4. /\ survivors \subseteq DOMAIN cands
        /\ \A j \in survivors : Eligible(cands[j])
    BY <1>3 DEF EligibleAt
  <1>5. 1 \in DOMAIN cands
    <2>1. PICK j \in survivors : TRUE
      OBVIOUS
    <2> QED
      BY <1>1, <1>4, <2>1
  <1>6. LoopPool \subseteq DOMAIN cands /\ \A j \in LoopPool : Eligible(cands[j])
    BY <1>4, <1>5 DEF LoopPool
  <1>7. LoopPool \subseteq Nat \ {0}
    BY <1>1, <1>6
  <1>8. cands[1].id = 0 /\ cands[1].qor \in QoR \cup {NoQoR}
    BY <1>2, <1>5
  <1> QED
    BY <1>1, <1>2, <1>4, <1>6, <1>7, <1>8 DEF Numbered

\* Whatever the tolerance and whatever is missing or blurred elsewhere: where the
\* pool agrees on what the leading bucket looks at, nobody is ahead of the final
\* pick in it (priority_compare, select_final).
THEOREM LoopLeadDecides == LoopSpec => []LeadingBucketDecides
  <1>1. PoolInv => LeadingBucketDecides
    <2> DEFINE lead == First(Buckets)
               V == [i \in LoopPool |-> [j \in LoopPool |->
                        CmpBucket(lead, cands[i].qor, cands[j].qor)]]
    <2> SUFFICES ASSUME PoolInv, survivors # {}, Buckets # {}, Settled(lead),
                        NEW i \in LoopPool
                 PROVE  CmpBucket(lead, cands[i].qor, cands[LoopFinal].qor) <= 0
      BY DEF LeadingBucketDecides
    <2>1. /\ Len(cands) \in Nat /\ survivors \subseteq 1..Len(cands)
          /\ Numbered(cands, LoopPool)
      BY PoolNumbered
    <2>2. lead \in Buckets
      BY FirstIsFirst
    <2>3. SettledIn(cands, LoopPool, lead)
      BY DEF Settled, SettledIn
    <2>4. \A j, k \in LoopPool : V[j][k] = CmpBucket(lead, cands[j].qor, cands[k].qor)
      OBVIOUS
    <2> HIDE DEF V, lead
    <2>5. Orders(V, LoopPool)
      BY <2>1, <2>2, <2>3, <2>4, BucketOrders
    <2>6. \A j, k \in LoopPool : V[j][k] \in {-1, 0, 1}
      BY <2>5 DEF Orders
    <2>7. ASSUME NEW j \in LoopPool, NEW k \in LoopPool, V[j][k] # 0
          PROVE  PriorityCompare(cands[j], cands[k], cands[1]) = V[j][k]
      <3> DEFINE verdicts == [b \in Buckets |-> CmpBucket(b, cands[j].qor, cands[k].qor)]
      <3>1. verdicts[lead] = V[j][k]
        BY <2>2, <2>4
      <3> HIDE DEF verdicts
      <3>2. Lexical(verdicts) = V[j][k]
        BY <2>7, <3>1, LeadDecides DEF lead
      <3> QED
        BY <2>7, <3>2 DEF PriorityCompare, verdicts
    <2>8. Coarser(V, Preference(cands, LoopPool), LoopPool)
      <3>1. \A j, k \in LoopPool :
                Preference(cands, LoopPool)[j][k] = PriorityCompare(cands[j], cands[k], cands[1])
        BY DEF Preference
      <3> SUFFICES ASSUME NEW j \in LoopPool, NEW k \in LoopPool
                   PROVE  /\ Preference(cands, LoopPool)[j][k] > 0 => V[j][k] >= 0
                          /\ ~(Preference(cands, LoopPool)[j][k] > 0) => V[j][k] <= 0
        BY DEF Coarser
      <3>2. V[j][k] = 0 \/ Preference(cands, LoopPool)[j][k] = V[j][k]
        BY <2>7, <3>1
      <3> QED
        BY <2>6, <3>2
    <2>9. LoopPool = survivors \cup {j \in {1} : Eligible(cands[j])}
      BY DEF LoopPool
    <2>10. V[i][LoopFinal] <= 0
      BY <2>1, <2>5, <2>8, <2>9, FinalNotBeaten DEF LoopFinal
    <2>11. LoopFinal \in LoopPool
      BY <2>1, <2>9, FinalIsMember DEF LoopFinal
    <2> QED
      BY <2>4, <2>10, <2>11
  <1> QED
    BY <1>1, PoolInvariant, PTL

\* Whatever the tolerance, where it blurs no reported value and all report the same
\* metrics priority_compare orders the pool, and no member of it, the baseline
\* included, is preferred to the candidate select_final returns.
THEOREM LoopPickIsBest == LoopSpec => []FinalBeatsPool
  <1>1. PoolInv => FinalBeatsPool
    <2> DEFINE V == Preference(cands, LoopPool)
    <2> SUFFICES ASSUME PoolInv, survivors # {}, \A b \in Buckets : Settled(b),
                        \A i, j \in LoopPool : SharesApart(Utilization(cands[i], cands[1]),
                                                           Utilization(cands[j], cands[1])),
                        NEW i \in LoopPool
                 PROVE  PriorityCompare(cands[i], cands[LoopFinal], cands[1]) <= 0
      BY DEF FinalBeatsPool
    <2>1. /\ Len(cands) \in Nat /\ survivors \subseteq 1..Len(cands)
          /\ Numbered(cands, LoopPool)
      BY PoolNumbered
    <2>2. AllSettled(cands, LoopPool)
      BY DEF AllSettled, Settled, SettledIn
    <2>3. \A j, k \in LoopPool : V[j][k] = PriorityCompare(cands[j], cands[k], cands[1])
      BY DEF Preference
    <2> HIDE DEF V
    <2>4. Orders(V, LoopPool)
      BY <2>1, <2>2, <2>3, PriorityOrders
    <2>5. Coarser(V, V, LoopPool)
      BY <2>4 DEF Coarser, Orders
    <2>6. LoopPool = survivors \cup {j \in {1} : Eligible(cands[j])}
      BY DEF LoopPool
    <2>7. V[i][LoopFinal] <= 0
      BY <2>1, <2>4, <2>5, <2>6, FinalNotBeaten DEF LoopFinal, V
    <2>8. LoopFinal \in LoopPool
      BY <2>1, <2>6, FinalIsMember DEF LoopFinal
    <2> QED
      BY <2>3, <2>7, <2>8
  <1> QED
    BY <1>1, PoolInvariant, PTL

=============================================================================
