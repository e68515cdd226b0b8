-------------------------- MODULE SelectionProofs --------------------------
(***************************************************************************)
(* What the operators of QoRSelection compute, for every sequence of       *)
(* candidates.  The one-pass front and the search for the best member      *)
(* satisfy the equations of their loops.  On candidates that report the    *)
(* same metrics, in values the tolerance does not blur, priority_compare   *)
(* is a consistent order, so that no candidate is preferred to the final   *)
(* one; where this holds of some metrics only, those of the leading bucket *)
(* are enough for the final one not to be beaten there.                    *)
(***************************************************************************)
EXTENDS QoRSelection, WellFoundedInduction, TLAPS

-----------------------------------------------------------------------------
(* Induction, for a set of numbers.                                        *)

\* A set that holds 0 and with each number the next one holds all.
LEMMA SetInduction ==
    ASSUME NEW P, 0 \in P, \A k \in Nat : k \in P => k + 1 \in P
    PROVE  Nat \subseteq P
  <1> DEFINE Lacking == Nat \ P
  <1>1. SUFFICES ASSUME Lacking # {}  PROVE FALSE
    OBVIOUS
  <1>2. PICK m \in Lacking : \A k \in Lacking : <<k, m>> \notin OpToRel(<, Nat)
    BY <1>1, NatLessThanWellFounded, WFMin, Lacking \in SUBSET Nat
  <1>3. \A k \in Lacking : ~(k < m)
    BY <1>2 DEF OpToRel
  <1>4. m \in Nat /\ m \notin P
    OBVIOUS
  <1>5. m # 0
    BY <1>4
  <1>6. m - 1 \in Nat /\ m - 1 < m /\ m - 1 \in P
    BY <1>3, <1>4, <1>5
  <1> HIDE DEF Lacking
  <1>7. (m - 1) + 1 \in P
    BY <1>6
  <1>8. (m - 1) + 1 = m
    BY <1>4
  <1> QED
    BY <1>4, <1>7, <1>8

-----------------------------------------------------------------------------
(* The pass over the candidates.                                           *)

\* The fronts after each of the first n candidates.
Pass(cands, pass, n) ==
    pass = [k \in 0..n |-> IF k = 0 THEN {} ELSE Admit(cands, pass[k - 1], k)]

\* The loop of pareto_front has a run of every length.
LEMMA PassExists ==
    ASSUME NEW cands, NEW n \in Nat
    PROVE  \E pass : Pass(cands, pass, n)
  <1> DEFINE P == {m \in Nat : \E pass : Pass(cands, pass, m)}
  <1>1. 0 \in P
    <2>1. Pass(cands, [k \in 0..0 |-> {}], 0)
      BY DEF Pass
    <2> QED
      BY <2>1
  <1>2. ASSUME NEW m \in Nat, m \in P  PROVE m + 1 \in P
    <2>1. PICK pass : Pass(cands, pass, m)
      BY <1>2
    <2> DEFINE step(f, k) == IF k = 0 THEN {} ELSE Admit(cands, f[k - 1], k)
               more == [k \in 0..(m + 1) |-> IF k = m + 1 THEN Admit(cands, pass[m], m + 1)
                                             ELSE pass[k]]
    <2>2. pass = [k \in 0..m |-> step(pass, k)]
      BY <2>1 DEF Pass
    <2>3. ASSUME NEW k \in 0..(m + 1)  PROVE more[k] = step(more, k)
      <3>1. CASE k = m + 1
        <4>1. k # 0 /\ k - 1 = m /\ m \in 0..(m + 1) /\ m # m + 1
          BY <3>1
        <4>2. more[k - 1] = pass[m] /\ more[k] = Admit(cands, pass[m], k)
          BY <3>1, <4>1
        <4> QED
          BY <4>1, <4>2
      <3>2. CASE k # m + 1
        <4>1. k \in 0..m /\ (k # 0 => k - 1 \in 0..(m + 1) /\ k - 1 # m + 1)
          BY <2>3, <3>2
        <4>2. more[k] = pass[k] /\ (k # 0 => more[k - 1] = pass[k - 1])
          BY <2>3, <3>2, <4>1
        <4>3. pass[k] = step(pass, k)
          BY <2>2, <4>1
        <4> HIDE DEF more
        <4> QED
          BY <4>2, <4>3
      <3> QED
        BY <3>1, <3>2
    <2>4. more = [k \in 0..(m + 1) |-> more[k]]
      OBVIOUS
    <2> HIDE DEF more
    <2>5. Pass(cands, more, m + 1)
      BY <2>3, <2>4 DEF Pass
    <2> QED
      BY <2>5
  <1> HIDE DEF P
  <1>3. n \in P
    BY <1>1, <1>2, SetInduction
  <1> QED
    BY <1>3 DEF P

\* The front is the end of such a run.
LEMMA FrontIsPass ==
    ASSUME NEW cands, Len(cands) \in Nat
    PROVE  \E pass : Pass(cands, pass, Len(cands)) /\ ParetoFront(cands) = pass[Len(cands)]
  <1> DEFINE pass[k \in 0..Len(cands)] == IF k = 0 THEN {} ELSE Admit(cands, pass[k - 1], k)
  <1>1. \E f : f = [k \in 0..Len(cands) |-> IF k = 0 THEN {} ELSE Admit(cands, f[k - 1], k)]
    BY PassExists DEF Pass
  <1>2. pass = [k \in 0..Len(cands) |-> IF k = 0 THEN {} ELSE Admit(cands, pass[k - 1], k)]
    BY <1>1
  <1>3. ParetoFront(cands) = pass[Len(cands)]
    BY DEF ParetoFront
  <1> HIDE DEF pass
  <1> QED
    BY <1>2, <1>3 DEF Pass

\* A run starts from the empty front.
LEMMA PassStarts ==
    ASSUME NEW cands, NEW n \in Nat, NEW pass, Pass(cands, pass, n)
    PROVE  pass[0] = {}
  BY DEF Pass

\* The next front is the last one after a round.
LEMMA PassNext ==
    ASSUME NEW cands, NEW n \in Nat, NEW pass, Pass(cands, pass, n), NEW k \in Nat, k + 1 <= n
    PROVE  pass[k + 1] = Admit(cands, pass[k], k + 1)
  <1> DEFINE step(j) == IF j = 0 THEN {} ELSE Admit(cands, pass[j - 1], j)
  <1>1. pass = [j \in 0..n |-> step(j)]
    BY DEF Pass
  <1>2. \A j \in 0..n : pass[j] = step(j)
    BY <1>1
  <1>3. k + 1 \in 0..n /\ k + 1 # 0 /\ (k + 1) - 1 = k
    OBVIOUS
  <1> QED
    BY <1>2, <1>3

\* One round admits nobody else, only eligible ones, and never empties a front:
\* who dominates the newcomer is not beaten by it.
LEMMA AdmitMembers ==
    ASSUME NEW cands, NEW front, NEW i, \A j \in front : Eligible(cands[j])
    PROVE  LET next == Admit(cands, front, i) IN
           /\ next \subseteq front \cup {i}
           /\ \A j \in next : Eligible(cands[j])
           /\ front # {} \/ Eligible(cands[i]) => next # {}
  <1>1. CASE ~Eligible(cands[i])
    BY <1>1 DEF Admit
  <1>2. CASE Eligible(cands[i]) /\ \E j \in front : Dominates(cands[j], cands[i])
    BY <1>2 DEF Admit
  <1>3. CASE Eligible(cands[i]) /\ ~\E j \in front : Dominates(cands[j], cands[i])
    BY <1>3 DEF Admit
  <1> QED
    BY <1>1, <1>2, <1>3

\* A run holds positions of eligible candidates it has seen, and some if it has
\* seen any.
LEMMA PassMembers ==
    ASSUME NEW cands, NEW n \in Nat, NEW pass, Pass(cands, pass, n), NEW k \in 0..n
    PROVE  /\ pass[k] \subseteq 1..k
           /\ \A j \in pass[k] : Eligible(cands[j])
           /\ (\E j \in 1..k : Eligible(cands[j])) => pass[k] # {}
  <1> DEFINE Sound(m) == /\ pass[m] \subseteq 1..m
                         /\ \A j \in pass[m] : Eligible(cands[j])
                         /\ (\E j \in 1..m : Eligible(cands[j])) => pass[m] # {}
             P == {m \in Nat : m <= n => Sound(m)}
  <1>1. 0 \in P
    BY PassStarts
  <1>2. ASSUME NEW m \in Nat, m \in P  PROVE m + 1 \in P
    <2> SUFFICES ASSUME m + 1 <= n  PROVE Sound(m + 1)
      OBVIOUS
    <2>0. pass[m + 1] = Admit(cands, pass[m], m + 1)
      BY PassNext
    <2>1. Sound(m) /\ pass[m + 1] = Admit(cands, pass[m], m + 1)
      BY <1>2, <2>0
    <2>2. /\ pass[m + 1] \subseteq pass[m] \cup {m + 1}
          /\ \A j \in pass[m + 1] : Eligible(cands[j])
          /\ pass[m] # {} \/ Eligible(cands[m + 1]) => pass[m + 1] # {}
      BY <2>1, AdmitMembers
    <2>3. \A j \in 1..(m + 1) : j \in 1..m \/ j = m + 1
      OBVIOUS
    <2>4. 1..m \subseteq 1..(m + 1) /\ m + 1 \in 1..(m + 1)
      OBVIOUS
    <2> QED
      BY <2>1, <2>2, <2>3, <2>4
  <1> HIDE DEF P
  <1>3. k \in P
    BY <1>1, <1>2, SetInduction
  <1> QED
    BY <1>3 DEF P

\* The front consists of eligible candidates, and is empty only if none is.
THEOREM FrontMembers ==
    ASSUME NEW cands, Len(cands) \in Nat
    PROVE  /\ ParetoFront(cands) \subseteq 1..Len(cands)
           /\ \A i \in ParetoFront(cands) : Eligible(cands[i])
           /\ (\E i \in 1..Len(cands) : Eligible(cands[i])) => ParetoFront(cands) # {}
  <1>1. PICK pass : Pass(cands, pass, Len(cands)) /\ ParetoFront(cands) = pass[Len(cands)]
    BY FrontIsPass
  <1>2. Len(cands) \in 0..Len(cands)
    OBVIOUS
  <1> QED
    BY <1>1, <1>2, PassMembers

-----------------------------------------------------------------------------
(* The comparison of one metric.                                           *)

\* What compare_objectives reads of a result is a number or unknown.
LEMMA MetricMeasured ==
    ASSUME NEW q \in QoR, NEW m \in Metrics
    PROVE  RawMetric(q, m) \in Measured
  BY DEF QoR, Measured, Metrics, TimingMetrics, RawMetric, Tns, AreaValue

\* Of values told apart, comparing with the tolerance is comparing.
LEMMA ApartExact ==
    ASSUME NEW x \in Int, NEW y \in Int, Apart(x, y)
    PROVE  /\ x - y > Eps <=> x > y
           /\ x - y < -Eps <=> x < y
           /\ Sign(x - y, Eps) = Sign(x - y, 0)
  <1>1. Eps \in Nat /\ x # Unknown /\ y # Unknown
    BY SelectionAssumption
  <1>2. x = y \/ x - y > Eps \/ y - x > Eps
    BY <1>1 DEF Apart
  <1> QED
    BY <1>1, <1>2 DEF Sign

\* One metric, told apart: "no worse" composes, and a strict step stays strict.
LEMMA CmpTransitive ==
    ASSUME NEW a \in QoR, NEW b \in QoR, NEW c \in QoR, NEW m \in Metrics,
           Apart(RawMetric(a, m), RawMetric(b, m)), Apart(RawMetric(b, m), RawMetric(c, m)),
           Apart(RawMetric(a, m), RawMetric(c, m)),
           CmpMetric(m, a, b) \in {"better", "equal"},
           CmpMetric(m, b, c) \in {"better", "equal"}
    PROVE  /\ CmpMetric(m, a, c) \in {"better", "equal"}
           /\ "better" \in {CmpMetric(m, a, b), CmpMetric(m, b, c)}
                => CmpMetric(m, a, c) = "better"
  <1> DEFINE x == RawMetric(a, m)
             y == RawMetric(b, m)
             z == RawMetric(c, m)
  <1>1. x \in Measured /\ y \in Measured /\ z \in Measured
    BY MetricMeasured
  <1>2. m = "area" => AreaSource(a) = AreaSource(b) /\ AreaSource(b) = AreaSource(c)
    BY DEF CmpMetric
  <1>3. Apart(x, y) /\ Apart(y, z) /\ Apart(x, z)
    OBVIOUS
  <1> HIDE DEF x, y, z
  <1>4. CASE y = Unknown
    <2>1. x = Unknown /\ z = Unknown
      BY <1>2, <1>4 DEF CmpMetric, x, y, z
    <2> QED
      BY <1>2, <1>4, <2>1 DEF CmpMetric, x, y, z
  <1>5. CASE y # Unknown
    <2>1. x \in Int /\ y \in Int /\ z \in Int /\ x # Unknown /\ z # Unknown
      BY <1>1, <1>2, <1>5, SelectionAssumption DEF CmpMetric, x, y, z, Measured
    <2>2. Gain(m, x, y) \in Int /\ Gain(m, y, z) \in Int
          /\ Gain(m, x, z) = Gain(m, x, y) + Gain(m, y, z)
      BY <2>1 DEF Gain
    <2>a. ASSUME NEW v \in Int, NEW w \in Int, Apart(v, w)
          PROVE  /\ Gain(m, v, w) > Eps <=> Gain(m, v, w) > 0
                 /\ Gain(m, v, w) < -Eps <=> Gain(m, v, w) < 0
      <3>1. /\ v - w > Eps <=> v > w
            /\ v - w < -Eps <=> v < w
        BY <2>a, ApartExact
      <3> QED
        BY <3>1, SelectionAssumption DEF Gain
    <2>3. /\ CmpMetric(m, a, b) = IF Gain(m, x, y) > 0 THEN "better"
                                  ELSE IF Gain(m, x, y) < 0 THEN "worse" ELSE "equal"
          /\ CmpMetric(m, b, c) = IF Gain(m, y, z) > 0 THEN "better"
                                  ELSE IF Gain(m, y, z) < 0 THEN "worse" ELSE "equal"
          /\ CmpMetric(m, a, c) = IF Gain(m, x, z) > 0 THEN "better"
                                  ELSE IF Gain(m, x, z) < 0 THEN "worse" ELSE "equal"
      <3>1. /\ CmpMetric(m, a, b) = IF Gain(m, x, y) > Eps THEN "better"
                                    ELSE IF Gain(m, x, y) < -Eps THEN "worse" ELSE "equal"
            /\ CmpMetric(m, b, c) = IF Gain(m, y, z) > Eps THEN "better"
                                    ELSE IF Gain(m, y, z) < -Eps THEN "worse" ELSE "equal"
            /\ CmpMetric(m, a, c) = IF Gain(m, x, z) > Eps THEN "better"
                                    ELSE IF Gain(m, x, z) < -Eps THEN "worse" ELSE "equal"
        BY <1>2, <2>1, <2>2 DEF CmpMetric, x, y, z
      <3> QED
        BY <1>3, <2>1, <2>a, <3>1
    <2> QED
      BY <2>2, <2>3
  <1> QED
    BY <1>4, <1>5

\* Dominance is irreflexive and asymmetric, whatever the tolerance.
LEMMA CmpAntisymmetric ==
    ASSUME NEW a \in QoR, NEW b \in QoR, NEW m \in Metrics,
           CmpMetric(m, a, b) = "better"
    PROVE  CmpMetric(m, b, a) = "worse"
  <1> DEFINE x == RawMetric(a, m)
             y == RawMetric(b, m)
  <1>1. x \in Measured /\ y \in Measured
    BY MetricMeasured
  <1>2. Eps \in Nat
    BY SelectionAssumption
  <1> HIDE DEF x, y
  <1>3. x \in Int /\ y \in Int /\ x # Unknown /\ y # Unknown
        /\ (m = "area" => AreaSource(a) = AreaSource(b)) /\ Gain(m, x, y) > Eps
    BY <1>1, SelectionAssumption DEF CmpMetric, x, y, Measured
  <1>4. Gain(m, x, y) \in Int /\ Gain(m, y, x) = - Gain(m, x, y)
    BY <1>3 DEF Gain
  <1>5. ~(Gain(m, y, x) > Eps) /\ Gain(m, y, x) < -Eps
    BY <1>2, <1>3, <1>4
  <1> QED
    BY <1>3, <1>5 DEF CmpMetric, x, y

-----------------------------------------------------------------------------
(* Comparisons as functions of two positions: V[i][j] is the verdict on i  *)
(* against j.                                                              *)

\* A comparison that is consistent: swapping the arguments swaps the verdict, and
\* "not preferred to" composes.
Orders(V, M) ==
    \A i, j \in M :
        /\ V[i][j] \in {-1, 0, 1} /\ V[j][i] = -V[i][j]
        /\ \A k \in M : V[i][j] <= 0 /\ V[j][k] <= 0 => V[i][k] <= 0

\* Ties compose to a tie, and a strict step stays strict.
LEMMA OrdersSharply ==
    ASSUME NEW V, NEW M, Orders(V, M), NEW i \in M, NEW j \in M, NEW k \in M
    PROVE  /\ V[i][j] = 0 /\ V[j][k] = 0 => V[i][k] = 0
           /\ V[i][j] <= 0 /\ V[j][k] <= 0 /\ (V[i][j] # 0 \/ V[j][k] # 0) => V[i][k] < 0
  <1> DEFINE verdict == {-1, 0, 1}
  <1>1. /\ V[i][j] \in {-1, 0, 1} /\ V[j][i] = -V[i][j]
        /\ V[j][k] \in {-1, 0, 1} /\ V[k][j] = -V[j][k]
        /\ V[i][k] \in {-1, 0, 1} /\ V[k][i] = -V[i][k]
    BY DEF Orders
  <1>2. /\ V[i][j] <= 0 /\ V[j][k] <= 0 => V[i][k] <= 0
        /\ V[k][j] <= 0 /\ V[j][i] <= 0 => V[k][i] <= 0
        /\ V[k][i] <= 0 /\ V[i][j] <= 0 => V[k][j] <= 0
        /\ V[j][k] <= 0 /\ V[k][i] <= 0 => V[j][i] <= 0
    BY DEF Orders
  <1> QED
    BY <1>1, <1>2

\* Fewer positions are ordered too.
LEMMA OrdersFewer ==
    ASSUME NEW V, NEW W, NEW M, NEW N, Orders(V, M), N \subseteq M,
           \A i, j \in N : V[i][j] = W[i][j]
    PROVE  Orders(W, N)
  BY DEF Orders

\* Comparing by a number, larger first or smaller first, is consistent.
LEMMA NumbersOrder ==
    ASSUME NEW M, NEW value, \A i \in M : value[i] \in Int, NEW V,
           \/ \A i, j \in M : V[i][j] = Sign(value[i] - value[j], 0)
           \/ \A i, j \in M : V[i][j] = Sign(value[j] - value[i], 0)
    PROVE  Orders(V, M)
  BY DEF Orders, Sign

\* So is comparing with the tolerance, of numbers it tells apart.
LEMMA ValuesOrder ==
    ASSUME NEW M, NEW value, \A i \in M : value[i] \in Int,
           \A i, j \in M : Apart(value[i], value[j]), NEW V,
           \/ \A i, j \in M : V[i][j] = Sign(value[i] - value[j], Eps)
           \/ \A i, j \in M : V[i][j] = Sign(value[j] - value[i], Eps)
    PROVE  Orders(V, M)
  <1>1. ASSUME NEW i \in M, NEW j \in M
        PROVE  Sign(value[i] - value[j], Eps) = Sign(value[i] - value[j], 0)
    <2>1. value[i] \in Int /\ value[j] \in Int /\ Apart(value[i], value[j])
      OBVIOUS
    <2> QED
      BY <2>1, ApartExact
  <1>2. \/ \A i, j \in M : V[i][j] = Sign(value[i] - value[j], 0)
        \/ \A i, j \in M : V[i][j] = Sign(value[j] - value[i], 0)
    BY <1>1
  <1> QED
    BY <1>2, NumbersOrder

\* A comparison that is always a tie is consistent.
LEMMA TieOrders ==
    ASSUME NEW M, NEW V, \A i, j \in M : V[i][j] = 0
    PROVE  Orders(V, M)
  BY DEF Orders

\* One comparison, and where it ties another.
LEMMA ThenOrders ==
    ASSUME NEW M, NEW V, NEW W, Orders(V, M), Orders(W, M), NEW L,
           \A i, j \in M : L[i][j] = IF V[i][j] # 0 THEN V[i][j] ELSE W[i][j]
    PROVE  Orders(L, M)
  <1> SUFFICES ASSUME NEW i \in M, NEW j \in M, NEW k \in M
               PROVE  /\ L[i][j] \in {-1, 0, 1} /\ L[j][i] = -L[i][j]
                      /\ L[i][j] <= 0 /\ L[j][k] <= 0 => L[i][k] <= 0
    BY DEF Orders
  <1>1. /\ L[i][j] = IF V[i][j] # 0 THEN V[i][j] ELSE W[i][j]
        /\ L[j][i] = IF V[j][i] # 0 THEN V[j][i] ELSE W[j][i]
        /\ L[j][k] = IF V[j][k] # 0 THEN V[j][k] ELSE W[j][k]
        /\ L[i][k] = IF V[i][k] # 0 THEN V[i][k] ELSE W[i][k]
    OBVIOUS
  <1>2. /\ V[i][j] \in {-1, 0, 1} /\ V[j][i] = -V[i][j] /\ V[j][k] \in {-1, 0, 1}
        /\ W[i][j] \in {-1, 0, 1} /\ W[j][i] = -W[i][j] /\ W[j][k] \in {-1, 0, 1}
        /\ V[i][k] \in {-1, 0, 1} /\ W[i][k] \in {-1, 0, 1}
        /\ W[i][j] <= 0 /\ W[j][k] <= 0 => W[i][k] <= 0
    BY DEF Orders
  <1>3. /\ V[i][j] = 0 /\ V[j][k] = 0 => V[i][k] = 0
        /\ V[i][j] <= 0 /\ V[j][k] <= 0 /\ (V[i][j] # 0 \/ V[j][k] # 0) => V[i][k] < 0
    BY OrdersSharply
  <1> QED
    BY <1>1, <1>2, <1>3

-----------------------------------------------------------------------------
(* The buckets.                                                            *)

\* The four buckets of priorities.
LEMMA BucketNames == Range(BucketOrder) = {"timing", "quality", "area", "power"}
  <1>1. DOMAIN BucketOrder = 1..4
    BY DEF BucketOrder
  <1>2. 1..4 = {1, 2, 3, 4}
    OBVIOUS
  <1> QED
    BY <1>1, <1>2 DEF BucketOrder, Range

\* Every bucket has a turn of its own.
LEMMA Turns ==
    ASSUME NEW b \in Range(BucketOrder), NEW c \in Range(BucketOrder)
    PROVE  /\ Turn(b) \in Int /\ Turn(b) + 12 \in Nat
           /\ Turn(b) = Turn(c) => b = c
  <1> DEFINE place(x) == CHOOSE i \in DOMAIN BucketOrder : BucketOrder[i] = x
  <1>1. DOMAIN BucketOrder = {1, 2, 3, 4}
    <2>1. DOMAIN BucketOrder = 1..4
      BY DEF BucketOrder
    <2> QED
      BY <2>1
  <1>2. ASSUME NEW x \in Range(BucketOrder)
        PROVE  place(x) \in {1, 2, 3, 4} /\ BucketOrder[place(x)] = x
    <2>1. \E i \in DOMAIN BucketOrder : BucketOrder[i] = x
      BY DEF Range
    <2> QED
      BY <1>1, <2>1
  <1>3. Weight(b) \in 0..3 /\ Weight(c) \in 0..3
    BY DEF Weight
  <1>4. Turn(b) = place(b) - 4 * Weight(b) /\ Turn(c) = place(c) - 4 * Weight(c)
    BY DEF Turn
  <1>5. /\ place(b) \in {1, 2, 3, 4} /\ BucketOrder[place(b)] = b
        /\ place(c) \in {1, 2, 3, 4} /\ BucketOrder[place(c)] = c
    BY <1>2
  <1> HIDE DEF place
  <1>6. Turn(b) = Turn(c) => place(b) = place(c)
    BY <1>3, <1>4, <1>5
  <1> QED
    BY <1>3, <1>4, <1>5, <1>6

\* Among some buckets one is looked at first.
LEMMA FirstIsFirst ==
    ASSUME NEW D, D \subseteq Buckets, D # {}
    PROVE  First(D) \in D /\ \A c \in D : Turn(First(D)) <= Turn(c)
  <1> DEFINE turns == {Turn(b) + 12 : b \in D}
  <1>1. D \subseteq Range(BucketOrder)
    BY DEF Buckets
  <1>2. turns \subseteq Nat /\ turns # {}
    BY <1>1, Turns
  <1>3. PICK t \in turns : \A u \in turns : <<u, t>> \notin OpToRel(<, Nat)
    BY <1>2, NatLessThanWellFounded, WFMin
  <1>4. PICK b \in D : t = Turn(b) + 12
    OBVIOUS
  <1>5. ASSUME NEW c \in D  PROVE Turn(b) <= Turn(c)
    <2>1. Turn(c) + 12 \in turns /\ Turn(c) + 12 \in Nat /\ t \in Nat
      BY <1>1, <1>2, Turns
    <2>2. ~(Turn(c) + 12 < t)
      BY <1>3, <2>1 DEF OpToRel
    <2>3. Turn(b) \in Int /\ Turn(c) \in Int
      BY <1>1, Turns
    <2> QED
      BY <1>4, <2>1, <2>2, <2>3
  <1>6. \E x \in D : \A c \in D : Turn(x) <= Turn(c)
    BY <1>5
  <1> QED
    BY <1>6 DEF First

\* L holds the verdicts of the buckets W, looked at in turn.
RanksInTurn(L, W, M) ==
    \A i, j \in M : L[i][j] = Lexical([b \in Buckets |-> W[b][i][j]])

\* Looking at the buckets in turn is consistent when each bucket is.
LEMMA LexicalOrders ==
    ASSUME NEW M, NEW W, \A b \in Buckets : Orders(W[b], M), NEW L, RanksInTurn(L, W, M)
    PROVE  Orders(L, M)
  <1> DEFINE D(i, j) == {b \in Buckets : W[b][i][j] # 0}
  <1>0. Buckets \subseteq Range(BucketOrder)
    BY DEF Buckets
  <1>1. ASSUME NEW i \in M, NEW j \in M
        PROVE  L[i][j] = IF D(i, j) = {} THEN 0 ELSE W[First(D(i, j))][i][j]
    <2> DEFINE verdicts == [b \in Buckets |-> W[b][i][j]]
    <2>1. \A b \in Buckets : verdicts[b] = W[b][i][j]
      OBVIOUS
    <2>2. {b \in Buckets : verdicts[b] # 0} = D(i, j)
      BY <2>1
    <2>3. D(i, j) # {} => First(D(i, j)) \in D(i, j)
      BY FirstIsFirst
    <2> HIDE DEF verdicts
    <2>4. Lexical(verdicts) = IF D(i, j) = {} THEN 0 ELSE verdicts[First(D(i, j))]
      BY <2>2 DEF Lexical
    <2>5. L[i][j] = Lexical(verdicts)
      BY DEF verdicts, RanksInTurn
    <2> QED
      BY <2>1, <2>3, <2>4, <2>5
  <1>2. ASSUME NEW S, S \subseteq Buckets, S # {}
        PROVE  First(S) \in S /\ \A c \in S : Turn(First(S)) <= Turn(c)
    BY <1>2, FirstIsFirst
  <1>3. ASSUME NEW i \in M, NEW j \in M
        PROVE  /\ D(i, j) \subseteq Buckets /\ D(j, i) = D(i, j)
               /\ L[i][j] \in {-1, 0, 1} /\ L[j][i] = -L[i][j]
    <2>1. \A b \in Buckets : W[b][i][j] \in {-1, 0, 1} /\ W[b][j][i] = -W[b][i][j]
      BY DEF Orders
    <2>2. D(i, j) \subseteq Buckets
      OBVIOUS
    <2>3. \A b \in Buckets : W[b][j][i] # 0 <=> W[b][i][j] # 0
      BY <2>1
    <2>4. D(j, i) = D(i, j)
      BY <2>3
    <2> HIDE DEF D
    <2>5. CASE D(i, j) = {}
      BY <1>1, <2>4, <2>5
    <2>6. CASE D(i, j) # {}
      <3>1. First(D(i, j)) \in Buckets
        BY <1>2, <2>2, <2>6
      <3>2. L[i][j] = W[First(D(i, j))][i][j] /\ L[j][i] = W[First(D(i, j))][j][i]
        BY <1>1, <2>4, <2>6
      <3>3. L[i][j] \in {-1, 0, 1} /\ L[j][i] = -L[i][j]
        BY <2>1, <3>1, <3>2
      <3> QED
        BY <2>2, <2>4, <3>3
    <2> QED
      BY <2>2, <2>4, <2>5, <2>6
  <1>4. ASSUME NEW i \in M, NEW j \in M, NEW k \in M, L[i][j] <= 0, L[j][k] <= 0
        PROVE  L[i][k] <= 0
    <2>1. CASE D(i, j) \cup D(j, k) = {}
      <3>1. \A b \in Buckets : W[b][i][j] = 0 /\ W[b][j][k] = 0
        BY <2>1
      <3>2. \A b \in Buckets : W[b][i][k] = 0
        BY <3>1, OrdersSharply
      <3>3. D(i, k) = {}
        BY <3>2
      <3> HIDE DEF D
      <3> QED
        BY <1>1, <3>3
    <2>2. CASE D(i, j) \cup D(j, k) # {}
      <3> DEFINE both == D(i, j) \cup D(j, k)
                 d == First(both)
      <3>1. both \subseteq Buckets
        OBVIOUS
      <3>2. d \in both /\ \A c \in both : Turn(d) <= Turn(c)
        BY <1>2, <2>2, <3>1
      <3> HIDE DEF d
      <3>3. d \in Buckets
        BY <3>1, <3>2
      <3>4. ASSUME NEW x \in M, NEW y \in M, D(x, y) \subseteq both, L[x][y] <= 0
            PROVE  W[d][x][y] <= 0
        <4>1. CASE d \notin D(x, y)
          BY <3>3, <4>1
        <4>2. CASE d \in D(x, y)
          <5>1. First(D(x, y)) \in D(x, y) /\ Turn(First(D(x, y))) <= Turn(d)
            BY <1>2, <1>3, <4>2
          <5>2. First(D(x, y)) \in both /\ Turn(d) <= Turn(First(D(x, y)))
            BY <3>2, <3>4, <5>1
          <5>3. First(D(x, y)) = d
            <6>1. First(D(x, y)) \in Range(BucketOrder) /\ d \in Range(BucketOrder)
              BY <1>0, <3>1, <3>2, <5>2
            <6>2. Turn(First(D(x, y))) \in Int /\ Turn(d) \in Int
              BY <6>1, Turns
            <6>3. Turn(First(D(x, y))) = Turn(d)
              BY <5>1, <5>2, <6>2
            <6> QED
              BY <6>1, <6>3, Turns
          <5> HIDE DEF D, both
          <5>4. L[x][y] = W[d][x][y]
            BY <1>1, <4>2, <5>3
          <5> QED
            BY <3>4, <5>4
        <4> QED
          BY <4>1, <4>2
      <3>5. W[d][i][j] <= 0 /\ W[d][j][k] <= 0
        BY <1>4, <3>4
      <3>6. W[d][i][j] # 0 \/ W[d][j][k] # 0
        BY <3>2
      <3>7. W[d][i][k] < 0 /\ W[d][i][k] \in {-1, 0, 1}
        <4>1. W[d][i][k] < 0
          BY <3>3, <3>5, <3>6, OrdersSharply
        <4>2. W[d][i][k] \in {-1, 0, 1}
          BY <3>3 DEF Orders
        <4> QED
          BY <4>1, <4>2
      <3>8. d \in D(i, k)
        <4>1. W[d][i][k] # 0
          BY <3>7
        <4> QED
          BY <3>3, <4>1
      <3>9. D(i, k) \subseteq both
        <4> SUFFICES ASSUME NEW b \in Buckets, W[b][i][j] = 0, W[b][j][k] = 0
                     PROVE  W[b][i][k] = 0
          OBVIOUS
        <4> QED
          BY OrdersSharply
      <3>10. First(D(i, k)) \in D(i, k) /\ Turn(First(D(i, k))) <= Turn(d)
        BY <1>2, <1>3, <3>8
      <3>11. Turn(d) <= Turn(First(D(i, k)))
        BY <3>2, <3>9, <3>10
      <3>12. First(D(i, k)) = d
        BY <1>0, <1>3, <3>3, <3>10, <3>11, Turns
      <3> HIDE DEF D, both
      <3>13. L[i][k] = W[d][i][k]
        BY <1>1, <3>8, <3>12
      <3> QED
        BY <3>7, <3>13
    <2> QED
      BY <2>1, <2>2
  <1> HIDE DEF D
  <1> QED
    BY <1>3, <1>4 DEF Orders

-----------------------------------------------------------------------------
(* The order of priority among candidates that report the same metrics, in *)
(* values the tolerance tells apart.                                       *)

\* The positions M of cands hold eligible candidates, numbered by position; the
\* baseline is at position 1.
Numbered(cands, M) ==
    /\ M \subseteq Nat \ {0}
    /\ cands[1].id = 0 /\ cands[1].qor \in QoR \cup {NoQoR}
    /\ \A i \in M : cands[i].id = i - 1 /\ cands[i].qor \in QoR /\ Eligible(cands[i])

\* What a bucket looks at is reported for all of them or for none, in such values.
SettledIn(cands, M, b) ==
    \A i, j \in M : /\ ReportedAlike(cands[i].qor, cands[j].qor, BucketMetrics(b))
                    /\ ToldApart(cands[i].qor, cands[j].qor, BucketMetrics(b))

\* An eligible candidate has both slacks.
LEMMA EligibleSlacks ==
    ASSUME NEW c, c.qor \in QoR, Eligible(c)
    PROVE  c.qor.setup_wns \in Int /\ c.qor.hold_wns \in Int
  <1>1. Classify(c.qor) = "feasible"
    BY DEF Eligible, Feasible
  <1>2. c.qor.setup_wns # Unknown /\ c.qor.hold_wns # Unknown
    BY <1>1, Zenon DEF Classify
  <1> QED
    BY <1>2 DEF QoR, Measured

\* Setup slack, then hold slack.
LEMMA TimingOrders ==
    ASSUME NEW cands, NEW M, Numbered(cands, M), SettledIn(cands, M, "timing"), NEW V,
           \A i, j \in M : V[i][j] = CmpTiming(cands[i].qor, cands[j].qor)
    PROVE  Orders(V, M)
  <1> DEFINE setup == [i \in M |-> cands[i].qor.setup_wns]
             hold == [i \in M |-> cands[i].qor.hold_wns]
             S == [i \in M |-> [j \in M |-> Sign(setup[i] - setup[j], Eps)]]
             H == [i \in M |-> [j \in M |-> Sign(hold[i] - hold[j], Eps)]]
  <1>1. \A i \in M : /\ setup[i] = cands[i].qor.setup_wns /\ setup[i] \in Int
                     /\ hold[i] = cands[i].qor.hold_wns /\ hold[i] \in Int
    BY EligibleSlacks DEF Numbered
  <1>a. \A i, j \in M : Apart(setup[i], setup[j]) /\ Apart(hold[i], hold[j])
    BY <1>1 DEF SettledIn, ToldApart, BucketMetrics, RawMetric
  <1> HIDE DEF setup, hold
  <1>2. \A i, j \in M : /\ S[i][j] = Sign(setup[i] - setup[j], Eps)
                        /\ H[i][j] = Sign(hold[i] - hold[j], Eps)
    OBVIOUS
  <1> HIDE DEF S, H
  <1>3. Orders(S, M)
    BY <1>1, <1>a, <1>2, ValuesOrder
  <1>4. Orders(H, M)
    BY <1>1, <1>a, <1>2, ValuesOrder
  <1>5. ASSUME NEW i \in M, NEW j \in M
        PROVE  V[i][j] = IF S[i][j] # 0 THEN S[i][j] ELSE H[i][j]
    <2>1. Unknown \notin {setup[i], hold[i], setup[j], hold[j]}
      BY <1>1, SelectionAssumption
    <2>2. V[i][j] = CmpTiming(cands[i].qor, cands[j].qor)
      OBVIOUS
    <2>3. CmpTiming(cands[i].qor, cands[j].qor)
            = IF Sign(setup[i] - setup[j], Eps) # 0 THEN Sign(setup[i] - setup[j], Eps)
              ELSE Sign(hold[i] - hold[j], Eps)
      BY <1>1, <2>1 DEF CmpTiming
    <2> QED
      BY <1>2, <2>2, <2>3
  <1> QED
    BY <1>3, <1>4, <1>5, ThenOrders

\* A metric reported for all or for none.
LEMMA KnownOrders ==
    ASSUME NEW M, NEW x, \A i \in M : x[i] \in Measured,
           \A i, j \in M : (x[i] = Unknown <=> x[j] = Unknown) /\ Apart(x[i], x[j]), NEW V,
           \/ \A i, j \in M : V[i][j] = CmpKnown(x[i], x[j])
           \/ \A i, j \in M : V[i][j] = CmpKnown(x[j], x[i])
    PROVE  Orders(V, M)
  <1>1. CASE \E i \in M : x[i] = Unknown
    <2>1. \A i, j \in M : V[i][j] = 0
      BY <1>1 DEF CmpKnown
    <2> QED
      BY <2>1, TieOrders
  <1>2. CASE \A i \in M : x[i] # Unknown
    <2>1. \A i \in M : x[i] \in Int
      BY <1>2 DEF Measured
    <2>2. CASE \A i, j \in M : V[i][j] = CmpKnown(x[i], x[j])
      <3>1. \A i, j \in M : V[i][j] = Sign(x[i] - x[j], Eps)
        BY <1>2, <2>2 DEF CmpKnown
      <3> QED
        BY <2>1, <3>1, ValuesOrder
    <2>3. CASE \A i, j \in M : V[i][j] = CmpKnown(x[j], x[i])
      <3>1. \A i, j \in M : V[i][j] = Sign(x[j] - x[i], Eps)
        BY <1>2, <2>3 DEF CmpKnown
      <3> QED
        BY <2>1, <3>1, ValuesOrder
    <2> QED
      BY <2>2, <2>3
  <1> QED
    BY <1>1, <1>2

\* Area, from one source.
LEMMA AreaOrders ==
    ASSUME NEW cands, NEW M, Numbered(cands, M), SettledIn(cands, M, "area"), NEW V,
           \A i, j \in M : V[i][j] = CmpArea(cands[i].qor, cands[j].qor)
    PROVE  Orders(V, M)
  <1>0. \A i, j \in M : /\ AreaSource(cands[i].qor) = AreaSource(cands[j].qor)
                        /\ Apart(AreaValue(cands[i].qor), AreaValue(cands[j].qor))
    BY DEF SettledIn, ReportedAlike, ToldApart, BucketMetrics, RawMetric
  <1>1. CASE \E i \in M : AreaSource(cands[i].qor) = "unknown"
    <2>1. \A i, j \in M : V[i][j] = 0
      BY <1>0, <1>1 DEF CmpArea
    <2> QED
      BY <2>1, TieOrders
  <1>2. CASE \A i \in M : AreaSource(cands[i].qor) # "unknown"
    <2> DEFINE x == [i \in M |-> AreaValue(cands[i].qor)]
    <2>1. ASSUME NEW i \in M  PROVE AreaValue(cands[i].qor) \in Int
      BY <1>2 DEF AreaValue, AreaSource, Numbered, QoR, Measured
    <2>2. \A i \in M : x[i] = AreaValue(cands[i].qor) /\ x[i] \in Int
      BY <2>1
    <2>a. \A i, j \in M : Apart(x[i], x[j])
      BY <1>0, <2>2
    <2> HIDE DEF x
    <2>3. \A i, j \in M : V[i][j] = Sign(x[j] - x[i], Eps)
      BY <1>0, <1>2, <2>2 DEF CmpArea
    <2> QED
      BY <2>2, <2>a, <2>3, ValuesOrder
  <1> QED
    BY <1>1, <1>2

\* Every bucket orders the candidates.
LEMMA BucketOrders ==
    ASSUME NEW cands, NEW M, Numbered(cands, M), NEW b \in Buckets,
           SettledIn(cands, M, b), NEW V,
           \A i, j \in M : V[i][j] = CmpBucket(b, cands[i].qor, cands[j].qor)
    PROVE  Orders(V, M)
  <1>1. b \in {"timing", "quality", "area", "power"}
    BY BucketNames DEF Buckets
  <1>2. CASE b = "timing"
    <2>1. \A i, j \in M : V[i][j] = CmpTiming(cands[i].qor, cands[j].qor)
      BY <1>2 DEF CmpBucket
    <2> QED
      BY <1>2, <2>1, TimingOrders
  <1>3. CASE b = "area"
    <2>1. \A i, j \in M : V[i][j] = CmpArea(cands[i].qor, cands[j].qor)
      BY <1>3 DEF CmpBucket
    <2> QED
      BY <1>3, <2>1, AreaOrders
  <1>4. CASE b = "quality"
    <2> DEFINE x == [i \in M |-> cands[i].qor.constraint_quality]
    <2>1. \A i \in M : x[i] = RawMetric(cands[i].qor, "constraint_quality")
                       /\ x[i] = cands[i].qor.constraint_quality /\ x[i] \in Measured
      BY DEF Numbered, QoR, RawMetric
    <2> HIDE DEF x
    <2>2. \A i, j \in M : (x[i] = Unknown <=> x[j] = Unknown) /\ Apart(x[i], x[j])
      BY <1>4, <2>1 DEF SettledIn, ReportedAlike, ToldApart, BucketMetrics
    <2>3. \A i, j \in M : V[i][j] = CmpKnown(x[i], x[j])
      BY <1>4, <2>1 DEF CmpBucket
    <2> QED
      BY <2>1, <2>2, <2>3, KnownOrders
  <1>5. CASE b = "power"
    <2> DEFINE x == [i \in M |-> cands[i].qor.power]
    <2>1. \A i \in M : x[i] = RawMetric(cands[i].qor, "power")
                       /\ x[i] = cands[i].qor.power /\ x[i] \in Measured
      BY DEF Numbered, QoR, RawMetric
    <2> HIDE DEF x
    <2>2. \A i, j \in M : (x[i] = Unknown <=> x[j] = Unknown) /\ Apart(x[i], x[j])
      BY <1>5, <2>1 DEF SettledIn, ReportedAlike, ToldApart, BucketMetrics
    <2>3. \A i, j \in M : V[i][j] = CmpKnown(x[j], x[i])
      BY <1>5, <2>1 DEF CmpBucket
    <2> QED
      BY <2>1, <2>2, <2>3, KnownOrders
  <1> QED
    BY <1>1, <1>2, <1>3, <1>4, <1>5

\* A fraction of the baseline's slack, or nothing.
LEMMA SpentShare ==
    ASSUME NEW base \in Int, NEW wns \in Int, NEW required \in Int, base > required
    PROVE  Spent(base, wns, required) \in Shares
  <1>1. base - required \in Nat \ {0} /\ Clamp(base - wns) \in Nat
    BY DEF Clamp
  <1> QED
    BY <1>1 DEF Spent, Shares

\* No fraction stands for nothing.
LEMMA ShareKnown == Unknown \notin Shares
  BY SelectionAssumption DEF Shares

\* The margin a candidate spends is a fraction, and known for all candidates but
\* the baseline or for none.
LEMMA UtilizationKnown ==
    ASSUME NEW cands, NEW M, Numbered(cands, M), NEW i \in M, NEW j \in M
    PROVE  /\ Utilization(cands[i], cands[1]) \in Shares \cup {Unknown}
           /\ i = 1 => Utilization(cands[i], cands[1]) = Unknown
           /\ i # 1 /\ j # 1 => (Utilization(cands[i], cands[1]) = Unknown
                                   <=> Utilization(cands[j], cands[1]) = Unknown)
  <1> DEFINE b == cands[1].qor
             silent == \/ b = NoQoR
                       \/ b.setup_wns = Unknown \/ b.hold_wns = Unknown
                       \/ b.setup_wns <= RequiredSetup \/ b.hold_wns <= RequiredHold
  <1>1. ASSUME NEW k \in M
        PROVE  /\ Utilization(cands[k], cands[1]) \in Shares \cup {Unknown}
               /\ Utilization(cands[k], cands[1]) = Unknown <=> k = 1 \/ silent
    <2>1. /\ cands[k].qor.setup_wns \in Int /\ cands[k].qor.hold_wns \in Int
          /\ cands[k].id = cands[1].id <=> k = 1
      BY EligibleSlacks DEF Numbered
    <2>2. cands[k].qor.setup_wns # Unknown /\ cands[k].qor.hold_wns # Unknown
      BY <2>1, SelectionAssumption
    <2>3. CASE k = 1 \/ silent
      BY <2>1, <2>3 DEF Utilization
    <2>4. CASE ~(k = 1 \/ silent)
      <3> DEFINE s == Spent(b.setup_wns, cands[k].qor.setup_wns, RequiredSetup)
                 h == Spent(b.hold_wns, cands[k].qor.hold_wns, RequiredHold)
      <3>1. b.setup_wns \in Int /\ b.hold_wns \in Int
        BY <2>4 DEF Numbered, QoR, Measured
      <3>2. b.setup_wns > RequiredSetup /\ b.hold_wns > RequiredHold
        BY <2>4, <3>1, SelectionAssumption
      <3>3. s \in Shares
        BY <2>1, <3>1, <3>2, SelectionAssumption, SpentShare
      <3>4. h \in Shares
        BY <2>1, <3>1, <3>2, SelectionAssumption, SpentShare
      <3>5. Utilization(cands[k], cands[1]) = IF Smaller(h, s) THEN s ELSE h
        BY <2>1, <2>2, <2>4 DEF Utilization
      <3> HIDE DEF s, h
      <3>6. Utilization(cands[k], cands[1]) \in Shares
        BY <3>3, <3>4, <3>5
      <3> QED
        BY <2>4, <3>6, ShareKnown
    <2> QED
      BY <2>3, <2>4
  <1> HIDE DEF silent
  <1> QED
    BY <1>1

\* Where the comparison of two fractions says something, it says which is smaller.
LEMMA ShareSign ==
    ASSUME NEW x \in Shares, NEW y \in Shares
    PROVE  /\ CmpShare(x, y) \in {-1, 0, 1} /\ CmpShare(y, x) = -CmpShare(x, y)
           /\ CmpShare(x, y) = 1 => Smaller(x, y)
           /\ CmpShare(x, y) = -1 => Smaller(y, x)
           /\ ~(Smaller(x, y) /\ Smaller(y, x))
  <1> DEFINE p == y.spent * x.of
             q == x.spent * y.of
             P == x.of * y.of
             g == (p - q) * Resolution
  <1>1. x.spent \in Nat /\ x.of \in Nat /\ x.of > 0 /\ y.spent \in Nat /\ y.of \in Nat /\ y.of > 0
    BY DEF Shares
  <1>2. p \in Int /\ q \in Int
    BY <1>1
  <1>3. P \in Nat /\ y.of * x.of = P
    BY <1>1
  <1>4. Resolution \in Nat /\ Resolution > 0
    BY SelectionAssumption
  <1>5. Unknown \notin {x, y}
    BY ShareKnown
  <1>6. CmpShare(x, y) = Sign((p - q) * Resolution, P)
    BY <1>5 DEF CmpShare
  <1>7. CmpShare(y, x) = Sign((q - p) * Resolution, P)
    BY <1>3, <1>5 DEF CmpShare
  <1>8. /\ Smaller(x, y) <=> q < p
        /\ Smaller(y, x) <=> p < q
    BY DEF Smaller
  <1> HIDE DEF p, q, P
  <1>9. \A d \in Int : d * Resolution \in Int /\ (-d) * Resolution = -(d * Resolution)
    BY <1>4
  <1>10. \A d \in Int : d <= 0 => d * Resolution <= 0
    BY <1>4
  <1>11. g \in Int /\ (q - p) * Resolution = -g /\ p - q \in Int
    <2>1. p - q \in Int /\ q - p = -(p - q)
      BY <1>2
    <2> QED
      BY <1>9, <2>1
  <1>12. g > 0 => p > q
    BY <1>2, <1>10, <1>11
  <1>13. g < 0 => q > p
    <2>1. q - p \in Int
      BY <1>2
    <2>2. q - p <= 0 => (q - p) * Resolution <= 0
      BY <1>10, <2>1
    <2> QED
      BY <1>2, <1>11, <2>2
  <1>14. CmpShare(x, y) = Sign(g, P) /\ CmpShare(y, x) = Sign(-g, P)
    BY <1>6, <1>7, <1>11
  <1> HIDE DEF g
  <1> QED
    BY <1>2, <1>3, <1>8, <1>11, <1>12, <1>13, <1>14 DEF Sign

\* Fractions are ordered.
LEMMA SmallerTransitive ==
    ASSUME NEW x \in Shares, NEW y \in Shares, NEW z \in Shares,
           ~Smaller(x, y), ~Smaller(y, z)
    PROVE  ~Smaller(x, z)
  <1> DEFINE a == x.spent
             b == x.of
             c == y.spent
             d == y.of
             e == z.spent
             f == z.of
  <1>1. /\ a \in Nat /\ c \in Nat /\ e \in Nat
        /\ b \in Nat /\ d \in Nat /\ f \in Nat /\ b > 0 /\ d > 0 /\ f > 0
    BY DEF Shares
  <1>2. c * b <= a * d /\ e * d <= c * f
    <2>1. c * b \in Nat /\ a * d \in Nat /\ e * d \in Nat /\ c * f \in Nat
      BY <1>1
    <2> QED
      BY <2>1 DEF Smaller
  <1>g. SUFFICES e * b <= a * f
    BY <1>1 DEF Smaller
  <1> HIDE DEF a, b, c, d, e, f
  <1>3. \A u, v, w \in Nat : u <= v => u * w <= v * w
    OBVIOUS
  <1>4. (c * b) * f <= (a * d) * f /\ (e * d) * b <= (c * f) * b
    <2>1. c * b \in Nat /\ a * d \in Nat /\ e * d \in Nat /\ c * f \in Nat
      BY <1>1
    <2> QED
      BY <1>1, <1>2, <1>3, <2>1
  <1>5. (c * b) * f = (c * f) * b /\ (e * d) * b = (e * b) * d /\ (a * d) * f = (a * f) * d
    BY <1>1
  <1>6. (e * b) * d <= (a * f) * d
    <2>1. (e * d) * b \in Nat /\ (c * f) * b \in Nat /\ (a * d) * f \in Nat
      BY <1>1
    <2> QED
      BY <1>4, <1>5, <2>1
  <1>7. \A u, v, w \in Nat : w > 0 /\ u * w <= v * w => u <= v
    OBVIOUS
  <1>8. e * b \in Nat /\ a * f \in Nat
    BY <1>1
  <1> QED
    BY <1>1, <1>6, <1>7, <1>8

\* The shares of these positions are fractions the comparison does not blur.
SharesTold(u, M) == \A i, j \in M : u[i] \in Shares /\ SharesApart(u[i], u[j])

\* Then comparing them is consistent.
LEMMA SharesOrder ==
    ASSUME NEW M, NEW u, SharesTold(u, M), NEW V,
           \A i, j \in M : V[i][j] = CmpShare(u[i], u[j])
    PROVE  Orders(V, M)
  <1>1. ASSUME NEW i \in M, NEW j \in M
        PROVE  /\ V[i][j] \in {-1, 0, 1} /\ V[j][i] = -V[i][j]
               /\ V[i][j] <= 0 <=> ~Smaller(u[i], u[j])
    <2>1. u[i] \in Shares /\ u[j] \in Shares /\ SharesApart(u[i], u[j])
      BY DEF SharesTold
    <2>2. V[i][j] = CmpShare(u[i], u[j]) /\ V[j][i] = CmpShare(u[j], u[i])
      OBVIOUS
    <2>3. V[i][j] = 0 => ~Smaller(u[i], u[j])
      BY <2>1, <2>2, ShareKnown DEF SharesApart
    <2>4. /\ CmpShare(u[i], u[j]) \in {-1, 0, 1}
          /\ CmpShare(u[j], u[i]) = -CmpShare(u[i], u[j])
          /\ CmpShare(u[i], u[j]) = 1 => Smaller(u[i], u[j])
          /\ CmpShare(u[i], u[j]) = -1 => ~Smaller(u[i], u[j])
      BY <2>1, ShareSign
    <2> QED
      BY <2>2, <2>3, <2>4
  <1>2. ASSUME NEW i \in M, NEW j \in M, NEW k \in M, V[i][j] <= 0, V[j][k] <= 0
        PROVE  V[i][k] <= 0
    <2>1. u[i] \in Shares /\ u[j] \in Shares /\ u[k] \in Shares
      BY DEF SharesTold
    <2>2. ~Smaller(u[i], u[j]) /\ ~Smaller(u[j], u[k])
      BY <1>1, <1>2
    <2> QED
      BY <1>1, <2>1, <2>2, SmallerTransitive
  <1> QED
    BY <1>1, <1>2 DEF Orders

\* Less margin spent, then the smaller id.  The baseline, whose spending is not
\* defined, has the smallest id, or this would not be an order.
LEMMA TieBreakOrders ==
    ASSUME NEW cands, NEW M, Numbered(cands, M), NEW u,
           \A i \in M : u[i] = Utilization(cands[i], cands[1]),
           \A i, j \in M : SharesApart(u[i], u[j]), NEW V,
           \A i, j \in M : V[i][j] = IF CmpShare(u[i], u[j]) # 0 THEN CmpShare(u[i], u[j])
                                     ELSE ById(cands[i], cands[j])
    PROVE  Orders(V, M)
  <1> DEFINE K == {i \in M : u[i] \in Shares}
             S == [i \in K |-> [j \in K |-> CmpShare(u[i], u[j])]]
             W == [i \in M |-> [j \in M |-> Sign(j - i, 0)]]
             ids == [i \in M |-> i]
  <1>1. \A i \in M : u[i] \in Shares \cup {Unknown} /\ (i = 1 => u[i] = Unknown)
    BY UtilizationKnown
  <1>2. \A i, j \in M : i # 1 /\ j # 1 => (u[i] = Unknown <=> u[j] = Unknown)
    BY UtilizationKnown
  <1>3. \A i, j \in M : ById(cands[i], cands[j]) = Sign(j - i, 0)
    BY DEF ById, Numbered
  <1>4. \A i \in M : i \in Nat /\ i >= 1
    BY DEF Numbered
  <1>5. \A i, j \in M : W[i][j] = Sign(j - i, 0)
    OBVIOUS
  <1>6. Orders(W, M)
    <2>1. \A i \in M : ids[i] = i /\ ids[i] \in Int
      BY <1>4
    <2> HIDE DEF ids, W
    <2>2. \A i, j \in M : W[i][j] = Sign(ids[j] - ids[i], 0)
      BY <1>5, <2>1
    <2> QED
      BY <2>1, <2>2, NumbersOrder
  <1>7. \A i, j \in K : S[i][j] = CmpShare(u[i], u[j])
    OBVIOUS
  <1> HIDE DEF W, S
  <1>8. Orders(S, K)
    <2>1. SharesTold(u, K)
      BY DEF SharesTold
    <2> QED
      BY <1>7, <2>1, SharesOrder
  <1>9. Orders(V, K)
    <2>1. K \subseteq M
      OBVIOUS
    <2>2. \A i, j \in K : W[i][j] = W[i][j]
      OBVIOUS
    <2>3. Orders(W, K)
      BY <1>6, <2>1, <2>2, OrdersFewer
    <2>4. \A i, j \in K : V[i][j] = IF S[i][j] # 0 THEN S[i][j] ELSE W[i][j]
      BY <1>3, <1>5, <1>7, <2>1
    <2> HIDE DEF K
    <2> QED
      BY <1>8, <2>3, <2>4, ThenOrders
  <1>10. ASSUME NEW i \in M, NEW j \in M, i \notin K \/ j \notin K
         PROVE  V[i][j] = Sign(j - i, 0)
    <2>1. Unknown \in {u[i], u[j]}
      BY <1>1, <1>10
    <2>2. CmpShare(u[i], u[j]) = 0
      BY <2>1 DEF CmpShare
    <2> QED
      BY <1>3, <2>2
  <1>11. ASSUME NEW i \in M, NEW j \in M
         PROVE  V[i][j] \in {-1, 0, 1} /\ V[j][i] = -V[i][j]
    <2>1. CASE i \in K /\ j \in K
      BY <1>9, <2>1 DEF Orders
    <2>2. CASE i \notin K \/ j \notin K
      <3>1. V[i][j] = Sign(j - i, 0) /\ V[j][i] = Sign(i - j, 0)
        BY <1>10, <2>2
      <3> QED
        BY <1>4, <3>1 DEF Sign
    <2> QED
      BY <2>1, <2>2
  <1>12. \A i, j \in M : i # 1 /\ j # 1 /\ i \in K => j \in K
    BY <1>1, <1>2, ShareKnown
  <1>13. 1 \notin K
    BY <1>1, ShareKnown
  <1>14. ASSUME NEW i \in M, NEW j \in M, NEW k \in M, V[i][j] <= 0, V[j][k] <= 0
         PROVE  V[i][k] <= 0
    <2> HIDE DEF K
    <2>1. i \in Int /\ j \in Int /\ k \in Int /\ i >= 1 /\ j >= 1 /\ k >= 1
      BY <1>4
    <2>2. CASE i \in K /\ j \in K /\ k \in K
      <3>1. V[i][j] <= 0 /\ V[j][k] <= 0 => V[i][k] <= 0
        BY <1>9, <2>2 DEF Orders
      <3> QED
        BY <1>14, <3>1
    <2>3. CASE i = 1
      <3>1. V[i][j] = Sign(j - i, 0)
        BY <1>10, <1>13, <2>3
      <3>2. j = i
        BY <1>14, <2>1, <2>3, <3>1 DEF Sign
      <3> QED
        BY <1>14, <3>2
    <2>4. CASE k = 1
      <3>1. V[i][k] = Sign(k - i, 0)
        BY <1>10, <1>13, <2>4
      <3> QED
        BY <2>1, <2>4, <3>1 DEF Sign
    <2>5. CASE j = 1
      <3>1. V[j][k] = Sign(k - j, 0)
        BY <1>10, <1>13, <2>5
      <3>2. k = 1
        BY <1>14, <2>1, <2>5, <3>1 DEF Sign
      <3> QED
        BY <2>4, <3>2
    <2>6. CASE i # 1 /\ j # 1 /\ k # 1 /\ i \notin K
      <3>1. j \notin K /\ k \notin K
        BY <1>12, <2>6
      <3>2. /\ V[i][j] = Sign(j - i, 0) /\ V[j][k] = Sign(k - j, 0)
            /\ V[i][k] = Sign(k - i, 0)
        BY <1>10, <2>6, <3>1
      <3> QED
        BY <1>14, <2>1, <3>2 DEF Sign
    <2>7. CASE i # 1 /\ j # 1 /\ k # 1 /\ i \in K
      BY <1>12, <2>2, <2>7
    <2> QED
      BY <2>3, <2>4, <2>5, <2>6, <2>7
  <1> QED
    BY <1>11, <1>14 DEF Orders

\* What priority_compare looks at is told apart, bucket by bucket and margins too.
AllSettled(cands, M) ==
    /\ \A b \in Buckets : SettledIn(cands, M, b)
    /\ \A i, j \in M : SharesApart(Utilization(cands[i], cands[1]),
                                   Utilization(cands[j], cands[1]))

\* On candidates that report the same metrics, in values the tolerance tells
\* apart, priority_compare is consistent, whatever the tolerance.
THEOREM PriorityOrders ==
    ASSUME NEW cands, NEW M, Numbered(cands, M), AllSettled(cands, M), NEW V,
           \A i, j \in M : V[i][j] = PriorityCompare(cands[i], cands[j], cands[1])
    PROVE  Orders(V, M)
  <1> DEFINE W == [b \in Buckets |-> [i \in M |-> [j \in M |->
                      CmpBucket(b, cands[i].qor, cands[j].qor)]]]
             L == [i \in M |-> [j \in M |-> Lexical([b \in Buckets |-> W[b][i][j]])]]
             u == [i \in M |-> Utilization(cands[i], cands[1])]
             T == [i \in M |-> [j \in M |->
                      IF CmpShare(u[i], u[j]) # 0 THEN CmpShare(u[i], u[j])
                      ELSE ById(cands[i], cands[j])]]
  <1>1. \A b \in Buckets : \A i, j \in M :
            W[b][i][j] = CmpBucket(b, cands[i].qor, cands[j].qor)
    OBVIOUS
  <1>2. \A i \in M : u[i] = Utilization(cands[i], cands[1])
    OBVIOUS
  <1>3. ASSUME NEW i \in M, NEW j \in M
        PROVE  [b \in Buckets |-> W[b][i][j]]
                 = [b \in Buckets |-> CmpBucket(b, cands[i].qor, cands[j].qor)]
    BY <1>1
  <1> HIDE DEF W, u
  <1>4. \A i, j \in M :
            /\ L[i][j] = Lexical([b \in Buckets |-> W[b][i][j]])
            /\ T[i][j] = IF CmpShare(u[i], u[j]) # 0 THEN CmpShare(u[i], u[j])
                         ELSE ById(cands[i], cands[j])
    OBVIOUS
  <1> HIDE DEF L, T
  <1>5. \A b \in Buckets : Orders(W[b], M)
    <2> SUFFICES ASSUME NEW b \in Buckets  PROVE Orders(W[b], M)
      OBVIOUS
    <2> DEFINE X == W[b]
    <2>1. \A i, j \in M : X[i][j] = CmpBucket(b, cands[i].qor, cands[j].qor)
      BY <1>1
    <2> HIDE DEF X
    <2>2. SettledIn(cands, M, b)
      BY DEF AllSettled
    <2>3. Orders(X, M)
      BY <2>1, <2>2, BucketOrders
    <2> QED
      BY <2>3 DEF X
  <1>6. Orders(L, M)
    <2>1. RanksInTurn(L, W, M)
      BY <1>4 DEF RanksInTurn
    <2> QED
      BY <1>5, <2>1, LexicalOrders
  <1>7. Orders(T, M)
    <2>1. \A i, j \in M : T[i][j] = IF CmpShare(u[i], u[j]) # 0 THEN CmpShare(u[i], u[j])
                                    ELSE ById(cands[i], cands[j])
      BY <1>4
    <2>2. \A i, j \in M : SharesApart(u[i], u[j])
      BY <1>2 DEF AllSettled
    <2> QED
      BY <1>2, <2>1, <2>2, TieBreakOrders
  <1>8. ASSUME NEW i \in M, NEW j \in M
        PROVE  V[i][j] = IF L[i][j] # 0 THEN L[i][j] ELSE T[i][j]
    <2>1. L[i][j] = Lexical([b \in Buckets |-> CmpBucket(b, cands[i].qor, cands[j].qor)])
      BY <1>3, <1>4
    <2>2. V[i][j] = PriorityCompare(cands[i], cands[j], cands[1])
      OBVIOUS
    <2>3. PriorityCompare(cands[i], cands[j], cands[1])
            = IF L[i][j] # 0 THEN L[i][j]
              ELSE IF CmpShare(u[i], u[j]) # 0 THEN CmpShare(u[i], u[j])
                   ELSE ById(cands[i], cands[j])
      BY <1>2, <2>1 DEF PriorityCompare
    <2> QED
      BY <1>4, <2>2, <2>3
  <1> QED
    BY <1>6, <1>7, <1>8, ThenOrders

\* The bucket looked at first decides where it has a verdict.
LEMMA LeadDecides ==
    ASSUME NEW verdicts, Buckets # {}, verdicts[First(Buckets)] # 0
    PROVE  Lexical(verdicts) = verdicts[First(Buckets)]
  <1> DEFINE D == {b \in Buckets : verdicts[b] # 0}
             lead == First(Buckets)
  <1>1. lead \in Buckets /\ \A c \in Buckets : Turn(lead) <= Turn(c)
    BY FirstIsFirst
  <1>2. lead \in D /\ D \subseteq Buckets
    BY <1>1
  <1>3. Lexical(verdicts) = verdicts[First(D)]
    BY <1>2 DEF Lexical
  <1> HIDE DEF D, lead
  <1>4. First(D) \in D /\ Turn(First(D)) <= Turn(lead)
    BY <1>2, FirstIsFirst
  <1>5. First(D) = lead
    <2>1. First(D) \in Range(BucketOrder) /\ lead \in Range(BucketOrder)
      BY <1>1, <1>2, <1>4 DEF Buckets
    <2>2. Turn(First(D)) \in Int /\ Turn(lead) \in Int
      BY <2>1, Turns
    <2>3. Turn(First(D)) = Turn(lead)
      BY <1>1, <1>2, <1>4, <2>2
    <2> QED
      BY <2>1, <2>3, Turns
  <1> QED
    BY <1>3, <1>5 DEF lead

\* V never contradicts a comparison: it may tie where the comparison decides.
Coarser(V, C, M) ==
    \A i, j \in M : (C[i][j] > 0 => V[i][j] >= 0) /\ (~(C[i][j] > 0) => V[i][j] <= 0)

-----------------------------------------------------------------------------
(* The best member.                                                        *)

\* The best of the members among the first n positions, for each n; 0 is nobody.
Scan(cands, members, best, n) ==
    best = [k \in 0..n |-> IF k = 0 THEN 0 ELSE Keep(cands, members, best[k - 1], k)]

\* The loop of max() has a run of every length.
LEMMA SearchExists ==
    ASSUME NEW cands, NEW members, NEW n \in Nat
    PROVE  \E best : Scan(cands, members, best, n)
  <1> DEFINE P == {m \in Nat : \E best : Scan(cands, members, best, m)}
  <1>1. 0 \in P
    <2>1. Scan(cands, members, [k \in 0..0 |-> 0], 0)
      BY DEF Scan
    <2> QED
      BY <2>1
  <1>2. ASSUME NEW m \in Nat, m \in P  PROVE m + 1 \in P
    <2>1. PICK best : Scan(cands, members, best, m)
      BY <1>2
    <2> DEFINE step(f, k) == IF k = 0 THEN 0 ELSE Keep(cands, members, f[k - 1], k)
               more == [k \in 0..(m + 1) |-> IF k = m + 1
                                             THEN Keep(cands, members, best[m], m + 1)
                                             ELSE best[k]]
    <2>2. best = [k \in 0..m |-> step(best, k)]
      BY <2>1 DEF Scan
    <2>3. ASSUME NEW k \in 0..(m + 1)  PROVE more[k] = step(more, k)
      <3>1. CASE k = m + 1
        <4>1. k # 0 /\ k - 1 = m /\ m \in 0..(m + 1) /\ m # m + 1
          BY <3>1
        <4>2. more[k - 1] = best[m] /\ more[k] = Keep(cands, members, best[m], k)
          BY <3>1, <4>1
        <4> QED
          BY <4>1, <4>2
      <3>2. CASE k # m + 1
        <4>1. k \in 0..m /\ (k # 0 => k - 1 \in 0..(m + 1) /\ k - 1 # m + 1)
          BY <2>3, <3>2
        <4>2. more[k] = best[k] /\ (k # 0 => more[k - 1] = best[k - 1])
          BY <2>3, <3>2, <4>1
        <4>3. best[k] = step(best, k)
          BY <2>2, <4>1
        <4> HIDE DEF more
        <4> QED
          BY <4>2, <4>3
      <3> QED
        BY <3>1, <3>2
    <2>4. more = [k \in 0..(m + 1) |-> more[k]]
      OBVIOUS
    <2> HIDE DEF more
    <2>5. Scan(cands, members, more, m + 1)
      BY <2>3, <2>4 DEF Scan
    <2> QED
      BY <2>5
  <1> HIDE DEF P
  <1>3. n \in P
    BY <1>1, <1>2, SetInduction
  <1> QED
    BY <1>3 DEF P

\* The best member is the end of such a run.
LEMMA BestIsSearch ==
    ASSUME NEW cands, NEW members, Len(cands) \in Nat
    PROVE  \E best : /\ Scan(cands, members, best, Len(cands))
                     /\ BestOf(cands, members) = best[Len(cands)]
  <1>0. \E f : Scan(cands, members, f, Len(cands))
    BY SearchExists
  <1>1. \E f : f = [k \in 0..Len(cands) |->
                      IF k = 0 THEN 0 ELSE Keep(cands, members, f[k - 1], k)]
    BY <1>0 DEF Scan
  <1> DEFINE best[k \in 0..Len(cands)] ==
                IF k = 0 THEN 0 ELSE Keep(cands, members, best[k - 1], k)
  <1>2. best = [k \in 0..Len(cands) |->
                    IF k = 0 THEN 0 ELSE Keep(cands, members, best[k - 1], k)]
    BY <1>1
  <1>3. BestOf(cands, members) = best[Len(cands)]
    BY DEF BestOf
  <1> HIDE DEF best
  <1> QED
    BY <1>2, <1>3 DEF Scan

\* A search starts with nobody.
LEMMA SearchStarts ==
    ASSUME NEW cands, NEW members, NEW n \in Nat, NEW best, Scan(cands, members, best, n)
    PROVE  best[0] = 0
  BY DEF Scan

\* The next best is the last one or the newcomer.
LEMMA SearchNext ==
    ASSUME NEW cands, NEW members, NEW n \in Nat, NEW best, Scan(cands, members, best, n),
           NEW k \in Nat, k + 1 <= n
    PROVE  best[k + 1] = Keep(cands, members, best[k], k + 1)
  <1> DEFINE step(j) == IF j = 0 THEN 0 ELSE Keep(cands, members, best[j - 1], j)
  <1>1. best = [j \in 0..n |-> step(j)]
    BY DEF Scan
  <1>2. \A j \in 0..n : best[j] = step(j)
    BY <1>1
  <1>3. k + 1 \in 0..n /\ k + 1 # 0 /\ (k + 1) - 1 = k
    OBVIOUS
  <1> QED
    BY <1>2, <1>3

\* The best of some members is one of them.
LEMMA BestIsMember ==
    ASSUME NEW cands, NEW members, Len(cands) \in Nat, members \subseteq 1..Len(cands),
           members # {}
    PROVE  BestOf(cands, members) \in members
  <1>1. PICK best : /\ Scan(cands, members, best, Len(cands))
                    /\ BestOf(cands, members) = best[Len(cands)]
    BY BestIsSearch
  <1> DEFINE n == Len(cands)
             Held(k) == /\ best[k] \in members \cup {0}
                        /\ best[k] = 0 => \A j \in members : ~(j <= k)
             P == {k \in Nat : k <= n => Held(k)}
  <1>2. 0 \in P
    <2>1. best[0] = 0
      BY <1>1, SearchStarts
    <2> QED
      BY <2>1
  <1>3. ASSUME NEW k \in Nat, k \in P  PROVE k + 1 \in P
    <2> SUFFICES ASSUME k + 1 <= n  PROVE Held(k + 1)
      OBVIOUS
    <2>1. best[k + 1] = Keep(cands, members, best[k], k + 1)
      BY <1>1, SearchNext
    <2>2. Held(k)
      BY <1>3
    <2>3. CASE best[k + 1] = k + 1 /\ k + 1 \in members
      BY <2>3
    <2>4. CASE best[k + 1] = best[k] /\ (k + 1 \in members => best[k] # 0)
      <3>1. \A j \in members : j <= k + 1 => j <= k \/ j = k + 1
        OBVIOUS
      <3> QED
        BY <2>2, <2>4, <3>1
    <2> QED
      BY <2>1, <2>3, <2>4 DEF Keep
  <1> HIDE DEF P
  <1>4. n \in P
    BY <1>2, <1>3, SetInduction
  <1>5. Held(n)
    BY <1>4 DEF P
  <1>6. \A j \in members : j <= n
    OBVIOUS
  <1> QED
    BY <1>1, <1>5, <1>6

\* The comparison as such a function.
Preference(cands, members) ==
    [i \in members |-> [j \in members |-> PriorityCompare(cands[i], cands[j], cands[1])]]

\* An order that never contradicts the comparison does not put any member before
\* the best.
LEMMA BestIsBest ==
    ASSUME NEW cands, NEW members, Len(cands) \in Nat, members \subseteq 1..Len(cands),
           NEW V, Orders(V, members), Coarser(V, Preference(cands, members), members),
           NEW i \in members
    PROVE  V[i][BestOf(cands, members)] <= 0
  <1>1. PICK best : /\ Scan(cands, members, best, Len(cands))
                    /\ BestOf(cands, members) = best[Len(cands)]
    BY BestIsSearch
  <1> DEFINE n == Len(cands)
             C(j, k) == PriorityCompare(cands[j], cands[k], cands[1])
             Held(k) == /\ best[k] \in members \cup {0}
                        /\ \A j \in members : j <= k => best[k] # 0 /\ V[j][best[k]] <= 0
             P == {k \in Nat : k <= n => Held(k)}
  <1>2. 0 \in P
    <2>1. best[0] = 0
      BY <1>1, SearchStarts
    <2> QED
      BY <2>1
  <1>c. \A j, k \in members : (C(j, k) > 0 => V[j][k] >= 0) /\ (~(C(j, k) > 0) => V[j][k] <= 0)
    BY DEF Coarser, Preference
  <1>o. /\ \A j \in members : V[j][j] <= 0
        /\ \A j, k \in members : V[j][k] >= 0 => V[k][j] <= 0
        /\ \A j, k, l \in members : V[j][k] <= 0 /\ V[k][l] <= 0 => V[j][l] <= 0
    <2>1. \A j, k \in members :
              /\ V[j][k] \in {-1, 0, 1} /\ V[k][j] = -V[j][k]
              /\ \A l \in members : V[j][k] <= 0 /\ V[k][l] <= 0 => V[j][l] <= 0
      BY DEF Orders
    <2>2. ASSUME NEW j \in members  PROVE V[j][j] <= 0
      <3>1. V[j][j] \in {-1, 0, 1} /\ V[j][j] = -V[j][j]
        BY <2>1
      <3> QED
        BY <3>1
    <2>3. ASSUME NEW j \in members, NEW k \in members, V[j][k] >= 0  PROVE V[k][j] <= 0
      <3>1. V[j][k] \in {-1, 0, 1} /\ V[k][j] = -V[j][k]
        BY <2>1
      <3> QED
        BY <2>3, <3>1
    <2> QED
      BY <2>1, <2>2, <2>3
  <1>3. ASSUME NEW k \in Nat, k \in P  PROVE k + 1 \in P
    <2> SUFFICES ASSUME k + 1 <= n  PROVE Held(k + 1)
      OBVIOUS
    <2>1. best[k + 1] = Keep(cands, members, best[k], k + 1)
      BY <1>1, SearchNext
    <2>2. Held(k)
      BY <1>3
    <2>3. \A j \in members : j <= k + 1 => j <= k \/ j = k + 1
      OBVIOUS
    <2>4. \/ k + 1 \in members /\ best[k + 1] = k + 1 /\ best[k] = 0
          \/ k + 1 \in members /\ best[k + 1] = k + 1 /\ best[k] # 0 /\ C(k + 1, best[k]) > 0
          \/ k + 1 \in members /\ best[k + 1] = best[k] /\ best[k] # 0 /\ ~(C(k + 1, best[k]) > 0)
          \/ k + 1 \notin members /\ best[k + 1] = best[k]
      BY <2>1 DEF Keep
    <2> HIDE DEF C
    <2>5. CASE k + 1 \in members /\ best[k + 1] = k + 1 /\ best[k] = 0
      <3>1. V[k + 1][k + 1] <= 0
        BY <1>o, <2>5
      <3>2. \A j \in members : ~(j <= k)
        BY <2>2, <2>5
      <3>3. \A j \in members : j <= k + 1 => V[j][best[k + 1]] <= 0
        BY <2>3, <2>5, <3>1, <3>2
      <3> QED
        BY <2>5, <3>3
    <2>6. CASE k + 1 \in members /\ best[k + 1] = k + 1 /\ best[k] # 0 /\ C(k + 1, best[k]) > 0
      <3>0. best[k] \in members
        BY <2>2, <2>6
      <3>1. V[best[k]][k + 1] <= 0 /\ V[k + 1][k + 1] <= 0
        <4>1. V[k + 1][best[k]] >= 0
          BY <1>c, <2>6, <3>0
        <4> QED
          BY <1>o, <2>6, <3>0, <4>1
      <3>2. ASSUME NEW j \in members, j <= k  PROVE V[j][k + 1] <= 0
        <4>1. V[j][best[k]] <= 0
          BY <2>2, <3>2
        <4> QED
          BY <1>o, <2>6, <3>0, <3>1, <4>1
      <3> QED
        BY <2>3, <2>6, <3>1, <3>2
    <2>7. CASE k + 1 \in members /\ best[k + 1] = best[k] /\ best[k] # 0 /\ ~(C(k + 1, best[k]) > 0)
      <3>0. best[k] \in members
        BY <2>2, <2>7
      <3>1. V[k + 1][best[k]] <= 0
        BY <1>c, <2>7, <3>0
      <3> QED
        BY <2>2, <2>3, <2>7, <3>0, <3>1
    <2>8. CASE k + 1 \notin members /\ best[k + 1] = best[k]
      BY <2>2, <2>3, <2>8
    <2> QED
      BY <2>4, <2>5, <2>6, <2>7, <2>8
  <1> HIDE DEF P
  <1>4. n \in P
    BY <1>2, <1>3, SetInduction
  <1>5. Held(n)
    BY <1>4 DEF P
  <1>6. i <= n
    OBVIOUS
  <1> QED
    BY <1>1, <1>5, <1>6

\* The final pick is a member of the front or the eligible baseline.
LEMMA FinalIsMember ==
    ASSUME NEW cands, NEW front, Len(cands) \in Nat, front \subseteq 1..Len(cands), front # {}
    PROVE  \/ SelectFinal(cands, front) \in front
           \/ SelectFinal(cands, front) = 1 /\ Eligible(cands[1])
  BY BestIsMember DEF SelectFinal

\* Whoever select_final may choose from, an order that never contradicts the
\* comparison puts none before its choice.
THEOREM FinalNotBeaten ==
    ASSUME NEW cands, NEW front, Len(cands) \in Nat, front \subseteq 1..Len(cands), front # {},
           NEW M, M = front \cup {j \in {1} : Eligible(cands[j])},
           NEW V, Orders(V, M), Coarser(V, Preference(cands, M), M), NEW i \in M
    PROVE  V[i][SelectFinal(cands, front)] <= 0
  <1> DEFINE best == BestOf(cands, front)
             C(j, k) == PriorityCompare(cands[j], cands[k], cands[1])
  <1>1. \A j, k \in M : (C(j, k) > 0 => V[j][k] >= 0) /\ (~(C(j, k) > 0) => V[j][k] <= 0)
    BY DEF Coarser, Preference
  <1>2. Orders(V, front) /\ Coarser(V, Preference(cands, front), front)
    <2>1. \A j, k \in front : V[j][k] = V[j][k]
      OBVIOUS
    <2>2. front \subseteq M
      OBVIOUS
    <2>3. Orders(V, front)
      BY <2>1, <2>2, OrdersFewer
    <2>4. Coarser(V, Preference(cands, front), front)
      BY <1>1, <2>2 DEF Coarser, Preference
    <2> QED
      BY <2>3, <2>4
  <1>3. best \in front
    BY BestIsMember
  <1>4. \A j \in front : V[j][best] <= 0
    BY <1>2, BestIsBest
  <1>5. SelectFinal(cands, front)
          = IF 1 \notin front /\ Eligible(cands[1]) /\ C(1, best) > 0 THEN 1 ELSE best
    BY DEF SelectFinal
  <1> HIDE DEF best, C
  <1>6. \A j, k \in M : /\ V[j][k] >= 0 => V[k][j] <= 0
                        /\ V[j][j] <= 0
    <2> SUFFICES ASSUME NEW j \in M, NEW k \in M
                 PROVE  (V[j][k] >= 0 => V[k][j] <= 0) /\ V[j][j] <= 0
      OBVIOUS
    <2>1. /\ V[j][k] \in {-1, 0, 1} /\ V[k][j] = -V[j][k]
          /\ V[j][j] \in {-1, 0, 1} /\ V[j][j] = -V[j][j]
      BY DEF Orders
    <2> QED
      BY <2>1
  <1>7. \A j, k, l \in M : V[j][k] <= 0 /\ V[k][l] <= 0 => V[j][l] <= 0
    BY DEF Orders
  <1>8. CASE 1 \notin front /\ Eligible(cands[1]) /\ C(1, best) > 0
    <2>1. 1 \in M /\ SelectFinal(cands, front) = 1
      BY <1>5, <1>8
    <2>2. V[best][1] <= 0 /\ V[1][1] <= 0
      BY <1>1, <1>3, <1>6, <1>8, <2>1
    <2>3. \A j \in front : V[j][1] <= 0
      BY <1>3, <1>4, <1>7, <2>1, <2>2
    <2> QED
      BY <2>1, <2>2, <2>3
  <1>9. CASE ~(1 \notin front /\ Eligible(cands[1]) /\ C(1, best) > 0)
    <2>1. SelectFinal(cands, front) = best
      BY <1>5, <1>9
    <2>2. CASE i \in front
      BY <1>4, <2>1, <2>2
    <2>3. CASE i \notin front
      <3>1. i = 1 /\ 1 \in M /\ ~(C(1, best) > 0)
        BY <1>9, <2>3
      <3>2. V[1][best] <= 0
        BY <1>1, <1>3, <3>1
      <3> QED
        BY <2>1, <3>1, <3>2
    <2> QED
      BY <2>2, <2>3
  <1> QED
    BY <1>8, <1>9

=============================================================================
