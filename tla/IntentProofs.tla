---------------------------- MODULE IntentProofs ----------------------------
(***************************************************************************)
(* For any worlds, packages, users and sessions: a saved set restores from *)
(* its snapshot, whatever rests on an assumption is reported stale with    *)
(* it, a repeated decision is recognised, and what is applied is what the  *)
(* engine, or the caller, would offer again at that moment                 *)
(* (inference/application.py, constraint_model/constraint_set.py).         *)
(*                                                                         *)
(* The loops of the model -- names walked, edges followed, templates       *)
(* added, slots materialised -- are recursive functions.  Of each the      *)
(* proofs use a tower: the function of the values after 0, 1, ..., n       *)
(* rounds, that there is one, and what its last value is.                  *)
(***************************************************************************)
EXTENDS IntentApplication, FiniteSetTheorems, WellFoundedInduction, TLAPS

-----------------------------------------------------------------------------
(* Induction, for a set of numbers, and what its use gives.                *)

\* A set that holds 0 and with each number the next one holds all.
LEMMA SetInduction ==
    ASSUME NEW P, 0 \in P, \A k \in Nat : k \in P => k + 1 \in P
    PROVE  Nat \subseteq P
  <1> DEFINE Lacking == Nat \ P
  <1>1. SUFFICES ASSUME Lacking # {}  PROVE FALSE
    OBVIOUS
  <1>2. PICK m \in Lacking : \A k \in Lacking : <<k, m>> \notin OpToRel(<, Nat)
    BY <1>1, NatLessThanWellFounded, WFMin, Lacking \in SUBSET Nat
  <1>3. \A k \in Lacking : ~(k < m)
    BY <1>2 DEF OpToRel
  <1>4. m \in Nat /\ m \notin P
    OBVIOUS
  <1>5. m # 0
    BY <1>4
  <1>6. m - 1 \in Nat /\ m - 1 < m /\ m - 1 \in P
    BY <1>3, <1>4, <1>5
  <1> HIDE DEF Lacking
  <1>7. (m - 1) + 1 \in P
    BY <1>6
  <1>8. (m - 1) + 1 = m
    BY <1>4
  <1> QED
    BY <1>4, <1>7, <1>8

-----------------------------------------------------------------------------
(* The sequence of names a rule walks.                                      *)

\* One name: kept if it is one of those asked for.
Picked(names, s, k) == IF NameOrder[k] \in names THEN Append(s, NameOrder[k]) ELSE s

\* The names picked from the first n.
Walk(names, f, n) ==
    f = [k \in 0..n |-> IF k = 0 THEN <<>> ELSE Picked(names, f[k - 1], k)]

\* There is one of every length.
LEMMA WalkExists ==
    ASSUME NEW names, NEW n \in Nat
    PROVE  \E f : Walk(names, f, n)
  <1> DEFINE P == {m \in Nat : \E f : Walk(names, f, m)}
  <1>1. 0 \in P
    <2>1. Walk(names, [k \in 0..0 |-> <<>>], 0)
      BY DEF Walk
    <2> QED
      BY <2>1
  <1>2. ASSUME NEW m \in Nat, m \in P  PROVE m + 1 \in P
    <2>1. PICK f : Walk(names, f, m)
      BY <1>2
    <2> DEFINE step(g, k) == IF k = 0 THEN <<>> ELSE Picked(names, g[k - 1], k)
               more == [k \in 0..(m + 1) |-> IF k = m + 1 THEN Picked(names, f[m], m + 1) ELSE f[k]]
    <2>2. f = [k \in 0..m |-> step(f, k)]
      BY <2>1 DEF Walk
    <2>3. ASSUME NEW k \in 0..(m + 1)  PROVE more[k] = step(more, k)
      <3>1. CASE k = m + 1
        <4>1. k # 0 /\ k - 1 = m /\ m \in 0..(m + 1) /\ m # m + 1
          BY <3>1
        <4>2. more[k - 1] = f[m] /\ more[k] = Picked(names, f[m], k)
          BY <3>1, <4>1
        <4> QED
          BY <4>1, <4>2
      <3>2. CASE k # m + 1
        <4>1. k \in 0..m /\ (k # 0 => k - 1 \in 0..(m + 1) /\ k - 1 # m + 1)
          BY <2>3, <3>2
        <4>2. more[k] = f[k] /\ (k # 0 => more[k - 1] = f[k - 1])
          BY <2>3, <3>2, <4>1
        <4>3. f[k] = step(f, k)
          BY <2>2, <4>1
        <4> HIDE DEF more
        <4> QED
          BY <4>2, <4>3
      <3> QED
        BY <3>1, <3>2
    <2>4. more = [k \in 0..(m + 1) |-> more[k]]
      OBVIOUS
    <2> HIDE DEF more
    <2>5. Walk(names, more, m + 1)
      BY <2>3, <2>4 DEF Walk
    <2> QED
      BY <2>5
  <1> HIDE DEF P
  <1>3. n \in P
    BY <1>1, <1>2, SetInduction
  <1> QED
    BY <1>3 DEF P

\* A walk of that length, from its start to its end.
WalkTo(names, f, end) ==
    /\ f[Len(NameOrder)] = end /\ f[0] = <<>>
    /\ \A k \in Nat : k + 1 <= Len(NameOrder) => f[k + 1] = Picked(names, f[k], k + 1)

\* Sorted is the end of such a walk.
LEMMA WalkSteps ==
    ASSUME NEW names, Len(NameOrder) \in Nat
    PROVE  \E f : WalkTo(names, f, Sorted(names))
  <1> DEFINE N == Len(NameOrder)
             f[k \in 0..N] == IF k = 0 THEN <<>>
                              ELSE IF NameOrder[k] \in names THEN Append(f[k - 1], NameOrder[k])
                              ELSE f[k - 1]
  <1>1. \E g : g = [k \in 0..N |-> IF k = 0 THEN <<>>
                                   ELSE IF NameOrder[k] \in names THEN Append(g[k - 1], NameOrder[k])
                                   ELSE g[k - 1]]
    <2>1. N \in Nat
      OBVIOUS
    <2>2. PICK g : Walk(names, g, N)
      BY <2>1, WalkExists
    <2> HIDE DEF N
    <2> QED
      BY <2>2 DEF Walk, Picked
  <1>2. f = [k \in 0..N |-> IF k = 0 THEN <<>>
                            ELSE IF NameOrder[k] \in names THEN Append(f[k - 1], NameOrder[k])
                            ELSE f[k - 1]]
    BY <1>1
  <1>3. Sorted(names) = f[N]
    BY DEF Sorted
  <1> HIDE DEF f
  <1>4. f = [k \in 0..N |-> IF k = 0 THEN <<>> ELSE Picked(names, f[k - 1], k)]
    BY <1>2 DEF Picked
  <1>5. f[0] = <<>>
    BY <1>4
  <1>6. ASSUME NEW k \in Nat, k + 1 <= N  PROVE f[k + 1] = Picked(names, f[k], k + 1)
    <2>1. k + 1 \in 0..N /\ k + 1 # 0 /\ (k + 1) - 1 = k
      BY <1>6
    <2> QED
      BY <1>4, <2>1
  <1> QED
    BY <1>3, <1>5, <1>6 DEF WalkTo

-----------------------------------------------------------------------------
(* What edges reach.                                                        *)

\* One step along all edges.
Spread(edges, S, k) == S \cup {e[2] : e \in {d \in edges : d[1] \in S}}

\* What is reached from a set in up to n steps.
Wave(edges, from, f, n) ==
    f = [k \in 0..n |-> IF k = 0 THEN from ELSE Spread(edges, f[k - 1], k)]

\* There is one of every length.
LEMMA WaveExists ==
    ASSUME NEW edges, NEW from, NEW n \in Nat
    PROVE  \E f : Wave(edges, from, f, n)
  <1> DEFINE P == {m \in Nat : \E f : Wave(edges, from, f, m)}
  <1>1. 0 \in P
    <2>1. Wave(edges, from, [k \in 0..0 |-> from], 0)
      BY DEF Wave
    <2> QED
      BY <2>1
  <1>2. ASSUME NEW m \in Nat, m \in P  PROVE m + 1 \in P
    <2>1. PICK f : Wave(edges, from, f, m)
      BY <1>2
    <2> DEFINE step(g, k) == IF k = 0 THEN from ELSE Spread(edges, g[k - 1], k)
               more == [k \in 0..(m + 1) |-> IF k = m + 1 THEN Spread(edges, f[m], m + 1) ELSE f[k]]
    <2>2. f = [k \in 0..m |-> step(f, k)]
      BY <2>1 DEF Wave
    <2>3. ASSUME NEW k \in 0..(m + 1)  PROVE more[k] = step(more, k)
      <3>1. CASE k = m + 1
        <4>1. k # 0 /\ k - 1 = m /\ m \in 0..(m + 1) /\ m # m + 1
          BY <3>1
        <4>2. more[k - 1] = f[m] /\ more[k] = Spread(edges, f[m], k)
          BY <3>1, <4>1
        <4> QED
          BY <4>1, <4>2
      <3>2. CASE k # m + 1
        <4>1. k \in 0..m /\ (k # 0 => k - 1 \in 0..(m + 1) /\ k - 1 # m + 1)
          BY <2>3, <3>2
        <4>2. more[k] = f[k] /\ (k # 0 => more[k - 1] = f[k - 1])
          BY <2>3, <3>2, <4>1
        <4>3. f[k] = step(f, k)
          BY <2>2, <4>1
        <4> HIDE DEF more
        <4> QED
          BY <4>2, <4>3
      <3> QED
        BY <3>1, <3>2
    <2>4. more = [k \in 0..(m + 1) |-> more[k]]
      OBVIOUS
    <2> HIDE DEF more
    <2>5. Wave(edges, from, more, m + 1)
      BY <2>3, <2>4 DEF Wave
    <2> QED
      BY <2>5
  <1> HIDE DEF P
  <1>3. n \in P
    BY <1>1, <1>2, SetInduction
  <1> QED
    BY <1>3 DEF P

\* A walk of that length, from its start to its end.
WaveTo(edges, from, bound, f, end) ==
    /\ f[bound] = end /\ f[0] = from
    /\ \A k \in Nat : k + 1 <= bound => f[k + 1] = Spread(edges, f[k], k + 1)

\* Reached is the end of such waves.
LEMMA WaveSteps ==
    ASSUME NEW edges, NEW from, NEW bound \in Nat
    PROVE  \E f : WaveTo(edges, from, bound, f, Reached(edges, from, bound))
  <1> DEFINE N == bound
             f[k \in 0..N] == IF k = 0 THEN from
                              ELSE f[k - 1] \cup {e[2] : e \in {d \in edges : d[1] \in f[k - 1]}}
  <1>1. \E g : g = [k \in 0..N |-> IF k = 0 THEN from
                                   ELSE g[k - 1] \cup {e[2] : e \in {d \in edges : d[1] \in g[k - 1]}}]
    <2>1. N \in Nat
      OBVIOUS
    <2>2. PICK g : Wave(edges, from, g, N)
      BY <2>1, WaveExists
    <2> HIDE DEF N
    <2> QED
      BY <2>2 DEF Wave, Spread
  <1>2. f = [k \in 0..N |-> IF k = 0 THEN from
                            ELSE f[k - 1] \cup {e[2] : e \in {d \in edges : d[1] \in f[k - 1]}}]
    BY <1>1
  <1>3. Reached(edges, from, bound) = f[N]
    BY DEF Reached
  <1> HIDE DEF f
  <1>4. f = [k \in 0..N |-> IF k = 0 THEN from ELSE Spread(edges, f[k - 1], k)]
    BY <1>2 DEF Spread
  <1>5. f[0] = from
    BY <1>4
  <1>6. ASSUME NEW k \in Nat, k + 1 <= N  PROVE f[k + 1] = Spread(edges, f[k], k + 1)
    <2>1. k + 1 \in 0..N /\ k + 1 # 0 /\ (k + 1) - 1 = k
      BY <1>6
    <2> QED
      BY <1>4, <2>1
  <1> QED
    BY <1>3, <1>5, <1>6 DEF WaveTo

-----------------------------------------------------------------------------
(* Templates added one after the other.                                     *)

\* One template.
AddedNext(ts, v, k) == Add(v, ts[k].id, ts[k].con)

\* The set after the first n templates.
Growth(ts, u, f, n) ==
    f = [k \in 0..n |-> IF k = 0 THEN u ELSE AddedNext(ts, f[k - 1], k)]

\* There is one of every length.
LEMMA GrowthExists ==
    ASSUME NEW ts, NEW u, NEW n \in Nat
    PROVE  \E f : Growth(ts, u, f, n)
  <1> DEFINE P == {m \in Nat : \E f : Growth(ts, u, f, m)}
  <1>1. 0 \in P
    <2>1. Growth(ts, u, [k \in 0..0 |-> u], 0)
      BY DEF Growth
    <2> QED
      BY <2>1
  <1>2. ASSUME NEW m \in Nat, m \in P  PROVE m + 1 \in P
    <2>1. PICK f : Growth(ts, u, f, m)
      BY <1>2
    <2> DEFINE step(g, k) == IF k = 0 THEN u ELSE AddedNext(ts, g[k - 1], k)
               more == [k \in 0..(m + 1) |-> IF k = m + 1 THEN AddedNext(ts, f[m], m + 1) ELSE f[k]]
    <2>2. f = [k \in 0..m |-> step(f, k)]
      BY <2>1 DEF Growth
    <2>3. ASSUME NEW k \in 0..(m + 1)  PROVE more[k] = step(more, k)
      <3>1. CASE k = m + 1
        <4>1. k # 0 /\ k - 1 = m /\ m \in 0..(m + 1) /\ m # m + 1
          BY <3>1
        <4>2. more[k - 1] = f[m] /\ more[k] = AddedNext(ts, f[m], k)
          BY <3>1, <4>1
        <4> QED
          BY <4>1, <4>2
      <3>2. CASE k # m + 1
        <4>1. k \in 0..m /\ (k # 0 => k - 1 \in 0..(m + 1) /\ k - 1 # m + 1)
          BY <2>3, <3>2
        <4>2. more[k] = f[k] /\ (k # 0 => more[k - 1] = f[k - 1])
          BY <2>3, <3>2, <4>1
        <4>3. f[k] = step(f, k)
          BY <2>2, <4>1
        <4> HIDE DEF more
        <4> QED
          BY <4>2, <4>3
      <3> QED
        BY <3>1, <3>2
    <2>4. more = [k \in 0..(m + 1) |-> more[k]]
      OBVIOUS
    <2> HIDE DEF more
    <2>5. Growth(ts, u, more, m + 1)
      BY <2>3, <2>4 DEF Growth
    <2> QED
      BY <2>5
  <1> HIDE DEF P
  <1>3. n \in P
    BY <1>1, <1>2, SetInduction
  <1> QED
    BY <1>3 DEF P

\* A walk of that length, from its start to its end.
GrowthTo(ts, u, f, end) ==
    /\ f[Len(ts)] = end /\ f[0] = u
    /\ \A k \in Nat : k + 1 <= Len(ts) => f[k + 1] = AddedNext(ts, f[k], k + 1)

\* AddAll is the end of such a growth.
LEMMA GrowthSteps ==
    ASSUME NEW ts, NEW u, Len(ts) \in Nat
    PROVE  \E f : GrowthTo(ts, u, f, AddAll(u, ts))
  <1> DEFINE N == Len(ts)
             f[k \in 0..N] == IF k = 0 THEN u ELSE Add(f[k - 1], ts[k].id, ts[k].con)
  <1>1. \E g : g = [k \in 0..N |-> IF k = 0 THEN u ELSE Add(g[k - 1], ts[k].id, ts[k].con)]
    <2>1. N \in Nat
      OBVIOUS
    <2>2. PICK g : Growth(ts, u, g, N)
      BY <2>1, GrowthExists
    <2> HIDE DEF N
    <2> QED
      BY <2>2 DEF Growth, AddedNext
  <1>2. f = [k \in 0..N |-> IF k = 0 THEN u ELSE Add(f[k - 1], ts[k].id, ts[k].con)]
    BY <1>1
  <1>3. AddAll(u, ts) = f[N]
    BY DEF AddAll
  <1> HIDE DEF f
  <1>4. f = [k \in 0..N |-> IF k = 0 THEN u ELSE AddedNext(ts, f[k - 1], k)]
    BY <1>2 DEF AddedNext
  <1>5. f[0] = u
    BY <1>4
  <1>6. ASSUME NEW k \in Nat, k + 1 <= N  PROVE f[k + 1] = AddedNext(ts, f[k], k + 1)
    <2>1. k + 1 \in 0..N /\ k + 1 # 0 /\ (k + 1) - 1 = k
      BY <1>6
    <2> QED
      BY <1>4, <2>1
  <1> QED
    BY <1>3, <1>5, <1>6 DEF GrowthTo

-----------------------------------------------------------------------------
(* Slots materialised one after the other.                                  *)

\* One proposal: materialised if it opens a slot.
RanNext(props, v, k) == IF k \in Openers(props) THEN Materialise(v, Build(props, k)) ELSE v

\* The set after the slots opened by the first n proposals.
Runs(props, u, f, n) ==
    f = [k \in 0..n |-> IF k = 0 THEN u ELSE RanNext(props, f[k - 1], k)]

\* There is one of every length.
LEMMA RunsExists ==
    ASSUME NEW props, NEW u, NEW n \in Nat
    PROVE  \E f : Runs(props, u, f, n)
  <1> DEFINE P == {m \in Nat : \E f : Runs(props, u, f, m)}
  <1>1. 0 \in P
    <2>1. Runs(props, u, [k \in 0..0 |-> u], 0)
      BY DEF Runs
    <2> QED
      BY <2>1
  <1>2. ASSUME NEW m \in Nat, m \in P  PROVE m + 1 \in P
    <2>1. PICK f : Runs(props, u, f, m)
      BY <1>2
    <2> DEFINE step(g, k) == IF k = 0 THEN u ELSE RanNext(props, g[k - 1], k)
               more == [k \in 0..(m + 1) |-> IF k = m + 1 THEN RanNext(props, f[m], m + 1) ELSE f[k]]
    <2>2. f = [k \in 0..m |-> step(f, k)]
      BY <2>1 DEF Runs
    <2>3. ASSUME NEW k \in 0..(m + 1)  PROVE more[k] = step(more, k)
      <3>1. CASE k = m + 1
        <4>1. k # 0 /\ k - 1 = m /\ m \in 0..(m + 1) /\ m # m + 1
          BY <3>1
        <4>2. more[k - 1] = f[m] /\ more[k] = RanNext(props, f[m], k)
          BY <3>1, <4>1
        <4> QED
          BY <4>1, <4>2
      <3>2. CASE k # m + 1
        <4>1. k \in 0..m /\ (k # 0 => k - 1 \in 0..(m + 1) /\ k - 1 # m + 1)
          BY <2>3, <3>2
        <4>2. more[k] = f[k] /\ (k # 0 => more[k - 1] = f[k - 1])
          BY <2>3, <3>2, <4>1
        <4>3. f[k] = step(f, k)
          BY <2>2, <4>1
        <4> HIDE DEF more
        <4> QED
          BY <4>2, <4>3
      <3> QED
        BY <3>1, <3>2
    <2>4. more = [k \in 0..(m + 1) |-> more[k]]
      OBVIOUS
    <2> HIDE DEF more
    <2>5. Runs(props, u, more, m + 1)
      BY <2>3, <2>4 DEF Runs
    <2> QED
      BY <2>5
  <1> HIDE DEF P
  <1>3. n \in P
    BY <1>1, <1>2, SetInduction
  <1> QED
    BY <1>3 DEF P

\* A walk of that length, from its start to its end.
RunsTo(props, u, f, end) ==
    /\ f[Len(props)] = end /\ f[0] = u
    /\ \A k \in Nat : k + 1 <= Len(props) => f[k + 1] = RanNext(props, f[k], k + 1)

\* Run is the end of such a run.
LEMMA RunsSteps ==
    ASSUME NEW w, NEW props, props = Proposals(w), NEW u, Len(props) \in Nat
    PROVE  \E f : RunsTo(props, u, f, Run(w, u))
  <1> DEFINE N == Len(props)
             f[k \in 0..N] == IF k = 0 THEN u
                              ELSE IF k \in Openers(props) THEN Materialise(f[k - 1], Build(props, k))
                              ELSE f[k - 1]
  <1>1. \E g : g = [k \in 0..N |-> IF k = 0 THEN u
                                   ELSE IF k \in Openers(props) THEN Materialise(g[k - 1], Build(props, k))
                                   ELSE g[k - 1]]
    <2>1. N \in Nat
      OBVIOUS
    <2>2. PICK g : Runs(props, u, g, N)
      BY <2>1, RunsExists
    <2> HIDE DEF N
    <2> QED
      BY <2>2 DEF Runs, RanNext
  <1>2. f = [k \in 0..N |-> IF k = 0 THEN u
                            ELSE IF k \in Openers(props) THEN Materialise(f[k - 1], Build(props, k))
                            ELSE f[k - 1]]
    BY <1>1
  <1>3. Run(w, u) = f[N]
    BY DEF Run
  <1> HIDE DEF f
  <1>4. f = [k \in 0..N |-> IF k = 0 THEN u ELSE RanNext(props, f[k - 1], k)]
    BY <1>2 DEF RanNext
  <1>5. f[0] = u
    BY <1>4
  <1>6. ASSUME NEW k \in Nat, k + 1 <= N  PROVE f[k + 1] = RanNext(props, f[k], k + 1)
    <2>1. k + 1 \in 0..N /\ k + 1 # 0 /\ (k + 1) - 1 = k
      BY <1>6
    <2> QED
      BY <1>4, <2>1
  <1> QED
    BY <1>3, <1>5, <1>6 DEF RunsTo

-----------------------------------------------------------------------------
(* Numbers.                                                                 *)

\* What follows a number is greater than it.
LEMMA NeverBoth ==
    ASSUME NEW m, NEW n \in Nat, m = n + 1, m <= n
    PROVE  FALSE
  OBVIOUS

\* A number is at most itself.
LEMMA Itself ==
    ASSUME NEW m, NEW n \in Nat, m = n + 1
    PROVE  m <= n + 1
  OBVIOUS

\* Zero is at most any number.
LEMMA ZeroLeast ==
    ASSUME NEW m, m = 0, NEW n \in Nat
    PROVE  m <= n
  OBVIOUS

\* A list of numbers has a greatest, zero counted in.
LEMMA ListHasGreatest ==
    ASSUME NEW n \in Nat
    PROVE  \A f \in [1..n -> Nat] :
              \E m \in Nat : (m = 0 \/ \E i \in 1..n : m = f[i]) /\ \A i \in 1..n : f[i] <= m
  <1> DEFINE Has(k, f) ==
               \E m \in Nat : (m = 0 \/ \E i \in 1..k : m = f[i]) /\ \A i \in 1..k : f[i] <= m
             P == {k \in Nat : \A f \in [1..k -> Nat] : Has(k, f)}
  <1>1. 0 \in P
    <2>1. ASSUME NEW f \in [1..0 -> Nat]  PROVE Has(0, f)
      <3>1. 0 \in Nat /\ \A i \in 1..0 : f[i] <= 0
        OBVIOUS
      <3> QED
        BY <3>1
    <2> QED
      BY <2>1
  <1>2. ASSUME NEW k \in Nat, k \in P  PROVE k + 1 \in P
    <2>1. ASSUME NEW f \in [1..(k + 1) -> Nat]  PROVE Has(k + 1, f)
      <3> DEFINE g == [i \in 1..k |-> f[i]]
      <3>0. \A i : i \in 1..(k + 1) <=> i \in 1..k \/ i = k + 1
        OBVIOUS
      <3>1. f[k + 1] \in Nat /\ \A i \in 1..k : f[i] \in Nat
        BY <3>0
      <3>2. g \in [1..k -> Nat] /\ \A i \in 1..k : g[i] = f[i]
        BY <3>1
      <3> HIDE DEF g
      <3>3. PICK m \in Nat : (m = 0 \/ \E i \in 1..k : m = g[i]) /\ \A i \in 1..k : g[i] <= m
        BY <1>2, <3>2
      <3>4. CASE f[k + 1] <= m
        <4>1. \A i \in 1..(k + 1) : f[i] <= m
          BY <3>0, <3>2, <3>3, <3>4
        <4>2. m = 0 \/ \E i \in 1..(k + 1) : m = f[i]
          BY <3>0, <3>2, <3>3
        <4> QED
          BY <4>1, <4>2
      <3>5. CASE ~(f[k + 1] <= m)
        <4>1. \A i \in 1..(k + 1) : f[i] <= f[k + 1]
          BY <3>0, <3>1, <3>2, <3>3, <3>5
        <4>2. k + 1 \in 1..(k + 1)
          BY <3>0
        <4> QED
          BY <3>1, <4>1, <4>2
      <3> QED
        BY <3>4, <3>5
    <2> HIDE DEF Has
    <2> QED
      BY <2>1
  <1>3. n \in P
    <2> HIDE DEF P
    <2> QED
      BY <1>1, <1>2, SetInduction
  <1> QED
    BY <1>3

\* _id_numeric_max is no less than the number of any id.
LEMMA NumericMaxBounds ==
    ASSUME NEW ids, IsFiniteSet(ids), \A id \in ids : IsId(id)
    PROVE  NumericMax(ids) \in Nat /\ \A id \in ids : id[3] <= NumericMax(ids)
  <1>1. PICK n \in Nat : ExistsSurjection(1..n, ids)
    BY FS_NatSurjection
  <1>2. PICK g \in [1..n -> ids] : \A id \in ids : \E i \in 1..n : g[i] = id
    BY <1>1 DEF ExistsSurjection, Surjection
  <1> DEFINE f == [i \in 1..n |-> g[i][3]]
             S == {id[3] : id \in ids} \cup {0}
  <1>3. f \in [1..n -> Nat] /\ \A i \in 1..n : f[i] = g[i][3]
    BY DEF IsId
  <1> HIDE DEF f
  <1>4. PICK m \in Nat : (m = 0 \/ \E i \in 1..n : m = f[i]) /\ \A i \in 1..n : f[i] <= m
    BY <1>3, ListHasGreatest
  <1>5. m \in S
    <2>1. CASE m = 0
      BY <2>1
    <2>2. CASE m # 0
      <3>1. PICK i \in 1..n : m = f[i]
        BY <1>4, <2>2
      <3>2. m = g[i][3] /\ g[i] \in ids
        BY <1>3, <3>1
      <3> QED
        BY <3>2
    <2> QED
      BY <2>1, <2>2
  <1>6. \A id \in ids : id[3] <= m
    BY <1>2, <1>3, <1>4
  <1>7. \A x \in S : x \in Nat /\ x <= m
    <2>1. ASSUME NEW id \in ids  PROVE id[3] \in Nat /\ id[3] <= m
      BY <1>6 DEF IsId
    <2>2. 0 <= m
      BY <1>4
    <2> QED
      BY <2>1, <2>2
  <1>8. \A id \in ids : id[3] \in S
    OBVIOUS
  <1>9. NumericMax(ids) = Max(S)
    BY DEF NumericMax
  <1> HIDE DEF S
  <1>10. \A x \in S : m >= x
    BY <1>7
  <1>11. Max(S) \in S /\ \A x \in S : Max(S) >= x
    BY <1>5, <1>10 DEF Max
  <1>12. \A x \in S : x <= Max(S)
    BY <1>7, <1>11
  <1> QED
    BY <1>7, <1>8, <1>9, <1>11, <1>12

-----------------------------------------------------------------------------
(* What every set a session holds satisfies.                                *)

\* A constraint set field by field.
IsSet(u) ==
    u = [cons |-> u.cons, counter |-> u.counter, ledger |-> u.ledger,
         nextAssumption |-> u.nextAssumption, scenarios |-> u.scenarios, receipts |-> u.receipts]

\* The two directions of an edge are kept together.
Mirrored(u) ==
    \A x, y \in Ids(u) : x \in u.cons[y].deps <=> y \in u.cons[x].downs

\* The set hands out C0001, C0002, ... and nobody else does.
Unused(u) == \A id \in Ids(u) : id[1] = "C" /\ id[2] = "" => id[3] <= u.counter

\* Finitely many constraints of the right shape, under ids of the right shape.
WellFormed(u) ==
    /\ IsSet(u) /\ u.counter \in Nat /\ IsFiniteSet(Ids(u))
    /\ u.cons = [id \in Ids(u) |-> u.cons[id]]
    /\ \A id \in Ids(u) : IsId(id) /\ IsConstraint(u.cons[id])

\* No edge without ends, none on one side only, no id handed out twice.
WellKept(u) == WellFormed(u) /\ EdgesSound(u) /\ Mirrored(u) /\ Unused(u)

\* A set nothing was added to is well kept.
LEMMA EmptyWellKept ==
    ASSUME NEW S
    PROVE  WellKept(EmptySet(S))
  <1>1. Ids(EmptySet(S)) = {}
    BY DEF Ids, EmptySet
  <1>2. IsSet(EmptySet(S))
    BY DEF IsSet, EmptySet
  <1>3. EmptySet(S).counter \in Nat
    BY DEF EmptySet
  <1>4. EmptySet(S).cons = [id \in {} |-> EmptySet(S).cons[id]]
    BY DEF EmptySet
  <1> QED
    BY <1>1, <1>2, <1>3, <1>4, FS_EmptySet DEF WellKept, WellFormed, EdgesSound, Mirrored, Unused

\* Only the counter moves, upwards.
LEMMA BumpedWellKept ==
    ASSUME NEW u, WellKept(u)
    PROVE  /\ WellKept(Bumped(u)) /\ Bumped(u).cons = u.cons /\ Ids(Bumped(u)) = Ids(u)
           /\ Bumped(u).counter = u.counter + 1
  <1>1. IsSet(u) /\ u.counter \in Nat
    BY DEF WellKept, WellFormed
  <1>2. /\ Bumped(u).cons = u.cons /\ Bumped(u).counter = u.counter + 1 /\ IsSet(Bumped(u))
    BY <1>1 DEF Bumped, IsSet
  <1>3. Ids(Bumped(u)) = Ids(u)
    BY <1>2 DEF Ids
  <1>4. WellFormed(Bumped(u))
    BY <1>1, <1>2, <1>3 DEF WellKept, WellFormed
  <1>5. EdgesSound(Bumped(u)) /\ Mirrored(Bumped(u))
    BY <1>2, <1>3 DEF WellKept, EdgesSound, Mirrored
  <1>6. Unused(Bumped(u))
    <2>1. ASSUME NEW id \in Ids(u), id[1] = "C", id[2] = ""  PROVE id[3] <= u.counter + 1
      <3>1. id[3] \in Nat
        BY DEF WellKept, WellFormed, IsId
      <3>2. id[3] <= u.counter
        BY <2>1 DEF WellKept, Unused
      <3> QED
        BY <1>1, <3>1, <3>2
    <2> QED
      BY <1>2, <1>3, <2>1 DEF Unused
  <1> QED
    BY <1>2, <1>3, <1>4, <1>5, <1>6 DEF WellKept

\* An upstream constraint told of a dependent.
Told(con, id) == [con EXCEPT !.downs = @ \cup {id}]

\* v is u with an entry more.
AddedTo(u, id, c, v) ==
    /\ Ids(v) = Ids(u) \cup {id} /\ v.counter = u.counter /\ v.cons[id] = c
    /\ \A x \in Ids(u) \ {id} :
          v.cons[x] = IF x \in c.deps THEN Told(u.cons[x], id) ELSE u.cons[x]
    /\ WellFormed(v) /\ v.receipts = u.receipts

\* Adding an entry: the new one as it was given, upstream ones learn of it.
LEMMA AddAsParts ==
    ASSUME NEW u, WellFormed(u), NEW id, IsId(id), NEW c, IsConstraint(c),
           NEW v, v = AddAs(u, id, c)
    PROVE  AddedTo(u, id, c, v)
  <1> DEFINE upstream(x) == IF x \in c.deps THEN Told(u.cons[x], id) ELSE u.cons[x]
             new == [x \in Ids(u) \cup {id} |-> IF x = id THEN c ELSE upstream(x)]
             bound == BindConstraint(u.ledger, c.assumptions, id)
  <1>1. /\ v.cons = new /\ v.counter = u.counter /\ IsSet(v)
        /\ v.receipts = u.receipts
    <2>1. v = [u EXCEPT !.cons = new, !.ledger = bound]
      BY DEF AddAs, Told
    <2>2. IsSet(u)
      BY DEF WellFormed
    <2> HIDE DEF new, bound
    <2> QED
      BY <2>1, <2>2 DEF IsSet
  <1>2. Ids(v) = Ids(u) \cup {id}
    BY <1>1 DEF Ids
  <1>3. v.cons[id] = c
    BY <1>1
  <1>4. \A x \in Ids(u) \ {id} : v.cons[x] = upstream(x)
    BY <1>1
  <1>5. ASSUME NEW x \in Ids(v)  PROVE IsId(x) /\ IsConstraint(v.cons[x])
    <2>1. CASE x = id
      BY <1>3, <2>1
    <2>2. CASE x # id
      <3>1. x \in Ids(u) \ {id}
        BY <1>2, <2>2
      <3>2. IsId(x) /\ IsConstraint(u.cons[x])
        BY <3>1 DEF WellFormed
      <3>3. IsConstraint(upstream(x))
        BY <3>2 DEF IsConstraint, Fields, Told
      <3> QED
        BY <1>4, <3>1, <3>2, <3>3
    <2> QED
      BY <2>1, <2>2
  <1>6. v.cons = [x \in Ids(v) |-> v.cons[x]]
    <2>1. new = [x \in Ids(u) \cup {id} |-> new[x]]
      OBVIOUS
    <2> HIDE DEF new
    <2> QED
      BY <1>1, <1>2, <2>1
  <1>7. IsFiniteSet(Ids(v))
    BY <1>2, FS_AddElement DEF WellFormed
  <1>8. WellFormed(v)
    BY <1>1, <1>5, <1>6, <1>7 DEF WellFormed
  <1> QED
    BY <1>1, <1>2, <1>3, <1>4, <1>8 DEF AddedTo

\* A new entry that only depends on what is there keeps the set well kept.
LEMMA AddAsWellKept ==
    ASSUME NEW u, WellKept(u), NEW id, IsId(id), id \notin Ids(u), NEW c, IsConstraint(c),
           c.downs = {}, c.deps \subseteq Ids(u),
           id[1] = "C" /\ id[2] = "" => id[3] <= u.counter
    PROVE  WellKept(AddAs(u, id, c))
  <1> DEFINE v == AddAs(u, id, c)
  <1>0. v = AddAs(u, id, c)
    OBVIOUS
  <1> HIDE DEF v
  <1>1. WellFormed(u) /\ EdgesSound(u) /\ Mirrored(u) /\ Unused(u)
    BY DEF WellKept
  <1>2. AddedTo(u, id, c, v)
    BY <1>0, <1>1, AddAsParts
  <1>3. ASSUME NEW x \in Ids(u)
        PROVE  /\ v.cons[x].deps = u.cons[x].deps
               /\ v.cons[x].downs = IF x \in c.deps THEN u.cons[x].downs \cup {id} ELSE u.cons[x].downs
               /\ x # id
    <2>1. IsConstraint(u.cons[x])
      BY <1>1 DEF WellFormed
    <2>2. x # id
      OBVIOUS
    <2> QED
      BY <1>2, <2>1, <2>2 DEF IsConstraint, Fields, Told, AddedTo
  <1>4. EdgesSound(v)
    <2>1. ASSUME NEW x \in Ids(u)
          PROVE  v.cons[x].deps \cup v.cons[x].downs \subseteq Ids(v) \ {x}
      <3>1. u.cons[x].deps \cup u.cons[x].downs \subseteq Ids(u) \ {x}
        BY <1>1 DEF EdgesSound
      <3>2. Ids(v) = Ids(u) \cup {id}
        BY <1>2 DEF AddedTo
      <3> QED
        BY <1>3, <3>1, <3>2
    <2>2. v.cons[id].deps \cup v.cons[id].downs \subseteq Ids(v) \ {id}
      BY <1>2 DEF AddedTo
    <2> QED
      BY <1>2, <2>1, <2>2 DEF EdgesSound, AddedTo
  <1>5. Mirrored(v)
    <2> SUFFICES ASSUME NEW x \in Ids(v), NEW y \in Ids(v)
                 PROVE  x \in v.cons[y].deps <=> y \in v.cons[x].downs
      BY DEF Mirrored
    <2>1. CASE x \in Ids(u) /\ y \in Ids(u)
      <3>1. x \in u.cons[y].deps <=> y \in u.cons[x].downs
        BY <1>1, <2>1 DEF Mirrored
      <3>2. y # id
        BY <2>1
      <3> QED
        BY <1>3, <2>1, <3>1, <3>2
    <2>2. CASE x = id
      <3>1. \A z \in Ids(u) : u.cons[z].deps \subseteq Ids(u)
        BY <1>1 DEF EdgesSound
      <3> QED
        BY <1>2, <1>3, <2>2, <3>1 DEF AddedTo
    <2>3. CASE x \in Ids(u) /\ y = id
      <3>1. id \notin u.cons[x].downs
        BY <1>1, <2>3 DEF EdgesSound
      <3> QED
        BY <1>2, <1>3, <2>3, <3>1 DEF AddedTo
    <2> QED
      BY <1>2, <2>1, <2>2, <2>3 DEF AddedTo
  <1>6. Unused(v)
    BY <1>1, <1>2 DEF Unused, AddedTo
  <1> QED
    BY <1>2, <1>4, <1>5, <1>6 DEF WellKept, AddedTo, v

\* A factory's constraint goes in under an id nobody has.
LEMMA CreateWellKept ==
    ASSUME NEW u, WellKept(u), NEW c, IsConstraint(c), c.downs = {}, c.deps \subseteq Ids(u)
    PROVE  WellKept(Create(u, "CLK", c)) /\ Create(u, "CLK", c).receipts = u.receipts
  <1> DEFINE b == Bumped(u)
             id == NextId(u, "CLK")
  <1>0. u.counter \in Nat /\ IsSet(u)
    BY DEF WellKept, WellFormed
  <1>1. WellKept(b) /\ Ids(b) = Ids(u) /\ b.counter = u.counter + 1 /\ b.receipts = u.receipts
    BY <1>0, BumpedWellKept DEF Bumped, IsSet
  <1>2. Create(u, "CLK", c) = Add(b, id, c)
    BY DEF Create
  <1>3. IsId(id) /\ id[1] = "CLK"
    BY <1>0 DEF NextId, IsId
  <1> HIDE DEF b, id
  <1>4. CASE id \notin Ids(b)
    <2>1. Add(b, id, c) = AddAs(b, id, c)
      BY <1>4 DEF Add, AssignedId
    <2>2. WellKept(AddAs(b, id, c))
      BY <1>1, <1>3, <1>4, AddAsWellKept
    <2>3. AddAs(b, id, c).receipts = b.receipts
      BY <1>1 DEF AddAs, WellKept, WellFormed, IsSet
    <2> QED
      BY <1>1, <1>2, <2>1, <2>2, <2>3
  <1>5. CASE id \in Ids(b)
    <2> DEFINE bb == Bumped(b)
               other == NextId(b, "C")
    <2>1. Add(b, id, c) = AddAs(bb, other, c)
      BY <1>5 DEF Add, AssignedId
    <2>2. /\ WellKept(bb) /\ Ids(bb) = Ids(b) /\ bb.counter = b.counter + 1
          /\ bb.receipts = b.receipts
      BY <1>1, BumpedWellKept DEF Bumped, WellKept, WellFormed, IsSet
    <2>3. b.counter \in Nat
      BY <1>1 DEF WellKept, WellFormed
    <2>4. /\ IsId(other) /\ other[1] = "C" /\ other[2] = "" /\ other[3] = b.counter + 1
      BY <2>3 DEF NextId, IsId
    <2> HIDE DEF bb, other
    <2>5. other \notin Ids(b)
      <3>1. SUFFICES ASSUME other \in Ids(b)  PROVE FALSE
        OBVIOUS
      <3>2. other[3] <= b.counter
        BY <1>1, <2>4, <3>1 DEF WellKept, Unused
      <3> QED
        BY <2>3, <2>4, <3>2, NeverBoth
    <2>6. WellKept(AddAs(bb, other, c))
      <3>1. other[3] <= bb.counter
        BY <2>2, <2>3, <2>4, Itself
      <3> QED
        BY <1>1, <2>2, <2>4, <2>5, <3>1, AddAsWellKept
    <2>7. AddAs(bb, other, c).receipts = bb.receipts
      BY <2>2 DEF AddAs, WellKept, WellFormed, IsSet
    <2> QED
      BY <1>1, <1>2, <2>1, <2>2, <2>6, <2>7
  <1> QED
    BY <1>4, <1>5

\* A new assumption touches no constraint.
LEMMA AssumedWellKept ==
    ASSUME NEW u, WellKept(u)
    PROVE  WellKept(MakeAssumption(u)) /\ MakeAssumption(u).receipts = u.receipts
  <1> DEFINE new == u.nextAssumption + 1
             ledger == [a \in DOMAIN u.ledger \cup {new} |->
                          IF a \in DOMAIN u.ledger THEN u.ledger[a] ELSE {}]
             v == MakeAssumption(u)
  <1>1. v = [u EXCEPT !.ledger = ledger, !.nextAssumption = new]
    BY DEF MakeAssumption
  <1>2. IsSet(u)
    BY DEF WellKept, WellFormed
  <1> HIDE DEF v, ledger, new
  <1>3. IsSet(v) /\ v.cons = u.cons /\ v.counter = u.counter /\ v.receipts = u.receipts
    BY <1>1, <1>2 DEF IsSet
  <1>4. Ids(v) = Ids(u)
    BY <1>3 DEF Ids
  <1> QED
    BY <1>3, <1>4 DEF WellKept, WellFormed, EdgesSound, Mirrored, Unused, v

-----------------------------------------------------------------------------
(* Drawing edges.                                                           *)

\* An edge of a set of edges that add_dependency_edge draws.
Draws(u, edges, x, y) ==
    x \in Ids(u) /\ y \in Ids(u) /\ x # y /\ \E e \in edges : e[1] = x /\ e[2] = y

\* v is u with those edges more.
DrawnOn(u, edges, v) ==
    /\ Ids(v) = Ids(u) /\ v.counter = u.counter /\ v.receipts = u.receipts /\ WellFormed(v)
    /\ \A y \in Ids(u) : \A x : x \in v.cons[y].deps <=> x \in u.cons[y].deps \/ Draws(u, edges, x, y)
    /\ \A x \in Ids(u) : \A y : y \in v.cons[x].downs <=> y \in u.cons[x].downs \/ Draws(u, edges, x, y)

\* A constraint with other edges is one.
LEMMA Relinked ==
    ASSUME NEW c, IsConstraint(c), NEW A, NEW B
    PROVE  IsConstraint([c EXCEPT !.downs = A, !.deps = B])
  BY DEF IsConstraint

\* The fields of a constraint make one.
LEMMA Assembled ==
    ASSUME NEW c1, NEW c2, NEW c3, NEW c4, NEW c5, NEW c6, NEW c7, NEW c8, NEW c9, NEW c10, NEW c11,
           NEW c12
    PROVE  IsConstraint([scope |-> c1, value |-> c2, scenarios |-> c3, disabled |-> c4,
                         unsupported |-> c5, high |-> c6, source |-> c7, status |-> c8,
                         pinned |-> c9, deps |-> c10, downs |-> c11, assumptions |-> c12])
  BY DEF IsConstraint, Fields

\* Nothing but the edge lists changes, and each edge is drawn in both.
LEMMA DrawParts ==
    ASSUME NEW u, WellFormed(u), NEW edges
    PROVE  DrawnOn(u, edges, DrawEdges(u, edges))
  <1> DEFINE drawn == {e \in edges : {e[1], e[2]} \subseteq Ids(u) /\ e[1] # e[2]}
             to(x) == {e[2] : e \in {d \in drawn : d[1] = x}}
             from(x) == {e[1] : e \in {d \in drawn : d[2] = x}}
             touched(x) == [u.cons[x] EXCEPT !.downs = @ \cup to(x), !.deps = @ \cup from(x)]
             v == DrawEdges(u, edges)
             new == [x \in Ids(u) |-> touched(x)]
  <1>1. v = [u EXCEPT !.cons = new]
    BY DEF DrawEdges
  <1>2. IsSet(u)
    BY DEF WellFormed
  <1>3. \A x, y : y \in to(x) <=> Draws(u, edges, x, y)
    BY DEF Draws
  <1>4. \A x, y : x \in from(y) <=> Draws(u, edges, x, y)
    BY DEF Draws
  <1> HIDE DEF drawn, to, from, v
  <1>5. /\ IsSet(v) /\ v.cons = new /\ v.counter = u.counter /\ v.receipts = u.receipts
    <2> HIDE DEF new
    <2> QED
      BY <1>1, <1>2 DEF IsSet
  <1>6. Ids(v) = Ids(u)
    BY <1>5 DEF Ids
  <1>7. ASSUME NEW x \in Ids(u)
        PROVE  /\ IsConstraint(v.cons[x])
               /\ v.cons[x].downs = u.cons[x].downs \cup to(x)
               /\ v.cons[x].deps = u.cons[x].deps \cup from(x)
    <2>1. IsConstraint(u.cons[x])
      BY DEF WellFormed
    <2>2. v.cons[x] = touched(x)
      BY <1>5
    <2>3. IsConstraint(touched(x))
      BY <2>1, Relinked
    <2>4. touched(x).downs = u.cons[x].downs \cup to(x)
      BY <2>1 DEF IsConstraint, Fields
    <2>5. touched(x).deps = u.cons[x].deps \cup from(x)
      BY <2>1 DEF IsConstraint, Fields
    <2> HIDE DEF touched
    <2> QED
      BY <2>2, <2>3, <2>4, <2>5
  <1>8. v.cons = [x \in Ids(v) |-> v.cons[x]]
    <2>1. new = [x \in Ids(u) |-> new[x]]
      OBVIOUS
    <2> HIDE DEF new
    <2> QED
      BY <1>5, <1>6, <2>1
  <1>9. WellFormed(v)
    BY <1>5, <1>6, <1>7, <1>8 DEF WellFormed
  <1>10. ASSUME NEW y \in Ids(u), NEW x
         PROVE  x \in v.cons[y].deps <=> x \in u.cons[y].deps \/ Draws(u, edges, x, y)
    BY <1>4, <1>7
  <1>11. ASSUME NEW y, NEW x \in Ids(u)
         PROVE  y \in v.cons[x].downs <=> y \in u.cons[x].downs \/ Draws(u, edges, x, y)
    BY <1>3, <1>7
  <1> QED
    BY <1>5, <1>6, <1>9, <1>10, <1>11 DEF DrawnOn, v

\* Edges drawn by hand keep a set well kept.
LEMMA DrawWellKept ==
    ASSUME NEW u, WellKept(u), NEW edges
    PROVE  WellKept(DrawEdges(u, edges)) /\ DrawEdges(u, edges).receipts = u.receipts
  <1> DEFINE v == DrawEdges(u, edges)
  <1>1. DrawnOn(u, edges, v)
    BY DrawParts DEF WellKept
  <1> HIDE DEF v
  <1>2. Ids(v) = Ids(u) /\ v.counter = u.counter /\ v.receipts = u.receipts /\ WellFormed(v)
    BY <1>1 DEF DrawnOn
  <1>3. EdgesSound(v)
    <2>1. ASSUME NEW x \in Ids(u), NEW y \in v.cons[x].deps  PROVE y \in Ids(u) /\ y # x
      <3>1. y \in u.cons[x].deps \/ Draws(u, edges, y, x)
        BY <1>1 DEF DrawnOn
      <3> QED
        BY <3>1 DEF Draws, WellKept, EdgesSound
    <2>2. ASSUME NEW x \in Ids(u), NEW y \in v.cons[x].downs  PROVE y \in Ids(u) /\ y # x
      <3>1. y \in u.cons[x].downs \/ Draws(u, edges, x, y)
        BY <1>1 DEF DrawnOn
      <3> QED
        BY <3>1 DEF Draws, WellKept, EdgesSound
    <2> QED
      BY <1>2, <2>1, <2>2 DEF EdgesSound
  <1>4. Mirrored(v)
    BY <1>1, <1>2 DEF DrawnOn, WellKept, Mirrored
  <1>5. Unused(v)
    BY <1>2 DEF WellKept, Unused
  <1> QED
    BY <1>2, <1>3, <1>4, <1>5 DEF WellKept, v

-----------------------------------------------------------------------------
(* Committing templates.                                                    *)

\* Templates an application can add, in themselves and to a set.
Addable(ts) ==
    /\ ts \in Seq(Range(ts))
    /\ \A i \in DOMAIN ts :
          /\ GivenId(ts[i].id) /\ IsConstraint(ts[i].con) /\ ts[i].id \notin ts[i].con.deps
          /\ \A x \in ts[i].con.downs :
                \E j \in DOMAIN ts : x = ts[j].id /\ ts[i].id \in ts[j].con.deps

\* Templates a set has room for: ids free and different, no dependency missing.
Fits(ts, u) ==
    /\ \A i \in DOMAIN ts : ts[i].id \notin Ids(u)
    /\ \A i, j \in DOMAIN ts : ts[i].id = ts[j].id => i = j
    /\ \A i \in DOMAIN ts : \A x \in ts[i].con.deps :
          x \in Ids(u) \/ \E j \in DOMAIN ts : x = ts[j].id

\* The id y is that of a template depending on x.
DependsOn(ts, x, y) == \E j \in DOMAIN ts : y = ts[j].id /\ x \in ts[j].con.deps

\* v is u after the first n templates.
Grown(ts, u, v, n) ==
    /\ WellFormed(v) /\ v.counter = u.counter /\ v.receipts = u.receipts
    /\ \A x : x \in Ids(v) <=> x \in Ids(u) \/ \E i \in 1..n : x = ts[i].id
    /\ \A x \in Ids(u) :
          /\ v.cons[x].deps = u.cons[x].deps
          /\ u.cons[x].downs \subseteq v.cons[x].downs
          /\ \A y \in v.cons[x].downs : y \in u.cons[x].downs \/ DependsOn(ts, x, y)
    /\ \A i \in 1..n :
          /\ v.cons[ts[i].id].deps = ts[i].con.deps
          /\ \A y \in v.cons[ts[i].id].downs : DependsOn(ts, ts[i].id, y)

\* A sequence's positions.
LEMMA SequenceShape ==
    ASSUME NEW S, NEW s \in Seq(S)
    PROVE  Len(s) \in Nat /\ DOMAIN s = 1..Len(s)
  OBVIOUS

\* One template more.
LEMMA GrowthStep ==
    ASSUME NEW ts, Addable(ts), NEW u, Fits(ts, u), NEW k \in Nat, k + 1 <= Len(ts), NEW v, Grown(ts, u, v, k)
    PROVE  Grown(ts, u, AddedNext(ts, v, k + 1), k + 1)
  <1> DEFINE t == ts[k + 1]
             id == t.id
             c == t.con
             w == AddAs(v, id, c)
  <1>1. DOMAIN ts = 1..Len(ts) /\ Len(ts) \in Nat
    BY SequenceShape DEF Addable
  <1>2. k + 1 \in DOMAIN ts /\ \A i \in 1..k : i \in DOMAIN ts /\ i # k + 1
    BY <1>1
  <1>3. id \notin Ids(u) /\ \A i \in 1..k : ts[i].id # id
    BY <1>2 DEF Fits
  <1>4. id \notin Ids(v)
    BY <1>3 DEF Grown
  <1>5. AddedNext(ts, v, k + 1) = w
    BY <1>4 DEF AddedNext, Add, AssignedId
  <1>6. /\ IsId(id) /\ IsConstraint(c)
        /\ \A y \in c.downs : DependsOn(ts, id, y)
    BY <1>2 DEF Addable, DependsOn, GivenId
  <1>6a. id = ts[k + 1].id /\ c = ts[k + 1].con /\ w = AddAs(v, id, c)
    OBVIOUS
  <1> HIDE DEF id, c, w
  <1>7. WellFormed(v)
    BY DEF Grown
  <1>8. AddedTo(v, id, c, w)
    BY <1>6, <1>6a, <1>7, AddAsParts
  <1>9. \A x \in c.deps : DependsOn(ts, x, id)
    BY <1>2, <1>6a DEF DependsOn
  <1>10. ASSUME NEW x \in Ids(v)
         PROVE  /\ w.cons[x].deps = v.cons[x].deps
                /\ v.cons[x].downs \subseteq w.cons[x].downs
                /\ \A y \in w.cons[x].downs : y \in v.cons[x].downs \/ DependsOn(ts, x, y)
    <2>1. IsConstraint(v.cons[x])
      BY <1>7 DEF WellFormed
    <2>2. w.cons[x] = IF x \in c.deps THEN Told(v.cons[x], id) ELSE v.cons[x]
      BY <1>4, <1>8 DEF AddedTo
    <2>3. /\ Told(v.cons[x], id).deps = v.cons[x].deps
          /\ Told(v.cons[x], id).downs = v.cons[x].downs \cup {id}
      BY <2>1 DEF Told, IsConstraint, Fields
    <2>4. CASE x \in c.deps
      BY <1>9, <2>2, <2>3, <2>4
    <2>5. CASE x \notin c.deps
      BY <2>2, <2>5
    <2> QED
      BY <2>4, <2>5
  <1>11. \A x : x \in Ids(w) <=> x \in Ids(u) \/ \E i \in 1..(k + 1) : x = ts[i].id
    <2>1. \A i : i \in 1..(k + 1) <=> i \in 1..k \/ i = k + 1
      OBVIOUS
    <2>2. Ids(w) = Ids(v) \cup {id}
      BY <1>8 DEF AddedTo
    <2>3. \A x : x \in Ids(v) <=> x \in Ids(u) \/ \E i \in 1..k : x = ts[i].id
      BY DEF Grown
    <2> QED
      BY <1>6a, <2>1, <2>2, <2>3
  <1>12. ASSUME NEW x \in Ids(u)
         PROVE  /\ w.cons[x].deps = u.cons[x].deps
                /\ u.cons[x].downs \subseteq w.cons[x].downs
                /\ \A y \in w.cons[x].downs : y \in u.cons[x].downs \/ DependsOn(ts, x, y)
    <2>1. x \in Ids(v)
      BY DEF Grown
    <2>2. /\ v.cons[x].deps = u.cons[x].deps
          /\ u.cons[x].downs \subseteq v.cons[x].downs
          /\ \A y \in v.cons[x].downs : y \in u.cons[x].downs \/ DependsOn(ts, x, y)
      BY DEF Grown
    <2> QED
      BY <1>10, <2>1, <2>2
  <1>13. ASSUME NEW i \in 1..(k + 1)
         PROVE  /\ w.cons[ts[i].id].deps = ts[i].con.deps
                /\ \A y \in w.cons[ts[i].id].downs : DependsOn(ts, ts[i].id, y)
    <2>1. CASE i = k + 1
      <3>1. w.cons[id] = c
        BY <1>8 DEF AddedTo
      <3> QED
        BY <1>6, <1>6a, <2>1, <3>1
    <2>2. CASE i # k + 1
      <3>1. i \in 1..k
        BY <2>2
      <3>2. /\ ts[i].id \in Ids(v)
            /\ v.cons[ts[i].id].deps = ts[i].con.deps
            /\ \A y \in v.cons[ts[i].id].downs : DependsOn(ts, ts[i].id, y)
        BY <3>1 DEF Grown
      <3> QED
        BY <1>10, <3>2
    <2> QED
      BY <2>1, <2>2
  <1>14. WellFormed(w) /\ w.counter = u.counter /\ w.receipts = u.receipts
    BY <1>8 DEF AddedTo, Grown
  <1> QED
    BY <1>5, <1>11, <1>12, <1>13, <1>14 DEF Grown

\* All of them.
LEMMA GrowthEnd ==
    ASSUME NEW ts, Addable(ts), NEW u, WellKept(u), Fits(ts, u)
    PROVE  Grown(ts, u, AddAll(u, ts), Len(ts))
  <1>1. Len(ts) \in Nat
    BY SequenceShape DEF Addable
  <1>2. PICK f : GrowthTo(ts, u, f, AddAll(u, ts))
    BY <1>1, GrowthSteps
  <1> DEFINE P == {k \in Nat : k <= Len(ts) => Grown(ts, u, f[k], k)}
  <1>3. 0 \in P
    <2>1. \A x : ~ \E i \in 1..0 : x = ts[i].id
      OBVIOUS
    <2>2. \A i \in 1..0 : FALSE
      OBVIOUS
    <2>3. Grown(ts, u, u, 0)
      BY <2>1, <2>2 DEF Grown, WellKept
    <2> QED
      BY <1>2, <2>3 DEF GrowthTo
  <1>4. ASSUME NEW k \in Nat, k \in P  PROVE k + 1 \in P
    <2> SUFFICES ASSUME k + 1 <= Len(ts)  PROVE Grown(ts, u, f[k + 1], k + 1)
      OBVIOUS
    <2>1. k <= Len(ts)
      BY <1>1
    <2>2. Grown(ts, u, f[k], k)
      BY <1>4, <2>1
    <2>3. f[k + 1] = AddedNext(ts, f[k], k + 1)
      BY <1>2 DEF GrowthTo
    <2> QED
      BY <2>2, <2>3, GrowthStep
  <1>5. Nat \subseteq P
    <2> HIDE DEF P
    <2> QED
      BY <1>3, <1>4, SetInduction
  <1>6. Len(ts) <= Len(ts)
    BY <1>1
  <1> QED
    BY <1>1, <1>2, <1>5, <1>6 DEF GrowthTo

\* The templates added and the edges between them drawn, a set is well kept.
LEMMA AddTemplatesWellKept ==
    ASSUME NEW ts, Addable(ts), NEW u, WellKept(u), Fits(ts, u)
    PROVE  /\ WellKept(AddTemplates(u, ts)) /\ AddTemplates(u, ts).receipts = u.receipts
  <1> DEFINE v == AddAll(u, ts)
             edges == EdgesOf(ts)
             w == AddTemplates(u, ts)
  <1>1. DOMAIN ts = 1..Len(ts) /\ Len(ts) \in Nat
    BY SequenceShape DEF Addable
  <1>2. Grown(ts, u, v, Len(ts))
    BY GrowthEnd
  <1>3. WellFormed(v)
    BY <1>2 DEF Grown
  <1>4. w = DrawEdges(v, edges)
    BY DEF AddTemplates
  <1> HIDE DEF v, w
  <1>5. DrawnOn(v, edges, w)
    BY <1>3, <1>4, DrawParts
  <1>6. \A x : x \in Ids(v) <=> x \in Ids(u) \/ \E i \in DOMAIN ts : x = ts[i].id
    BY <1>1, <1>2 DEF Grown
  <1>7. Ids(w) = Ids(v)
    BY <1>5 DEF DrawnOn
  <1>8. \A x, y : (\E e \in edges : e[1] = x /\ e[2] = y) <=> DependsOn(ts, x, y)
    <2>1. \A t : t \in Range(ts) <=> \E i \in DOMAIN ts : t = ts[i]
      BY DEF Range
    <2>2. \A e : e \in edges <=> \E i \in DOMAIN ts : \E up \in ts[i].con.deps : e = <<up, ts[i].id>>
      BY <2>1 DEF EdgesOf
    <2> HIDE DEF edges
    <2>3. ASSUME NEW x, NEW y, NEW e \in edges, e[1] = x, e[2] = y  PROVE DependsOn(ts, x, y)
      <3>1. PICK i \in DOMAIN ts : \E up \in ts[i].con.deps : e = <<up, ts[i].id>>
        BY <2>2
      <3>2. x \in ts[i].con.deps /\ y = ts[i].id
        BY <2>3, <3>1
      <3> QED
        BY <3>2 DEF DependsOn
    <2>4. ASSUME NEW x, NEW y, DependsOn(ts, x, y)  PROVE \E e \in edges : e[1] = x /\ e[2] = y
      <3>1. PICK i \in DOMAIN ts : y = ts[i].id /\ x \in ts[i].con.deps
        BY <2>4 DEF DependsOn
      <3>2. <<x, y>> \in edges
        BY <2>2, <3>1
      <3>3. <<x, y>>[1] = x /\ <<x, y>>[2] = y
        OBVIOUS
      <3> QED
        BY <3>2, <3>3
    <2> QED
      BY <2>3, <2>4
  <1> HIDE DEF edges
  <1>9. ASSUME NEW x, NEW y, DependsOn(ts, x, y)
        PROVE  x \in Ids(v) /\ y \in Ids(v) /\ y \notin Ids(u) /\ x # y
    <2>1. PICK i \in DOMAIN ts : y = ts[i].id /\ x \in ts[i].con.deps
      BY <1>9 DEF DependsOn
    <2>2. x \in Ids(u) \/ \E j \in DOMAIN ts : x = ts[j].id
      BY <2>1 DEF Fits
    <2>3. y \notin Ids(u)
      BY <2>1 DEF Fits
    <2>4. y \notin ts[i].con.deps
      BY <2>1 DEF Addable
    <2> QED
      BY <1>6, <2>1, <2>2, <2>3, <2>4
  <1>10. \A x, y : Draws(v, edges, x, y) <=> DependsOn(ts, x, y)
    BY <1>8, <1>9 DEF Draws
  <1>11. \A x \in Ids(u) : u.cons[x].deps \cup u.cons[x].downs \subseteq Ids(u) \ {x}
    BY DEF WellKept, EdgesSound
  \* What the set says of its old constraints and of the new ones.
  <1>12. ASSUME NEW x \in Ids(u)
         PROVE  /\ w.cons[x].deps = u.cons[x].deps
                /\ \A y : y \in w.cons[x].downs <=> y \in u.cons[x].downs \/ DependsOn(ts, x, y)
    <2>1. x \in Ids(v)
      BY <1>6
    <2>2. /\ v.cons[x].deps = u.cons[x].deps
          /\ u.cons[x].downs \subseteq v.cons[x].downs
          /\ \A y \in v.cons[x].downs : y \in u.cons[x].downs \/ DependsOn(ts, x, y)
      BY <1>2 DEF Grown
    <2>3. /\ \A z : z \in w.cons[x].deps <=> z \in v.cons[x].deps \/ DependsOn(ts, z, x)
          /\ \A y : y \in w.cons[x].downs <=> y \in v.cons[x].downs \/ DependsOn(ts, x, y)
      BY <1>5, <1>10, <2>1 DEF DrawnOn
    <2>4. \A z : ~DependsOn(ts, z, x)
      BY <1>9
    <2> QED
      BY <2>2, <2>3, <2>4
  <1>13. ASSUME NEW i \in DOMAIN ts
         PROVE  /\ w.cons[ts[i].id].deps = ts[i].con.deps
                /\ \A y : y \in w.cons[ts[i].id].downs <=> DependsOn(ts, ts[i].id, y)
    <2>1. ts[i].id \in Ids(v)
      BY <1>6
    <2>2. /\ v.cons[ts[i].id].deps = ts[i].con.deps
          /\ \A y \in v.cons[ts[i].id].downs : DependsOn(ts, ts[i].id, y)
      BY <1>1, <1>2 DEF Grown
    <2>3. /\ \A z : z \in w.cons[ts[i].id].deps <=> z \in v.cons[ts[i].id].deps \/ DependsOn(ts, z, ts[i].id)
          /\ \A y : y \in w.cons[ts[i].id].downs <=> y \in v.cons[ts[i].id].downs \/ DependsOn(ts, ts[i].id, y)
      BY <1>5, <1>10, <2>1 DEF DrawnOn
    <2>4. ASSUME NEW z, DependsOn(ts, z, ts[i].id)  PROVE z \in ts[i].con.deps
      <3>1. PICK j \in DOMAIN ts : ts[i].id = ts[j].id /\ z \in ts[j].con.deps
        BY <2>4 DEF DependsOn
      <3>2. i = j
        BY <3>1 DEF Fits
      <3> QED
        BY <3>1, <3>2
    <2> QED
      BY <2>2, <2>3, <2>4
  <1>14. EdgesSound(w)
    <2>1. ASSUME NEW x \in Ids(u)
          PROVE  w.cons[x].deps \cup w.cons[x].downs \subseteq Ids(w) \ {x}
      BY <1>6, <1>7, <1>9, <1>11, <1>12
    <2>2. ASSUME NEW i \in DOMAIN ts
          PROVE  w.cons[ts[i].id].deps \cup w.cons[ts[i].id].downs \subseteq Ids(w) \ {ts[i].id}
      <3>1. \A x \in ts[i].con.deps : DependsOn(ts, x, ts[i].id)
        BY DEF DependsOn
      <3> QED
        BY <1>7, <1>9, <1>13, <3>1
    <2> QED
      BY <1>6, <1>7, <2>1, <2>2 DEF EdgesSound
  <1>15. Mirrored(w)
    <2> SUFFICES ASSUME NEW x \in Ids(w), NEW y \in Ids(w)
                 PROVE  x \in w.cons[y].deps <=> y \in w.cons[x].downs
      BY DEF Mirrored
    <2>1. CASE x \in Ids(u) /\ y \in Ids(u)
      <3>1. x \in u.cons[y].deps <=> y \in u.cons[x].downs
        BY <2>1 DEF WellKept, Mirrored
      <3>2. ~DependsOn(ts, x, y)
        BY <1>9, <2>1
      <3> QED
        BY <1>12, <2>1, <3>1, <3>2
    <2>2. CASE x \notin Ids(u) /\ y \in Ids(u)
      <3>1. PICK i \in DOMAIN ts : x = ts[i].id
        BY <1>6, <1>7, <2>2
      <3>2. ~DependsOn(ts, x, y)
        BY <1>9, <2>2
      <3>3. x \notin w.cons[y].deps
        BY <1>11, <1>12, <2>2
      <3> QED
        BY <1>13, <3>1, <3>2, <3>3
    <2>3. CASE y \notin Ids(u)
      <3>1. PICK j \in DOMAIN ts : y = ts[j].id
        BY <1>6, <1>7, <2>3
      <3>2. x \in w.cons[y].deps <=> DependsOn(ts, x, y)
        <4>1. w.cons[y].deps = ts[j].con.deps
          BY <1>13, <3>1
        <4>2. ASSUME DependsOn(ts, x, y)  PROVE x \in ts[j].con.deps
          <5>1. PICK k \in DOMAIN ts : y = ts[k].id /\ x \in ts[k].con.deps
            BY <4>2 DEF DependsOn
          <5>2. k = j
            BY <3>1, <5>1 DEF Fits
          <5> QED
            BY <5>1, <5>2
        <4>3. ASSUME x \in ts[j].con.deps  PROVE DependsOn(ts, x, y)
          BY <3>1, <4>3 DEF DependsOn
        <4> QED
          BY <4>1, <4>2, <4>3
      <3>3. CASE x \in Ids(u)
        <4>1. y \notin u.cons[x].downs
          BY <1>11, <2>3, <3>3
        <4> QED
          BY <1>12, <3>2, <3>3, <4>1
      <3>4. CASE x \notin Ids(u)
        <4>1. PICK i \in DOMAIN ts : x = ts[i].id
          BY <1>6, <1>7, <3>4
        <4> QED
          BY <1>13, <3>2, <4>1
      <3> QED
        BY <3>3, <3>4
    <2> QED
      BY <2>1, <2>2, <2>3
  <1>16. WellFormed(w) /\ w.counter = u.counter /\ w.receipts = u.receipts
    BY <1>2, <1>5 DEF DrawnOn, Grown
  <1>17. Unused(w)
    <2> SUFFICES ASSUME NEW id \in Ids(w), id[1] = "C", id[2] = ""  PROVE id[3] <= w.counter
      BY DEF Unused
    <2>1. CASE id \in Ids(u)
      BY <1>16, <2>1 DEF WellKept, Unused
    <2>2. CASE id \notin Ids(u)
      <3>1. PICK i \in DOMAIN ts : id = ts[i].id
        BY <1>6, <1>7, <2>2
      <3>1a. GivenId(id)
        BY <3>1 DEF Addable
      <3>2. id[3] = 0
        BY <3>1a DEF GivenId
      <3>3. w.counter \in Nat
        BY <1>16 DEF WellFormed
      <3> QED
        BY <3>2, <3>3, ZeroLeast
    <2> QED
      BY <2>1, <2>2
  <1> QED
    BY <1>14, <1>15, <1>16, <1>17 DEF WellKept, w

-----------------------------------------------------------------------------
(* What is restored.                                                        *)

\* What a snapshot on file satisfies: its counter was not written.
Snapshot(u) == WellFormed(u) /\ EdgesSound(u) /\ Mirrored(u)

\* Such a set is restored as it was saved but for the counter.
LEMMA Restored ==
    ASSUME NEW u, Snapshot(u), NEW restored,
           restored = [u EXCEPT !.counter = NumericMax(Ids(u))]
    PROVE  /\ FromSnapshot(u, FALSE, TRUE) = restored
           /\ FromSnapshot(ToSnapshot(u), FALSE, TRUE) = restored
           /\ WellKept(restored) /\ restored.receipts = u.receipts
  <1> DEFINE M == NumericMax(Ids(u))
             saved == ToSnapshot(u)
  <1>1. IsSet(u)
    BY DEF Snapshot, WellFormed
  <1>2. saved = [u EXCEPT !.counter = 0]
    BY DEF ToSnapshot
  <1> HIDE DEF M, saved
  <1>3. saved.cons = u.cons
    BY <1>1, <1>2 DEF IsSet
  <1>4. Ids(saved) = Ids(u)
    BY <1>3 DEF Ids
  <1>5. restored = [u EXCEPT !.counter = M]
    BY DEF M
  <1>6. [saved EXCEPT !.counter = M] = restored
    BY <1>1, <1>2, <1>5 DEF IsSet
  <1>7. /\ IsSet(restored) /\ restored.cons = u.cons /\ restored.counter = M
        /\ restored.receipts = u.receipts
    BY <1>1, <1>5 DEF IsSet
  <1>8. Ids(restored) = Ids(u)
    BY <1>7 DEF Ids
  <1>9. EdgesSound(restored) /\ Mirrored(restored)
    BY <1>7, <1>8 DEF Snapshot, EdgesSound, Mirrored
  <1>10. ReverseMismatches(restored) = {}
    <2>1. ASSUME NEW e \in Ids(restored) \X Ids(restored)
          PROVE  e[1] \in restored.cons[e[2]].deps <=> e[2] \in restored.cons[e[1]].downs
      BY <1>9 DEF Mirrored
    <2>2. Forward(restored) = Backward(restored)
      BY <2>1 DEF Forward, Backward
    <2> QED
      BY <2>2 DEF ReverseMismatches
  <1>11. FromSnapshot(u, FALSE, TRUE) = restored
    BY <1>5, <1>9, <1>10 DEF FromSnapshot, M
  <1>12. FromSnapshot(saved, FALSE, TRUE) = restored
    BY <1>4, <1>6, <1>9, <1>10 DEF FromSnapshot, M
  <1>13. M \in Nat /\ \A id \in Ids(u) : id[3] <= M
    BY NumericMaxBounds DEF M, Snapshot, WellFormed
  <1>14. WellFormed(restored)
    BY <1>7, <1>8, <1>13 DEF WellFormed, Snapshot
  <1>15. Unused(restored)
    BY <1>7, <1>8, <1>13 DEF Unused
  <1> QED
    BY <1>7, <1>9, <1>11, <1>12, <1>14, <1>15 DEF WellKept, saved

\* What a session writes.
LEMMA Saved ==
    ASSUME NEW u, WellKept(u)
    PROVE  Snapshot(ToSnapshot(u))
  <1>1. IsSet(u)
    BY DEF WellKept, WellFormed
  <1>2. IsSet(ToSnapshot(u)) /\ ToSnapshot(u).cons = u.cons /\ ToSnapshot(u).counter = 0
    BY <1>1 DEF ToSnapshot, IsSet
  <1>3. Ids(ToSnapshot(u)) = Ids(u)
    BY <1>2 DEF Ids
  <1> QED
    BY <1>2, <1>3 DEF Snapshot, WellKept, WellFormed, EdgesSound, Mirrored

-----------------------------------------------------------------------------
(* What the rules propose.                                                  *)

\* The walk over some names gives some of them.
LEMMA SortedOf ==
    ASSUME NEW names
    PROVE  Sorted(names) \in Seq(names)
  <1>1. Len(NameOrder) \in Nat
    BY NameOrderAssumption, SequenceShape
  <1>2. PICK f : WalkTo(names, f, Sorted(names))
    BY <1>1, WalkSteps
  <1> DEFINE P == {k \in Nat : k <= Len(NameOrder) => f[k] \in Seq(names)}
  <1>3. 0 \in P
    <2>1. f[0] = <<>> /\ <<>> \in Seq(names)
      BY <1>2 DEF WalkTo
    <2> QED
      BY <2>1
  <1>4. ASSUME NEW k \in Nat, k \in P  PROVE k + 1 \in P
    <2> SUFFICES ASSUME k + 1 <= Len(NameOrder)  PROVE f[k + 1] \in Seq(names)
      OBVIOUS
    <2>1. k <= Len(NameOrder)
      BY <1>1
    <2>2. f[k] \in Seq(names)
      BY <1>4, <2>1
    <2>3. f[k + 1] = Picked(names, f[k], k + 1)
      BY <1>2 DEF WalkTo
    <2> QED
      BY <2>2, <2>3 DEF Picked
  <1>5. Nat \subseteq P
    <2> HIDE DEF P
    <2> QED
      BY <1>3, <1>4, SetInduction
  <1>6. Len(NameOrder) <= Len(NameOrder) /\ f[Len(NameOrder)] = Sorted(names)
    BY <1>1, <1>2 DEF WalkTo
  <1> QED
    BY <1>1, <1>5, <1>6

\* What a proposal of a clock or relationship rule is like ...
ClockRule(p, clocks) == p.source = "USER" \/ p.object \in DOMAIN clocks
\* ... and what one of a port rule is like.
PortRule(p, clocks) == p.source = "USER" /\ p.object \notin DOMAIN clocks

\* A sequence of proposals, one for each name of a sorted set.
LEMMA UserClockRules ==
    ASSUME NEW user, NEW clocks
    PROVE  /\ UserClockProposals(user) \in Seq(Range(UserClockProposals(user)))
           /\ \A p \in Range(UserClockProposals(user)) : ClockRule(p, clocks)
  <1> DEFINE names == {n \in DOMAIN user : user[n].period # None}
             declared == Sorted(names)
             proposal(n) == Proposal("create_clock", n, user[n].period, "USER", TRUE, user[n].fixed)
             s == [i \in DOMAIN declared |-> proposal(declared[i])]
  <1>1. UserClockProposals(user) = s
    BY DEF UserClockProposals
  <1>2. declared \in Seq(names)
    BY SortedOf
  <1> HIDE DEF declared, names
  <1>3. Len(declared) \in Nat /\ DOMAIN declared = 1..Len(declared)
    BY <1>2, SequenceShape
  <1>4. \A n : ClockRule(proposal(n), clocks)
    BY DEF ClockRule, Proposal, Inferred
  <1> HIDE DEF proposal
  <1>5. s \in Seq(Range(s))
    BY <1>3 DEF Range
  <1>6. \A p \in Range(s) : ClockRule(p, clocks)
    BY <1>4 DEF Range
  <1> QED
    BY <1>1, <1>5, <1>6

\* CLK-001 proposes clocks the structure shows.
LEMMA ClockRules ==
    ASSUME NEW user, NEW clocks
    PROVE  /\ ClockProposals(clocks, user) \in Seq(Range(ClockProposals(clocks, user)))
           /\ \A p \in Range(ClockProposals(clocks, user)) : ClockRule(p, clocks)
  <1> DEFINE period(n) == Enriched(clocks, user)[n].period
             names == {n \in Structural(clocks, user) : period(n) # None}
             known == Sorted(names)
             proposal(n) == IF n \in DOMAIN user
                THEN Proposal("create_clock", n, period(n), "USER", TRUE, user[n].fixed)
                ELSE Proposal("create_clock", n, period(n), Inferred, FALSE, FALSE)
             s == [i \in DOMAIN known |-> proposal(known[i])]
  <1>1. ClockProposals(clocks, user) = s
    BY DEF ClockProposals
  <1>2. known \in Seq(names)
    BY SortedOf
  <1>2a. names \subseteq DOMAIN clocks
    BY DEF Structural
  <1> HIDE DEF known, names, period
  <1>3. Len(known) \in Nat /\ DOMAIN known = 1..Len(known) /\ \A i \in DOMAIN known : known[i] \in names
    BY <1>2, SequenceShape
  <1>4. \A n \in DOMAIN clocks : ClockRule(proposal(n), clocks)
    BY DEF ClockRule, Proposal
  <1> HIDE DEF proposal
  <1>5. s \in Seq(Range(s))
    BY <1>3 DEF Range
  <1>6. \A p \in Range(s) : ClockRule(p, clocks)
    BY <1>2a, <1>3, <1>4 DEF Range
  <1> QED
    BY <1>1, <1>5, <1>6

\* REL-001 proposes what the user declared.
LEMMA RelationshipRules ==
    ASSUME NEW async, NEW clocks
    PROVE  /\ RelationshipProposals(async) \in Seq(Range(RelationshipProposals(async)))
           /\ \A p \in Range(RelationshipProposals(async)) : ClockRule(p, clocks)
  <1> DEFINE pairs == Sorted(async)
             proposal(n) == Proposal("set_clock_groups", n, "asynchronous", "USER", TRUE, TRUE)
             s == [i \in DOMAIN pairs |-> proposal(pairs[i])]
  <1>1. RelationshipProposals(async) = s
    BY DEF RelationshipProposals
  <1>2. pairs \in Seq(async)
    BY SortedOf
  <1> HIDE DEF pairs
  <1>3. Len(pairs) \in Nat /\ DOMAIN pairs = 1..Len(pairs)
    BY <1>2, SequenceShape
  <1>4. \A n : ClockRule(proposal(n), clocks)
    BY DEF ClockRule, Proposal, Inferred
  <1> HIDE DEF proposal
  <1>5. s \in Seq(Range(s))
    BY <1>3 DEF Range
  <1>6. \A p \in Range(s) : ClockRule(p, clocks)
    BY <1>4 DEF Range
  <1> QED
    BY <1>1, <1>5, <1>6

\* IO-002 and IO-003 propose the user's delays, at ports that are no clocks.
LEMMA PortRules ==
    ASSUME NEW ports, NEW clocks
    PROVE  /\ PortProposals(ports, clocks) \in Seq(Range(PortProposals(ports, clocks)))
           /\ \A p \in Range(PortProposals(ports, clocks)) : PortRule(p, clocks)
  <1> DEFINE names == {p \in TimedPorts(ports, clocks) : PortTimed(ports[p])}
             timed == Sorted(names)
             proposal(p) ==
                Proposal(ports[p].kind, p,
                         <<ports[p].delay, CHOOSE c \in PossibleClocks(ports[p]) : TRUE>>,
                         "USER", TRUE, ports[p].clock # None /\ ports[p].fixed)
             s == [i \in DOMAIN timed |-> proposal(timed[i])]
  <1>1. PortProposals(ports, clocks) = s
    BY DEF PortProposals
  <1>2. timed \in Seq(names)
    BY SortedOf
  <1>2a. \A n \in names : n \notin DOMAIN clocks
    BY DEF TimedPorts
  <1> HIDE DEF timed, names
  <1>3. Len(timed) \in Nat /\ DOMAIN timed = 1..Len(timed) /\ \A i \in DOMAIN timed : timed[i] \in names
    BY <1>2, SequenceShape
  <1>4. \A n : proposal(n).source = "USER" /\ proposal(n).object = n
    BY DEF Proposal
  <1> HIDE DEF proposal
  <1>5. s \in Seq(Range(s))
    BY <1>3 DEF Range
  <1>6. \A p \in Range(s) : PortRule(p, clocks)
    BY <1>2a, <1>3, <1>4 DEF Range, PortRule
  <1> QED
    BY <1>1, <1>5, <1>6

\* A sequence of members of a set.
LEMMA Narrowed ==
    ASSUME NEW A, NEW q \in Seq(A), NEW B, \A i \in 1..Len(q) : q[i] \in B
    PROVE  q \in Seq(B)
  OBVIOUS

\* One sequence after another.
LEMMA Chained ==
    ASSUME NEW s, s \in Seq(Range(s)), NEW t, t \in Seq(Range(t))
    PROVE  /\ s \o t \in Seq(Range(s \o t))
           /\ Len(s \o t) = Len(s) + Len(t) /\ Len(s) \in Nat /\ Len(t) \in Nat
           /\ DOMAIN (s \o t) = 1..(Len(s) + Len(t)) /\ DOMAIN s = 1..Len(s) /\ DOMAIN t = 1..Len(t)
           /\ \A i \in DOMAIN (s \o t) :
                 \/ i \in DOMAIN s /\ (s \o t)[i] = s[i]
                 \/ i \notin DOMAIN s /\ i - Len(s) \in DOMAIN t /\ (s \o t)[i] = t[i - Len(s)]
           /\ \A i \in DOMAIN s : i \in DOMAIN (s \o t) /\ (s \o t)[i] = s[i]
  <1>1. Len(s) \in Nat /\ Len(t) \in Nat /\ DOMAIN s = 1..Len(s) /\ DOMAIN t = 1..Len(t)
    BY SequenceShape
  <1>2. /\ Len(s \o t) = Len(s) + Len(t)
        /\ DOMAIN (s \o t) = 1..(Len(s) + Len(t))
    OBVIOUS
  <1>3. \A i \in 1..Len(s) : (s \o t)[i] = s[i]
    OBVIOUS
  <1>4. \A i \in 1..(Len(s) + Len(t)) : i > Len(s) => (s \o t)[i] = t[i - Len(s)]
    OBVIOUS
  <1>5. s \o t \in Seq(Range(s \o t))
    <2>1. s \o t \in Seq(Range(s) \cup Range(t))
      OBVIOUS
    <2>2. \A i \in 1..Len(s \o t) : (s \o t)[i] \in Range(s \o t)
      BY <1>2 DEF Range
    <2> QED
      BY <2>1, <2>2, Narrowed
  <1>6. \A i \in 1..(Len(s) + Len(t)) : i \in 1..Len(s) \/ (i \notin 1..Len(s) /\ i > Len(s) /\ i - Len(s) \in 1..Len(t))
    BY <1>1
  <1>7. \A i \in 1..Len(s) : i \in 1..(Len(s) + Len(t))
    BY <1>1
  <1> QED
    BY <1>1, <1>2, <1>3, <1>4, <1>5, <1>6, <1>7

\* What the rules on clocks propose, and all rules together.
LEMMA IntentRules ==
    ASSUME NEW w
    PROVE  /\ ClockIntent(w) \in Seq(Range(ClockIntent(w)))
           /\ \A p \in Range(ClockIntent(w)) : ClockRule(p, w.clocks)
           /\ Proposals(w) \in Seq(Range(Proposals(w)))
           /\ Len(Proposals(w)) \in Nat /\ DOMAIN Proposals(w) = 1..Len(Proposals(w))
  <1> DEFINE a == UserClockProposals(w.user)
             b == ClockProposals(w.clocks, w.user)
             c == RelationshipProposals(w.async)
             d == PortProposals(w.ports, w.clocks)
  <1>1. a \in Seq(Range(a)) /\ \A p \in Range(a) : ClockRule(p, w.clocks)
    BY UserClockRules
  <1>2. b \in Seq(Range(b)) /\ \A p \in Range(b) : ClockRule(p, w.clocks)
    BY ClockRules
  <1>3. c \in Seq(Range(c)) /\ \A p \in Range(c) : ClockRule(p, w.clocks)
    BY RelationshipRules
  <1>4. d \in Seq(Range(d))
    BY PortRules
  <1>5. ClockIntent(w) = (a \o b) \o c
    <2>1. ClockIntent(w) = a \o b \o c
      BY DEF ClockIntent
    <2> QED
      BY <2>1
  <1>6. Proposals(w) = ClockIntent(w) \o d
    BY DEF Proposals
  <1> HIDE DEF a, b, c, d
  <1>7. a \o b \in Seq(Range(a \o b)) /\ \A p \in Range(a \o b) : ClockRule(p, w.clocks)
    <2>1. a \o b \in Seq(Range(a \o b))
      BY <1>1, <1>2, Chained
    <2>2. ASSUME NEW i \in DOMAIN (a \o b)  PROVE ClockRule((a \o b)[i], w.clocks)
      <3>1. \/ i \in DOMAIN a /\ (a \o b)[i] = a[i]
            \/ i - Len(a) \in DOMAIN b /\ (a \o b)[i] = b[i - Len(a)]
        BY <1>1, <1>2, Chained
      <3> QED
        BY <1>1, <1>2, <3>1 DEF Range
    <2> QED
      BY <2>1, <2>2 DEF Range
  <1> DEFINE ab == a \o b
  <1>8. ab \in Seq(Range(ab)) /\ \A p \in Range(ab) : ClockRule(p, w.clocks)
    BY <1>7
  <1>9. ClockIntent(w) = ab \o c
    BY <1>5
  <1> HIDE DEF ab
  <1>10. ab \o c \in Seq(Range(ab \o c)) /\ \A p \in Range(ab \o c) : ClockRule(p, w.clocks)
    <2>1. ab \o c \in Seq(Range(ab \o c))
      BY <1>3, <1>8, Chained
    <2>2. ASSUME NEW i \in DOMAIN (ab \o c)  PROVE ClockRule((ab \o c)[i], w.clocks)
      <3>1. \/ i \in DOMAIN ab /\ (ab \o c)[i] = ab[i]
            \/ i - Len(ab) \in DOMAIN c /\ (ab \o c)[i] = c[i - Len(ab)]
        BY <1>3, <1>8, Chained
      <3> QED
        BY <1>3, <1>8, <3>1 DEF Range
    <2> QED
      BY <2>1, <2>2 DEF Range
  <1>11. ClockIntent(w) \in Seq(Range(ClockIntent(w)))
    BY <1>9, <1>10
  <1>12. Proposals(w) \in Seq(Range(Proposals(w)))
    BY <1>4, <1>6, <1>11, Chained
  <1>13. Len(Proposals(w)) \in Nat /\ DOMAIN Proposals(w) = 1..Len(Proposals(w))
    BY <1>12, SequenceShape
  <1> QED
    BY <1>9, <1>10, <1>11, <1>12, <1>13

-----------------------------------------------------------------------------
(* What the engine builds of the proposals.                                 *)

\* A built constraint, field by field.
LEMMA BuildParts ==
    ASSUME NEW props, NEW i, NEW c, c = Build(props, i)
    PROVE  /\ IsConstraint(c) /\ c.scope = Key(props[i])
           /\ c.deps = {} /\ c.downs = {} /\ c.assumptions = {} /\ c.unsupported = FALSE
           /\ (c.source = Inferred => \A j \in Slot(props, i) : props[j].source # "USER")
  <1> DEFINE slot == Slot(props, i)
             told == {j \in slot : props[j].source = "USER"}
             user == told # {}
             high == user \/ \E j \in slot : props[j].high
             value == IF user THEN props[Max(told)].value ELSE props[i].value
             source == IF user THEN "USER" ELSE Inferred
             status == IF user /\ \E j \in slot : props[j].fixed THEN "FIXED"
                       ELSE IF high THEN "CONFIRMED" ELSE "PROPOSED"
             pinned == user /\ \E j \in slot : props[j].fixed
  <1>1. c = [scope |-> Key(props[i]), value |-> value, scenarios |-> {}, disabled |-> FALSE,
             unsupported |-> FALSE, high |-> high, source |-> source, status |-> status,
             pinned |-> pinned, deps |-> {}, downs |-> {}, assumptions |-> {}]
    BY DEF Build
  <1>2. source = Inferred => ~user
    BY DEF Inferred
  <1>3. ~user => \A j \in slot : props[j].source # "USER"
    OBVIOUS
  <1> HIDE DEF slot, user, high, value, source, status, pinned
  <1>4. IsConstraint(c)
    BY <1>1, Assembled
  <1>5. /\ c.scope = Key(props[i]) /\ c.deps = {} /\ c.downs = {} /\ c.assumptions = {}
        /\ c.unsupported = FALSE /\ c.source = source
    BY <1>1
  <1> QED
    BY <1>2, <1>3, <1>4, <1>5 DEF slot

\* v holds one constraint for each slot opened by the first n proposals.
Ran(props, v, n) ==
    /\ IsSet(v)
    /\ \A id : id \in Ids(v) <=>
          \E i \in Openers(props) : i <= n /\ id = BuiltId(Build(props, i))
    /\ \A i \in Openers(props) : i <= n => v.cons[BuiltId(Build(props, i))] = Build(props, i)

\* Slots have different ids.
LEMMA BuiltIdsDiffer ==
    ASSUME NEW props, DOMAIN props = 1..Len(props), Len(props) \in Nat,
           NEW i \in Openers(props), NEW j \in Openers(props), i # j
    PROVE  /\ BuiltId(Build(props, i)) # BuiltId(Build(props, j))
           /\ Normal(Build(props, i)) # Normal(Build(props, j))
  <1>1. i \in Nat /\ j \in Nat /\ (i < j \/ j < i)
    BY DEF Openers
  <1>2. Key(props[i]) # Key(props[j])
    <2>1. i < j => i \in 1..(j - 1)
      BY <1>1 DEF Openers
    <2>2. j < i => j \in 1..(i - 1)
      BY <1>1 DEF Openers
    <2> QED
      BY <1>1, <2>1, <2>2 DEF Openers
  <1>3. Build(props, i).scope = Key(props[i]) /\ Build(props, j).scope = Key(props[j])
    BY BuildParts
  <1>4. Normal(Build(props, i)) # Normal(Build(props, j))
    BY <1>2, <1>3 DEF Normal
  <1>5. \A p : Key(p) = <<Key(p)[1], Key(p)[2]>>
    BY DEF Key
  <1>6. BuiltId(Build(props, i)) # BuiltId(Build(props, j))
    BY <1>2, <1>3, <1>5 DEF BuiltId
  <1> QED
    BY <1>4, <1>6

\* One proposal more.
LEMMA RanStep ==
    ASSUME NEW props, DOMAIN props = 1..Len(props), Len(props) \in Nat,
           NEW k \in Nat, NEW v, Ran(props, v, k)
    PROVE  Ran(props, RanNext(props, v, k + 1), k + 1)
  <1> DEFINE c == Build(props, k + 1)
             id == BuiltId(c)
             w == RanNext(props, v, k + 1)
  <1>0. \A i \in Openers(props) : i \in Nat /\ (i <= k + 1 <=> i <= k \/ i = k + 1) /\ ~(i <= k /\ i = k + 1)
    BY DEF Openers
  <1>1. CASE k + 1 \notin Openers(props)
    <2>1. w = v
      BY <1>1 DEF RanNext
    <2>2. \A i \in Openers(props) : i <= k + 1 <=> i <= k
      BY <1>0, <1>1
    <2> HIDE DEF w
    <2> QED
      BY <2>1, <2>2 DEF Ran, w
  <1>2. CASE k + 1 \in Openers(props)
    <2>1. \A i \in Openers(props) : i <= k => BuiltId(Build(props, i)) # id /\ Normal(Build(props, i)) # Normal(c)
      BY <1>0, <1>2, BuiltIdsDiffer
    <2>2. id \notin Ids(v)
      BY <2>1 DEF Ran
    <2>3. ~\E x \in Ids(v) : Normal(v.cons[x]) = Normal(c)
      <3>1. SUFFICES ASSUME NEW x \in Ids(v)  PROVE Normal(v.cons[x]) # Normal(c)
        OBVIOUS
      <3>2. PICK i \in Openers(props) : i <= k /\ x = BuiltId(Build(props, i))
        BY DEF Ran
      <3>3. v.cons[x] = Build(props, i)
        BY <3>2 DEF Ran
      <3> QED
        BY <2>1, <3>2, <3>3
    <2>4. w = AddAs(v, id, c)
      BY <1>2, <2>2, <2>3 DEF RanNext, Materialise, Add, AssignedId
    <2>5. c.deps = {}
      BY BuildParts
    <2> DEFINE new == [x \in Ids(v) \cup {id} |-> IF x = id THEN c ELSE v.cons[x]]
               bound == BindConstraint(v.ledger, c.assumptions, id)
    <2>6. w = [v EXCEPT !.cons = new, !.ledger = bound]
      BY <2>4, <2>5 DEF AddAs
    <2>7. IsSet(v)
      BY DEF Ran
    <2>7a. id = BuiltId(Build(props, k + 1)) /\ c = Build(props, k + 1)
      OBVIOUS
    <2> HIDE DEF w, c, id, bound
    <2>8. IsSet(w) /\ w.cons = new
      <3> HIDE DEF new
      <3> QED
        BY <2>6, <2>7 DEF IsSet
    <2>9. Ids(w) = Ids(v) \cup {id} /\ w.cons[id] = c /\ \A x \in Ids(v) : w.cons[x] = v.cons[x]
      BY <2>2, <2>8 DEF Ids
    <2>10. \A x : x \in Ids(w) <=>
              \E i \in Openers(props) : i <= k + 1 /\ x = BuiltId(Build(props, i))
      BY <1>0, <1>2, <2>7a, <2>9 DEF Ran
    <2>11. ASSUME NEW i \in Openers(props), i <= k + 1
           PROVE  w.cons[BuiltId(Build(props, i))] = Build(props, i)
      <3>1. CASE i = k + 1
        BY <2>7a, <2>9, <3>1
      <3>2. CASE i # k + 1
        <4>1. i <= k
          BY <1>0, <2>11, <3>2
        <4>2. BuiltId(Build(props, i)) \in Ids(v)
          BY <4>1 DEF Ran
        <4> QED
          BY <2>9, <4>1, <4>2 DEF Ran
      <3> QED
        BY <3>1, <3>2
    <2> QED
      BY <2>8, <2>10, <2>11 DEF Ran, w
  <1> QED
    BY <1>1, <1>2

\* The scratch set holds one constraint for each slot, and no other.
LEMMA RunBuilds ==
    ASSUME NEW w
    PROVE  Ran(Proposals(w), Run(w, EmptySet({})), Len(Proposals(w)))
  <1> DEFINE props == Proposals(w)
             u == EmptySet({})
  <1>1. Len(props) \in Nat /\ DOMAIN props = 1..Len(props)
    BY IntentRules
  <1>2. props = Proposals(w)
    OBVIOUS
  <1>3. IsSet(u) /\ Ids(u) = {}
    BY DEF EmptySet, IsSet, Ids
  <1> HIDE DEF props, u
  <1>4. PICK f : RunsTo(props, u, f, Run(w, u))
    BY <1>1, <1>2, RunsSteps
  <1> DEFINE P == {k \in Nat : k <= Len(props) => Ran(props, f[k], k)}
  <1>5. 0 \in P
    <2>1. \A i \in Openers(props) : ~(i <= 0)
      BY <1>1 DEF Openers
    <2>2. Ran(props, u, 0)
      BY <1>3, <2>1 DEF Ran
    <2> QED
      BY <1>4, <2>2 DEF RunsTo
  <1>6. ASSUME NEW k \in Nat, k \in P  PROVE k + 1 \in P
    <2> SUFFICES ASSUME k + 1 <= Len(props)  PROVE Ran(props, f[k + 1], k + 1)
      OBVIOUS
    <2>1. k <= Len(props)
      BY <1>1
    <2>2. Ran(props, f[k], k)
      BY <1>6, <2>1
    <2>3. f[k + 1] = RanNext(props, f[k], k + 1)
      BY <1>4 DEF RunsTo
    <2> QED
      BY <1>1, <2>2, <2>3, RanStep
  <1>7. Nat \subseteq P
    <2> HIDE DEF P
    <2> QED
      BY <1>5, <1>6, SetInduction
  <1>8. Len(props) <= Len(props)
    BY <1>1
  <1>9. Ran(props, Run(w, u), Len(props))
    BY <1>1, <1>4, <1>7, <1>8 DEF RunsTo
  <1> QED
    BY <1>9 DEF props, u

-----------------------------------------------------------------------------
(* What a session can be offered and keeps.                                 *)

\* One template built from the proposals of a world.
BuiltFrom(cand, w) ==
    \E i \in Openers(Proposals(w)) :
       LET c == Build(Proposals(w), i)
       IN /\ cand.templates = <<[id |-> BuiltId(c), con |-> c]>>
          /\ cand.source.design = SourceIdentity(w, EmptySet({})).design
          /\ cand.decision = "ACCEPTABLE" => cand.status = "INFERRED" /\ c.source = Inferred

\* What every candidate satisfies however much later it is decided.
HeldWell(cand) ==
    \/ cand.templates = <<>> /\ cand.decision # "ACCEPTABLE"
    \/ cand.templates \in Packages /\ cand.missing = {} /\ cand.status = "INFERRED"
    \/ cand.missing = {} /\ \E w \in Worlds : BuiltFrom(cand, w)

\* The design of a source snapshot does not depend on the set.
LEMMA DesignOnly ==
    ASSUME NEW w, NEW u, NEW v
    PROVE  SourceIdentity(w, u).design = SourceIdentity(w, v).design
  BY DEF SourceIdentity

\* Everything on offer satisfies it.
LEMMA OffersWell ==
    ASSUME NEW w \in Worlds, NEW u, NEW cand \in Offers(w, u)
    PROVE  HeldWell(cand)
  <1> DEFINE scratch == Run(w, EmptySet({}))
             props == Proposals(w)
  <1>1. CASE \E id \in Ids(scratch) : cand = CandidateOf(scratch.cons[id], w, u)
    <2>1. PICK id \in Ids(scratch) : cand = CandidateOf(scratch.cons[id], w, u)
      BY <1>1
    <2>2. Ran(props, scratch, Len(props))
      BY RunBuilds
    <2> HIDE DEF scratch, props
    <2>3. PICK i \in Openers(props) : i <= Len(props) /\ id = BuiltId(Build(props, i))
      BY <2>1, <2>2 DEF Ran
    <2>4. scratch.cons[id] = Build(props, i)
      BY <2>2, <2>3 DEF Ran
    <2> DEFINE c == Build(props, i)
    <2>5. cand = CandidateOf(c, w, u)
      BY <2>1, <2>4
    <2> HIDE DEF c
    <2>6. /\ cand.templates = <<[id |-> BuiltId(c), con |-> c]>> /\ cand.missing = {}
          /\ cand.source = SourceIdentity(w, u)
          /\ cand.decision = "ACCEPTABLE" => cand.status = "INFERRED" /\ c.source = Inferred
      BY <2>5 DEF CandidateOf
    <2>7. cand.source.design = SourceIdentity(w, EmptySet({})).design
      BY <2>6, DesignOnly
    <2>8. BuiltFrom(cand, w)
      BY <2>6, <2>7 DEF BuiltFrom, c, props
    <2> QED
      BY <2>6, <2>8 DEF HeldWell
  <1>2. CASE \E m \in AllMissing(w) : cand = CandidateOfMissing(m, w, u)
    <2>1. cand.templates = <<>> /\ cand.decision # "ACCEPTABLE"
      BY <1>2 DEF CandidateOfMissing
    <2> QED
      BY <2>1 DEF HeldWell
  <1>3. CASE \E p \in w.hints : cand = CandidateOfHint(p, w, u)
    <2>1. cand.templates = <<>> /\ cand.decision # "ACCEPTABLE"
      BY <1>3 DEF CandidateOfHint
    <2> QED
      BY <2>1 DEF HeldWell
  <1>4. CASE \E t \in Packages : cand = Package(t, w, u)
    <2>1. cand.templates \in Packages /\ cand.missing = {} /\ cand.status = "INFERRED"
      BY <1>4 DEF Package
    <2> QED
      BY <2>1 DEF HeldWell
  <1> QED
    <2>1. \/ cand \in InferCandidates(w, u)
          \/ \E t \in Packages : cand = Package(t, w, u)
      BY DEF Offers
    <2>2. cand \in InferCandidates(w, u) =>
             \/ \E id \in Ids(scratch) : cand = CandidateOf(scratch.cons[id], w, u)
             \/ \E m \in AllMissing(w) : cand = CandidateOfMissing(m, w, u)
             \/ \E p \in w.hints : cand = CandidateOfHint(p, w, u)
      BY DEF InferCandidates
    <2> QED
      BY <1>1, <1>2, <1>3, <1>4, <2>1, <2>2

\* The templates of such a candidate: packages as callers build them, or one
\* built constraint that depends on nothing.
LEMMA HeldAddable ==
    ASSUME NEW cand, HeldWell(cand), cand.templates # <<>>, NEW ts, ts = cand.templates
    PROVE  /\ Addable(ts)
           /\ \A i \in DOMAIN ts : ts[i] = [id |-> ts[i].id, con |-> ts[i].con]
           /\ \A i, j \in DOMAIN ts : Normal(ts[i].con) = Normal(ts[j].con) => i = j
           /\ \A i \in DOMAIN ts : ~ts[i].con.unsupported
  <1>1. CASE ts \in Packages
    <2>1. IsPackage(ts)
      BY <1>1, PackagesAssumption
    <2>2. ASSUME NEW i \in DOMAIN ts
          PROVE  /\ ts[i] = [id |-> ts[i].id, con |-> ts[i].con] /\ ~ts[i].con.unsupported
                 /\ GivenId(ts[i].id)
                 /\ IsConstraint(ts[i].con) /\ ts[i].id \notin ts[i].con.deps
                 /\ \A x \in ts[i].con.downs :
                      \E j \in DOMAIN ts : x = ts[j].id /\ ts[i].id \in ts[j].con.deps
      BY <2>1 DEF IsPackage
    <2>3. ts \in Seq(Range(ts))
      BY <2>1 DEF IsPackage
    <2>4. Addable(ts)
      BY <2>2, <2>3 DEF Addable
    <2>5. \A i, j \in DOMAIN ts : Normal(ts[i].con) = Normal(ts[j].con) => i = j
      BY <2>1 DEF IsPackage
    <2> QED
      BY <2>2, <2>4, <2>5
  <1>2. CASE \E w \in Worlds : BuiltFrom(cand, w)
    <2>1. PICK w \in Worlds : BuiltFrom(cand, w)
      BY <1>2
    <2>2. PICK i \in Openers(Proposals(w)) :
             LET c == Build(Proposals(w), i) IN ts = <<[id |-> BuiltId(c), con |-> c]>>
      BY <2>1 DEF BuiltFrom
    <2> DEFINE c == Build(Proposals(w), i)
    <2>3. ts = <<[id |-> BuiltId(c), con |-> c]>>
      BY <2>2
    <2>4. IsConstraint(c) /\ c.deps = {} /\ c.downs = {} /\ c.unsupported = FALSE
      BY BuildParts
    <2> HIDE DEF c
    <2>5. BuiltId(c) = <<c.scope[1], c.scope[2], 0>>
      BY DEF BuiltId
    <2>6. GivenId(BuiltId(c))
      BY <2>5 DEF IsId, GivenId
    <2> DEFINE t == [id |-> BuiltId(c), con |-> c]
    <2>7. t = [id |-> t.id, con |-> t.con] /\ t.id = BuiltId(c) /\ t.con = c
      OBVIOUS
    <2>8. ts = <<t>>
      BY <2>3
    <2> HIDE DEF t
    <2>9. DOMAIN ts = {1} /\ ts[1] = t /\ ts \in Seq(Range(ts))
      <3>1. DOMAIN ts = {1} /\ ts[1] = t /\ ts \in Seq({t})
        BY <2>8
      <3>2. Range(ts) = {t}
        BY <3>1 DEF Range
      <3> QED
        BY <3>1, <3>2
    <2>10. Addable(ts)
      BY <2>4, <2>6, <2>7, <2>9 DEF Addable
    <2>11. /\ \A k \in DOMAIN ts : ts[k] = [id |-> ts[k].id, con |-> ts[k].con]
           /\ \A k \in DOMAIN ts : ~ts[k].con.unsupported
      BY <2>4, <2>7, <2>9
    <2> QED
      BY <2>9, <2>10, <2>11
  <1> QED
    BY <1>1, <1>2 DEF HeldWell

\* Confirmation changes their status only.
LEMMA ConfirmedAddable ==
    ASSUME NEW ts, Addable(ts), \A i \in DOMAIN ts : ts[i] = [id |-> ts[i].id, con |-> ts[i].con],
           NEW u
    PROVE  Addable(Confirmed(ts)) /\ (Fits(ts, u) => Fits(Confirmed(ts), u))
  <1> DEFINE cs == Confirmed(ts)
             confirmed(t) == [t EXCEPT !.con.status = "CONFIRMED"]
  <1>1. cs = [i \in DOMAIN ts |-> confirmed(ts[i])]
    BY DEF Confirmed
  <1>2. DOMAIN ts = 1..Len(ts) /\ Len(ts) \in Nat
    BY SequenceShape DEF Addable
  <1>3. ASSUME NEW c, IsConstraint(c), NEW id, NEW t, t = confirmed([id |-> id, con |-> c])
        PROVE  t.id = id /\ IsConstraint(t.con) /\ t.con.deps = c.deps /\ t.con.downs = c.downs
    <2> DEFINE d == [c EXCEPT !.status = "CONFIRMED"]
    <2>1. t = [id |-> id, con |-> d]
      BY <1>3
    <2>2. IsConstraint(d) /\ d.deps = c.deps /\ d.downs = c.downs
      BY <1>3 DEF IsConstraint, Fields
    <2> HIDE DEF d
    <2> QED
      BY <2>1, <2>2
  <1>4. ASSUME NEW i \in DOMAIN ts
        PROVE  /\ cs[i].id = ts[i].id /\ IsConstraint(cs[i].con)
               /\ cs[i].con.deps = ts[i].con.deps /\ cs[i].con.downs = ts[i].con.downs
    <2>1. cs[i] = confirmed(ts[i])
      BY <1>1
    <2>2. IsConstraint(ts[i].con)
      BY DEF Addable
    <2>3. ts[i] = [id |-> ts[i].id, con |-> ts[i].con]
      OBVIOUS
    <2> HIDE DEF confirmed, cs
    <2> QED
      BY <1>3, <2>1, <2>2, <2>3
  <1>5. DOMAIN cs = DOMAIN ts /\ cs \in Seq(Range(cs))
    <2>1. cs = [i \in 1..Len(ts) |-> cs[i]]
      BY <1>1, <1>2
    <2>2. \A i \in 1..Len(ts) : cs[i] \in Range(cs)
      BY <1>1, <1>2 DEF Range
    <2> HIDE DEF cs
    <2> QED
      BY <1>2, <2>1, <2>2
  <1> HIDE DEF cs
  <1>6. Addable(cs)
    <2>1. ASSUME NEW i \in DOMAIN cs
          PROVE  /\ GivenId(cs[i].id) /\ IsConstraint(cs[i].con) /\ cs[i].id \notin cs[i].con.deps
      BY <1>4, <1>5 DEF Addable
    <2>2. ASSUME NEW i \in DOMAIN cs, NEW x \in cs[i].con.downs
          PROVE  \E j \in DOMAIN cs : x = cs[j].id /\ cs[i].id \in cs[j].con.deps
      <3>1. i \in DOMAIN ts /\ x \in ts[i].con.downs
        BY <1>4, <1>5
      <3>2. PICK j \in DOMAIN ts : x = ts[j].id /\ ts[i].id \in ts[j].con.deps
        BY <3>1 DEF Addable
      <3> QED
        BY <1>4, <1>5, <3>1, <3>2
    <2> QED
      BY <1>5, <2>1, <2>2 DEF Addable
  <1>7. ASSUME Fits(ts, u)  PROVE Fits(cs, u)
    <2>1. \A i \in DOMAIN cs : cs[i].id \notin Ids(u)
      BY <1>4, <1>5, <1>7 DEF Fits
    <2>2. \A i, j \in DOMAIN cs : cs[i].id = cs[j].id => i = j
      BY <1>4, <1>5, <1>7 DEF Fits
    <2>3. ASSUME NEW i \in DOMAIN cs, NEW x \in cs[i].con.deps
          PROVE  x \in Ids(u) \/ \E j \in DOMAIN cs : x = cs[j].id
      <3>1. i \in DOMAIN ts /\ x \in ts[i].con.deps
        BY <1>4, <1>5
      <3>2. x \in Ids(u) \/ \E j \in DOMAIN ts : x = ts[j].id
        BY <1>7, <3>1 DEF Fits
      <3> QED
        BY <1>4, <1>5, <3>2
    <2> QED
      BY <2>1, <2>2, <2>3 DEF Fits
  <1> QED
    BY <1>6, <1>7 DEF cs

-----------------------------------------------------------------------------
(* What is applied.                                                         *)

\* An application has passed every early return.
LEMMA AppliedMeans ==
    ASSUME NEW cand, NEW d, NEW r, NEW dry, NEW legacy, NEW u, NEW w, NEW checks,
           Resolve(cand, d, r, dry, legacy, u, w, checks) = "APPLIED"
    PROVE  /\ Identifiable(cand) /\ ~WorldStale(cand, w, legacy)
           /\ \A c \in Constraints(cand) : c.source = Inferred
           /\ Duplicates(u, cand) = {} /\ Conflicts(u, cand) = {}
           /\ ~MissingLinks(u, cand) /\ Placeable(u, cand)
  <1>1. d # "REJECT" /\ d # "DEFER" /\ d # "INVALID" /\ Identifiable(cand) /\ ~WorldStale(cand, w, legacy)
    BY DEF Resolve
  <1>2. /\ ~(\E c \in Constraints(cand) : c.source # Inferred)
        /\ ~(Duplicates(u, cand) \cup Conflicts(u, cand) # {})
        /\ ~(MissingLinks(u, cand) \/ ~Placeable(u, cand))
    BY DEF Resolve
  <1> QED
    BY <1>1, <1>2

\* The set it leaves is well kept.
LEMMA CommittedWellKept ==
    ASSUME NEW cand, HeldWell(cand), Identifiable(cand), NEW u, WellKept(u),
           ~MissingLinks(u, cand), Placeable(u, cand)
    PROVE  WellKept(Committed(u, cand))
  <1> DEFINE ts == cand.templates
             cs == Confirmed(ts)
             v == AddTemplates(u, cs)
             w == Committed(u, cand)
  <1>1. ts # <<>>
    BY DEF Identifiable
  <1>2. Addable(ts) /\ \A i \in DOMAIN ts : ts[i] = [id |-> ts[i].id, con |-> ts[i].con]
    BY <1>1, HeldAddable
  <1>3. Fits(ts, u)
    <2>1. \A t : t \in Range(ts) <=> \E i \in DOMAIN ts : t = ts[i]
      BY DEF Range
    <2>2. \A i \in DOMAIN ts : ts[i].id \in TemplateIds(cand) /\ ts[i].con \in Constraints(cand)
      BY <2>1 DEF TemplateIds, Constraints
    <2>3. \A x \in TemplateIds(cand) : \E i \in DOMAIN ts : x = ts[i].id
      BY <2>1 DEF TemplateIds
    <2>4. \A i \in DOMAIN ts : ts[i].id \notin Ids(u)
      BY <2>2 DEF Placeable
    <2>5. \A i, j \in DOMAIN ts : ts[i].id = ts[j].id => i = j
      BY DEF Placeable
    <2>6. \A c \in Constraints(cand) : c.deps \subseteq Ids(u) \cup TemplateIds(cand)
      BY DEF MissingLinks
    <2>7. ASSUME NEW i \in DOMAIN ts, NEW x \in ts[i].con.deps
          PROVE  x \in Ids(u) \/ \E j \in DOMAIN ts : x = ts[j].id
      BY <2>2, <2>3, <2>6
    <2> QED
      BY <2>4, <2>5, <2>7 DEF Fits
  <1> HIDE DEF ts
  <1>4. Addable(cs) /\ Fits(cs, u)
    BY <1>2, <1>3, ConfirmedAddable
  <1> HIDE DEF cs
  <1>5. WellKept(v)
    BY <1>4, AddTemplatesWellKept
  <1>6. w = [v EXCEPT !.receipts = @ \cup {TemplateIds(cand)}]
    BY DEF Committed, cs, ts
  <1>7. IsSet(v)
    BY <1>5 DEF WellKept, WellFormed
  <1> HIDE DEF v, w
  <1>8. IsSet(w) /\ w.cons = v.cons /\ w.counter = v.counter
    BY <1>6, <1>7 DEF IsSet
  <1>9. Ids(w) = Ids(v)
    BY <1>8 DEF Ids
  <1>10. WellFormed(w)
    BY <1>5, <1>8, <1>9 DEF WellKept, WellFormed
  <1>11. EdgesSound(w) /\ Mirrored(w)
    BY <1>5, <1>8, <1>9 DEF WellKept, EdgesSound, Mirrored
  <1>12. Unused(w)
    BY <1>5, <1>8, <1>9 DEF WellKept, Unused
  <1> QED
    BY <1>10, <1>11, <1>12 DEF WellKept, w

\* What a session decides when it applies.
LEMMA DecideMeans ==
    ASSUME NEW s, Decide(s)
    PROVE  /\ ucm[s] # None /\ held[s] # None
           /\ Identifiable(held[s]) /\ \E legacy \in BOOLEAN : ~WorldStale(held[s], world, legacy)
           /\ \A c \in Constraints(held[s]) : c.source = Inferred
           /\ Duplicates(ucm[s], held[s]) = {} /\ Conflicts(ucm[s], held[s]) = {}
           /\ ~MissingLinks(ucm[s], held[s]) /\ Placeable(ucm[s], held[s])
  <1> DEFINE cand == held[s]
             u == ucm[s]
  <1>1. Applicable(cand, u, world)
    BY DEF Decide
  <1>2. u # None /\ cand # None
    BY DEF Decide, Open
  <1> HIDE DEF cand, u
  <1>3. PICK legacy \in BOOLEAN : \E d, r, dry, c :
           Resolve(cand, d, r, dry, legacy, u, world, c) = "APPLIED"
    BY <1>1 DEF Applicable
  <1>4. /\ Identifiable(cand) /\ ~WorldStale(cand, world, legacy)
        /\ \A k \in Constraints(cand) : k.source = Inferred
        /\ Duplicates(u, cand) = {} /\ Conflicts(u, cand) = {}
        /\ ~MissingLinks(u, cand) /\ Placeable(u, cand)
    BY <1>3, AppliedMeans
  <1> QED
    BY <1>2, <1>4 DEF cand, u

-----------------------------------------------------------------------------
(* The invariant of the sessions.                                           *)

\* Every set in memory is well kept, every candidate kept is one inference or
\* a caller made of a world there was, and the file restores.
Inv ==
    /\ world \in Worlds
    /\ ucm = [s \in Sessions |-> ucm[s]] /\ held = [s \in Sessions |-> held[s]]
    /\ writing \in [Sessions -> BOOLEAN]
    /\ \A s \in Sessions : ucm[s] # None => WellKept(ucm[s])
    /\ \A s \in Sessions : held[s] # None => HeldWell(held[s])
    /\ \A s \in Sessions : writing[s] = TRUE => ucm[s] # None
    /\ file \notin {None, Torn} => Snapshot(file)

\* Before anything is loaded or written there is nothing to keep.
LEMMA InvInit == Init => Inv
  BY DEF Init, Inv

\* A step that changes the set of one session.
LEMMA SetChanged ==
    ASSUME Inv, NEW s \in Sessions, NEW u, ucm' = [ucm EXCEPT ![s] = u],
           u # None => WellKept(u), writing[s] # TRUE, UNCHANGED <<world, held, file, writing>>
    PROVE  Inv'
  <1>1. ucm' = [t \in Sessions |-> ucm'[t]]
    BY DEF Inv
  <1>2. \A t \in Sessions : ucm'[t] = IF t = s THEN u ELSE ucm[t]
    BY DEF Inv
  <1>3. \A t \in Sessions : ucm'[t] # None => WellKept(ucm'[t])
    BY <1>2 DEF Inv
  <1>4. \A t \in Sessions : writing'[t] = TRUE => ucm'[t] # None
    BY <1>2 DEF Inv
  <1> QED
    BY <1>1, <1>3, <1>4 DEF Inv

\* A command that ends forgets its set and its candidate.
LEMMA EndedKeeps ==
    ASSUME Inv, NEW s \in Sessions, Ended(s), world' = world,
           file' \notin {None, Torn} => Snapshot(file')
    PROVE  Inv'
  <1>1. /\ ucm' = [t \in Sessions |-> ucm'[t]]
        /\ \A t \in Sessions : ucm'[t] = IF t = s THEN None ELSE ucm[t]
    BY DEF Inv, Ended
  <1>2. /\ held' = [t \in Sessions |-> held'[t]]
        /\ \A t \in Sessions : held'[t] = IF t = s THEN None ELSE held[t]
    BY DEF Inv, Ended
  <1>2a. /\ writing' \in [Sessions -> BOOLEAN]
         /\ \A t \in Sessions : writing'[t] = IF t = s THEN FALSE ELSE writing[t]
    BY DEF Inv, Ended
  <1>2b. \A t \in Sessions : writing'[t] = TRUE => ucm'[t] # None
    BY <1>1, <1>2a DEF Inv
  <1>3. \A t \in Sessions : ucm'[t] # None => WellKept(ucm'[t])
    BY <1>1 DEF Inv
  <1>4. \A t \in Sessions : held'[t] # None => HeldWell(held'[t])
    BY <1>2 DEF Inv
  <1> QED
    BY <1>1, <1>2, <1>2a, <1>2b, <1>3, <1>4 DEF Inv

\* What a command loads is well kept.
LEMMA LoadedWellKept ==
    ASSUME Inv, file # Torn
    PROVE  WellKept(Loaded)
  <1>1. CASE file = None
    BY <1>1, EmptyWellKept DEF Loaded
  <1>2. CASE file # None
    <2> DEFINE restored == [file EXCEPT !.counter = NumericMax(Ids(file))]
    <2>1. Snapshot(file)
      BY <1>2 DEF Inv
    <2>2. FromSnapshot(file, FALSE, TRUE) = restored /\ WellKept(restored)
      BY <2>1, Restored
    <2>3. Loaded = FromSnapshot(file, FALSE, TRUE)
      BY <1>2 DEF Loaded
    <2> HIDE DEF restored
    <2> QED
      BY <2>2, <2>3
  <1> QED
    BY <1>1, <1>2

\* Every action preserves the invariant.
LEMMA InvNext == Inv /\ [Next]_vars => Inv'
  <1> SUFFICES ASSUME Inv, [Next]_vars  PROVE Inv'
    OBVIOUS
  <1>1. ASSUME NEW s \in Sessions, Load(s)  PROVE Inv'
    <2>1. WellKept(Loaded)
      BY <1>1, LoadedWellKept DEF Load
    <2>2. /\ ucm' = [ucm EXCEPT ![s] = Loaded]
          /\ UNCHANGED <<world, held, file, writing>> /\ writing[s] # TRUE
      BY <1>1 DEF Load, Open, Inv
    <2> QED
      BY <2>1, <2>2, SetChanged
  <1>2. ASSUME NEW s \in Sessions, Infer(s)  PROVE Inv'
    <2>1. PICK c \in Offers(world, ucm[s]) : held' = [held EXCEPT ![s] = c]
      BY <1>2 DEF Infer
    <2>2. HeldWell(c)
      BY <2>1, OffersWell DEF Inv
    <2>3. /\ held' = [t \in Sessions |-> held'[t]]
          /\ \A t \in Sessions : held'[t] = IF t = s THEN c ELSE held[t]
      BY <2>1 DEF Inv
    <2>4. \A t \in Sessions : held'[t] # None => HeldWell(held'[t])
      BY <2>2, <2>3 DEF Inv
    <2>5. UNCHANGED <<world, ucm, file, writing>>
      BY <1>2 DEF Infer
    <2> QED
      BY <2>3, <2>4, <2>5 DEF Inv
  <1>3. ASSUME NEW s \in Sessions, Decide(s)  PROVE Inv'
    <2>1. /\ ucm[s] # None /\ held[s] # None /\ Identifiable(held[s])
          /\ ~MissingLinks(ucm[s], held[s]) /\ Placeable(ucm[s], held[s])
      BY <1>3, DecideMeans
    <2>2. WellKept(ucm[s]) /\ HeldWell(held[s])
      BY <2>1 DEF Inv
    <2>3. WellKept(Committed(ucm[s], held[s]))
      BY <2>1, <2>2, CommittedWellKept
    <2>4. /\ ucm' = [ucm EXCEPT ![s] = Committed(ucm[s], held[s])]
          /\ UNCHANGED <<world, held, file, writing>> /\ writing[s] # TRUE
      BY <1>3 DEF Decide, Open, Inv
    <2> QED
      BY <2>3, <2>4, SetChanged
  <1>4. ASSUME NEW s \in Sessions, Edit(s)  PROVE Inv'
    <2>1. PICK c \in UserIntent : /\ c.deps \subseteq Ids(ucm[s])
                                  /\ ucm' = [ucm EXCEPT ![s] = Create(ucm[s], "CLK", c)]
      BY <1>4 DEF Edit, Open, Inv
    <2>2. WellKept(ucm[s]) /\ IsConstraint(c) /\ c.downs = {}
      BY <1>4, UserIntentAssumption DEF Inv, Edit, Open
    <2>3. WellKept(Create(ucm[s], "CLK", c))
      BY <2>1, <2>2, CreateWellKept
    <2>4. UNCHANGED <<world, held, file, writing>> /\ writing[s] # TRUE
      BY <1>4 DEF Edit, Open, Inv
    <2> QED
      BY <2>1, <2>3, <2>4, SetChanged
  <1>5. ASSUME NEW s \in Sessions, Assume(s)  PROVE Inv'
    <2>1. WellKept(MakeAssumption(ucm[s]))
      BY <1>5, AssumedWellKept DEF Inv, Assume, Open
    <2>2. /\ ucm' = [ucm EXCEPT ![s] = MakeAssumption(ucm[s])]
          /\ UNCHANGED <<world, held, file, writing>> /\ writing[s] # TRUE
      BY <1>5 DEF Assume, Open, Inv
    <2> QED
      BY <2>1, <2>2, SetChanged
  <1>6. ASSUME NEW s \in Sessions, Depend(s)  PROVE Inv'
    <2>1. PICK up \in Ids(ucm[s]), down \in Ids(ucm[s]) :
             ucm' = [ucm EXCEPT ![s] = AddDependencyEdge(ucm[s], up, down)]
      BY <1>6 DEF Depend, Open, Inv
    <2>2. WellKept(AddDependencyEdge(ucm[s], up, down))
      BY <1>6, DrawWellKept DEF Inv, Depend, Open, AddDependencyEdge
    <2>3. UNCHANGED <<world, held, file, writing>> /\ writing[s] # TRUE
      BY <1>6 DEF Depend, Open, Inv
    <2> QED
      BY <2>1, <2>2, <2>3, SetChanged
  <1>7. ASSUME NEW s \in Sessions, SaveAtomic(s)  PROVE Inv'
    <2>1. Snapshot(ToSnapshot(ucm[s]))
      BY <1>7, Saved DEF Inv, SaveAtomic, Open
    <2> QED
      BY <1>7, <2>1, EndedKeeps DEF SaveAtomic
  <1>8. ASSUME NEW s \in Sessions, BeginWrite(s)  PROVE Inv'
    <2>1. /\ held' = [t \in Sessions |-> held'[t]]
          /\ \A t \in Sessions : held'[t] = IF t = s THEN None ELSE held[t]
      BY <1>8 DEF Inv, BeginWrite
    <2>2. \A t \in Sessions : held'[t] # None => HeldWell(held'[t])
      BY <2>1 DEF Inv
    <2>3. file' = Torn /\ UNCHANGED <<world, ucm>>
      BY <1>8 DEF BeginWrite
    <2>4. /\ writing' \in [Sessions -> BOOLEAN]
          /\ \A t \in Sessions : writing'[t] = IF t = s THEN TRUE ELSE writing[t]
      BY <1>8 DEF Inv, BeginWrite
    <2>5. \A t \in Sessions : writing'[t] = TRUE => ucm'[t] # None
      BY <1>8, <2>3, <2>4 DEF Inv, BeginWrite, Open
    <2> QED
      BY <2>1, <2>2, <2>3, <2>4, <2>5 DEF Inv
  <1>9. ASSUME NEW s \in Sessions, EndWrite(s)  PROVE Inv'
    <2>1. ucm[s] # None
      BY <1>9 DEF EndWrite, Inv
    <2>2. Snapshot(ToSnapshot(ucm[s]))
      BY <2>1, Saved DEF Inv
    <2> QED
      BY <1>9, <2>2, EndedKeeps DEF EndWrite
  <1>10. ASSUME NEW s \in Sessions, Exit(s)  PROVE Inv'
    <2>1. file' \notin {None, Torn} => Snapshot(file')
      BY <1>10 DEF Exit, Inv
    <2> QED
      BY <1>10, <2>1, EndedKeeps DEF Exit
  <1>11. ASSUME Reconfigure  PROVE Inv'
    BY <1>11 DEF Reconfigure, Inv
  <1>12. ASSUME UNCHANGED vars  PROVE Inv'
    BY <1>12 DEF vars, Inv
  <1> QED
    BY <1>1, <1>2, <1>3, <1>4, <1>5, <1>6, <1>7, <1>8, <1>9, <1>10, <1>11, <1>12 DEF Next

\* The invariant holds throughout.
THEOREM SessionInvariant == Spec => []Inv
  <1> QED
    BY InvInit, InvNext, PTL DEF Spec

-----------------------------------------------------------------------------
(* Sets restore from their snapshots.                                       *)

\* Whatever sequence of edits, edges and applications made it, a set is
\* restored exactly by from_snapshot_dict from what to_snapshot_dict wrote.
THEOREM SavedTheorem == Spec => []SavedSetRestores
  <1>1. Inv => SavedSetRestores
    <2> SUFFICES ASSUME Inv  PROVE SavedSetRestores
      OBVIOUS
    <2>1. ASSUME NEW u, Snapshot(u)  PROVE RoundTrips(u)
      BY <2>1, Restored DEF RoundTrips
    <2>2. ASSUME NEW s \in Sessions, ucm[s] # None  PROVE Snapshot(ucm[s])
      BY <2>2 DEF Inv, WellKept, Snapshot
    <2>3. file \notin {None, Torn} => Snapshot(file)
      BY DEF Inv
    <2> QED
      BY <2>1, <2>2, <2>3 DEF SavedSetRestores
  <1> QED
    BY <1>1, SessionInvariant, PTL

-----------------------------------------------------------------------------
(* What rests on an assumption is reported stale.                           *)

\* Each step of a wave stays within what is reached one by one from the
\* members of the set it starts from.
LEMMA ReachedPiecewise ==
    ASSUME NEW edges, NEW from, NEW bound \in Nat, NEW x \in Reached(edges, from, bound)
    PROVE  \E id \in from : x \in Reached(edges, {id}, bound)
  <1>1. PICK f : WaveTo(edges, from, bound, f, Reached(edges, from, bound))
    BY WaveSteps
  <1>2. \A id : \E g : WaveTo(edges, {id}, bound, g, Reached(edges, {id}, bound))
    BY WaveSteps
  <1> DEFINE one(id) == CHOOSE g : WaveTo(edges, {id}, bound, g, Reached(edges, {id}, bound))
             P == {k \in Nat : k <= bound => \A y \in f[k] : \E id \in from : y \in one(id)[k]}
  <1>3. \A id : WaveTo(edges, {id}, bound, one(id), Reached(edges, {id}, bound))
    BY <1>2
  <1> HIDE DEF one
  <1>4. 0 \in P
    <2>1. \A y \in f[0] : y \in from /\ y \in one(y)[0]
      BY <1>1, <1>3 DEF WaveTo
    <2> QED
      BY <2>1
  <1>5. ASSUME NEW k \in Nat, k \in P  PROVE k + 1 \in P
    <2> SUFFICES ASSUME k + 1 <= bound, NEW y \in f[k + 1]
                 PROVE  \E id \in from : y \in one(id)[k + 1]
      OBVIOUS
    <2>1. k <= bound
      OBVIOUS
    <2>2. f[k + 1] = Spread(edges, f[k], k + 1)
      BY <1>1 DEF WaveTo
    <2>3. \A id : one(id)[k + 1] = Spread(edges, one(id)[k], k + 1)
      BY <1>3 DEF WaveTo
    <2>4. \A z \in f[k] : \E id \in from : z \in one(id)[k]
      BY <1>5, <2>1
    <2>5. CASE y \in f[k]
      <3>1. PICK id \in from : y \in one(id)[k]
        BY <2>4, <2>5
      <3>2. y \in Spread(edges, one(id)[k], k + 1)
        BY <3>1 DEF Spread
      <3> QED
        BY <2>3, <3>2
    <2>6. CASE \E e \in edges : e[1] \in f[k] /\ y = e[2]
      <3>1. PICK e \in edges : e[1] \in f[k] /\ y = e[2]
        BY <2>6
      <3>2. PICK id \in from : e[1] \in one(id)[k]
        BY <2>4, <3>1
      <3>3. y \in Spread(edges, one(id)[k], k + 1)
        BY <3>1, <3>2 DEF Spread
      <3> QED
        BY <2>3, <3>3
    <2>7. y \in f[k] \/ \E e \in edges : e[1] \in f[k] /\ y = e[2]
      BY <2>2 DEF Spread
    <2> QED
      BY <2>5, <2>6, <2>7
  <1>6. Nat \subseteq P
    <2> HIDE DEF P
    <2> QED
      BY <1>4, <1>5, SetInduction
  <1>7. bound <= bound
    OBVIOUS
  <1>8. \A y \in f[bound] : \E id \in from : y \in one(id)[bound]
    BY <1>6, <1>7
  <1>9. f[bound] = Reached(edges, from, bound) /\ \A id : one(id)[bound] = Reached(edges, {id}, bound)
    BY <1>1, <1>3 DEF WaveTo
  <1> QED
    BY <1>8, <1>9

\* The two directions of the edges of a well kept set are the same edges.
LEMMA SameEdges ==
    ASSUME NEW u, Mirrored(u)
    PROVE  Forward(u) = Backward(u)
  <1>1. ASSUME NEW e \in Ids(u) \X Ids(u)
        PROVE  e[1] \in u.cons[e[2]].deps <=> e[2] \in u.cons[e[1]].downs
    BY DEF Mirrored
  <1> QED
    BY <1>1 DEF Forward, Backward

\* Everything that rests on an assumption, through any chain of dependencies,
\* is in the stale set the engine computes from the reverse edges.
THEOREM StaleTheorem == Spec => []StaleReachesDependents
  <1>1. Inv => StaleReachesDependents
    <2> SUFFICES ASSUME Inv, NEW s \in Sessions, ucm[s] # None, NEW a, NEW x \in RestsOn(ucm[s], {a})
                 PROVE  x \in StaleConstraints(ucm[s], {}, {a})
      BY DEF StaleReachesDependents
    <2> DEFINE u == ucm[s]
               seeds == {id \in Ids(u) : u.cons[id].assumptions \cap {a} # {}}
               touched == {} \cup StaleConsumers(u.ledger, {a}) \cup seeds
               N == Cardinality(Ids(u))
    <2>1. WellKept(u)
      BY DEF Inv
    <2> HIDE DEF u
    <2>2. N \in Nat
      BY <2>1, FS_CardinalityType DEF WellKept, WellFormed
    <2>3. Forward(u) = Backward(u)
      BY <2>1, SameEdges DEF WellKept
    <2>4. RestsOn(u, {a}) = Reached(Forward(u), seeds, N)
      BY DEF RestsOn
    <2>5. StaleConstraints(u, {}, {a}) = UNION {DownstreamClosure(u, id) : id \in touched}
      BY DEF StaleConstraints
    <2>6. seeds \subseteq touched
      OBVIOUS
    <2>7. \A id : DownstreamClosure(u, id) = Reached(Backward(u), {id}, N)
      BY DEF DownstreamClosure
    <2> HIDE DEF seeds, touched, N
    <2>8. x \in Reached(Forward(u), seeds, N)
      BY <2>4 DEF u
    <2>9. PICK id \in seeds : x \in Reached(Forward(u), {id}, N)
      BY <2>2, <2>8, ReachedPiecewise
    <2>10. x \in DownstreamClosure(u, id)
      BY <2>3, <2>7, <2>9
    <2>11. x \in UNION {DownstreamClosure(u, i) : i \in touched}
      BY <2>6, <2>9, <2>10
    <2> QED
      BY <2>5, <2>11 DEF u
  <1> QED
    BY <1>1, SessionInvariant, PTL

-----------------------------------------------------------------------------
(* A retry is recognised.                                                   *)

\* When each template's constraint is there once, the duplicates are as many
\* as the templates.
LEMMA DuplicatesCounted ==
    ASSUME NEW u, IsFiniteSet(Ids(u)), NEW cand, NEW ts, ts = cand.templates, ts \in Seq(Range(ts)),
           \A i, j \in DOMAIN ts : Normal(ts[i].con) = Normal(ts[j].con) => i = j,
           PresentOnce(u, cand)
    PROVE  Cardinality(Duplicates(u, cand)) = Len(ts) /\ Conflicts(u, cand) = {}
  <1>1. Len(ts) \in Nat /\ DOMAIN ts = 1..Len(ts)
    BY SequenceShape
  <1>2. \A t : t \in Range(ts) <=> \E i \in DOMAIN ts : t = ts[i]
    BY DEF Range
  <1>3. \A c : c \in Constraints(cand) <=> \E i \in DOMAIN ts : c = ts[i].con
    BY <1>2 DEF Constraints
  <1>4. ASSUME NEW i \in DOMAIN ts  PROVE \E id : Exact(u, ts[i].con) = {id}
    <2>1. Cardinality(Exact(u, ts[i].con)) = 1
      BY <1>3 DEF PresentOnce
    <2>2. IsFiniteSet(Exact(u, ts[i].con))
      BY FS_Subset DEF Exact
    <2> QED
      BY <2>1, <2>2, FS_Singleton
  <1> DEFINE at(i) == CHOOSE id : Exact(u, ts[i].con) = {id}
             f == [i \in DOMAIN ts |-> at(i)]
             D == Duplicates(u, cand)
  <1>5. \A i \in DOMAIN ts : Exact(u, ts[i].con) = {at(i)}
    BY <1>4
  <1> HIDE DEF at
  <1>6. \A id : id \in D <=> \E i \in DOMAIN ts : id \in Exact(u, ts[i].con)
    BY <1>3 DEF Duplicates
  <1> HIDE DEF D
  <1>7. \A id : id \in D <=> \E i \in DOMAIN ts : id = at(i)
    <2>1. \A i \in DOMAIN ts : \A id : id \in Exact(u, ts[i].con) <=> id = at(i)
      BY <1>5
    <2> QED
      BY <1>6, <2>1
  <1>8. \A i, j \in DOMAIN ts : at(i) = at(j) => i = j
    <2>1. ASSUME NEW i \in DOMAIN ts  PROVE Normal(u.cons[at(i)]) = Normal(ts[i].con)
      <3>1. at(i) \in Exact(u, ts[i].con)
        BY <1>5
      <3> QED
        BY <3>1 DEF Exact
    <2> QED
      BY <2>1
  <1>9. f \in Bijection(1..Len(ts), D)
    <2>1. f = [i \in 1..Len(ts) |-> at(i)]
      BY <1>1
    <2> HIDE DEF f
    <2>2. f \in [1..Len(ts) -> D] /\ \A i \in 1..Len(ts) : f[i] = at(i)
      BY <1>1, <1>7, <2>1
    <2>3. \A i, j \in 1..Len(ts) : f[i] = f[j] => i = j
      BY <1>1, <1>8, <2>2
    <2>4. \A id \in D : \E i \in 1..Len(ts) : f[i] = id
      BY <1>1, <1>7, <2>2
    <2> QED
      BY <2>2, <2>3, <2>4 DEF Bijection, Injection, Surjection, IsInjective
  <1>10. IsFiniteSet(1..Len(ts)) /\ Cardinality(1..Len(ts)) = Len(ts)
    <2>1. \A n \in Nat : (IF 1 > n THEN 0 ELSE n - 1 + 1) = n
      OBVIOUS
    <2>2. 1 \in Int /\ Len(ts) \in Int
      BY <1>1
    <2> QED
      BY <1>1, <2>1, <2>2, FS_Interval
  <1>11. Cardinality(D) = Len(ts)
    <2>1. ExistsBijection(1..Len(ts), D)
      BY <1>9 DEF ExistsBijection
    <2> QED
      BY <1>10, <2>1, FS_Bijection
  <1>12. Conflicts(u, cand) = {}
    <2>1. \A c \in Constraints(cand) : Conflicting(u, c) = {}
      BY DEF PresentOnce
    <2> QED
      BY <2>1 DEF Conflicts
  <1> QED
    BY <1>11, <1>12 DEF D

\* A candidate whose constraints are all there is reported present when it is
\* decided again, as long as design and configuration have not moved.
THEOREM RetryTheorem == Spec => []RetryRecognised
  <1>1. Inv => RetryRecognised
    <2> SUFFICES ASSUME Inv, NEW s \in Sessions, ucm[s] # None, held[s] # None,
                        held[s].decision = "ACCEPTABLE", ~WorldStale(held[s], world, FALSE),
                        PresentOnce(ucm[s], held[s])
                 PROVE  Resolve(held[s], "ACCEPT", {}, FALSE, FALSE, ucm[s], world, "passed")
                          = "ALREADY_PRESENT"
      BY DEF RetryRecognised
    <2> DEFINE cand == held[s]
               u == ucm[s]
               ts == cand.templates
    <2>1. HeldWell(cand) /\ WellKept(u)
      BY DEF Inv
    <2>2. cand.decision = "ACCEPTABLE" /\ ~WorldStale(cand, world, FALSE) /\ PresentOnce(u, cand)
      OBVIOUS
    <2> HIDE DEF cand, u
    <2>3. \/ ts \in Packages /\ cand.missing = {} /\ cand.status = "INFERRED"
          \/ cand.missing = {} /\ \E w \in Worlds : BuiltFrom(cand, w)
      BY <2>1, <2>2 DEF HeldWell
    <2>4. /\ ts # <<>> /\ cand.missing = {} /\ cand.status = "INFERRED"
          /\ \A i \in DOMAIN ts : ts[i].con.source = Inferred
      <3>1. CASE ts \in Packages /\ cand.missing = {} /\ cand.status = "INFERRED"
        <4>1. IsPackage(ts)
          BY <3>1, PackagesAssumption
        <4>2. ts # <<>> /\ \A i \in DOMAIN ts : ts[i].con.source = Inferred
          BY <4>1 DEF IsPackage
        <4> QED
          BY <3>1, <4>2
      <3>2. CASE cand.missing = {} /\ \E w \in Worlds : BuiltFrom(cand, w)
        <4>1. PICK w \in Worlds : BuiltFrom(cand, w)
          BY <3>2
        <4>2. PICK i \in Openers(Proposals(w)) :
                 LET c == Build(Proposals(w), i)
                 IN ts = <<[id |-> BuiltId(c), con |-> c]>> /\ cand.status = "INFERRED" /\ c.source = Inferred
          BY <2>2, <4>1 DEF BuiltFrom
        <4> DEFINE c == Build(Proposals(w), i)
        <4>3. ts = <<[id |-> BuiltId(c), con |-> c]>> /\ cand.status = "INFERRED" /\ c.source = Inferred
          BY <4>2
        <4> HIDE DEF c, ts
        <4>4. ts # <<>> /\ \A k \in DOMAIN ts : ts[k].con = c
          BY <4>3
        <4> QED
          BY <3>2, <4>3, <4>4
      <3> QED
        BY <2>3, <3>1, <3>2
    <2>5. /\ Addable(ts)
          /\ \A i, j \in DOMAIN ts : Normal(ts[i].con) = Normal(ts[j].con) => i = j
          /\ \A i \in DOMAIN ts : ~ts[i].con.unsupported
      BY <2>1, <2>4, HeldAddable
    <2>5a. ts = cand.templates
      OBVIOUS
    <2> HIDE DEF ts
    <2>6. \A c : c \in Constraints(cand) <=> \E i \in DOMAIN ts : c = ts[i].con
      <3>1. \A t : t \in Range(ts) <=> \E i \in DOMAIN ts : t = ts[i]
        BY DEF Range
      <3> QED
        BY <2>5a, <3>1 DEF Constraints
    <2>7. Identifiable(cand)
      BY <2>4, <2>5, <2>5a, <2>6 DEF Identifiable
    <2>8. \A c \in Constraints(cand) : c.source = Inferred
      BY <2>4, <2>6
    <2>9. ~Repetitive(cand)
      BY <2>5, <2>5a DEF Repetitive
    <2>10. AllDuplicate(u, cand)
      <3>1. IsFiniteSet(Ids(u)) /\ ts \in Seq(Range(ts))
        BY <2>1, <2>5 DEF WellKept, WellFormed, Addable
      <3> QED
        BY <2>2, <2>5, <2>5a, <3>1, DuplicatesCounted DEF AllDuplicate
    <2>11. Decidable(cand, "ACCEPT")
      BY <2>2, <2>4 DEF Decidable
    <2>12. Resolve(cand, "ACCEPT", {}, FALSE, FALSE, u, world, "passed") = "ALREADY_PRESENT"
      BY <2>2, <2>4, <2>7, <2>8, <2>9, <2>10, <2>11 DEF Resolve
    <2> QED
      BY <2>12 DEF cand, u
  <1> QED
    BY <1>1, SessionInvariant, PTL

-----------------------------------------------------------------------------
(* What is applied is fresh.                                                *)

\* The design of a source snapshot fixes what the clock rules read.
LEMMA DesignFixes ==
    ASSUME NEW w, IsWorld(w), NEW v, IsWorld(v), NEW u, NEW x,
           SourceIdentity(w, u).design = SourceIdentity(v, x).design
    PROVE  w.clocks = v.clocks /\ w.user = v.user /\ w.async = v.async
  <1> DEFINE design(z) == [z EXCEPT !.active = {}, !.defined = {}, !.ports = [p \in DOMAIN @ |-> @[p].assoc]]
  <1>1. ASSUME NEW z, IsWorld(z)
        PROVE  design(z).clocks = z.clocks /\ design(z).user = z.user /\ design(z).async = z.async
    BY <1>1 DEF IsWorld
  <1>2. SourceIdentity(w, u).design = design(w) /\ SourceIdentity(v, x).design = design(v)
    BY DEF SourceIdentity
  <1> HIDE DEF design
  <1>3. design(w) = design(v)
    BY <1>2
  <1> QED
    BY <1>1, <1>3

\* Slots of the same proposals, none of them the user's, build the same.
LEMMA SameSlot ==
    ASSUME NEW p, NEW q, NEW i, Slot(p, i) = Slot(q, i), \A j \in Slot(p, i) : p[j] = q[j],
           p[i] = q[i], \A j \in Slot(p, i) : p[j].source # "USER"
    PROVE  Build(p, i) = Build(q, i)
  <1> DEFINE S == Slot(p, i)
  <1>1. {j \in S : p[j].source = "USER"} = {} /\ {j \in S : q[j].source = "USER"} = {}
    OBVIOUS
  <1>2. (\E j \in S : p[j].high) <=> (\E j \in S : q[j].high)
    OBVIOUS
  <1>3. Slot(q, i) = S
    OBVIOUS
  <1> HIDE DEF S
  <1> QED
    BY <1>1, <1>2, <1>3, Zenon DEF Build, S

\* In worlds with the same clocks and declarations, whatever is inferred from
\* structure alone in one is inferred in the other.
LEMMA SameBuild ==
    ASSUME NEW w, NEW v, w.clocks = v.clocks, w.user = v.user, w.async = v.async,
           NEW i \in Openers(Proposals(w)), Build(Proposals(w), i).source = Inferred
    PROVE  i \in Openers(Proposals(v)) /\ Build(Proposals(v), i) = Build(Proposals(w), i)
  <1> DEFINE a == ClockIntent(w)
             d == PortProposals(w.ports, w.clocks)
             e == PortProposals(v.ports, v.clocks)
             p == Proposals(w)
             q == Proposals(v)
  <1>1. ClockIntent(v) = a
    BY DEF ClockIntent
  <1>2. p = a \o d /\ q = a \o e
    BY <1>1 DEF Proposals
  <1>3. a \in Seq(Range(a)) /\ \A r \in Range(a) : ClockRule(r, w.clocks)
    BY IntentRules
  <1>4. d \in Seq(Range(d)) /\ \A r \in Range(d) : PortRule(r, w.clocks)
    BY PortRules
  <1>5. e \in Seq(Range(e)) /\ \A r \in Range(e) : PortRule(r, w.clocks)
    BY PortRules
  <1>6. \A j \in Slot(p, i) : p[j].source # "USER"
    BY BuildParts
  <1>7. i \in DOMAIN p /\ \A j \in 1..(i - 1) : Key(p[j]) # Key(p[i])
    BY DEF Openers
  <1> HIDE DEF a, d, e, p, q
  <1>8. /\ \A j \in DOMAIN p : \/ j \in DOMAIN a /\ p[j] = a[j]
                               \/ j \notin DOMAIN a /\ p[j] \in Range(d)
        /\ \A j \in DOMAIN a : j \in DOMAIN p /\ p[j] = a[j]
        /\ Len(a) \in Nat /\ DOMAIN a = 1..Len(a)
    <2>1. \A j \in DOMAIN (a \o d) :
             \/ j \in DOMAIN a /\ (a \o d)[j] = a[j]
             \/ j \notin DOMAIN a /\ j - Len(a) \in DOMAIN d /\ (a \o d)[j] = d[j - Len(a)]
      BY <1>3, <1>4, Chained
    <2>2. \A j \in DOMAIN a : j \in DOMAIN (a \o d) /\ (a \o d)[j] = a[j]
      BY <1>3, <1>4, Chained
    <2>3. \A k \in DOMAIN d : d[k] \in Range(d)
      BY DEF Range
    <2>4. Len(a) \in Nat /\ DOMAIN a = 1..Len(a)
      BY <1>3, SequenceShape
    <2> QED
      BY <1>2, <2>1, <2>2, <2>3, <2>4
  <1>9. /\ \A j \in DOMAIN q : \/ j \in DOMAIN a /\ q[j] = a[j]
                               \/ j \notin DOMAIN a /\ q[j] \in Range(e)
        /\ \A j \in DOMAIN a : j \in DOMAIN q /\ q[j] = a[j]
    <2>1. \A j \in DOMAIN (a \o e) :
             \/ j \in DOMAIN a /\ (a \o e)[j] = a[j]
             \/ j \notin DOMAIN a /\ j - Len(a) \in DOMAIN e /\ (a \o e)[j] = e[j - Len(a)]
      BY <1>3, <1>5, Chained
    <2>2. \A j \in DOMAIN a : j \in DOMAIN (a \o e) /\ (a \o e)[j] = a[j]
      BY <1>3, <1>5, Chained
    <2>3. \A k \in DOMAIN e : e[k] \in Range(e)
      BY DEF Range
    <2> QED
      BY <1>2, <2>1, <2>2, <2>3
  <1>10. ASSUME NEW j \in Slot(p, i)  PROVE j \in DOMAIN a
    <2>1. SUFFICES ASSUME j \notin DOMAIN a  PROVE FALSE
      OBVIOUS
    <2>2. j \in DOMAIN p
      BY DEF Slot
    <2>3. PortRule(p[j], w.clocks)
      BY <1>4, <1>8, <2>1, <2>2
    <2> QED
      BY <1>6, <2>3 DEF PortRule
  <1>11. i \in Slot(p, i) /\ i \in DOMAIN a
    BY <1>7, <1>10 DEF Slot
  <1>12. p[i] = a[i] /\ q[i] = a[i] /\ a[i].object \in DOMAIN w.clocks
    <2>1. ClockRule(a[i], w.clocks)
      BY <1>3, <1>11 DEF Range
    <2> QED
      BY <1>6, <1>8, <1>9, <1>11, <2>1 DEF ClockRule
  <1>13. ASSUME NEW j \in Slot(q, i)  PROVE j \in DOMAIN a
    <2>1. SUFFICES ASSUME j \notin DOMAIN a  PROVE FALSE
      OBVIOUS
    <2>2. j \in DOMAIN q /\ Key(q[j]) = Key(q[i])
      BY DEF Slot
    <2>3. PortRule(q[j], w.clocks)
      BY <1>5, <1>9, <2>1, <2>2
    <2>4. q[j].object = a[i].object
      BY <1>12, <2>2 DEF Key
    <2> QED
      BY <1>12, <2>3, <2>4 DEF PortRule
  <1>14. Slot(p, i) = Slot(q, i)
    <2>1. \A j \in DOMAIN a : j \in DOMAIN p /\ j \in DOMAIN q /\ p[j] = q[j]
      BY <1>8, <1>9
    <2>2. \A j \in DOMAIN a : j \in Slot(p, i) <=> j \in Slot(q, i)
      BY <1>12, <2>1 DEF Slot
    <2> QED
      BY <1>10, <1>13, <2>2
  <1>15. \A j \in Slot(p, i) : p[j] = q[j]
    BY <1>8, <1>9, <1>10
  <1>16. Build(p, i) = Build(q, i)
    BY <1>6, <1>12, <1>14, <1>15, SameSlot
  <1>17. i \in Openers(q)
    <2>1. ASSUME NEW j \in 1..(i - 1)  PROVE Key(q[j]) # Key(q[i])
      <3>1. j \in DOMAIN a
        BY <1>8, <1>11
      <3>2. q[j] = p[j] /\ q[i] = p[i]
        BY <1>8, <1>9, <1>12, <3>1
      <3> QED
        BY <1>7, <3>2
    <2>2. i \in DOMAIN q
      BY <1>9, <1>11
    <2> QED
      BY <2>1, <2>2 DEF Openers
  <1> QED
    BY <1>16, <1>17 DEF p, q

\* What deciding applies is on offer at that moment.
LEMMA StillOffered ==
    ASSUME NEW cand, HeldWell(cand), Identifiable(cand), NEW w \in Worlds, NEW u,
           NEW legacy, ~WorldStale(cand, w, legacy),
           \A c \in Constraints(cand) : c.source = Inferred,
           Duplicates(u, cand) = {}, Conflicts(u, cand) = {}
    PROVE  \E c \in Offers(w, u) : c.templates = cand.templates /\ c.decision = "ACCEPTABLE"
  <1>1. cand.templates # <<>>
    BY DEF Identifiable
  <1>2. CASE cand.templates \in Packages
    <2> DEFINE offer == Package(cand.templates, w, u)
    <2>1. offer \in Offers(w, u)
      BY <1>2 DEF Offers
    <2>2. offer.templates = cand.templates /\ offer.decision = "ACCEPTABLE"
      BY DEF Package
    <2> HIDE DEF offer
    <2> QED
      BY <2>1, <2>2
  <1>3. CASE \E v \in Worlds : BuiltFrom(cand, v)
    <2>1. PICK v \in Worlds : BuiltFrom(cand, v)
      BY <1>3
    <2>2. PICK i \in Openers(Proposals(v)) :
             LET c == Build(Proposals(v), i)
             IN /\ cand.templates = <<[id |-> BuiltId(c), con |-> c]>>
                /\ cand.source.design = SourceIdentity(v, EmptySet({})).design
      BY <2>1 DEF BuiltFrom
    <2> DEFINE c == Build(Proposals(v), i)
    <2>3. /\ cand.templates = <<[id |-> BuiltId(c), con |-> c]>>
          /\ cand.source.design = SourceIdentity(v, EmptySet({})).design
      BY <2>2
    <2>4. cand.source.design = SourceIdentity(w, EmptySet({})).design
      BY DEF WorldStale
    <2>5. v.clocks = w.clocks /\ v.user = w.user /\ v.async = w.async
      <3>1. SourceIdentity(v, EmptySet({})).design = SourceIdentity(w, EmptySet({})).design
        BY <2>3, <2>4
      <3>2. IsWorld(v) /\ IsWorld(w)
        BY WorldsAssumption
      <3> QED
        BY <3>1, <3>2, DesignFixes
    <2>6. Constraints(cand) = {c}
      <3> DEFINE t == [id |-> BuiltId(c), con |-> c]
      <3>1. t.con = c /\ cand.templates = <<t>>
        BY <2>3
      <3> HIDE DEF t, c
      <3>2. Range(cand.templates) = {t}
        BY <3>1 DEF Range
      <3> QED
        BY <3>1, <3>2 DEF Constraints
    <2>7. c.source = Inferred /\ Exact(u, c) = {} /\ Conflicting(u, c) = {}
      BY <2>6 DEF Duplicates, Conflicts
    <2>8. i \in Openers(Proposals(w)) /\ Build(Proposals(w), i) = c
      BY <2>5, <2>7, SameBuild
    <2> DEFINE scratch == Run(w, EmptySet({}))
               id == BuiltId(c)
               offer == CandidateOf(c, w, u)
    <2>9. id \in Ids(scratch) /\ scratch.cons[id] = c
      <3>1. Ran(Proposals(w), scratch, Len(Proposals(w)))
        BY RunBuilds
      <3>2. i <= Len(Proposals(w))
        BY <2>8, IntentRules DEF Openers
      <3> HIDE DEF scratch, c
      <3> QED
        BY <2>8, <3>1, <3>2 DEF Ran
    <2> HIDE DEF c
    <2>10. offer.templates = cand.templates /\ offer.decision = "ACCEPTABLE"
      BY <2>3, <2>7 DEF CandidateOf
    <2>11. offer \in Offers(w, u)
      <3>1. offer \in {CandidateOf(scratch.cons[x], w, u) : x \in Ids(scratch)}
        BY <2>9
      <3> QED
        BY <3>1 DEF Offers, InferCandidates
    <2> HIDE DEF offer
    <2> QED
      BY <2>10, <2>11
  <1> QED
    BY <1>1, <1>2, <1>3 DEF HeldWell

\* Only a decision writes a receipt.
LEMMA ReceiptsOfDecisions ==
    ASSUME Inv, [Next]_vars, NEW s \in Sessions, Applies(s)
    PROVE  Decide(s)
  <1>1. ucm[s] # None /\ ucm'[s] # None /\ ucm'[s] # ucm[s] /\ ucm'[s].receipts # ucm[s].receipts
    BY DEF Applies
  <1>2. WellKept(ucm[s])
    BY <1>1 DEF Inv
  <1>3. ASSUME NEW t \in Sessions, NEW u, ucm' = [ucm EXCEPT ![t] = u]
        PROVE  t = s /\ ucm'[s] = u
    BY <1>1, <1>3 DEF Inv
  <1>4. ASSUME NEW t \in Sessions, Load(t)  PROVE FALSE
    BY <1>1, <1>3, <1>4 DEF Load
  <1>5. ASSUME NEW t \in Sessions, Decide(t)  PROVE Decide(s)
    <2>1. ucm' = [ucm EXCEPT ![t] = Committed(ucm[t], held[t])]
      BY <1>5 DEF Decide
    <2>2. t = s
      BY <1>3, <2>1
    <2> QED
      BY <1>5, <2>2
  <1>6. ASSUME NEW t \in Sessions, Edit(t)  PROVE FALSE
    <2>1. PICK c \in UserIntent : /\ c.deps \subseteq Ids(ucm[t])
                                  /\ ucm' = [ucm EXCEPT ![t] = Create(ucm[t], "CLK", c)]
      BY <1>6 DEF Edit
    <2>2. t = s /\ ucm'[s] = Create(ucm[s], "CLK", c) /\ c.deps \subseteq Ids(ucm[s])
      BY <1>3, <2>1
    <2>3. IsConstraint(c) /\ c.downs = {}
      BY UserIntentAssumption
    <2> QED
      BY <1>1, <1>2, <2>2, <2>3, CreateWellKept
  <1>7. ASSUME NEW t \in Sessions, Assume(t)  PROVE FALSE
    <2>1. ucm'[s] = MakeAssumption(ucm[s])
      BY <1>3, <1>7 DEF Assume
    <2> QED
      BY <1>1, <1>2, <2>1, AssumedWellKept
  <1>8. ASSUME NEW t \in Sessions, Depend(t)  PROVE FALSE
    <2>1. PICK up, down : ucm' = [ucm EXCEPT ![t] = AddDependencyEdge(ucm[t], up, down)]
      BY <1>8 DEF Depend
    <2>2. ucm'[s] = DrawEdges(ucm[s], {<<up, down>>})
      BY <1>3, <2>1 DEF AddDependencyEdge
    <2> QED
      BY <1>1, <1>2, <2>2, DrawWellKept
  <1>9. ASSUME NEW t \in Sessions, Ended(t)  PROVE FALSE
    <2>1. ucm' = [ucm EXCEPT ![t] = None]
      BY <1>9 DEF Ended
    <2> QED
      BY <1>1, <1>3, <2>1
  <1>10. ucm' # ucm
    BY <1>1
  <1> QED
    BY <1>4, <1>5, <1>6, <1>7, <1>8, <1>9, <1>10
       DEF Next, Infer, SaveAtomic, BeginWrite, EndWrite, Exit, Reconfigure, vars

\* What is applied is what inference, or the caller, would offer again at that
\* moment, whatever happened since the candidate was made: a change of design,
\* configuration or set that would alter or withdraw it has made it stale or
\* blocked (apply_intent_decision).
THEOREM FreshTheorem == Spec => AppliedIsFresh
  <1>1. ASSUME Inv, [Next]_vars, NEW s \in Sessions, Applies(s)
        PROVE  \E c \in Offers(world, ucm[s]) :
                  c.templates = held[s].templates /\ c.decision = "ACCEPTABLE"
    <2>1. Decide(s)
      BY <1>1, ReceiptsOfDecisions
    <2>2. PICK legacy \in BOOLEAN :
             /\ held[s] # None /\ Identifiable(held[s]) /\ ~WorldStale(held[s], world, legacy)
             /\ \A c \in Constraints(held[s]) : c.source = Inferred
             /\ Duplicates(ucm[s], held[s]) = {} /\ Conflicts(ucm[s], held[s]) = {}
      BY <2>1, DecideMeans
    <2>3. HeldWell(held[s]) /\ world \in Worlds
      BY <1>1, <2>2 DEF Inv
    <2> QED
      BY <2>2, <2>3, StillOffered
  <1>2. Inv /\ [Next]_vars =>
           \A s \in Sessions : Applies(s) =>
              \E c \in Offers(world, ucm[s]) :
                 c.templates = held[s].templates /\ c.decision = "ACCEPTABLE"
    BY <1>1
  <1>3. Inv /\ [Next]_vars =>
           [\A s \in Sessions : Applies(s) =>
              \E c \in Offers(world, ucm[s]) :
                 /\ c.templates = held[s].templates
                 /\ c.decision = "ACCEPTABLE"]_vars
    BY <1>2
  <1> QED
    BY <1>3, SessionInvariant, PTL DEF Spec, AppliedIsFresh

=============================================================================
