----------------------------- MODULE ParetoLoop -----------------------------
(***************************************************************************)
(* The loop of pareto_front as a machine: candidates arrive in evaluation  *)
(* order, each one the QoR an experiment may report; survivors holds the   *)
(* positions of the ones kept so far.  The optimizer runs this loop after  *)
(* every round over all candidates and then asks select_final for one.     *)
(***************************************************************************)
EXTENDS QoRSelection

CONSTANTS
    QoRs,       \* the results an experiment may report
    MaxPool     \* bound: how many candidates arrive

ASSUME PoolAssumption == QoRs \subseteq QoR /\ NoQoR \notin QoRs

VARIABLES
    cands,      \* the candidates seen so far
    survivors   \* positions of the current front in cands

loopVars == <<cands, survivors>>

Arrivals == [id : Nat, qor : QoRs]

LoopInit == cands = <<>> /\ survivors = {}

Consider(q) ==
    /\ Len(cands) < MaxPool
    /\ cands' = Append(cands, [id |-> Len(cands), qor |-> q])
    /\ survivors' = Admit(cands', survivors, Len(cands) + 1)

LoopNext == \E q \in QoRs : Consider(q)

LoopSpec == LoopInit /\ [][LoopNext]_loopVars

-----------------------------------------------------------------------------
\* The candidates and the positions kept have the right types.
TypeOK == cands \in Seq(Arrivals) /\ survivors \subseteq DOMAIN cands

Beaten(i) == \E j \in DOMAIN cands : Dominates(cands[j], cands[i])

\* Whatever the tolerance, an eligible candidate is left out only if another one
\* dominates it, and no candidate of the front dominates another: what one pass
\* keeps although dominance within 1e-12 does not compose (pareto_front).
FrontIrredundant ==
    /\ \A i \in DOMAIN cands \ survivors : Eligible(cands[i]) => Beaten(i)
    /\ \A i, j \in survivors : ~Dominates(cands[i], cands[j])

\* No two eligible candidates report values that differ by the tolerance or less.
AllToldApart ==
    \A i, j \in DOMAIN cands : Eligible(cands[i]) /\ Eligible(cands[j])
        => ToldApart(cands[i].qor, cands[j].qor, Metrics)

\* Unless the tolerance blurs reported values, and in every order of arrival, the
\* front is exactly the set of eligible candidates no other candidate dominates,
\* and whoever is left out is dominated by one that is still in: the decision
\* DOMINATED the optimizer records has a surviving witness.
FrontIsNondominated ==
    AllToldApart =>
        /\ survivors = {i \in DOMAIN cands : Eligible(cands[i]) /\ ~Beaten(i)}
        /\ \A i \in DOMAIN cands \ survivors :
               Eligible(cands[i]) => \E j \in survivors : Dominates(cands[j], cands[i])

LoopFinal == SelectFinal(cands, survivors)

\* Whom select_final may choose from: the front and the eligible baseline.
LoopPool == survivors \cup {j \in {1} : Eligible(cands[j])}

\* All of them report this bucket's metrics, or none, and the values are told apart.
Settled(b) ==
    \A i, j \in LoopPool :
        /\ ReportedAlike(cands[i].qor, cands[j].qor, BucketMetrics(b))
        /\ ToldApart(cands[i].qor, cands[j].qor, BucketMetrics(b))

\* The bucket with the highest priority decides, whatever else is missing for
\* whom: no candidate select_final could have chosen is ahead of its choice there.
LeadingBucketDecides ==
    (survivors # {} /\ Buckets # {} /\ Settled(First(Buckets))) =>
        LET final == LoopFinal IN
        \A i \in LoopPool :
            CmpBucket(First(Buckets), cands[i].qor, cands[final].qor) <= 0

\* Unless metrics are missing for some candidates only or values are blurred, the
\* one select_final returns loses to no member of the pool it chose from, the
\* baseline included: what explanation_for tells the user.
FinalBeatsPool ==
    ( /\ survivors # {}
      /\ \A b \in Buckets : Settled(b)
      /\ \A i, j \in LoopPool : SharesApart(Utilization(cands[i], cands[1]),
                                           Utilization(cands[j], cands[1])) )
    => LET final == LoopFinal IN
       \A i \in LoopPool : PriorityCompare(cands[i], cands[final], cands[1]) <= 0
=============================================================================
