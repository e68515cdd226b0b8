------------------------ MODULE OptimizerEquivalence ------------------------
(***************************************************************************)
(* Candidate concurrency must not change what the optimizer decides: an    *)
(* optimizer with workers = 1 runs, then one with several workers runs on  *)
(* the same baseline with the same evaluations, and the results are        *)
(* compared.  This is the comparison of                                    *)
(* test_parallel_and_serial_have_identical_candidate_semantics, over every *)
(* assignment of results to constraint sets and every order in which the   *)
(* workers finish.  No fault, stop request or deadline happens here.       *)
(***************************************************************************)
EXTENDS Optimizer

VARIABLES measured,    \* evaluate_fn as known so far: constraint set -> result
          reference    \* the outcome of the serial run, a one-element sequence

Outcomes == [all |-> all, edaRuns |-> edaRuns, final |-> final,
             pareto |-> ParetoFront(all)]
Report == [outcomes |-> Outcomes, stop |-> resultStop]

PairInit == Init /\ workers = 1 /\ measured = <<>> /\ reference = <<>>

\* evaluate_fn is a function of the constraint set.
Measure(cset, r) ==
    /\ cset \in DOMAIN measured => r = measured[cset]
    /\ measured' = [c \in DOMAIN measured \cup {cset} |->
                       IF c = cset THEN r ELSE measured[c]]
    /\ UNCHANGED reference

Evaluation ==
    \/ \E r \in Results : BaselineDone(r) /\ Measure(BaselineSet, r)
    \/ \E r \in Results : DirectDone(r) /\ Measure(ledger[Len(ledger)].cset, r)
    \/ \E i \in DOMAIN futures, r \in Results : WorkerDone(i, r) /\ Measure(ledger[i].cset, r)

Quiet ==
    /\ \/ BeginRun \/ StartBaseline \/ StartRound \/ EndSearch
       \/ ExpandParent \/ EndParent \/ SkipKnown \/ EndExpansion
       \/ EvaluateDirect \/ PlanTask \/ RefuseTask
       \/ OpenPool \/ StartWave \/ EndWaves \/ Submit \/ WaveSubmitted \/ CollectWave
       \/ Observe \/ Settle \/ EndApply \/ Record \/ Select
    /\ UNCHANGED <<measured, reference>>

\* A second Optimizer is built; its run resets everything else before use.
Rebuild ==
    /\ pc = "done" /\ workers = 1
    /\ reference' = <<Report>>
    /\ workers' \in WorkerCounts \ {1}
    /\ pc' = "idle" /\ runNo' = 0 /\ stop' = "none"
    /\ UNCHANGED <<keepStop, iterations, edaRuns, noImprove, lastRecord, envVars, all,
                   genVars, roundFeasible, ledger, taskVars, waveVars, poolVars,
                   resultVars, measured>>

PairFinished == pc = "done" /\ workers > 1 /\ UNCHANGED <<vars, measured, reference>>

PairNext == Evaluation \/ Quiet \/ Rebuild \/ PairFinished
PairSpec == PairInit /\ [][PairNext]_<<vars, measured, reference>>

-----------------------------------------------------------------------------
Compared == pc = "done" /\ workers > 1

\* Order of completion never shows: with one EDA run per candidate the parallel
\* run evaluates the serial candidates, with the same ids, results and order.
\* Only where the serial run stops at its iteration limit may it evaluate one
\* candidate more; otherwise runs consumed, front and final choice are the same.
SerialIsPrefix ==
    Compared =>
        /\ IsPrefix(reference[1].outcomes.all, all)
        /\ Len(all) <= Len(reference[1].outcomes.all) + 1
        /\ reference[1].stop # "MAX_ITERATIONS" => Outcomes = reference[1].outcomes

\* The candidates, the runs consumed, the front and the final choice are those
\* of the serial run.
SameOutcomes == Compared => Outcomes = reference[1].outcomes
=============================================================================
