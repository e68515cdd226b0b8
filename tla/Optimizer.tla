------------------------------ MODULE Optimizer ------------------------------
(***************************************************************************)
(* The closed-loop optimizer (src/src/rca/optimizer): one coordinator      *)
(* thread that generates candidate constraint sets round by round, has     *)
(* them evaluated -- directly when workers = 1, otherwise in waves of at   *)
(* most workers pool threads --, applies the results, keeps the budget and *)
(* the execution ledger, and selects a final candidate.  Other threads may *)
(* call request_stop at any moment, and time passes.                       *)
(*                                                                         *)
(* A constraint set is the tuple of its tunable values, which is also what *)
(* its semantic hash tells apart.  Candidate "C007" has id 7; positions in *)
(* all and in ledger start at 1, so the task with ordinal n is ledger[n+1].*)
(***************************************************************************)
EXTENDS QoRSelection, FiniteSets

CONSTANTS
    WorkerCounts,    \* the values of optimization.workers considered
    MaxIterations, MaxEdaRuns, Patience, MinHeadroom,   \* the budget
    TaskCost,        \* physical runs of one candidate: its active scenarios
    NumTunables,     \* tunable constraints, in (type, id) order
    Low, High, Step, \* range and grid of a tunable value
    Moves,           \* the mutation plan: <<tunable, delta>> in code order
    BaselineSet,     \* the constraint set the run starts from
    Results,         \* what evaluate_fn may return for a candidate
    MaxRuns,         \* bound: calls of run() on one Optimizer
    NoRecord, NoScore

Tunables == 1..NumTunables
CSets == [Tunables -> Int]
Result == [error : BOOLEAN, qor : QoR \cup {NoQoR}, runs : 1..TaskCost]

ASSUME OptimizerAssumption ==
    /\ WorkerCounts \subseteq Nat \ {0} /\ TaskCost \in Nat \ {0}
    /\ MaxIterations \in Nat \ {0} /\ MaxEdaRuns \in Nat \ {0} /\ Patience \in Nat \ {0}
    /\ NumTunables \in Nat /\ Step \in Nat \ {0}
    /\ Low \in Int /\ High \in Int /\ MinHeadroom \in Int
    /\ Moves \in Seq(Tunables \X Int)
    /\ BaselineSet \in CSets
    /\ Results \subseteq Result
    /\ \A r \in Results : r.error => r.qor = NoQoR /\ r.runs = 1

VARIABLES
    workers,         \* self.workers, fixed when the Optimizer is built
    pc, runNo,       \* where the coordinator is; how often run() was called
    keepStop,        \* explicit_stop_requested
    stop, iterations, edaRuns, noImprove, lastRecord,  \* self.budget
    late,            \* the elapsed time has reached max_runtime
    asked,           \* request_stop seen in this run: when (history)
    all,             \* result.all_candidates
    explored,        \* explored_hashes
    frontier,        \* parents of this round still to expand (positions in all)
    batch,           \* generated children not yet looked at, taken in order of id
    roundFeasible,   \* round_candidates is not empty
    ledger,          \* execution_ledger.entries
    taskFrom, taskTo,          \* the round's planned tasks: a range of ledger
    cursor, waveEnd, futures,  \* _run_parallel_tasks and the worker pool
    executor, failure, deadline,
    final, resultStop, execStop  \* the OptimizationResult

budgetVars == <<stop, iterations, edaRuns, noImprove, lastRecord>>
envVars    == <<late, asked>>
genVars    == <<explored, frontier, batch>>
taskVars   == <<taskFrom, taskTo>>
waveVars   == <<cursor, waveEnd, futures>>
poolVars   == <<executor, failure, deadline>>
resultVars == <<final, resultStop, execStop>>
runVars    == <<workers, runNo, keepStop>>
vars == <<pc, runVars, budgetVars, envVars, all, genVars, roundFeasible, ledger,
          taskVars, waveVars, poolVars, resultVars>>

-----------------------------------------------------------------------------
(* Candidate generation: one mutation per child, at most four children.    *)

\* round(v / Step) * Step after clamping; Python rounds half to even.
Coerce(v) ==
    LET c == IF v < Low THEN Low ELSE IF v > High THEN High ELSE v
        q == c \div Step
        r == 2 * (c % Step)
    IN  Step * (IF r > Step \/ (r = Step /\ q % 2 = 1) THEN q + 1 ELSE q)

Mutant(cset, move) == [cset EXCEPT ![move[1]] = Coerce(@ + move[2])]

\* The children of a constraint set, numbered in the order of the plan.
Children(cset) ==
    LET kid == [k \in DOMAIN Moves |-> Mutant(cset, Moves[k])]
        New == {k \in DOMAIN Moves :
                   kid[k] # cset /\ \A j \in 1..(k - 1) : kid[j] # kid[k]}
        Rank(k) == Cardinality({j \in New : j <= k})
    IN  {[nth |-> Rank(k), cset |-> kid[k]] : k \in {m \in New : Rank(m) <= 4}}

-----------------------------------------------------------------------------
(* Budget, classification, ledger entries.                                 *)

\* Mutants of ShouldStopWith: limits looked at before an explicit stop, and an
\* explicit stop not looked at.
ShouldStopLimitsFirst(eda) ==
    CASE iterations >= MaxIterations -> "MAX_ITERATIONS"
      [] iterations < MaxIterations /\ eda >= MaxEdaRuns -> "MAX_EDA_RUNS"
      [] OTHER -> IF stop # "none" THEN stop ELSE IF late THEN "MAX_TIME"
                  ELSE IF noImprove >= Patience THEN "CONVERGED" ELSE "none"
ShouldStopUnasked(eda) ==
    CASE iterations >= MaxIterations -> "MAX_ITERATIONS"
      [] iterations < MaxIterations /\ eda >= MaxEdaRuns -> "MAX_EDA_RUNS"
      [] OTHER -> IF late THEN "MAX_TIME"
                  ELSE IF noImprove >= Patience THEN "CONVERGED" ELSE "none"

ShouldStopWith(eda) ==
    CASE stop # "none" -> stop
      [] stop = "none" /\ iterations >= MaxIterations -> "MAX_ITERATIONS"
      [] stop = "none" /\ iterations < MaxIterations /\ eda >= MaxEdaRuns -> "MAX_EDA_RUNS"
      [] OTHER -> IF late THEN "MAX_TIME"
                  ELSE IF noImprove >= Patience THEN "CONVERGED" ELSE "none"
ShouldStop == ShouldStopWith(edaRuns)

Candidate(id, cset, r) ==
    [id |-> id, cset |-> cset, qor |-> r.qor, error |-> r.error, runs |-> r.runs]

\* A task that never ran is applied as an evaluation error counted as one run.
NotRun == [error |-> TRUE, qor |-> NoQoR, runs |-> 1]

Entry(id, cset, status, adm, sub) ==
    [id |-> id, cset |-> cset, status |-> status, adm |-> adm, sub |-> sub,
     result |-> "PENDING", eda |-> 0, order |-> 0]

Terminal == {"COMPLETED", "FAILED", "SKIPPED", "CANCELLED", "BLOCKED"}

\* mark_skipped, mark_cancelled, mark_blocked, mark_failed
Closed(e, status) == [e EXCEPT !.status = status, !.result = status]

\* _record_ledger_application: a lifecycle failure keeps its status, and only
\* a task that was submitted consumed runs.
Verdict(c) == CASE Classify(c.qor) = "blocked" -> "BLOCKED"
                [] Classify(c.qor) = "feasible" -> "FEASIBLE"
                [] OTHER -> "INFEASIBLE"
\* Mutant: a lifecycle failure is relabelled as a completion.
AppliedRelabels(e, c, order) ==
    [e EXCEPT !.status = "COMPLETED", !.result = Verdict(c),
              !.eda = IF e.sub = "SUBMITTED" THEN c.runs ELSE 0, !.order = order]

Applied(e, c, order) ==
    LET done == IF e.status \in Terminal THEN e
                ELSE [e EXCEPT !.status = "COMPLETED", !.result = Verdict(c)]
    IN  [done EXCEPT !.eda = IF e.sub = "SUBMITTED" THEN c.runs ELSE 0, !.order = order]

AppliedCount == Cardinality({i \in DOMAIN ledger : ledger[i].order > 0})

\* _execution_stop_reason, preceded by what an executor failure has set.
ExecutionStop(reason) ==
    CASE failure = "executor_creation" -> "EXECUTOR_CREATION_FAILURE"
      [] failure = "executor_submission" -> "EXECUTOR_SUBMISSION_FAILURE"
      [] failure = "none" /\ reason = "ERROR" -> "FATAL_COORDINATOR_ERROR"
      [] failure = "none" /\ reason = "MAX_EDA_RUNS" -> "EDA_RUN_BUDGET"
      [] failure = "none" /\ reason = "MAX_TIME" -> "ELAPSED_TIME_LIMIT"
      [] failure = "none" /\ reason = "USER_STOP" -> "EXPLICIT_OPTIMIZER_STOP"
      [] OTHER -> IF Len(ledger) <= 1 THEN "NO_ADMISSIBLE_CANDIDATES"
                  ELSE IF reason = "MAX_ITERATIONS" THEN "ITERATION_LIMIT"
                  ELSE "COMPLETED_SEARCH"

-----------------------------------------------------------------------------
(* run: a fresh budget, result and ledger.  A stop requested earlier is    *)
(* read before the budget is replaced and written back after.              *)

Init ==
    /\ workers \in WorkerCounts
    /\ pc = "idle" /\ runNo = 0 /\ keepStop = FALSE
    /\ stop = "none" /\ iterations = 0 /\ edaRuns = 0 /\ noImprove = 0
    /\ lastRecord = NoRecord
    /\ late = FALSE /\ asked = <<>>
    /\ all = <<>> /\ explored = {} /\ frontier = {} /\ batch = {}
    /\ roundFeasible = FALSE /\ ledger = <<>>
    /\ taskFrom = 1 /\ taskTo = 0 /\ cursor = 1 /\ waveEnd = 0 /\ futures = <<>>
    /\ executor = FALSE /\ failure = "none" /\ deadline = FALSE
    /\ final = 0 /\ resultStop = "none" /\ execStop = "none"

BeginRun ==
    /\ pc \in {"idle", "done"} /\ runNo < MaxRuns
    /\ pc' = "resetting"
    /\ runNo' = runNo + 1
    /\ keepStop' = (stop = "USER_STOP")
    /\ UNCHANGED <<workers, budgetVars, envVars, all, genVars, roundFeasible, ledger,
                   taskVars, waveVars, poolVars, resultVars>>

\* Mutant: the parents of the previous run are kept.
FreshRunKeepsParents ==
    /\ pc = "resetting"
    /\ stop' = IF keepStop THEN "USER_STOP" ELSE "none"
    /\ iterations' = 0 /\ edaRuns' = 0 /\ noImprove' = 0 /\ lastRecord' = NoRecord
    /\ late' = FALSE /\ asked' = <<>>
    /\ explored' = {} /\ batch' = {} /\ roundFeasible' = FALSE
    /\ taskFrom' = 1 /\ taskTo' = 0 /\ cursor' = 1 /\ waveEnd' = 0 /\ futures' = <<>>
    /\ failure' = "none" /\ deadline' = FALSE
    /\ UNCHANGED <<runVars, executor, frontier>>

FreshRun ==
    /\ pc = "resetting"
    /\ stop' = IF keepStop THEN "USER_STOP" ELSE "none"
    /\ iterations' = 0 /\ edaRuns' = 0 /\ noImprove' = 0 /\ lastRecord' = NoRecord
    /\ late' = FALSE /\ asked' = <<>>
    /\ explored' = {} /\ frontier' = {} /\ batch' = {} /\ roundFeasible' = FALSE
    /\ taskFrom' = 1 /\ taskTo' = 0 /\ cursor' = 1 /\ waveEnd' = 0 /\ futures' = <<>>
    /\ failure' = "none" /\ deadline' = FALSE
    /\ UNCHANGED <<runVars, executor>>

\* The baseline is ordinal 0 and always a direct call of the coordinator.
StartBaseline ==
    /\ FreshRun
    /\ pc' = "baseline"
    /\ all' = <<>>
    /\ ledger' = <<Entry(0, BaselineSet, "RUNNING", "ADMITTED", "SUBMITTED")>>
    /\ final' = 0 /\ resultStop' = "none" /\ execStop' = "none"

\* optimization.enabled is false or there is no evaluate_fn.
StartDisabled ==
    /\ FreshRun
    /\ pc' = "done"
    /\ all' = <<Candidate(0, BaselineSet, NotRun)>>
    /\ ledger' = <<Applied(Closed(Entry(0, BaselineSet, "PLANNED", "PENDING",
                                        "NOT_SUBMITTED"), "BLOCKED"),
                           Candidate(0, BaselineSet, NotRun), 1)>>
    /\ final' = 1 /\ resultStop' = "USER_STOP" /\ execStop' = "BLOCKED_CONFIGURATION"

BaselineDone(r) ==
    /\ pc = "baseline"
    /\ LET c == Candidate(0, BaselineSet, r)
           e == IF r.error THEN Closed(ledger[1], "FAILED") ELSE ledger[1]
       IN  /\ all' = <<c>>
           /\ ledger' = <<Applied(e, c, 1)>>
           /\ edaRuns' = r.runs
           /\ IF Verdict(c) = "BLOCKED"
              THEN /\ pc' = "done" /\ final' = 1 /\ resultStop' = "ERROR"
                   /\ execStop' = ExecutionStop("ERROR")
                   /\ UNCHANGED <<explored, frontier>>
              ELSE /\ pc' = "head" /\ explored' = {BaselineSet} /\ frontier' = {1}
                   /\ UNCHANGED resultVars
    /\ UNCHANGED <<runVars, stop, iterations, noImprove, lastRecord, envVars, batch,
                   roundFeasible, taskVars, waveVars, poolVars>>

-----------------------------------------------------------------------------
(* One round: expand every parent of the frontier in order.                *)

StartRound ==
    /\ pc = "head" /\ ShouldStop = "none"
    /\ pc' = "expand"
    /\ iterations' = iterations + 1
    /\ roundFeasible' = FALSE
    /\ taskFrom' = Len(ledger) + 1 /\ taskTo' = Len(ledger)
    /\ futures' = <<>> /\ deadline' = FALSE
    /\ UNCHANGED <<runVars, stop, edaRuns, noImprove, lastRecord, envVars, all, genVars,
                   ledger, cursor, waveEnd, executor, failure, resultVars>>

EndSearch ==
    /\ pc = "head" /\ ShouldStop # "none"
    /\ pc' = "select"
    /\ UNCHANGED <<runVars, budgetVars, envVars, all, genVars, roundFeasible, ledger,
                   taskVars, waveVars, poolVars, resultVars>>

Planned == taskTo - taskFrom + 1
Parent == CHOOSE p \in frontier : \A q \in frontier : p <= q
Child == CHOOSE c \in batch : \A d \in batch : c.id <= d.id

\* Mutant: the parent is not taken off the frontier.
ExpandParentAgain ==
    /\ pc = "expand" /\ frontier # {}
    /\ batch' = {[id |-> Len(all) + Planned + kid.nth - 1, cset |-> kid.cset] :
                    kid \in Children(all[Parent].cset)}
    /\ pc' = "children"
    /\ UNCHANGED <<runVars, budgetVars, envVars, all, explored, frontier, roundFeasible,
                   ledger, taskVars, waveVars, poolVars, resultVars>>

\* generate_candidates numbers the children from the count of candidates known
\* so far, known or not, skipped or not.
ExpandParent ==
    /\ pc = "expand" /\ frontier # {}
    /\ batch' = {[id |-> Len(all) + Planned + kid.nth - 1, cset |-> kid.cset] :
                    kid \in Children(all[Parent].cset)}
    /\ frontier' = frontier \ {Parent}
    /\ pc' = "children"
    /\ UNCHANGED <<runVars, budgetVars, envVars, all, explored, roundFeasible, ledger,
                   taskVars, waveVars, poolVars, resultVars>>

\* Only the serial loop looks at the budget after each parent.
EndParent ==
    /\ pc = "children" /\ batch = {}
    /\ frontier' = IF workers = 1 /\ ShouldStop # "none" THEN {} ELSE frontier
    /\ pc' = "expand"
    /\ UNCHANGED <<runVars, budgetVars, envVars, all, explored, batch, roundFeasible,
                   ledger, taskVars, waveVars, poolVars, resultVars>>

SkipKnown ==
    /\ pc = "children" /\ batch # {} /\ Child.cset \in explored
    /\ batch' = batch \ {Child}
    /\ UNCHANGED <<pc, runVars, budgetVars, envVars, all, explored, frontier,
                   roundFeasible, ledger, taskVars, waveVars, poolVars, resultVars>>

EndExpansion ==
    /\ pc = "expand" /\ frontier = {}
    /\ pc' = IF workers = 1 \/ Planned = 0 THEN "record" ELSE "dispatch"
    /\ UNCHANGED <<runVars, budgetVars, envVars, all, genVars, roundFeasible, ledger,
                   taskVars, waveVars, poolVars, resultVars>>

-----------------------------------------------------------------------------
(* workers = 1: evaluate in place (_evaluate_iteration_serial).            *)

Fresh == pc = "children" /\ batch # {} /\ Child.cset \notin explored

EvaluateDirect ==
    /\ workers = 1 /\ Fresh
    /\ ledger' = Append(ledger, Entry(Child.id, Child.cset,
                                      "RUNNING", "ADMITTED", "SUBMITTED"))
    /\ explored' = explored \cup {Child.cset}
    /\ pc' = "evaluating"
    /\ UNCHANGED <<runVars, budgetVars, envVars, all, frontier, batch, roundFeasible,
                   taskVars, waveVars, poolVars, resultVars>>

\* Mutant: the application counter is read before it is incremented.
FinalizeEarlyCount(k, e, r) ==
    LET c == Candidate(e.id, e.cset, r)
    IN  /\ all' = Append(all, c)
        /\ edaRuns' = edaRuns + r.runs
        /\ roundFeasible' = (roundFeasible \/ Feasible(c))
        /\ ledger' = [ledger EXCEPT ![k] = Applied(e, c, AppliedCount)]

\* _finalize_candidate and _record_ledger_application for the entry at k.
Finalize(k, e, r) ==
    LET c == Candidate(e.id, e.cset, r)
    IN  /\ all' = Append(all, c)
        /\ edaRuns' = edaRuns + r.runs
        /\ roundFeasible' = (roundFeasible \/ Feasible(c))
        /\ ledger' = [ledger EXCEPT ![k] = Applied(e, c, AppliedCount + 1)]

DirectDone(r) ==
    /\ pc = "evaluating"
    /\ LET k == Len(ledger)
           e == IF r.error THEN Closed(ledger[k], "FAILED") ELSE ledger[k]
       IN  Finalize(k, e, r)
    /\ batch' = IF ShouldStopWith(edaRuns + r.runs) # "none" THEN {} ELSE batch \ {Child}
    /\ pc' = "children"
    /\ UNCHANGED <<runVars, stop, iterations, noImprove, lastRecord, envVars, explored,
                   frontier, taskVars, waveVars, poolVars, resultVars>>

-----------------------------------------------------------------------------
(* workers > 1: plan the prefix the budget permits (_plan_parallel_tasks). *)

Projected == edaRuns + Planned * TaskCost

\* Mutants of PlanTask: the hash is not recorded; a task is budgeted as one run.
PlanTaskForgets ==
    /\ workers > 1 /\ Fresh /\ Projected + TaskCost <= MaxEdaRuns
    /\ ledger' = Append(ledger, Entry(Child.id, Child.cset,
                                      "ADMITTED", "ADMITTED", "NOT_SUBMITTED"))
    /\ taskTo' = taskTo + 1 /\ batch' = batch \ {Child}
    /\ UNCHANGED <<pc, runVars, budgetVars, envVars, all, explored, frontier,
                   roundFeasible, taskFrom, waveVars, poolVars, resultVars>>
PlanTaskAsOneRun ==
    /\ workers > 1 /\ Fresh /\ Projected + 1 <= MaxEdaRuns
    /\ ledger' = Append(ledger, Entry(Child.id, Child.cset,
                                      "ADMITTED", "ADMITTED", "NOT_SUBMITTED"))
    /\ explored' = explored \cup {Child.cset}
    /\ taskTo' = taskTo + 1 /\ batch' = batch \ {Child}
    /\ UNCHANGED <<pc, runVars, budgetVars, envVars, all, frontier, roundFeasible,
                   taskFrom, waveVars, poolVars, resultVars>>

PlanTask ==
    /\ workers > 1 /\ Fresh /\ Projected + TaskCost <= MaxEdaRuns
    /\ ledger' = Append(ledger, Entry(Child.id, Child.cset,
                                      "ADMITTED", "ADMITTED", "NOT_SUBMITTED"))
    /\ explored' = explored \cup {Child.cset}
    /\ taskTo' = taskTo + 1
    /\ stop' = IF Projected + TaskCost = MaxEdaRuns THEN "MAX_EDA_RUNS" ELSE stop
    /\ IF iterations >= MaxIterations
       THEN batch' = {} /\ frontier' = {} /\ pc' = "dispatch"
       ELSE batch' = batch \ {Child} /\ UNCHANGED <<frontier, pc>>
    /\ UNCHANGED <<runVars, iterations, edaRuns, noImprove, lastRecord, envVars, all,
                   roundFeasible, taskFrom, waveVars, poolVars, resultVars>>

RefuseTask ==
    /\ workers > 1 /\ Fresh /\ Projected + TaskCost > MaxEdaRuns
    /\ ledger' = Append(ledger, Closed(Entry(Child.id, Child.cset,
                                             "PLANNED", "NOT_ADMITTED", "NOT_SUBMITTED"),
                                       "SKIPPED"))
    /\ stop' = "MAX_EDA_RUNS"
    /\ batch' = {} /\ frontier' = {}
    /\ pc' = IF Planned = 0 THEN "record" ELSE "dispatch"
    /\ UNCHANGED <<runVars, iterations, edaRuns, noImprove, lastRecord, envVars, all,
                   explored, roundFeasible, taskVars, waveVars, poolVars, resultVars>>

-----------------------------------------------------------------------------
(* Waves of at most workers tasks on the pool (_run_parallel_tasks).       *)

Tasks == taskFrom..taskTo

\* The ledger with the tasks from position k on closed with a status.
CloseFrom(k, status) ==
    [i \in DOMAIN ledger |-> IF i \in k..taskTo THEN Closed(ledger[i], status)
                             ELSE ledger[i]]

OpenPool ==
    /\ pc = "dispatch"
    /\ executor' = TRUE /\ cursor' = taskFrom /\ pc' = "wave"
    /\ UNCHANGED <<runVars, budgetVars, envVars, all, genVars, roundFeasible, ledger,
                   taskVars, waveEnd, futures, failure, deadline, resultVars>>

PoolFails ==
    /\ pc = "dispatch" /\ ~executor
    /\ ledger' = CloseFrom(taskFrom, "BLOCKED")
    /\ failure' = "executor_creation"
    /\ cursor' = taskFrom /\ pc' = "apply"
    /\ UNCHANGED <<runVars, budgetVars, envVars, all, genVars, roundFeasible, taskVars,
                   waveEnd, futures, executor, deadline, resultVars>>

\* Mutant: waves of workers + 1 tasks.
StartWaveOffByOne ==
    /\ pc = "wave" /\ cursor <= taskTo /\ ~late
    /\ waveEnd' = IF cursor + workers < taskTo THEN cursor + workers ELSE taskTo
    /\ pc' = "submit"
    /\ UNCHANGED <<runVars, budgetVars, envVars, all, genVars, roundFeasible, ledger,
                   taskVars, cursor, futures, poolVars, resultVars>>

StartWave ==
    /\ pc = "wave" /\ cursor <= taskTo /\ ~late
    /\ waveEnd' = IF cursor + workers - 1 < taskTo THEN cursor + workers - 1 ELSE taskTo
    /\ pc' = "submit"
    /\ UNCHANGED <<runVars, budgetVars, envVars, all, genVars, roundFeasible, ledger,
                   taskVars, cursor, futures, poolVars, resultVars>>

\* The deadline is looked at between waves; the tasks left are never submitted.
StopAtDeadline ==
    /\ pc = "wave" /\ cursor <= taskTo /\ late
    /\ ledger' = CloseFrom(cursor, "SKIPPED")
    /\ deadline' = TRUE
    /\ cursor' = taskFrom /\ pc' = "apply"
    /\ UNCHANGED <<runVars, budgetVars, envVars, all, genVars, roundFeasible, taskVars,
                   waveEnd, futures, executor, failure, resultVars>>

EndWaves ==
    /\ pc = "wave" /\ cursor > taskTo
    /\ cursor' = taskFrom /\ pc' = "apply"
    /\ UNCHANGED <<runVars, budgetVars, envVars, all, genVars, roundFeasible, ledger,
                   taskVars, waveEnd, futures, poolVars, resultVars>>

Submit ==
    /\ pc = "submit" /\ cursor <= waveEnd
    /\ ledger' = [ledger EXCEPT ![cursor].status = "SUBMITTED", ![cursor].sub = "SUBMITTED"]
    /\ futures' = [i \in DOMAIN futures \cup {cursor} |->
                      IF i = cursor THEN [done |-> FALSE, result |-> NotRun] ELSE futures[i]]
    /\ cursor' = cursor + 1
    /\ UNCHANGED <<pc, runVars, budgetVars, envVars, all, genVars, roundFeasible,
                   taskVars, waveEnd, poolVars, resultVars>>

\* executor.submit raises: the rest of this and every later wave is cancelled,
\* once the tasks already submitted have finished.
SubmitFails ==
    /\ pc = "submit" /\ cursor <= waveEnd
    /\ ledger' = [ledger EXCEPT ![cursor] = [Closed(@, "BLOCKED") EXCEPT !.sub = "FAILED"]]
    /\ failure' = "executor_submission"
    /\ pc' = "collect"
    /\ UNCHANGED <<runVars, budgetVars, envVars, all, genVars, roundFeasible, taskVars,
                   waveVars, executor, deadline, resultVars>>

WaveSubmitted ==
    /\ pc = "submit" /\ cursor > waveEnd
    /\ pc' = "collect"
    /\ UNCHANGED <<runVars, budgetVars, envVars, all, genVars, roundFeasible, ledger,
                   taskVars, waveVars, poolVars, resultVars>>

Running == {i \in DOMAIN futures : ~futures[i].done}

\* A pool thread finishes the task at ledger position i (_worker_evaluate).
WorkerDone(i, r) ==
    /\ i \in Running
    /\ futures' = [futures EXCEPT ![i] = [done |-> TRUE, result |-> r]]
    /\ UNCHANGED <<pc, runVars, budgetVars, envVars, all, genVars, roundFeasible, ledger,
                   taskVars, cursor, waveEnd, poolVars, resultVars>>

\* Mutant: after a submission error the futures are not waited for.
CollectWaveAbandons ==
    /\ pc = "collect"
    /\ IF failure = "executor_submission"
       THEN /\ ledger' = CloseFrom(cursor + 1, "CANCELLED")
            /\ cursor' = taskFrom /\ pc' = "apply"
       ELSE /\ Running = {} /\ pc' = "wave" /\ UNCHANGED <<ledger, cursor>>
    /\ UNCHANGED <<runVars, budgetVars, envVars, all, genVars, roundFeasible, taskVars,
                   waveEnd, futures, poolVars, resultVars>>

CollectWave ==
    /\ pc = "collect" /\ Running = {}
    /\ IF failure = "executor_submission"
       THEN /\ ledger' = CloseFrom(cursor + 1, "CANCELLED")
            /\ cursor' = taskFrom /\ pc' = "apply"
       ELSE pc' = "wave" /\ UNCHANGED <<ledger, cursor>>
    /\ UNCHANGED <<runVars, budgetVars, envVars, all, genVars, roundFeasible, taskVars,
                   waveEnd, futures, poolVars, resultVars>>

-----------------------------------------------------------------------------
(* The coordinator applies the outcomes in planned order, never in the     *)
(* order of completion (_evaluate_iteration_parallel).                     *)

ToApply == pc = "apply" /\ cursor <= taskTo /\ ledger[cursor].status # "SKIPPED"

Outcome(k) == IF k \in DOMAIN futures THEN futures[k].result ELSE NotRun

Observe ==
    /\ ToApply
    /\ ledger' = IF ledger[cursor].status \in Terminal THEN ledger
                 ELSE IF Outcome(cursor).error
                 THEN [ledger EXCEPT ![cursor] = Closed(@, "FAILED")]
                 ELSE [ledger EXCEPT ![cursor].status = "RUNNING"]
    /\ pc' = "settle"
    /\ UNCHANGED <<runVars, budgetVars, envVars, all, genVars, roundFeasible, taskVars,
                   waveVars, poolVars, resultVars>>

\* Mutant: outcomes are applied in any order (as_completed).
SettleAsCompleted ==
    /\ pc = "settle"
    /\ \E k \in {i \in Tasks : ledger[i].order = 0} : Finalize(k, ledger[k], Outcome(k))
    /\ cursor' = cursor + 1
    /\ pc' = "apply"
    /\ UNCHANGED <<runVars, stop, iterations, noImprove, lastRecord, envVars, genVars,
                   taskVars, waveEnd, futures, poolVars, resultVars>>

Settle ==
    /\ pc = "settle"
    /\ Finalize(cursor, ledger[cursor], Outcome(cursor))
    /\ cursor' = cursor + 1
    /\ pc' = "apply"
    /\ UNCHANGED <<runVars, stop, iterations, noImprove, lastRecord, envVars, genVars,
                   taskVars, waveEnd, futures, poolVars, resultVars>>

EndApply ==
    /\ pc = "apply" /\ ~ToApply
    /\ pc' = "record"
    /\ UNCHANGED <<runVars, budgetVars, envVars, all, genVars, roundFeasible, ledger,
                   taskVars, waveVars, poolVars, resultVars>>

-----------------------------------------------------------------------------
(* End of a round: the front over all candidates, convergence, the next    *)
(* frontier, and the two reasons to leave the loop at once.                *)

Record ==
    /\ pc = "record"
    /\ LET front == ParetoFront(all)
           best == SelectFinal(all, front)
           seen == [size |-> Cardinality(front),
                    score |-> IF best = 0 THEN NoScore ELSE ScalarScore(all[best], all[1])]
           stale == IF lastRecord = NoRecord THEN noImprove
                    ELSE IF seen = lastRecord THEN noImprove + 1 ELSE 0
           floored == IF best # 0 /\ Headroom(all[best].qor) <= MinHeadroom
                      THEN Patience ELSE stale
       IN  /\ lastRecord' = seen
           /\ noImprove' = IF ~roundFeasible /\ iterations > 1 THEN floored + 1 ELSE floored
           /\ frontier' = IF roundFeasible THEN front ELSE {}
    /\ stop' = IF failure # "none" THEN "ERROR"
               ELSE IF deadline THEN "MAX_TIME" ELSE stop
    /\ pc' = IF failure # "none" \/ deadline THEN "select" ELSE "head"
    /\ UNCHANGED <<runVars, iterations, edaRuns, envVars, all, explored, batch,
                   roundFeasible, ledger, taskVars, waveVars, poolVars, resultVars>>

\* Mutant: the baseline is returned when the last round had no feasible candidate.
SelectFromLastRound ==
    /\ pc = "select"
    /\ LET best == SelectFinal(all, ParetoFront(all))
           reason == IF ShouldStop = "none" THEN "ALL_GOALS_SATISFIED" ELSE ShouldStop
       IN  /\ final' = IF best = 0 \/ ~roundFeasible THEN 1 ELSE best
           /\ resultStop' = reason
           /\ execStop' = ExecutionStop(reason)
    /\ executor' = FALSE
    /\ pc' = "done"
    /\ UNCHANGED <<runVars, budgetVars, envVars, all, genVars, roundFeasible, ledger,
                   taskVars, waveVars, failure, deadline>>

\* The final selection falls back to the baseline; the reported reason is
\* asked of the budget once more.
Chosen ==
    LET best == SelectFinal(all, ParetoFront(all)) IN IF best = 0 THEN 1 ELSE best

Select ==
    /\ pc = "select"
    /\ LET reason == IF ShouldStop = "none" THEN "ALL_GOALS_SATISFIED" ELSE ShouldStop
       IN  resultStop' = reason /\ execStop' = ExecutionStop(reason)
    /\ final' = Chosen
    /\ executor' = FALSE   \* run() shuts the pool down on every way out
    /\ pc' = "done"
    /\ UNCHANGED <<runVars, budgetVars, envVars, all, genVars, roundFeasible, ledger,
                   taskVars, waveVars, failure, deadline>>

\* An exception in the coordinator's own code, anywhere once there is a result:
\* what is unfinished is blocked and the partial result is returned, with a final
\* candidate only if that was chosen already.  Shutting the pool down waits for
\* the tasks in flight; nobody sees the result before, so the step is taken then.
CoordinatorFails ==
    /\ pc \notin {"idle", "resetting", "done"} /\ Running = {}
    /\ \/ UNCHANGED final
       \/ pc = "select" /\ final' = Chosen
    /\ ledger' = [i \in DOMAIN ledger |->
                     IF ledger[i].status \in Terminal THEN ledger[i]
                     ELSE Closed(ledger[i], "BLOCKED")]
    /\ resultStop' = "ERROR" /\ execStop' = "FATAL_COORDINATOR_ERROR"
    /\ executor' = FALSE
    /\ pc' = "done"
    /\ UNCHANGED <<runVars, budgetVars, envVars, all, genVars, roundFeasible, taskVars,
                   waveVars, failure, deadline>>

-----------------------------------------------------------------------------
(* The environment: another thread asks for a stop, the deadline passes.   *)

Searching == pc \notin {"idle", "resetting", "select", "done"}

RequestStop ==
    /\ asked = <<>>
    /\ stop' = "USER_STOP"
    /\ asked' = IF Searching THEN <<iterations, Len(ledger)>> ELSE asked
    /\ UNCHANGED <<pc, runVars, iterations, edaRuns, noImprove, lastRecord, late, all,
                   genVars, roundFeasible, ledger, taskVars, waveVars, poolVars, resultVars>>

TimeIsUp ==
    /\ ~late /\ late' = TRUE
    /\ UNCHANGED <<pc, runVars, budgetVars, asked, all, genVars, roundFeasible, ledger,
                   taskVars, waveVars, poolVars, resultVars>>

Finished ==
    /\ pc = "done" /\ runNo = MaxRuns
    /\ UNCHANGED vars

\* The coordinator's short steps; Record and Select are its two long ones.
Coordinator ==
    \/ StartBaseline \/ StartDisabled
    \/ \E r \in Results : BaselineDone(r) \/ DirectDone(r)
    \/ StartRound \/ EndSearch \/ ExpandParent \/ EndParent \/ SkipKnown \/ EndExpansion
    \/ EvaluateDirect \/ PlanTask \/ RefuseTask
    \/ OpenPool \/ PoolFails \/ StartWave \/ StopAtDeadline \/ EndWaves
    \/ Submit \/ SubmitFails \/ WaveSubmitted \/ CollectWave
    \/ Observe \/ Settle \/ EndApply

Worker == \E i \in DOMAIN futures, r \in Results : WorkerDone(i, r)

Next ==
    \/ BeginRun \/ Coordinator \/ Record \/ Select
    \/ Worker \/ CoordinatorFails \/ RequestStop \/ TimeIsUp \/ Finished

Spec == Init /\ [][Next]_vars

\* The coordinator is a running thread and every evaluation ends (the tools
\* are run with a timeout); nobody has to call run, ask for a stop or fail.
\* Record and Select are enabled exactly at their pc and leave it, so for them
\* weak fairness says that the coordinator does not stay there.
FairSpec ==
    /\ Spec
    /\ WF_vars(Coordinator) /\ WF_vars(Worker)
    /\ []<>(pc \notin {"record", "select"})

-----------------------------------------------------------------------------
EntryType == [id : Nat, cset : CSets,
              status : Terminal \cup {"PLANNED", "ADMITTED", "SUBMITTED", "RUNNING"},
              adm : {"PENDING", "ADMITTED", "NOT_ADMITTED"},
              sub : {"NOT_SUBMITTED", "SUBMITTED", "FAILED"},
              result : Terminal \cup {"PENDING", "FEASIBLE", "INFEASIBLE"},
              eda : Nat, order : Nat]
CandidateType == [id : Nat, cset : CSets, qor : QoR \cup {NoQoR},
                  error : BOOLEAN, runs : Nat]
ChildType == [id : Nat, cset : CSets]
StopReasons == {"none", "MAX_ITERATIONS", "MAX_EDA_RUNS", "MAX_TIME", "CONVERGED",
                "USER_STOP", "ERROR", "ALL_GOALS_SATISFIED"}

ExecutionStops == {"none", "ITERATION_LIMIT", "EDA_RUN_BUDGET", "ELAPSED_TIME_LIMIT",
                   "NO_ADMISSIBLE_CANDIDATES", "EXECUTOR_CREATION_FAILURE",
                   "EXECUTOR_SUBMISSION_FAILURE", "FATAL_COORDINATOR_ERROR",
                   "EXPLICIT_OPTIMIZER_STOP", "COMPLETED_SEARCH", "BLOCKED_CONFIGURATION"}

RunTyped ==
    /\ pc \in {"idle", "resetting", "baseline", "head", "expand", "children",
               "evaluating", "dispatch", "wave", "submit", "collect", "apply",
               "settle", "record", "select", "done"}
    /\ workers \in WorkerCounts
    /\ runNo \in Nat /\ keepStop \in BOOLEAN /\ late \in BOOLEAN
    /\ stop \in StopReasons /\ resultStop \in StopReasons /\ execStop \in ExecutionStops
    /\ iterations \in Nat /\ noImprove \in Nat
    /\ asked \in Seq(Nat)
    /\ roundFeasible \in BOOLEAN /\ executor \in BOOLEAN /\ deadline \in BOOLEAN
    /\ failure \in {"none", "executor_creation", "executor_submission"}

SearchTyped ==
    /\ all \in Seq(CandidateType) /\ edaRuns \in Nat
    /\ explored \subseteq CSets
    /\ frontier \subseteq DOMAIN all /\ (pc = "baseline" => frontier = {})
    /\ batch \subseteq ChildType

TasksTyped ==
    /\ ledger \in Seq(EntryType)
    /\ taskFrom \in Nat \ {0} /\ taskTo \in Nat
    /\ taskFrom <= taskTo + 1 /\ taskTo <= Len(ledger)
    /\ cursor \in Nat \ {0} /\ waveEnd \in Nat
    /\ (pc = "baseline" => Len(ledger) = 1) /\ (pc = "evaluating" => ledger # <<>>)
    /\ (pc = "submit" => waveEnd <= taskTo) /\ (pc = "settle" => cursor <= taskTo)
    /\ (pc \in {"wave", "submit", "collect", "apply", "settle"} => taskFrom <= cursor)

FuturesTyped ==
    /\ DOMAIN futures \subseteq Tasks
    /\ \A i \in DOMAIN futures : futures[i] \in [done : BOOLEAN, result : Result]

\* The state has the types of the code's fields, and every position points
\* into the sequence it indexes.
TypeOK == RunTyped /\ SearchTyped /\ TasksTyped /\ FuturesTyped

-----------------------------------------------------------------------------
(* Safety.                                                                 *)

\* Results enter the optimizer in planned order, whatever order the workers
\* finish in, and no task is overtaken by a later one.
AppliedInPlanOrder ==
    \A i, j \in DOMAIN ledger :
        i < j /\ ledger[j].order > 0 /\ ledger[i].status # "SKIPPED"
            => 0 < ledger[i].order /\ ledger[i].order < ledger[j].order

\* The ledger is a projection of the result: the application order numbers the
\* candidates, and entry and candidate agree on identity and constraint set.
LedgerMatchesResult ==
    \A i \in DOMAIN ledger :
        ledger[i].order > 0 =>
            /\ ledger[i].order \in DOMAIN all
            /\ ledger[i].cset = all[ledger[i].order].cset
            /\ ledger[i].id = all[ledger[i].order].id

\* No constraint set is evaluated twice in a run, across parents, rounds and
\* workers (explored_hashes).
NeverReevaluated ==
    \A i, j \in DOMAIN ledger :
        i # j /\ ledger[i].adm = "ADMITTED" /\ ledger[j].adm = "ADMITTED"
            => ledger[i].cset # ledger[j].cset

\* Parallel admission never oversubscribes max_eda_runs, counting what is in
\* flight; the serial loop notices the limit after the candidate that reached
\* it.  Only a baseline that costs more than the whole budget exceeds it.
Bigger(x, y) == IF x > y THEN x ELSE y
EdaBudgetKept ==
    edaRuns <= IF workers = 1 THEN Bigger(MaxEdaRuns + TaskCost - 1, TaskCost)
               ELSE Bigger(MaxEdaRuns, TaskCost)

\* At most workers candidates are in flight.
BoundedFlight == Cardinality(Running) <= workers

\* When the run is over nothing is in flight and no ledger entry is open; every
\* admitted task was applied exactly once, unless the deadline skipped it or the
\* coordinator itself failed.
RunSettled ==
    pc = "done" =>
        /\ Running = {}
        /\ \A i \in DOMAIN ledger : ledger[i].status \in Terminal
        /\ execStop # "FATAL_COORDINATOR_ERROR" =>
              /\ \A i \in DOMAIN ledger : ledger[i].order > 0 \/ ledger[i].status = "SKIPPED"
              /\ AppliedCount = Len(all)

\* The final candidate is one select_final may return: an eligible candidate
\* whenever there is one, and never a blocked or infeasible one instead.
FinalEligible ==
    pc = "done" /\ final # 0 =>
        /\ final \in DOMAIN all
        /\ (\E i \in DOMAIN all : Eligible(all[i])) => Eligible(all[final])

\* A stop request is honoured promptly: no further round starts and, without
\* workers, at most the candidate about to start is still evaluated.
StopIsPrompt ==
    asked # <<>> =>
        /\ iterations = asked[1]
        /\ workers = 1 => Len(ledger) <= asked[2] + 1

\* Without workers, a run during which a stop was requested reports USER_STOP (or
\* an error); with workers a limit met later replaces the reason (base.py:694).
StopHonoured ==
    pc = "done" /\ workers = 1 /\ asked # <<>> => resultStop \in {"USER_STOP", "ERROR"}

\* Why no constraint set is evaluated twice: while the search runs, what has been
\* admitted is explored.
ExploredInv ==
    /\ NeverReevaluated
    /\ pc = "baseline" => ledger[1].cset = BaselineSet
    /\ pc \notin {"idle", "resetting", "baseline", "done"} =>
          \A i \in DOMAIN ledger : ledger[i].adm = "ADMITTED" => ledger[i].cset \in explored

-----------------------------------------------------------------------------
(* The ledger kept here is an execution ledger: entries only move forward, *)
(* outcomes are applied once, and nothing changes after the run is closed. *)
Ledger == INSTANCE ExecutionLedger
    WITH entries <- [i \in 1..Len(ledger) |-> [task |-> <<ledger[i].id, ledger[i].cset>>,
                                              status |-> ledger[i].status,
                                              order |-> ledger[i].order]],
         closed <- pc \in {"idle", "resetting", "done"}
LedgerLifecycle == Ledger!Spec

-----------------------------------------------------------------------------
(* Liveness: every call of run() returns.                                  *)
RunReturns == pc = "resetting" ~> pc = "done"
=============================================================================
