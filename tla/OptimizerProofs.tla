-------------------------- MODULE OptimizerProofs --------------------------
(***************************************************************************)
(* The optimizer for every budget, worker count, plan of mutations and set *)
(* of evaluation results, and whatever fails.  TypeOK is inductive: its    *)
(* four conjuncts are preserved by four lemmas, each by cases on Next.     *)
(* With it: no constraint set is evaluated twice, outcomes are applied in  *)
(* planned order, a finished run is settled, flight and budget are         *)
(* bounded, a stop is prompt and reported, the final candidate is eligible *)
(* when one is, and the ledger implements ExecutionLedger.                 *)
(***************************************************************************)
EXTENDS Optimizer, SelectionProofs, FiniteSetTheorems

-----------------------------------------------------------------------------
(* Generation stays on typed constraint sets.                              *)

\* Clamping and rounding a tunable to its grid gives an integer (_coerce_step).
LEMMA CoerceType ==
    ASSUME NEW v \in Int  PROVE  Coerce(v) \in Int
  BY OptimizerAssumption DEF Coerce

\* One mutation of a constraint set gives a constraint set (_mutate_one).
LEMMA MutantType ==
    ASSUME NEW cset \in CSets, NEW k \in DOMAIN Moves
    PROVE  Mutant(cset, Moves[k]) \in CSets
  <1>1. Moves[k] \in Tunables \X Int
    BY OptimizerAssumption
  <1>2. Moves[k][1] \in Tunables /\ Moves[k][2] \in Int
    BY <1>1
  <1>3. cset[Moves[k][1]] + Moves[k][2] \in Int
    BY <1>2 DEF CSets
  <1>4. Coerce(cset[Moves[k][1]] + Moves[k][2]) \in Int
    BY <1>3, CoerceType
  <1> QED
    BY <1>2, <1>4 DEF Mutant, CSets

\* The children of a constraint set are numbered from 1 and are constraint
\* sets (generate_candidates).
LEMMA ChildrenType ==
    ASSUME NEW cset \in CSets
    PROVE  Children(cset) \subseteq [nth : Nat \ {0}, cset : CSets]
  <1> DEFINE kid == [k \in DOMAIN Moves |-> Mutant(cset, Moves[k])]
             New == {k \in DOMAIN Moves :
                        kid[k] # cset /\ \A j \in 1..(k - 1) : kid[j] # kid[k]}
             Rank(k) == Cardinality({j \in New : j <= k})
  <1>0. DOMAIN Moves = 1..Len(Moves) /\ Len(Moves) \in Nat
    BY OptimizerAssumption
  <1>1. DOMAIN Moves \in SUBSET Nat /\ IsFiniteSet(DOMAIN Moves)
    BY <1>0, FS_Interval
  <1>2. ASSUME NEW m \in New  PROVE Rank(m) \in Nat \ {0}
    <2> DEFINE below == {j \in New : j <= m}
    <2>1. IsFiniteSet(below)
      BY <1>1, FS_Subset
    <2>2. m \in below
      BY <1>1, <1>2
    <2> QED
      BY <2>1, <2>2, FS_CardinalityType, FS_EmptySet
  <1>3. \A m \in New : kid[m] \in CSets
    BY MutantType
  <1>4. Children(cset) = {[nth |-> Rank(m), cset |-> kid[m]] : m \in {x \in New : Rank(x) <= 4}}
    BY DEF Children
  <1> HIDE DEF Rank, kid, New
  <1> QED
    BY <1>2, <1>3, <1>4

\* The least of a set of numbers, as Parent and Child choose it.
LEMMA LeastExists ==
    ASSUME NEW S \in SUBSET Nat, S # {}
    PROVE  \E n \in S : \A m \in S : n <= m
  <1>1. PICK n \in S : \A m \in S : <<m, n>> \notin OpToRel(<, Nat)
    BY NatLessThanWellFounded, WFMin
  <1>2. \A m \in S : ~(m < n)
    BY <1>1 DEF OpToRel
  <1> QED
    BY <1>2

\* While parents are left, the next one is one of them.
LEMMA ParentType ==
    ASSUME frontier \subseteq Nat, frontier # {}
    PROVE  Parent \in frontier
  BY LeastExists DEF Parent

\* While children are left, the next one is one of them.
LEMMA ChildInBatch ==
    ASSUME batch \subseteq ChildType, batch # {}
    PROVE  Child \in batch
  <1> DEFINE ids == {c.id : c \in batch}
  <1>1. ids \subseteq Nat /\ ids # {}
    BY DEF ChildType
  <1>2. PICK n \in ids : \A m \in ids : n <= m
    BY <1>1, LeastExists
  <1> QED
    BY <1>2 DEF Child

-----------------------------------------------------------------------------
(* Typing of entries and candidates.                                       *)

\* A new ledger entry is well typed (_plan_ledger_entry).
LEMMA EntryTyped ==
    ASSUME NEW id \in Nat, NEW cset \in CSets,
           NEW status \in {"PLANNED", "ADMITTED", "RUNNING"},
           NEW adm \in {"PENDING", "ADMITTED", "NOT_ADMITTED"},
           NEW sub \in {"NOT_SUBMITTED", "SUBMITTED"}
    PROVE  Entry(id, cset, status, adm, sub) \in EntryType
  BY DEF Entry, EntryType

\* Closing an entry with a terminal status keeps its type (mark_*).
LEMMA ClosedTyped ==
    ASSUME NEW e \in EntryType, NEW status \in Terminal
    PROVE  Closed(e, status) \in EntryType
  BY DEF Closed, EntryType, Terminal

\* Recording an application keeps the entry's type
\* (_record_ledger_application).
LEMMA AppliedTyped ==
    ASSUME NEW e \in EntryType, NEW c \in CandidateType, NEW n \in Nat
    PROVE  Applied(e, c, n) \in EntryType
  <1>1. Verdict(c) \in {"BLOCKED", "FEASIBLE", "INFEASIBLE"}
    BY DEF Verdict
  <1> DEFINE done == IF e.status \in Terminal THEN e
                     ELSE [e EXCEPT !.status = "COMPLETED", !.result = Verdict(c)]
  <1>2. done \in EntryType
    BY <1>1 DEF EntryType, Terminal
  <1>3. c.runs \in Nat
    BY DEF CandidateType
  <1> DEFINE x == IF e.sub = "SUBMITTED" THEN c.runs ELSE 0
  <1>4. Applied(e, c, n) = [done EXCEPT !.eda = x, !.order = n]
    BY DEF Applied
  <1>5. x \in Nat
    BY <1>3
  <1> HIDE DEF done, x
  <1>6. [done EXCEPT !.eda = x] \in EntryType
    BY <1>2, <1>5 DEF EntryType
  <1>7. [done EXCEPT !.eda = x, !.order = n] \in EntryType
    BY <1>6 DEF EntryType
  <1> QED
    BY <1>4, <1>7

\* A candidate built from an evaluation result is well typed.
LEMMA CandidateTyped ==
    ASSUME NEW id \in Nat, NEW cset \in CSets, NEW r \in Result
    PROVE  Candidate(id, cset, r) \in CandidateType
  BY OptimizerAssumption DEF Candidate, CandidateType, Result

\* The error outcome of a task that never ran is an evaluation result
\* (_apply_evaluation_error).
LEMMA NotRunTyped == NotRun \in Result
  BY OptimizerAssumption DEF NotRun, Result

\* The number of applied entries is a number (_application_counter).
LEMMA CountTyped ==
    ASSUME ledger \in Seq(EntryType)
    PROVE  AppliedCount \in Nat
  <1>1. IsFiniteSet(1..Len(ledger))
    BY FS_Interval
  <1> QED
    BY <1>1, FS_Subset, FS_CardinalityType DEF AppliedCount

\* Budget and ledger report stop reasons of their own enumerations.
LEMMA ReasonTyped ==
    ASSUME stop \in StopReasons
    PROVE  /\ ShouldStop \in StopReasons
           /\ \A reason \in StopReasons :
                 failure \in {"none", "executor_creation", "executor_submission"}
                     => ExecutionStop(reason) \in ExecutionStops
  BY DEF ShouldStop, ShouldStopWith, StopReasons, ExecutionStop, ExecutionStops

-----------------------------------------------------------------------------
(* Type correctness.                                                       *)

\* The initial state is well typed.
LEMMA TypeInit == Init => TypeOK
  <1> SUFFICES ASSUME Init PROVE TypeOK
    OBVIOUS
  <1>1. RunTyped
    <2>1. asked \in Seq(Nat)
      BY DEF Init
    <2> QED
      BY <2>1 DEF Init, RunTyped, StopReasons, ExecutionStops
  <1>2. SearchTyped /\ TasksTyped /\ FuturesTyped
    BY DEF Init, SearchTyped, TasksTyped, FuturesTyped
  <1> QED
    BY <1>1, <1>2 DEF TypeOK

\* Every step keeps the run's scalars typed: budget, stop reasons, flags.
LEMMA RunStep == TypeOK /\ [Next]_vars => RunTyped'
  <1> SUFFICES ASSUME TypeOK, [Next]_vars  PROVE RunTyped'
    OBVIOUS
  <1> USE DEF runVars, budgetVars, envVars, genVars, taskVars, waveVars, poolVars, resultVars
  <1>0. RunTyped /\ Len(ledger) \in Nat
    BY DEF TypeOK, TasksTyped
  <1>1. /\ ShouldStop \in StopReasons
        /\ \A reason \in StopReasons : ExecutionStop(reason) \in ExecutionStops
    BY <1>0, ReasonTyped DEF RunTyped
  <1>2. CASE BeginRun
    BY <1>0, <1>2 DEF BeginRun, RunTyped
  <1>17. CASE StartBaseline \/ StartDisabled
    <2>1. FreshRun
      BY <1>17 DEF StartBaseline, StartDisabled
    <2>2. stop' \in StopReasons /\ asked' \in Seq(Nat)
      BY <2>1 DEF FreshRun, StopReasons
    <2>3. /\ pc' \in {"baseline", "done"}
          /\ resultStop' \in StopReasons /\ execStop' \in ExecutionStops
      BY <1>17 DEF StartBaseline, StartDisabled, StopReasons, ExecutionStops
    <2> QED
      BY <1>0, <2>1, <2>2, <2>3 DEF FreshRun, RunTyped
  <1>3. ASSUME NEW r \in Results, BaselineDone(r)  PROVE RunTyped'
    BY <1>0, <1>1, <1>3 DEF BaselineDone, RunTyped, StopReasons
  <1>4. ASSUME NEW r \in Results, DirectDone(r)  PROVE RunTyped'
    BY <1>0, <1>4 DEF DirectDone, Finalize, RunTyped
  <1>5. CASE StartRound
    <2>1. pc' = "expand" /\ iterations' \in Nat
      BY <1>0, <1>5 DEF StartRound, RunTyped
    <2>3. roundFeasible' \in BOOLEAN /\ deadline' \in BOOLEAN
      BY <1>5, Zenon DEF StartRound
    <2>2. UNCHANGED <<workers, runNo, keepStop, late, stop, resultStop, execStop,
                      noImprove, asked, executor, failure>>
      BY <1>5 DEF StartRound
    <2> QED
      BY <1>0, <2>1, <2>2, <2>3 DEF RunTyped
  <1>18. CASE EndSearch \/ ExpandParent \/ EndParent
    BY <1>0, <1>18 DEF EndSearch, ExpandParent, EndParent, RunTyped
  <1>19. CASE SkipKnown \/ EndExpansion
    BY <1>0, <1>19 DEF SkipKnown, EndExpansion, RunTyped
  <1>6. CASE EvaluateDirect \/ PlanTask \/ RefuseTask
    BY <1>0, <1>6 DEF EvaluateDirect, PlanTask, RefuseTask, RunTyped, StopReasons
  <1>7. CASE OpenPool \/ PoolFails \/ StartWave \/ StopAtDeadline \/ EndWaves
    BY <1>0, <1>7 DEF OpenPool, PoolFails, StartWave, StopAtDeadline, EndWaves, RunTyped
  <1>8. CASE Submit \/ SubmitFails \/ WaveSubmitted \/ CollectWave
    BY <1>0, <1>8 DEF Submit, SubmitFails, WaveSubmitted, CollectWave, RunTyped
  <1>9. CASE Observe \/ Settle \/ EndApply
    BY <1>0, <1>9 DEF Observe, Settle, EndApply, Finalize, RunTyped
  <1>10. CASE Record
    BY <1>0, <1>10, OptimizerAssumption DEF Record, RunTyped, StopReasons
  <1>11. CASE Select
    <2>1. /\ pc' = "done" /\ executor' = FALSE
          /\ resultStop' = IF ShouldStop = "none" THEN "ALL_GOALS_SATISFIED" ELSE ShouldStop
          /\ execStop' = ExecutionStop(resultStop')
          /\ UNCHANGED <<runVars, budgetVars, envVars, roundFeasible, failure, deadline>>
      BY <1>11 DEF Select
    <2>2. resultStop' \in StopReasons
      BY <1>1, <2>1 DEF StopReasons
    <2>3. execStop' \in ExecutionStops
      BY <1>1, <2>1, <2>2
    <2> QED
      BY <1>0, <2>1, <2>2, <2>3 DEF RunTyped
  <1>12. CASE Worker
    BY <1>0, <1>12 DEF Worker, WorkerDone, RunTyped
  <1>13. CASE CoordinatorFails
    BY <1>0, <1>13 DEF CoordinatorFails, RunTyped, StopReasons, ExecutionStops
  <1>14. CASE RequestStop
    <2>1. <<iterations, Len(ledger)>> \in Seq(Nat)
      BY <1>0 DEF RunTyped
    <2> QED
      BY <1>0, <1>14, <2>1 DEF RequestStop, RunTyped, StopReasons
  <1>15. CASE TimeIsUp
    BY <1>0, <1>15 DEF TimeIsUp, RunTyped
  <1>16. CASE Finished \/ UNCHANGED vars
    BY <1>0, <1>16 DEF Finished, vars, RunTyped
  <1> QED
    BY <1>2, <1>3, <1>4, <1>5, <1>6, <1>7, <1>8, <1>9, <1>10, <1>11, <1>12, <1>13, <1>14,
       <1>15, <1>16, <1>17, <1>18, <1>19 DEF Next, Coordinator

\* Every step keeps the candidates, the explored sets, the frontier and the
\* batch typed, and the frontier within the candidates.
LEMMA SearchStep == TypeOK /\ [Next]_vars => SearchTyped'
  <1> SUFFICES ASSUME TypeOK, [Next]_vars  PROVE SearchTyped'
    OBVIOUS
  <1> USE DEF runVars, budgetVars, envVars, genVars, taskVars, waveVars, poolVars, resultVars
  <1>0. /\ SearchTyped /\ TasksTyped
        /\ \A i \in DOMAIN ledger : ledger[i] \in EntryType
        /\ \A i \in DOMAIN all : all[i] \in CandidateType /\ i \in Nat
        /\ \A c \in CandidateType : /\ <<c>> \in Seq(CandidateType)
                                    /\ Append(all, c) \in Seq(CandidateType)
                                    /\ DOMAIN all \subseteq DOMAIN Append(all, c)
    BY DEF TypeOK, SearchTyped, TasksTyped
  <1>1. ASSUME NEW k \in DOMAIN ledger, NEW e, e.id = ledger[k].id, e.cset = ledger[k].cset,
               NEW r \in Result, Finalize(k, e, r)
        PROVE  /\ all' \in Seq(CandidateType) /\ edaRuns' \in Nat
               /\ DOMAIN all \subseteq DOMAIN all'
    <2>1. e.id \in Nat /\ e.cset \in CSets
      BY <1>0, <1>1 DEF EntryType
    <2>2. Candidate(e.id, e.cset, r) \in CandidateType
      BY <2>1, CandidateTyped
    <2>3. r.runs \in Nat
      BY OptimizerAssumption DEF Result
    <2> QED
      BY <1>0, <1>1, <2>2, <2>3 DEF Finalize, SearchTyped
  <1>2. CASE UNCHANGED <<all, edaRuns, explored, frontier, batch>>
               /\ (pc' = "baseline" => pc = "baseline")
    BY <1>0, <1>2 DEF SearchTyped
  <1>3. CASE StartBaseline
    BY <1>3 DEF StartBaseline, FreshRun, SearchTyped
  <1>4. CASE StartDisabled
    <2>1. Candidate(0, BaselineSet, NotRun) \in CandidateType
      BY CandidateTyped, NotRunTyped, OptimizerAssumption
    <2> QED
      BY <1>0, <1>4, <2>1 DEF StartDisabled, FreshRun, SearchTyped
  <1>5. ASSUME NEW r \in Results, BaselineDone(r)  PROVE SearchTyped'
    <2>1. r \in Result /\ r.runs \in Nat /\ BaselineSet \in CSets
      BY OptimizerAssumption DEF Result
    <2>2. Candidate(0, BaselineSet, r) \in CandidateType
      BY <2>1, CandidateTyped
    <2>3. all' = <<Candidate(0, BaselineSet, r)>> /\ edaRuns' = r.runs /\ batch' = batch
      BY <1>5 DEF BaselineDone
    <2>4. all' \in Seq(CandidateType) /\ DOMAIN all' = {1}
      BY <1>0, <2>2, <2>3
    <2>5. /\ explored' = explored \/ explored' = {BaselineSet}
          /\ frontier = {} /\ (frontier' = {1} \/ frontier' = frontier)
          /\ pc' \in {"done", "head"}
      BY <1>0, <1>5 DEF BaselineDone, SearchTyped
    <2> QED
      BY <1>0, <2>1, <2>3, <2>4, <2>5 DEF SearchTyped
  <1>6. CASE ExpandParent
    <2>1. Parent \in DOMAIN all
      BY <1>0, <1>6, ParentType DEF ExpandParent, SearchTyped
    <2>2. all[Parent].cset \in CSets
      BY <1>0, <2>1 DEF CandidateType
    <2>3. \A kid \in Children(all[Parent].cset) : kid.nth \in Nat \ {0} /\ kid.cset \in CSets
      BY <2>2, ChildrenType
    <2>4. Len(all) \in Nat /\ Planned \in Nat
      BY <1>0 DEF SearchTyped, TasksTyped, Planned
    <2>5. \A kid \in Children(all[Parent].cset) :
             [id |-> Len(all) + Planned + kid.nth - 1, cset |-> kid.cset] \in ChildType
      BY <2>3, <2>4 DEF ChildType
    <2>6. batch' \subseteq ChildType
      BY <1>6, <2>5 DEF ExpandParent
    <2> QED
      BY <1>0, <1>6, <2>6 DEF ExpandParent, SearchTyped
  <1>7. CASE EndParent \/ SkipKnown
    BY <1>0, <1>7 DEF EndParent, SkipKnown, SearchTyped
  <1>8. CASE Fresh /\ (EvaluateDirect \/ PlanTask \/ RefuseTask)
    <2>1. Child \in ChildType
      BY <1>0, <1>8, ChildInBatch DEF Fresh, SearchTyped
    <2>2. Child.cset \in CSets
      BY <2>1 DEF ChildType
    <2>3. UNCHANGED <<all, edaRuns>> /\ pc' # "baseline"
      BY <1>8 DEF EvaluateDirect, PlanTask, RefuseTask, Fresh
    <2>4. explored' \subseteq explored \cup {Child.cset}
      BY <1>8 DEF EvaluateDirect, PlanTask, RefuseTask
    <2>5. batch' \subseteq batch /\ frontier' \subseteq frontier
      BY <1>8 DEF EvaluateDirect, PlanTask, RefuseTask
    <2> QED
      BY <1>0, <2>2, <2>3, <2>4, <2>5 DEF SearchTyped
  <1>9. ASSUME NEW r \in Results, DirectDone(r)  PROVE SearchTyped'
    <2> DEFINE k == Len(ledger)
               e == IF r.error THEN Closed(ledger[k], "FAILED") ELSE ledger[k]
    <2>1. Finalize(k, e, r) /\ k \in DOMAIN ledger
      BY <1>0, <1>9 DEF DirectDone, TasksTyped
    <2>2. e.id = ledger[k].id /\ e.cset = ledger[k].cset
      BY <1>0, <2>1 DEF Closed, EntryType
    <2>3. r \in Result
      BY OptimizerAssumption
    <2> HIDE DEF k, e
    <2>4. all' \in Seq(CandidateType) /\ edaRuns' \in Nat /\ DOMAIN all \subseteq DOMAIN all'
      BY <1>1, <2>1, <2>2, <2>3
    <2>5. /\ batch' \subseteq batch /\ UNCHANGED <<explored, frontier>>
          /\ pc' = "children"
      BY <1>9 DEF DirectDone
    <2> QED
      BY <1>0, <2>4, <2>5 DEF SearchTyped
  <1>10. CASE Settle
    <2>1. Finalize(cursor, ledger[cursor], Outcome(cursor)) /\ cursor \in DOMAIN ledger
      BY <1>0, <1>10 DEF Settle, TasksTyped, Tasks
    <2>2. Outcome(cursor) \in Result
      BY NotRunTyped DEF Outcome, TypeOK, FuturesTyped
    <2>3. all' \in Seq(CandidateType) /\ edaRuns' \in Nat /\ DOMAIN all \subseteq DOMAIN all'
      BY <1>1, <2>1, <2>2
    <2>4. UNCHANGED <<explored, frontier, batch>> /\ pc' = "apply"
      BY <1>10 DEF Settle
    <2> QED
      BY <1>0, <2>3, <2>4 DEF SearchTyped
  <1>11. CASE Record
    <2>1. ParetoFront(all) \subseteq DOMAIN all
      <3>1. Len(all) \in Nat /\ DOMAIN all = 1..Len(all)
        BY <1>0 DEF SearchTyped
      <3> QED
        BY <3>1, FrontMembers
    <2> QED
      BY <1>0, <1>11, <2>1 DEF Record, SearchTyped
  <1>12. CASE BeginRun \/ StartRound \/ EndSearch \/ EndExpansion
    BY <1>2, <1>12 DEF BeginRun, StartRound, EndSearch, EndExpansion
  <1>13. CASE OpenPool \/ PoolFails \/ StartWave \/ StopAtDeadline \/ EndWaves
    BY <1>2, <1>13 DEF OpenPool, PoolFails, StartWave, StopAtDeadline, EndWaves
  <1>14. CASE Submit \/ SubmitFails \/ WaveSubmitted \/ CollectWave \/ Worker
    BY <1>2, <1>14 DEF Submit, SubmitFails, WaveSubmitted, CollectWave, Worker, WorkerDone
  <1>15. CASE Observe \/ EndApply \/ Select \/ CoordinatorFails
    BY <1>2, <1>15 DEF Observe, EndApply, Select, CoordinatorFails
  <1>16. CASE RequestStop \/ TimeIsUp \/ Finished \/ UNCHANGED vars
    BY <1>2, <1>16 DEF RequestStop, TimeIsUp, Finished, vars
  <1>17. (EvaluateDirect \/ PlanTask \/ RefuseTask) => Fresh
    BY DEF EvaluateDirect, PlanTask, RefuseTask
  <1> QED
    BY <1>3, <1>4, <1>5, <1>6, <1>7, <1>8, <1>9, <1>10, <1>11, <1>12, <1>13, <1>14,
       <1>15, <1>16, <1>17 DEF Next, Coordinator

\* Every step keeps the ledger typed, and the planned range, the cursor and
\* the wave within it.
LEMMA TasksStep == TypeOK /\ [Next]_vars => TasksTyped'
  <1> SUFFICES ASSUME TypeOK, [Next]_vars  PROVE TasksTyped'
    OBVIOUS
  <1> USE DEF runVars, budgetVars, envVars, genVars, taskVars, waveVars, poolVars, resultVars
  <1>0. /\ RunTyped /\ SearchTyped /\ TasksTyped /\ Len(ledger) \in Nat
        /\ DOMAIN ledger = 1..Len(ledger)
        /\ \A i \in DOMAIN ledger : ledger[i] \in EntryType
        /\ \A e \in EntryType : <<e>> \in Seq(EntryType) /\ Len(<<e>>) = 1
        /\ \A e \in EntryType : /\ Append(ledger, e) \in Seq(EntryType)
                                /\ Len(Append(ledger, e)) = Len(ledger) + 1
        /\ workers \in Nat \ {0}
    BY OptimizerAssumption DEF TypeOK, RunTyped, TasksTyped
  \* A step that rewrites entries in place keeps the length.
  <1>1. ASSUME DOMAIN ledger' = DOMAIN ledger,
               \E f \in [DOMAIN ledger -> EntryType] : ledger' = f
        PROVE  ledger' \in Seq(EntryType) /\ Len(ledger') = Len(ledger)
    BY <1>0, <1>1
  <1>2. ASSUME NEW k \in DOMAIN ledger, NEW e \in EntryType, ledger' = [ledger EXCEPT ![k] = e]
        PROVE  ledger' \in Seq(EntryType) /\ Len(ledger') = Len(ledger)
    BY <1>0, <1>2
  <1>3. ASSUME NEW k, NEW status \in Terminal
        PROVE  CloseFrom(k, status) \in Seq(EntryType) /\ Len(CloseFrom(k, status)) = Len(ledger)
    <2>1. \A i \in DOMAIN ledger : Closed(ledger[i], status) \in EntryType
      BY <1>0, ClosedTyped
    <2> QED
      BY <1>0, <2>1 DEF CloseFrom
  <1>4. ASSUME NEW k \in DOMAIN ledger, NEW e \in EntryType, NEW r \in Result, Finalize(k, e, r)
        PROVE  ledger' \in Seq(EntryType) /\ Len(ledger') = Len(ledger)
    <2>1. e.id \in Nat /\ e.cset \in CSets
      BY DEF EntryType
    <2>2. Candidate(e.id, e.cset, r) \in CandidateType
      BY <2>1, CandidateTyped
    <2>3. AppliedCount + 1 \in Nat
      BY <1>0, CountTyped DEF TasksTyped
    <2>4. Applied(e, Candidate(e.id, e.cset, r), AppliedCount + 1) \in EntryType
      BY <2>2, <2>3, AppliedTyped
    <2> QED
      BY <1>2, <1>4, <2>4 DEF Finalize
  <1>5. CASE /\ UNCHANGED <<ledger, taskVars, cursor, waveEnd>>
             /\ pc' \in {"baseline", "evaluating", "wave", "submit", "collect", "apply", "settle"}
                   => pc' = pc \/ <<pc, pc'>> = <<"submit", "collect">>
    BY <1>0, <1>5 DEF TasksTyped
  <1>6. CASE StartBaseline
    <2>1. Entry(0, BaselineSet, "RUNNING", "ADMITTED", "SUBMITTED") \in EntryType
      BY EntryTyped, OptimizerAssumption
    <2> QED
      BY <1>0, <1>6, <2>1 DEF StartBaseline, FreshRun, TasksTyped
  <1>7. CASE StartDisabled
    <2>1. Candidate(0, BaselineSet, NotRun) \in CandidateType
      BY CandidateTyped, NotRunTyped, OptimizerAssumption
    <2>2. Entry(0, BaselineSet, "PLANNED", "PENDING", "NOT_SUBMITTED") \in EntryType
      BY EntryTyped, OptimizerAssumption
    <2>3. Closed(Entry(0, BaselineSet, "PLANNED", "PENDING", "NOT_SUBMITTED"), "BLOCKED")
            \in EntryType
      BY <2>2, ClosedTyped DEF Terminal
    <2>4. ledger' \in Seq(EntryType) /\ Len(ledger') = 1
      BY <1>0, <1>7, <2>1, <2>3, AppliedTyped DEF StartDisabled
    <2> QED
      BY <1>7, <2>4 DEF StartDisabled, FreshRun, TasksTyped
  <1>8. ASSUME NEW r \in Results, BaselineDone(r)  PROVE TasksTyped'
    <2> DEFINE c == Candidate(0, BaselineSet, r)
               e == IF r.error THEN Closed(ledger[1], "FAILED") ELSE ledger[1]
    <2>1. pc = "baseline" /\ ledger' = <<Applied(e, c, 1)>> /\ pc' \in {"done", "head"}
          /\ UNCHANGED <<taskVars, cursor, waveEnd>>
      BY <1>8 DEF BaselineDone
    <2>2. Len(ledger) = 1 /\ ledger[1] \in EntryType
      BY <1>0, <2>1 DEF TasksTyped
    <2>3. Closed(ledger[1], "FAILED") \in EntryType
      BY <2>2, ClosedTyped DEF Terminal
    <2>4. c \in CandidateType
      BY CandidateTyped, OptimizerAssumption
    <2>5. e \in EntryType
      BY <2>2, <2>3
    <2> HIDE DEF c, e
    <2>6. ledger' \in Seq(EntryType) /\ Len(ledger') = 1
      BY <1>0, <2>1, <2>4, <2>5, AppliedTyped
    <2> QED
      BY <1>0, <2>1, <2>2, <2>6 DEF TasksTyped
  <1>9. CASE StartRound
    <2>1. taskFrom' = Len(ledger) + 1 /\ taskTo' = Len(ledger) /\ pc' = "expand"
          /\ UNCHANGED <<ledger, cursor, waveEnd>>
      BY <1>9 DEF StartRound
    <2> QED
      BY <1>0, <2>1 DEF TasksTyped
  <1>10. CASE EvaluateDirect \/ PlanTask \/ RefuseTask
    <2>1. Child \in ChildType
      BY <1>0, <1>10, ChildInBatch DEF Fresh, SearchTyped, EvaluateDirect, PlanTask, RefuseTask
    <2>2. Child.id \in Nat /\ Child.cset \in CSets
      BY <2>1 DEF ChildType
    <2>3. /\ Entry(Child.id, Child.cset, "RUNNING", "ADMITTED", "SUBMITTED") \in EntryType
          /\ Entry(Child.id, Child.cset, "ADMITTED", "ADMITTED", "NOT_SUBMITTED") \in EntryType
          /\ Entry(Child.id, Child.cset, "PLANNED", "NOT_ADMITTED", "NOT_SUBMITTED") \in EntryType
      BY <2>2, EntryTyped
    <2>4. Closed(Entry(Child.id, Child.cset, "PLANNED", "NOT_ADMITTED", "NOT_SUBMITTED"),
                 "SKIPPED") \in EntryType
      BY <2>3, ClosedTyped DEF Terminal
    <2>5. ledger' \in Seq(EntryType) /\ Len(ledger') = Len(ledger) + 1
      BY <1>0, <1>10, <2>3, <2>4 DEF EvaluateDirect, PlanTask, RefuseTask
    <2>6. /\ UNCHANGED <<taskFrom, cursor, waveEnd>>
          /\ taskTo' = taskTo \/ taskTo' = taskTo + 1
      BY <1>10 DEF EvaluateDirect, PlanTask, RefuseTask
    <2>7. pc' \in {"evaluating", "children", "dispatch", "record"}
      BY <1>10 DEF EvaluateDirect, PlanTask, RefuseTask, Fresh
    <2>8. ledger' # <<>>
      BY <1>0, <2>5
    <2>9. taskFrom \in Nat \ {0} /\ taskTo \in Nat /\ taskFrom <= taskTo + 1
          /\ taskTo <= Len(ledger) /\ cursor \in Nat \ {0} /\ waveEnd \in Nat
      BY <1>0 DEF TasksTyped
    <2>10. taskFrom' \in Nat \ {0} /\ taskTo' \in Nat /\ taskFrom' <= taskTo' + 1
           /\ taskTo' <= Len(ledger') /\ cursor' \in Nat \ {0} /\ waveEnd' \in Nat
      BY <1>0, <2>5, <2>6, <2>9
    <2> QED
      BY <2>5, <2>7, <2>8, <2>10 DEF TasksTyped
  <1>11. ASSUME NEW r \in Results, DirectDone(r)  PROVE TasksTyped'
    <2> DEFINE k == Len(ledger)
               e == IF r.error THEN Closed(ledger[k], "FAILED") ELSE ledger[k]
    <2>1. Finalize(k, e, r) /\ k \in DOMAIN ledger
      BY <1>0, <1>11 DEF DirectDone, TasksTyped
    <2>2. e \in EntryType
      BY <1>0, <2>1, ClosedTyped DEF Terminal
    <2>3. r \in Result
      BY OptimizerAssumption
    <2> HIDE DEF k, e
    <2>4. ledger' \in Seq(EntryType) /\ Len(ledger') = Len(ledger)
      BY <1>4, <2>1, <2>2, <2>3
    <2>5. UNCHANGED <<taskVars, cursor, waveEnd>> /\ pc' = "children"
      BY <1>11 DEF DirectDone
    <2> QED
      BY <1>0, <2>4, <2>5 DEF TasksTyped
  <1>12. CASE Settle
    <2>1. Finalize(cursor, ledger[cursor], Outcome(cursor)) /\ cursor \in DOMAIN ledger
      BY <1>0, <1>12 DEF Settle, TasksTyped
    <2>2. Outcome(cursor) \in Result
      BY NotRunTyped DEF Outcome, TypeOK, FuturesTyped
    <2>3. ledger' \in Seq(EntryType) /\ Len(ledger') = Len(ledger)
      BY <1>0, <1>4, <2>1, <2>2
    <2>4. /\ UNCHANGED <<taskVars, waveEnd>> /\ cursor' = cursor + 1
          /\ pc = "settle" /\ pc' = "apply"
      BY <1>12 DEF Settle
    <2> QED
      BY <1>0, <2>3, <2>4 DEF TasksTyped
  <1>13. CASE OpenPool \/ EndWaves
    BY <1>0, <1>13 DEF OpenPool, EndWaves, TasksTyped
  <1>14. CASE StartWave
    BY <1>0, <1>14 DEF StartWave, TasksTyped
  <1>15. CASE PoolFails \/ StopAtDeadline
    <2>1. ledger' \in Seq(EntryType) /\ Len(ledger') = Len(ledger)
      BY <1>3, <1>15 DEF PoolFails, StopAtDeadline, Terminal
    <2> QED
      BY <1>0, <1>15, <2>1 DEF PoolFails, StopAtDeadline, TasksTyped
  <1>16. CASE CollectWave
    <2>1. ledger' \in Seq(EntryType) /\ Len(ledger') = Len(ledger)
      BY <1>0, <1>3, <1>16 DEF CollectWave, TasksTyped, Terminal
    <2>2. /\ UNCHANGED <<taskVars, waveEnd>> /\ cursor' \in {cursor, taskFrom}
          /\ pc = "collect" /\ pc' \in {"apply", "wave"}
      BY <1>16 DEF CollectWave
    <2> QED
      BY <1>0, <2>1, <2>2 DEF TasksTyped
  <1>17. CASE Submit \/ SubmitFails \/ Observe
    <2>1. cursor \in DOMAIN ledger /\ ledger[cursor] \in EntryType
      BY <1>0, <1>17 DEF Submit, SubmitFails, Observe, ToApply, TasksTyped
    <2>2. /\ [ledger[cursor] EXCEPT !.status = "SUBMITTED", !.sub = "SUBMITTED"] \in EntryType
          /\ [ledger[cursor] EXCEPT !.status = "RUNNING"] \in EntryType
      BY <2>1 DEF EntryType
    <2>3. /\ Closed(ledger[cursor], "FAILED") \in EntryType
          /\ Closed(ledger[cursor], "BLOCKED") \in EntryType
      BY <2>1, ClosedTyped DEF Terminal
    <2>4. [Closed(ledger[cursor], "BLOCKED") EXCEPT !.sub = "FAILED"] \in EntryType
      BY <2>3 DEF EntryType
    <2>5. CASE Submit
      <3>1. ledger' = [ledger EXCEPT ![cursor] =
                         [ledger[cursor] EXCEPT !.status = "SUBMITTED", !.sub = "SUBMITTED"]]
        BY <1>0, <2>1, <2>5 DEF Submit, EntryType
      <3>2. ledger' \in Seq(EntryType) /\ Len(ledger') = Len(ledger)
        BY <1>2, <2>1, <2>2, <3>1
      <3>3. /\ UNCHANGED <<pc, taskVars, waveEnd>> /\ pc = "submit" /\ cursor' = cursor + 1
        BY <2>5 DEF Submit
      <3> QED
        BY <1>0, <3>2, <3>3 DEF TasksTyped
    <2>6. CASE SubmitFails
      BY <1>0, <1>2, <2>1, <2>4, <2>6 DEF SubmitFails, TasksTyped
    <2>7. CASE Observe
      <3>1. \/ ledger' = ledger
            \/ ledger' = [ledger EXCEPT ![cursor] = Closed(ledger[cursor], "FAILED")]
            \/ ledger' = [ledger EXCEPT ![cursor] = [ledger[cursor] EXCEPT !.status = "RUNNING"]]
        BY <2>7 DEF Observe
      <3>2. ledger' \in Seq(EntryType) /\ Len(ledger') = Len(ledger)
        BY <1>0, <1>2, <2>1, <2>2, <2>3, <3>1 DEF TasksTyped
      <3> QED
        BY <1>0, <2>7, <3>2 DEF Observe, ToApply, TasksTyped
    <2> QED
      BY <1>17, <2>5, <2>6, <2>7
  <1>18. CASE CoordinatorFails
    <2>1. \A i \in DOMAIN ledger : Closed(ledger[i], "BLOCKED") \in EntryType
      BY <1>0, ClosedTyped DEF Terminal
    <2>2. ledger' \in Seq(EntryType) /\ Len(ledger') = Len(ledger)
      BY <1>0, <1>18, <2>1 DEF CoordinatorFails
    <2> QED
      BY <1>0, <1>18, <2>2 DEF CoordinatorFails, TasksTyped
  <1>19. CASE BeginRun \/ EndSearch \/ ExpandParent \/ EndParent \/ SkipKnown \/ EndExpansion
    BY <1>5, <1>19 DEF BeginRun, EndSearch, ExpandParent, EndParent, SkipKnown, EndExpansion
  <1>20. CASE WaveSubmitted \/ Worker \/ EndApply \/ Record \/ Select
    BY <1>5, <1>20 DEF WaveSubmitted, Worker, WorkerDone, EndApply, Record, Select
  <1>21. CASE RequestStop \/ TimeIsUp \/ Finished \/ UNCHANGED vars
    BY <1>5, <1>21 DEF RequestStop, TimeIsUp, Finished, vars
  <1> QED
    BY <1>6, <1>7, <1>8, <1>9, <1>10, <1>11, <1>12, <1>13, <1>14, <1>15, <1>16, <1>17,
       <1>18, <1>19, <1>20, <1>21 DEF Next, Coordinator

\* Every step keeps the futures within the planned tasks and their results
\* typed.
LEMMA FuturesStep == TypeOK /\ [Next]_vars => FuturesTyped'
  <1> SUFFICES ASSUME TypeOK, [Next]_vars  PROVE FuturesTyped'
    OBVIOUS
  <1> USE DEF runVars, budgetVars, envVars, genVars, taskVars, waveVars, poolVars, resultVars
  <1>0. FuturesTyped /\ TasksTyped
    BY DEF TypeOK
  <1>1. CASE UNCHANGED <<futures, taskVars>>
    BY <1>0, <1>1 DEF FuturesTyped, Tasks
  <1>2. CASE StartBaseline \/ StartDisabled \/ StartRound
    <2>1. futures' = <<>>
      BY <1>2 DEF StartBaseline, StartDisabled, FreshRun, StartRound
    <2> QED
      BY <2>1 DEF FuturesTyped
  <1>3. CASE PlanTask
    BY <1>0, <1>3 DEF PlanTask, FuturesTyped, TasksTyped, Tasks
  <1>4. CASE Submit
    <2>1. cursor \in Tasks
      BY <1>0, <1>4 DEF Submit, TasksTyped, Tasks
    <2>2. [done |-> FALSE, result |-> NotRun] \in [done : BOOLEAN, result : Result]
      BY NotRunTyped
    <2>3. /\ DOMAIN futures' = DOMAIN futures \cup {cursor}
          /\ \A i \in DOMAIN futures' :
                futures'[i] = IF i = cursor THEN [done |-> FALSE, result |-> NotRun]
                              ELSE futures[i]
          /\ UNCHANGED taskVars
      BY <1>4 DEF Submit
    <2> QED
      BY <1>0, <2>1, <2>2, <2>3 DEF FuturesTyped, Tasks
  <1>5. CASE Worker
    <2>1. PICK i \in DOMAIN futures, r \in Results : WorkerDone(i, r)
      BY <1>5 DEF Worker
    <2>2. futures' = [futures EXCEPT ![i] = [done |-> TRUE, result |-> r]]
          /\ UNCHANGED taskVars
      BY <2>1 DEF WorkerDone
    <2>3. [done |-> TRUE, result |-> r] \in [done : BOOLEAN, result : Result]
      BY OptimizerAssumption
    <2> QED
      BY <1>0, <2>2, <2>3 DEF FuturesTyped, Tasks
  <1>6. ASSUME NEW r \in Results, BaselineDone(r) \/ DirectDone(r)  PROVE FuturesTyped'
    BY <1>1, <1>6 DEF BaselineDone, DirectDone
  <1>7. CASE BeginRun \/ EndSearch \/ ExpandParent \/ EndParent \/ SkipKnown \/ EndExpansion
    BY <1>1, <1>7 DEF BeginRun, EndSearch, ExpandParent, EndParent, SkipKnown, EndExpansion
  <1>8. CASE EvaluateDirect \/ RefuseTask \/ OpenPool \/ PoolFails \/ StartWave
    BY <1>1, <1>8 DEF EvaluateDirect, RefuseTask, OpenPool, PoolFails, StartWave
  <1>9. CASE StopAtDeadline \/ EndWaves \/ SubmitFails \/ WaveSubmitted \/ CollectWave
    BY <1>1, <1>9 DEF StopAtDeadline, EndWaves, SubmitFails, WaveSubmitted, CollectWave
  <1>10. CASE Observe \/ Settle \/ EndApply \/ Record \/ Select \/ CoordinatorFails
    BY <1>1, <1>10 DEF Observe, Settle, EndApply, Record, Select, CoordinatorFails
  <1>11. CASE RequestStop \/ TimeIsUp \/ Finished \/ UNCHANGED vars
    BY <1>1, <1>11 DEF RequestStop, TimeIsUp, Finished, vars
  <1> QED
    BY <1>2, <1>3, <1>4, <1>5, <1>6, <1>7, <1>8, <1>9, <1>10, <1>11 DEF Next, Coordinator

\* In every reachable state the run, its candidates, its ledger and the pool's
\* futures have the types of the code's fields.
THEOREM TypeCorrect == Spec => []TypeOK
  <1>1. TypeOK /\ [Next]_vars => TypeOK'
    BY RunStep, SearchStep, TasksStep, FuturesStep DEF TypeOK
  <1> QED
    BY <1>1, TypeInit, PTL DEF Spec

-----------------------------------------------------------------------------
(* No constraint set is evaluated twice.                                   *)

\* Applying or closing an entry leaves its task and its admission.
LEMMA TaskKept ==
    ASSUME NEW e \in EntryType, NEW c, NEW n, NEW status
    PROVE  /\ Closed(e, status).cset = e.cset /\ Closed(e, status).adm = e.adm
           /\ Applied(e, c, n).cset = e.cset /\ Applied(e, c, n).adm = e.adm
  BY DEF EntryType, Closed, Applied

\* Every step that plans no task keeps ExploredInv because entries keep theirs;
\* a step that plans one has looked it up in explored.
LEMMA ExploredStep ==
    ASSUME TypeOK, ExploredInv, [Next]_vars
    PROVE  ExploredInv'
  <1> USE DEF runVars, budgetVars, envVars, genVars, taskVars, waveVars, poolVars, resultVars
  <1> DEFINE Search == {"head", "expand", "children", "evaluating", "dispatch", "wave",
                        "submit", "collect", "apply", "settle", "record", "select"}
             Same == /\ DOMAIN ledger' = DOMAIN ledger
                     /\ \A i \in DOMAIN ledger : /\ ledger'[i].cset = ledger[i].cset
                                                 /\ ledger'[i].adm = ledger[i].adm
  <1>0. /\ pc \in Search \cup {"idle", "resetting", "baseline", "done"}
        /\ Len(ledger) \in Nat /\ DOMAIN ledger = 1..Len(ledger)
        /\ \A i \in DOMAIN ledger : ledger[i] \in EntryType
        /\ TasksTyped
    BY DEF TypeOK, RunTyped, TasksTyped
  <1>1. ASSUME Same, explored' = explored, pc' = pc \/ pc' \in {"resetting", "done"} \/
                                         (pc \in Search /\ pc' \in Search)
        PROVE  ExploredInv'
    <2>1. NeverReevaluated'
      BY <1>1 DEF ExploredInv, NeverReevaluated
    <2>2. pc' = "baseline" => ledger'[1].cset = BaselineSet
      BY <1>0, <1>1 DEF ExploredInv, TasksTyped
    <2>3. pc' \notin {"idle", "resetting", "baseline", "done"} =>
             \A i \in DOMAIN ledger' : ledger'[i].adm = "ADMITTED" => ledger'[i].cset \in explored'
      BY <1>1 DEF ExploredInv
    <2> QED
      BY <2>1, <2>2, <2>3 DEF ExploredInv
  <1>2. ASSUME NEW e, ledger' = <<e>>, e.cset = BaselineSet,
               pc' \in {"baseline", "done"} \/ explored' = {BaselineSet}
        PROVE  ExploredInv'
    BY <1>2 DEF ExploredInv, NeverReevaluated
  <1>3. ASSUME NEW k \in DOMAIN ledger, NEW e, ledger' = [ledger EXCEPT ![k] = e],
               e.cset = ledger[k].cset, e.adm = ledger[k].adm
        PROVE  Same
    BY <1>0, <1>3
  <1>4. ASSUME NEW k, NEW status, ledger' = CloseFrom(k, status)
        PROVE  Same
    BY <1>0, <1>4, TaskKept DEF CloseFrom
  <1>5. ASSUME NEW k \in DOMAIN ledger, NEW e \in EntryType, NEW r, Finalize(k, e, r),
               e.cset = ledger[k].cset, e.adm = ledger[k].adm
        PROVE  Same
    BY <1>0, <1>3, <1>5, TaskKept DEF Finalize
  <1>6. CASE StartBaseline
    BY <1>2, <1>6 DEF StartBaseline, Entry
  <1>7. CASE StartDisabled
    <2>1. Entry(0, BaselineSet, "PLANNED", "PENDING", "NOT_SUBMITTED") \in EntryType
      BY EntryTyped, OptimizerAssumption
    <2>2. Closed(Entry(0, BaselineSet, "PLANNED", "PENDING", "NOT_SUBMITTED"), "BLOCKED")
            \in EntryType
      BY <2>1, ClosedTyped DEF Terminal
    <2>3. Entry(0, BaselineSet, "PLANNED", "PENDING", "NOT_SUBMITTED").cset = BaselineSet
      BY DEF Entry
    <2> QED
      BY <1>2, <1>7, <2>1, <2>2, <2>3, TaskKept DEF StartDisabled
  <1>8. ASSUME NEW r \in Results, BaselineDone(r)  PROVE ExploredInv'
    <2> DEFINE c == Candidate(0, BaselineSet, r)
               e == IF r.error THEN Closed(ledger[1], "FAILED") ELSE ledger[1]
    <2>1. /\ pc = "baseline" /\ ledger' = <<Applied(e, c, 1)>>
          /\ pc' = "done" \/ explored' = {BaselineSet}
      BY <1>8 DEF BaselineDone
    <2>2. ledger[1] \in EntryType /\ ledger[1].cset = BaselineSet
      BY <1>0, <2>1 DEF TasksTyped, ExploredInv
    <2>3. e \in EntryType /\ e.cset = BaselineSet
      BY <2>2, ClosedTyped, TaskKept DEF Terminal
    <2> HIDE DEF c, e
    <2> QED
      BY <1>2, <2>1, <2>3, TaskKept
  <1>9. CASE EvaluateDirect \/ PlanTask
    <2>1. /\ \E e : ledger' = Append(ledger, e) /\ e.cset = Child.cset
          /\ Child.cset \notin explored /\ explored' = explored \cup {Child.cset}
          /\ pc = "children" /\ pc' \in Search
      BY <1>9 DEF EvaluateDirect, PlanTask, Fresh, Entry
    <2>2. /\ DOMAIN ledger' = 1..(Len(ledger) + 1)
          /\ \A i \in DOMAIN ledger : ledger'[i] = ledger[i]
          /\ ledger'[Len(ledger) + 1].cset = Child.cset
      BY <1>0, <2>1 DEF TasksTyped
    <2>3. \A i \in DOMAIN ledger :
             ledger[i].adm = "ADMITTED" => ledger[i].cset \in explored
      BY <2>1 DEF ExploredInv
    <2>4. NeverReevaluated'
      BY <1>0, <2>1, <2>2, <2>3 DEF ExploredInv, NeverReevaluated
    <2> QED
      BY <1>0, <2>1, <2>2, <2>3, <2>4 DEF ExploredInv
  <1>10. CASE RefuseTask
    <2> DEFINE e == Closed(Entry(Child.id, Child.cset, "PLANNED", "NOT_ADMITTED",
                                 "NOT_SUBMITTED"), "SKIPPED")
    <2>1. /\ ledger' = Append(ledger, e) /\ explored' = explored
          /\ pc = "children" /\ pc' \in Search
      BY <1>10 DEF RefuseTask, Fresh
    <2>2. e.adm = "NOT_ADMITTED"
      BY DEF Closed, Entry
    <2> HIDE DEF e
    <2>3. /\ DOMAIN ledger' = 1..(Len(ledger) + 1)
          /\ \A i \in DOMAIN ledger : ledger'[i] = ledger[i]
          /\ ledger'[Len(ledger) + 1].adm = "NOT_ADMITTED"
      BY <1>0, <2>1, <2>2 DEF TasksTyped
    <2>4. NeverReevaluated'
      BY <1>0, <2>3 DEF ExploredInv, NeverReevaluated
    <2> QED
      BY <1>0, <2>1, <2>3, <2>4 DEF ExploredInv
  <1>11. ASSUME NEW r \in Results, DirectDone(r)  PROVE ExploredInv'
    <2> DEFINE k == Len(ledger)
               e == IF r.error THEN Closed(ledger[k], "FAILED") ELSE ledger[k]
    <2>1. Finalize(k, e, r) /\ k \in DOMAIN ledger
      BY <1>0, <1>11 DEF DirectDone, TasksTyped
    <2>2. e \in EntryType /\ e.cset = ledger[k].cset /\ e.adm = ledger[k].adm
      BY <1>0, <2>1, ClosedTyped, TaskKept DEF Terminal
    <2> HIDE DEF k, e
    <2>3. Same
      BY <1>5, <2>1, <2>2
    <2> QED
      BY <1>1, <1>11, <2>3 DEF DirectDone
  <1>12. CASE Settle
    <2>1. Finalize(cursor, ledger[cursor], Outcome(cursor)) /\ cursor \in DOMAIN ledger
      BY <1>0, <1>12 DEF Settle, TasksTyped
    <2>2. Same
      BY <1>0, <1>5, <2>1
    <2> QED
      BY <1>1, <1>12, <2>2 DEF Settle
  <1>13. CASE PoolFails \/ StopAtDeadline \/ CollectWave
    <2>1. Same
      BY <1>0, <1>4, <1>13 DEF PoolFails, StopAtDeadline, CollectWave
    <2> QED
      BY <1>1, <1>13, <2>1 DEF PoolFails, StopAtDeadline, CollectWave
  <1>14. CASE Submit \/ SubmitFails \/ Observe
    <2>1. cursor \in DOMAIN ledger /\ ledger[cursor] \in EntryType
      BY <1>0, <1>14 DEF Submit, SubmitFails, Observe, ToApply, TasksTyped
    <2>2. Same
      <3>1. CASE Submit
        BY <1>0, <2>1, <3>1 DEF Submit, EntryType
      <3>2. CASE SubmitFails
        BY <1>0, <2>1, <3>2 DEF SubmitFails, Closed, EntryType
      <3>3. CASE Observe
        BY <1>0, <2>1, <3>3 DEF Observe, Closed, EntryType
      <3> QED
        BY <1>14, <3>1, <3>2, <3>3
    <2> QED
      BY <1>1, <1>14, <2>2 DEF Submit, SubmitFails, Observe, ToApply
  <1>15. CASE CoordinatorFails
    <2>1. Same
      BY <1>0, <1>15, TaskKept DEF CoordinatorFails
    <2> QED
      BY <1>1, <1>15, <2>1 DEF CoordinatorFails
  <1>16. CASE BeginRun \/ StartRound \/ EndSearch \/ ExpandParent \/ EndParent \/ SkipKnown
              \/ EndExpansion
    BY <1>1, <1>16
    DEF BeginRun, StartRound, EndSearch, ExpandParent, EndParent, SkipKnown, EndExpansion
  <1>17. CASE OpenPool \/ StartWave \/ EndWaves \/ WaveSubmitted \/ Worker \/ EndApply
              \/ Record \/ Select
    BY <1>1, <1>17
    DEF OpenPool, StartWave, EndWaves, WaveSubmitted, Worker, WorkerDone, EndApply, Record, Select
  <1>18. CASE RequestStop \/ TimeIsUp \/ Finished \/ UNCHANGED vars
    BY <1>1, <1>18 DEF RequestStop, TimeIsUp, Finished, vars
  <1> QED
    BY <1>6, <1>7, <1>8, <1>9, <1>10, <1>11, <1>12, <1>13, <1>14, <1>15, <1>16, <1>17, <1>18
    DEF Next, Coordinator

\* Whatever the plan of mutations, the frontier, the budget and the worker count,
\* and however often run() is called: no constraint set is admitted twice in a run.
THEOREM EachEvaluatedOnce == Spec => []NeverReevaluated
  <1>1. Init => ExploredInv
    BY DEF Init, ExploredInv, NeverReevaluated
  <1>2. ExploredInv => NeverReevaluated
    BY DEF ExploredInv
  <1>3. TypeOK /\ ExploredInv /\ [Next]_vars => ExploredInv'
    BY ExploredStep
  <1> QED
    BY <1>1, <1>2, <1>3, TypeCorrect, PTL DEF Spec

-----------------------------------------------------------------------------
(* What a run keeps between its ledger, its candidates and the pool.       *)

\* Ledger and candidates: the applied entries are the candidates, in planned
\* order, and are finished.
AppliedInv ==
    /\ AppliedCount = Len(all)
    /\ LedgerMatchesResult
    /\ AppliedInPlanOrder
    /\ \A i \in DOMAIN ledger : ledger[i].order > 0 => ledger[i].status \in Terminal

\* Every entry is behind the coordinator except the ones it is working on.
Settled(i) == ledger[i].order > 0 \/ ledger[i].status = "SKIPPED"

Submission == {"wave", "submit", "collect"}
Application == {"apply", "settle"}

Unsettled ==
    IF pc = "baseline" THEN {1}
    ELSE IF pc = "evaluating" THEN {Len(ledger)}
    ELSE IF pc \in {"expand", "children", "dispatch"} \cup Submission THEN Tasks
    ELSE IF pc \in Application THEN cursor..taskTo
    ELSE {}

\* The status an unsettled entry may have.
Expected(i) ==
    IF pc \in {"baseline", "evaluating"} THEN {"RUNNING"}
    ELSE IF pc \in {"expand", "children", "dispatch"} THEN {"ADMITTED"}
    ELSE IF pc \in Submission
         THEN IF i < cursor THEN {"SUBMITTED"}
              ELSE IF i = cursor /\ failure # "none" THEN {"BLOCKED"} ELSE {"ADMITTED"}
    ELSE IF pc = "settle" /\ i = cursor THEN ({"RUNNING"} \cup Terminal) \ {"SKIPPED"}
    ELSE {"SUBMITTED"} \cup Terminal

StageInv ==
    /\ pc \notin {"idle", "resetting", "done"} =>
          \A i \in DOMAIN ledger :
             IF i \in Unsettled THEN ledger[i].order = 0 /\ ledger[i].status \in Expected(i)
             ELSE Settled(i)
    /\ pc = "done" =>
          \A i \in DOMAIN ledger :
             /\ ledger[i].status \in Terminal
             /\ execStop # "FATAL_COORDINATOR_ERROR" => Settled(i)

\* The planned tasks are the end of the ledger, but for one refused; without
\* workers nothing is planned.  A deadline skips the last tasks of a round.
PlanInv ==
    /\ pc = "baseline" => ledger[1].id = 0 /\ ledger[1].cset = BaselineSet
    /\ pc \in {"expand", "children", "evaluating"} =>
          taskTo = IF workers = 1 THEN taskFrom - 1 ELSE Len(ledger)
    /\ pc \in {"dispatch"} \cup Submission \cup Application => workers # 1
    /\ pc = "evaluating" => workers = 1
    /\ pc \in {"dispatch"} \cup Submission =>
          \A i \in DOMAIN ledger : i > taskTo => ledger[i].order = 0
    /\ pc \in {"baseline", "head", "expand", "children", "evaluating", "dispatch",
               "wave", "submit"} => failure = "none"
    /\ pc = "collect" => failure # "executor_creation"
    /\ pc = "settle" => cursor <= taskTo
    /\ pc \in Application =>
          /\ cursor <= taskTo + 1
          /\ \A i, j \in Tasks :
                i < j /\ ledger[i].status = "SKIPPED" => ledger[j].status = "SKIPPED"

LedgerInv == AppliedInv /\ StageInv /\ PlanInv

-----------------------------------------------------------------------------
(* What the helpers of the ledger do to an entry and to the ledger.        *)

\* The task an entry stands for.
SameTask(e, f) == e.id = f.id /\ e.cset = f.cset

\* Closing an entry changes its status and its result (mark_*).
LEMMA ClosedFields ==
    ASSUME NEW e \in EntryType, NEW status
    PROVE  /\ SameTask(Closed(e, status), e)
           /\ Closed(e, status).order = e.order
           /\ Closed(e, status).status = status
           /\ Closed(e, status).sub = e.sub
  BY DEF EntryType, Closed, SameTask

\* Applying an entry numbers it and completes it unless it had failed already
\* (_record_ledger_application).
LEMMA AppliedFields ==
    ASSUME NEW e \in EntryType, NEW c, NEW n
    PROVE  /\ SameTask(Applied(e, c, n), e)
           /\ Applied(e, c, n).order = n
           /\ Applied(e, c, n).status = IF e.status \in Terminal THEN e.status ELSE "COMPLETED"
  BY DEF EntryType, Applied, SameTask

\* Closing the tasks from k on leaves all tasks and all orders.
LEMMA CloseFromFields ==
    ASSUME \A i \in DOMAIN ledger : ledger[i] \in EntryType, NEW k, NEW status,
           ledger' = CloseFrom(k, status)
    PROVE  /\ DOMAIN ledger' = DOMAIN ledger
           /\ \A i \in DOMAIN ledger :
                 /\ SameTask(ledger'[i], ledger[i]) /\ ledger'[i].order = ledger[i].order
                 /\ ledger'[i].status = IF i \in k..taskTo THEN status ELSE ledger[i].status
  BY ClosedFields DEF CloseFrom, SameTask

\* The coordinator's view of the ledger: a sequence of entries.
LEMMA LedgerTyped ==
    ASSUME TypeOK
    PROVE  /\ Len(ledger) \in Nat /\ DOMAIN ledger = 1..Len(ledger)
           /\ \A i \in DOMAIN ledger : /\ ledger[i] \in EntryType
                                       /\ ledger[i].order \in Nat
           /\ Len(all) \in Nat /\ DOMAIN all = 1..Len(all)
           /\ taskFrom \in Nat \ {0} /\ taskTo \in Nat /\ cursor \in Nat \ {0} /\ waveEnd \in Nat
           /\ workers \in Nat \ {0} /\ TasksTyped /\ RunTyped
  <1>1. TasksTyped /\ RunTyped /\ SearchTyped
    BY DEF TypeOK
  <1>2. /\ Len(ledger) \in Nat /\ DOMAIN ledger = 1..Len(ledger)
        /\ \A i \in DOMAIN ledger : ledger[i] \in EntryType
    BY <1>1 DEF TasksTyped
  <1>3. \A i \in DOMAIN ledger : ledger[i].order \in Nat
    BY <1>2 DEF EntryType
  <1>4. Len(all) \in Nat /\ DOMAIN all = 1..Len(all)
    BY <1>1 DEF SearchTyped
  <1>5. workers \in Nat \ {0}
    BY <1>1, OptimizerAssumption DEF RunTyped
  <1>6. taskFrom \in Nat \ {0} /\ taskTo \in Nat /\ cursor \in Nat \ {0} /\ waveEnd \in Nat
    BY <1>1 DEF TasksTyped
  <1> QED
    BY <1>1, <1>2, <1>3, <1>4, <1>5, <1>6

-----------------------------------------------------------------------------
(* The number of applied entries.                                          *)

\* Steps that leave every order leave the count.
LEMMA CountKept ==
    ASSUME DOMAIN ledger' = DOMAIN ledger,
           \A i \in DOMAIN ledger : ledger'[i].order = ledger[i].order
    PROVE  AppliedCount' = AppliedCount
  <1>1. {i \in DOMAIN ledger : ledger[i].order > 0}'
           = {i \in DOMAIN ledger : ledger[i].order > 0}
    OBVIOUS
  <1> QED
    BY <1>1 DEF AppliedCount

\* A new entry is not applied.
LEMMA CountAppended ==
    ASSUME ledger \in Seq(EntryType), NEW e, e.order = 0, ledger' = Append(ledger, e)
    PROVE  AppliedCount' = AppliedCount
  <1>1. /\ DOMAIN ledger' = DOMAIN ledger \cup {Len(ledger) + 1}
        /\ \A i \in DOMAIN ledger : ledger'[i] = ledger[i]
        /\ ledger'[Len(ledger) + 1] = e
    OBVIOUS
  <1>2. {i \in DOMAIN ledger : ledger[i].order > 0}'
           = {i \in DOMAIN ledger : ledger[i].order > 0}
    BY <1>1
  <1> QED
    BY <1>2 DEF AppliedCount

\* Numbering one entry more adds one.
LEMMA CountApplied ==
    ASSUME ledger \in Seq(EntryType), NEW k \in DOMAIN ledger, ledger[k].order = 0,
           DOMAIN ledger' = DOMAIN ledger, ledger'[k].order \in Nat \ {0},
           \A i \in DOMAIN ledger \ {k} : ledger'[i] = ledger[i]
    PROVE  AppliedCount' = AppliedCount + 1
  <1> DEFINE S == {i \in DOMAIN ledger : ledger[i].order > 0}
  <1>0. Len(ledger) \in Nat /\ DOMAIN ledger = 1..Len(ledger)
    OBVIOUS
  <1>1. IsFiniteSet(1..Len(ledger)) /\ S \subseteq 1..Len(ledger)
    BY <1>0, FS_Interval
  <1>2. IsFiniteSet(S) /\ k \notin S
    BY <1>1, FS_Subset
  <1>3. Cardinality(S \cup {k}) = Cardinality(S) + 1
    BY <1>2, FS_AddElement
  <1>4. {i \in DOMAIN ledger : ledger[i].order > 0}' = S \cup {k}
    OBVIOUS
  <1> QED
    BY <1>3, <1>4 DEF AppliedCount

\* A new ledger of one entry.
LEMMA CountFresh ==
    ASSUME NEW e, ledger' = <<e>>
    PROVE  AppliedCount' = IF e.order > 0 THEN 1 ELSE 0
  <1>1. {i \in DOMAIN ledger : ledger[i].order > 0}' = IF e.order > 0 THEN {1} ELSE {}
    OBVIOUS
  <1> QED
    BY <1>1, FS_EmptySet, FS_Singleton DEF AppliedCount

-----------------------------------------------------------------------------
(* The ledger is a projection of the candidates.                           *)

\* What finalizing the entry at k does (_finalize_candidate).
LEMMA FinalizeFields ==
    ASSUME TypeOK, AppliedCount = Len(all),
           NEW k \in DOMAIN ledger, NEW e \in EntryType, SameTask(e, ledger[k]),
           NEW r, Finalize(k, e, r)
    PROVE  /\ DOMAIN ledger' = DOMAIN ledger
           /\ \A i \in DOMAIN ledger \ {k} : ledger'[i] = ledger[i]
           /\ SameTask(ledger'[k], ledger[k]) /\ ledger'[k].order = Len(all) + 1
           /\ ledger'[k].status = IF e.status \in Terminal THEN e.status ELSE "COMPLETED"
           /\ Len(all') = Len(all) + 1 /\ DOMAIN all' = 1..(Len(all) + 1)
           /\ \A i \in DOMAIN all : all'[i] = all[i]
           /\ SameTask(all'[Len(all) + 1], ledger[k])
  <1> DEFINE c == Candidate(e.id, e.cset, r)
  <1>1. /\ all' = Append(all, c)
        /\ ledger' = [ledger EXCEPT ![k] = Applied(e, c, Len(all) + 1)]
    BY DEF Finalize
  <1>2. /\ SameTask(Applied(e, c, Len(all) + 1), e)
        /\ Applied(e, c, Len(all) + 1).order = Len(all) + 1
        /\ Applied(e, c, Len(all) + 1).status =
              IF e.status \in Terminal THEN e.status ELSE "COMPLETED"
    BY AppliedFields
  <1>3. SameTask(c, e)
    BY DEF Candidate, SameTask
  <1> HIDE DEF c
  <1>4. /\ DOMAIN ledger' = DOMAIN ledger
        /\ \A i \in DOMAIN ledger \ {k} : ledger'[i] = ledger[i]
        /\ ledger'[k] = Applied(e, c, Len(all) + 1)
    BY <1>1, LedgerTyped
  <1>5. all \in Seq(CandidateType)
    BY DEF TypeOK, SearchTyped
  <1>6. /\ Len(all') = Len(all) + 1 /\ DOMAIN all' = 1..(Len(all) + 1)
        /\ \A i \in DOMAIN all : all'[i] = all[i]
        /\ all'[Len(all) + 1] = c
    BY <1>1, <1>5
  <1> QED
    BY <1>2, <1>3, <1>4, <1>6 DEF SameTask

\* Entries change their status only: a finished one stays finished, and what
\* the deadline or the budget skipped stays skipped.
LEMMA AppliedRestated ==
    ASSUME TypeOK, AppliedInv, UNCHANGED all, DOMAIN ledger' = DOMAIN ledger,
           \A i \in DOMAIN ledger :
              /\ SameTask(ledger'[i], ledger[i]) /\ ledger'[i].order = ledger[i].order
              /\ ledger[i].order > 0 => ledger'[i].status \in Terminal
              /\ ledger[i].status = "SKIPPED" => ledger'[i].status = "SKIPPED"
    PROVE  AppliedInv'
  <1>1. AppliedCount' = AppliedCount
    BY CountKept
  <1>2. LedgerMatchesResult'
    BY DEF AppliedInv, LedgerMatchesResult, SameTask
  <1>3. AppliedInPlanOrder'
    BY DEF AppliedInv, AppliedInPlanOrder
  <1> QED
    BY <1>1, <1>2, <1>3 DEF AppliedInv

\* One entry more, not applied yet.
LEMMA AppliedAppended ==
    ASSUME TypeOK, AppliedInv, UNCHANGED all,
           NEW e, e.order = 0, ledger' = Append(ledger, e)
    PROVE  AppliedInv'
  <1>0. ledger \in Seq(EntryType)
    BY DEF TypeOK, TasksTyped
  <1>1. AppliedCount' = AppliedCount
    BY <1>0, CountAppended
  <1>2. /\ DOMAIN ledger = 1..Len(ledger) /\ Len(ledger) \in Nat
        /\ DOMAIN ledger' = 1..(Len(ledger) + 1)
        /\ \A i \in DOMAIN ledger : ledger'[i] = ledger[i]
        /\ ledger'[Len(ledger) + 1].order = 0
    BY <1>0
  <1>3. LedgerMatchesResult'
    BY <1>2 DEF AppliedInv, LedgerMatchesResult
  <1>4. AppliedInPlanOrder'
    BY <1>2 DEF AppliedInv, AppliedInPlanOrder
  <1> QED
    BY <1>1, <1>2, <1>3, <1>4 DEF AppliedInv

\* One outcome is applied: everything planned before has been, so nothing
\* planned later has.
LEMMA AppliedFinalized ==
    ASSUME TypeOK, AppliedInv,
           NEW k \in DOMAIN ledger, ledger[k].order = 0, ledger[k].status # "SKIPPED",
           \A i \in DOMAIN ledger : i < k => Settled(i),
           NEW e \in EntryType, SameTask(e, ledger[k]), NEW r, Finalize(k, e, r)
    PROVE  AppliedInv'
  <1> DEFINE n == Len(all) + 1
  <1>0. /\ Len(all) \in Nat /\ DOMAIN all = 1..Len(all)
        /\ \A i \in DOMAIN ledger : ledger[i].order \in Nat /\ i \in Nat
    BY LedgerTyped
  <1>1. /\ DOMAIN ledger' = DOMAIN ledger
        /\ \A i \in DOMAIN ledger \ {k} : ledger'[i] = ledger[i]
        /\ SameTask(ledger'[k], ledger[k]) /\ ledger'[k].order = n
        /\ ledger'[k].status = IF e.status \in Terminal THEN e.status ELSE "COMPLETED"
        /\ Len(all') = n /\ DOMAIN all' = 1..n
        /\ \A i \in DOMAIN all : all'[i] = all[i]
        /\ SameTask(all'[n], ledger[k])
    BY FinalizeFields DEF AppliedInv
  <1>2. AppliedCount' = Len(all')
    <2>1. ledger \in Seq(EntryType)
      BY DEF TypeOK, TasksTyped
    <2> QED
      BY <1>0, <1>1, <2>1, CountApplied DEF AppliedInv
  <1>3. LedgerMatchesResult'
    BY <1>0, <1>1 DEF AppliedInv, LedgerMatchesResult, SameTask
  <1>4. AppliedInPlanOrder'
    <2> SUFFICES ASSUME NEW i \in DOMAIN ledger, NEW j \in DOMAIN ledger, i < j,
                        ledger'[j].order > 0, ledger'[i].status # "SKIPPED"
                 PROVE  0 < ledger'[i].order /\ ledger'[i].order < ledger'[j].order
      BY <1>1 DEF AppliedInPlanOrder
    <2>1. CASE i # k /\ j # k
      BY <1>1, <2>1 DEF AppliedInv, AppliedInPlanOrder
    <2>2. CASE j = k
      <3>1. i # k /\ ledger'[i] = ledger[i]
        BY <1>0, <1>1, <2>2
      <3>2. ledger[i].order > 0
        BY <2>2, <3>1 DEF Settled
      <3>3. ledger[i].order <= Len(all)
        BY <1>0, <3>2 DEF AppliedInv, LedgerMatchesResult
      <3> QED
        BY <1>0, <1>1, <2>2, <3>1, <3>2, <3>3
    <2>3. CASE i = k
      <3>1. j # k /\ ledger[j].order > 0
        BY <1>0, <1>1, <2>3
      <3> QED
        BY <2>3, <3>1 DEF AppliedInv, AppliedInPlanOrder
    <2> QED
      BY <2>1, <2>2, <2>3
  <1>5. \A i \in DOMAIN ledger' : ledger'[i].order > 0 => ledger'[i].status \in Terminal
    BY <1>1 DEF AppliedInv, Terminal
  <1> QED
    BY <1>2, <1>3, <1>4, <1>5 DEF AppliedInv

\* A ledger that only holds the baseline.
LEMMA AppliedFresh ==
    ASSUME NEW e, ledger' = <<e>>,
           \/ e.order = 0 /\ all' = <<>>
           \/ /\ e.order = 1 /\ e.status \in Terminal
              /\ \E c : all' = <<c>> /\ SameTask(e, c)
    PROVE  AppliedInv'
  <1>0. AppliedCount' = IF e.order > 0 THEN 1 ELSE 0
    BY CountFresh
  <1>1. AppliedCount' = Len(all')
    <2>1. CASE e.order = 0 /\ all' = <<>>
      BY <1>0, <2>1
    <2>2. CASE e.order = 1 /\ \E c : all' = <<c>>
      BY <1>0, <2>2
    <2> QED
      BY <2>1, <2>2
  <1>2. LedgerMatchesResult' /\ AppliedInPlanOrder'
    BY DEF LedgerMatchesResult, AppliedInPlanOrder, SameTask
  <1> QED
    BY <1>1, <1>2 DEF AppliedInv

-----------------------------------------------------------------------------
(* The stages of a round, one lemma per group of actions.                  *)

\* The first state of an Optimizer.
LEMMA LedgerInit == Init => LedgerInv
  <1> SUFFICES ASSUME Init PROVE LedgerInv
    OBVIOUS
  <1>0. ledger = <<>> /\ all = <<>> /\ pc = "idle" /\ failure = "none"
    BY DEF Init
  <1>1. AppliedCount = 0
    <2>1. {i \in DOMAIN ledger : ledger[i].order > 0} = {}
      BY <1>0
    <2> QED
      BY <2>1, FS_EmptySet DEF AppliedCount
  <1>2. AppliedInv
    BY <1>0, <1>1 DEF AppliedInv, LedgerMatchesResult, AppliedInPlanOrder
  <1>3. StageInv /\ PlanInv
    BY <1>0 DEF StageInv, PlanInv, Submission, Application
  <1> QED
    BY <1>2, <1>3 DEF LedgerInv

\* Steps that leave the ledger and the candidates leave what is applied.
LEMMA AppliedUnchanged ==
    ASSUME AppliedInv, UNCHANGED <<ledger, all>>
    PROVE  AppliedInv'
  BY DEF AppliedInv, LedgerMatchesResult, AppliedInPlanOrder, AppliedCount

\* A run is opened with the baseline, or closed at once.
LEMMA OpeningStep ==
    ASSUME TypeOK, LedgerInv, BeginRun \/ StartBaseline \/ StartDisabled
    PROVE  LedgerInv'
  <1> USE DEF runVars, budgetVars, envVars, genVars, taskVars, waveVars, poolVars, resultVars,
              Submission, Application
  <1>1. CASE BeginRun
    <2>1. UNCHANGED <<ledger, all>> /\ pc' = "resetting"
      BY <1>1 DEF BeginRun
    <2>2. StageInv' /\ PlanInv'
      BY <2>1 DEF StageInv, PlanInv
    <2> QED
      BY <2>1, <2>2, AppliedUnchanged DEF LedgerInv
  <1>2. CASE StartBaseline
    <2> DEFINE e == Entry(0, BaselineSet, "RUNNING", "ADMITTED", "SUBMITTED")
    <2>0. e.id = 0 /\ e.cset = BaselineSet
      BY DEF Entry
    <2>1. e.order = 0 /\ e.status = "RUNNING"
      BY DEF Entry
    <2>2. ledger' = <<e>> /\ all' = <<>> /\ pc' = "baseline" /\ failure' = "none"
      BY <1>2 DEF StartBaseline, FreshRun
    <2> HIDE DEF e
    <2>3. AppliedInv'
      BY <2>1, <2>2, AppliedFresh
    <2>4. StageInv' /\ PlanInv'
      BY <2>0, <2>1, <2>2 DEF StageInv, PlanInv, Unsettled, Expected
    <2> QED
      BY <2>3, <2>4 DEF LedgerInv
  <1>3. CASE StartDisabled
    <2> DEFINE o == Entry(0, BaselineSet, "PLANNED", "PENDING", "NOT_SUBMITTED")
               c == Candidate(0, BaselineSet, NotRun)
               b == Closed(o, "BLOCKED")
               e == Applied(b, c, 1)
    <2>1. o \in EntryType /\ SameTask(o, c)
      BY EntryTyped, OptimizerAssumption DEF Entry, Candidate, SameTask
    <2>2. b \in EntryType /\ SameTask(b, o) /\ b.status = "BLOCKED"
      BY <2>1, ClosedTyped, ClosedFields DEF Terminal
    <2> HIDE DEF o, b
    <2>3. SameTask(e, b) /\ e.order = 1 /\ e.status = "BLOCKED"
      BY <2>2, AppliedFields DEF Terminal
    <2>4. ledger' = <<e>> /\ all' = <<c>> /\ pc' = "done"
      BY <1>3 DEF StartDisabled, o, b
    <2>5. SameTask(e, c)
      BY <2>1, <2>2, <2>3 DEF SameTask
    <2> HIDE DEF c, e
    <2>6. AppliedInv'
      BY <2>3, <2>4, <2>5, AppliedFresh DEF Terminal
    <2>7. StageInv' /\ PlanInv'
      BY <2>3, <2>4 DEF StageInv, PlanInv, Settled, Terminal
    <2> QED
      BY <2>6, <2>7 DEF LedgerInv
  <1> QED
    BY <1>1, <1>2, <1>3

\* The baseline is applied first.
LEMMA BaselineStep ==
    ASSUME TypeOK, LedgerInv, NEW r \in Results, BaselineDone(r)
    PROVE  LedgerInv'
  <1> USE DEF runVars, budgetVars, envVars, genVars, taskVars, waveVars, poolVars, resultVars,
              Submission, Application
  <1> DEFINE c == Candidate(0, BaselineSet, r)
             b == IF r.error THEN Closed(ledger[1], "FAILED") ELSE ledger[1]
             e == Applied(b, c, 1)
  <1>1. /\ pc = "baseline" /\ all' = <<c>> /\ ledger' = <<e>>
        /\ pc' \in {"done", "head"} /\ UNCHANGED failure
    BY DEF BaselineDone
  <1>2. ledger[1] \in EntryType /\ ledger[1].status = "RUNNING"
    <2>0. Len(ledger) = 1
      BY <1>1 DEF TypeOK, TasksTyped
    <2>1. 1 \in DOMAIN ledger /\ ledger[1] \in EntryType
      BY <2>0, LedgerTyped
    <2>2. 1 \in Unsettled /\ Expected(1) = {"RUNNING"}
      BY <1>1 DEF Unsettled, Expected
    <2> QED
      BY <1>1, <2>1, <2>2 DEF LedgerInv, StageInv
  <1>3. b \in EntryType /\ b.status \in {"FAILED", "RUNNING"} /\ SameTask(b, ledger[1])
    BY <1>2, ClosedTyped, ClosedFields DEF Terminal, SameTask
  <1> HIDE DEF b
  <1>4. e.order = 1 /\ e.status \in {"FAILED", "COMPLETED"} /\ SameTask(e, b)
    BY <1>3, AppliedFields DEF Terminal
  <1>5. SameTask(ledger[1], c)
    BY <1>1 DEF LedgerInv, PlanInv, Candidate, SameTask
  <1> HIDE DEF c, e
  <1>6. AppliedInv'
    <2>1. SameTask(e, c)
      BY <1>3, <1>4, <1>5 DEF SameTask
    <2> QED
      BY <1>1, <1>4, <2>1, AppliedFresh DEF Terminal
  <1>7. StageInv'
    BY <1>1, <1>4 DEF StageInv, Unsettled, Settled, Terminal
  <1>8. PlanInv'
    BY <1>1 DEF LedgerInv, PlanInv
  <1> QED
    BY <1>6, <1>7, <1>8 DEF LedgerInv

\* Rounds begin and end, parents are expanded: the ledger is left alone.
LEMMA RoundStep ==
    ASSUME TypeOK, LedgerInv,
           StartRound \/ EndSearch \/ ExpandParent \/ EndParent \/ SkipKnown
           \/ EndExpansion \/ Record \/ Select
    PROVE  LedgerInv'
  <1> USE DEF runVars, budgetVars, envVars, genVars, taskVars, waveVars, poolVars, resultVars,
              Submission, Application
  <1>0. /\ Len(ledger) \in Nat /\ DOMAIN ledger = 1..Len(ledger)
        /\ taskFrom \in Nat \ {0} /\ taskTo \in Nat /\ workers \in Nat \ {0}
    BY LedgerTyped
  <1>1. UNCHANGED <<ledger, all>>
    BY DEF StartRound, EndSearch, ExpandParent, EndParent, SkipKnown, EndExpansion, Record, Select
  <1>2. AppliedInv'
    BY <1>1, AppliedUnchanged DEF LedgerInv
  <1>3. CASE StartRound
    <2>1. /\ pc = "head" /\ pc' = "expand" /\ UNCHANGED <<workers, failure>>
          /\ taskFrom' = Len(ledger) + 1 /\ taskTo' = Len(ledger)
      BY <1>3 DEF StartRound
    <2>2. StageInv'
      BY <1>0, <1>1, <2>1 DEF LedgerInv, StageInv, Unsettled, Settled, Tasks
    <2>3. PlanInv'
      BY <1>0, <1>1, <2>1 DEF LedgerInv, PlanInv
    <2> QED
      BY <1>2, <2>2, <2>3 DEF LedgerInv
  <1>4. CASE ExpandParent \/ EndParent \/ SkipKnown
    <2>1. /\ pc \in {"expand", "children"} /\ pc' \in {"expand", "children"}
          /\ UNCHANGED <<workers, failure, taskFrom, taskTo>>
      BY <1>4 DEF ExpandParent, EndParent, SkipKnown
    <2>2. StageInv'
      BY <1>0, <1>1, <2>1 DEF LedgerInv, StageInv, Unsettled, Expected, Settled, Tasks
    <2>3. PlanInv'
      BY <1>0, <1>1, <2>1 DEF LedgerInv, PlanInv
    <2> QED
      BY <1>2, <2>2, <2>3 DEF LedgerInv
  <1>5. CASE EndExpansion
    <2>1. /\ pc = "expand" /\ pc' = IF workers = 1 \/ Planned = 0 THEN "record" ELSE "dispatch"
          /\ UNCHANGED <<workers, failure, taskFrom, taskTo>>
      BY <1>5 DEF EndExpansion
    <2>2. taskTo = IF workers = 1 THEN taskFrom - 1 ELSE Len(ledger)
      BY <2>1 DEF LedgerInv, PlanInv
    <2>3. pc' = "record" => Tasks = {}
      <3> SUFFICES ASSUME pc' = "record" PROVE taskTo < taskFrom
        BY <1>0 DEF Tasks
      <3>1. workers = 1 \/ Planned = 0
        BY <2>1
      <3>2. Planned = 0 => taskTo < taskFrom
        BY <1>0 DEF Planned
      <3>3. workers = 1 => taskTo < taskFrom
        BY <1>0, <2>2
      <3> QED
        BY <3>1, <3>2, <3>3
    <2>4. \A i \in DOMAIN ledger :
             IF i \in Tasks THEN ledger[i].order = 0 /\ ledger[i].status = "ADMITTED"
             ELSE Settled(i)
      BY <2>1 DEF LedgerInv, StageInv, Unsettled, Expected
    <2>5. CASE pc' = "record"
      <3>1. StageInv'
        BY <1>1, <2>3, <2>4, <2>5 DEF StageInv, Unsettled, Settled
      <3>2. PlanInv'
        BY <2>5 DEF PlanInv
      <3> QED
        BY <1>2, <3>1, <3>2 DEF LedgerInv
    <2>6. CASE pc' = "dispatch"
      <3>1. StageInv'
        BY <1>1, <2>1, <2>4, <2>6 DEF StageInv, Unsettled, Expected, Settled, Tasks
      <3>2. failure = "none" /\ workers # 1 /\ taskTo = Len(ledger)
        BY <2>1, <2>2, <2>6 DEF LedgerInv, PlanInv
      <3>3. PlanInv'
        BY <1>0, <1>1, <2>1, <2>6, <3>2 DEF PlanInv
      <3> QED
        BY <1>2, <3>1, <3>3 DEF LedgerInv
    <2> QED
      BY <2>1, <2>5, <2>6
  <1>6. CASE EndSearch \/ Record \/ Select
    <2>1. /\ pc \in {"head", "record", "select"} /\ pc' \in {"head", "select", "done"}
          /\ UNCHANGED <<workers, failure>>
          /\ pc' = "head" => failure = "none"
      BY <1>6 DEF EndSearch, Record, Select
    <2>2. \A i \in DOMAIN ledger : Settled(i)
      BY <2>1 DEF LedgerInv, StageInv, Unsettled
    <2>3. \A i \in DOMAIN ledger : ledger[i].status \in Terminal
      BY <2>2 DEF LedgerInv, AppliedInv, Settled, Terminal
    <2>4. StageInv'
      BY <1>1, <2>1, <2>2, <2>3 DEF StageInv, Unsettled, Settled
    <2>5. PlanInv'
      BY <1>1, <2>1 DEF LedgerInv, PlanInv
    <2> QED
      BY <1>2, <2>4, <2>5 DEF LedgerInv
  <1> QED
    BY <1>3, <1>4, <1>5, <1>6

\* The serial loop runs one candidate at a time and applies it at once.
LEMMA SerialStep ==
    ASSUME TypeOK, LedgerInv, EvaluateDirect \/ \E r \in Results : DirectDone(r)
    PROVE  LedgerInv'
  <1> USE DEF runVars, budgetVars, envVars, genVars, taskVars, waveVars, poolVars, resultVars,
              Submission, Application
  <1>0. /\ Len(ledger) \in Nat /\ DOMAIN ledger = 1..Len(ledger)
        /\ ledger \in Seq(EntryType)
        /\ taskFrom \in Nat \ {0} /\ taskTo \in Nat
    BY LedgerTyped DEF TasksTyped
  <1>1. CASE EvaluateDirect
    <2> DEFINE e == Entry(Child.id, Child.cset, "RUNNING", "ADMITTED", "SUBMITTED")
    <2>1. e.order = 0 /\ e.status = "RUNNING"
      BY DEF Entry
    <2>2. /\ ledger' = Append(ledger, e) /\ workers = 1
          /\ pc = "children" /\ pc' = "evaluating"
          /\ UNCHANGED <<all, workers, failure, taskFrom, taskTo>>
      BY <1>1 DEF EvaluateDirect, Fresh
    <2> HIDE DEF e
    <2>3. /\ DOMAIN ledger' = 1..(Len(ledger) + 1) /\ Len(ledger') = Len(ledger) + 1
          /\ \A i \in DOMAIN ledger : ledger'[i] = ledger[i]
          /\ ledger'[Len(ledger) + 1] = e
      BY <1>0, <2>2
    <2>4. AppliedInv'
      BY <2>1, <2>2, AppliedAppended DEF LedgerInv
    <2>5. taskTo = taskFrom - 1 /\ Tasks = {}
      BY <1>0, <2>2 DEF LedgerInv, PlanInv, Tasks
    <2>6. StageInv'
      BY <1>0, <2>1, <2>2, <2>3, <2>5 DEF LedgerInv, StageInv, Unsettled, Expected, Settled
    <2>7. PlanInv'
      BY <2>2, <2>5 DEF LedgerInv, PlanInv
    <2> QED
      BY <2>4, <2>6, <2>7 DEF LedgerInv
  <1>2. ASSUME NEW r \in Results, DirectDone(r)  PROVE LedgerInv'
    <2> DEFINE k == Len(ledger)
               e == IF r.error THEN Closed(ledger[k], "FAILED") ELSE ledger[k]
    <2>1. /\ Finalize(k, e, r) /\ k \in DOMAIN ledger
          /\ pc = "evaluating" /\ pc' = "children"
          /\ UNCHANGED <<workers, failure, taskFrom, taskTo>>
      BY <1>0, <1>2 DEF DirectDone, TypeOK, TasksTyped
    <2>2. /\ ledger[k].order = 0 /\ ledger[k].status = "RUNNING" /\ ledger[k] \in EntryType
          /\ \A i \in DOMAIN ledger : i # k => Settled(i)
      BY <1>0, <2>1 DEF LedgerInv, StageInv, Unsettled, Expected
    <2>3. e \in EntryType /\ SameTask(e, ledger[k])
      BY <2>2, ClosedTyped, ClosedFields DEF SameTask, Terminal
    <2> HIDE DEF e
    <2>4. AppliedInv'
      <3>1. \A i \in DOMAIN ledger : i < k => Settled(i)
        BY <1>0, <2>2
      <3> HIDE DEF k
      <3> QED
        BY <2>1, <2>2, <2>3, <3>1, AppliedFinalized DEF LedgerInv
    <2>5. /\ DOMAIN ledger' = DOMAIN ledger
          /\ \A i \in DOMAIN ledger \ {k} : ledger'[i] = ledger[i]
          /\ ledger'[k].order = Len(all) + 1 /\ Len(all) \in Nat
      <3> HIDE DEF k
      <3> QED
        BY <2>1, <2>3, FinalizeFields, LedgerTyped DEF LedgerInv, AppliedInv
    <2>6. taskTo = taskFrom - 1 /\ Tasks = {} /\ workers = 1
      BY <1>0, <2>1 DEF LedgerInv, PlanInv, Tasks
    <2>7. StageInv'
      BY <1>0, <2>1, <2>2, <2>5, <2>6 DEF StageInv, Unsettled, Settled, Tasks
    <2>8. PlanInv'
      BY <2>1, <2>6 DEF LedgerInv, PlanInv
    <2> QED
      BY <2>4, <2>7, <2>8 DEF LedgerInv
  <1> QED
    BY <1>1, <1>2

\* Tasks are planned up to the budget; one more may be refused.
LEMMA PlanningStep ==
    ASSUME TypeOK, LedgerInv, PlanTask \/ RefuseTask
    PROVE  LedgerInv'
  <1> USE DEF runVars, budgetVars, envVars, genVars, taskVars, waveVars, poolVars, resultVars,
              Submission, Application
  <1>0. /\ Len(ledger) \in Nat /\ DOMAIN ledger = 1..Len(ledger)
        /\ ledger \in Seq(EntryType)
        /\ taskFrom \in Nat \ {0} /\ taskTo \in Nat /\ workers \in Nat \ {0}
        /\ taskFrom <= taskTo + 1
    BY LedgerTyped DEF TasksTyped
  <1>1. CASE PlanTask
    <2> DEFINE e == Entry(Child.id, Child.cset, "ADMITTED", "ADMITTED", "NOT_SUBMITTED")
    <2>1. e.order = 0 /\ e.status = "ADMITTED"
      BY DEF Entry
    <2>2. /\ ledger' = Append(ledger, e) /\ workers # 1
          /\ pc = "children" /\ pc' \in {"children", "dispatch"} /\ taskTo' = taskTo + 1
          /\ UNCHANGED <<all, workers, failure, taskFrom>>
      BY <1>0, <1>1 DEF PlanTask, Fresh
    <2> HIDE DEF e
    <2>3. /\ DOMAIN ledger' = 1..(Len(ledger) + 1) /\ Len(ledger') = Len(ledger) + 1
          /\ \A i \in DOMAIN ledger : ledger'[i] = ledger[i]
          /\ ledger'[Len(ledger) + 1] = e
      BY <1>0, <2>2
    <2>4. AppliedInv'
      BY <2>1, <2>2, AppliedAppended DEF LedgerInv
    <2>5. taskTo = Len(ledger)
      BY <2>2 DEF LedgerInv, PlanInv
    <2>6. \A i \in DOMAIN ledger :
             IF i \in Tasks THEN ledger[i].order = 0 /\ ledger[i].status = "ADMITTED"
             ELSE Settled(i)
      BY <2>2 DEF LedgerInv, StageInv, Unsettled, Expected
    <2>7. StageInv'
      <3>1. \A i \in DOMAIN ledger : i \in Tasks <=> i \in Tasks'
        BY <1>0, <2>2, <2>5 DEF Tasks
      <3>2. Len(ledger) + 1 \in Tasks'
        BY <1>0, <2>2, <2>5 DEF Tasks
      <3>3. \A i \in DOMAIN ledger' :
               IF i \in Tasks' THEN ledger'[i].order = 0 /\ ledger'[i].status = "ADMITTED"
               ELSE Settled(i)'
        BY <1>0, <2>1, <2>3, <2>6, <3>1, <3>2 DEF Settled
      <3> QED
        BY <2>2, <3>3 DEF StageInv, Unsettled, Expected
    <2>8. PlanInv'
      BY <1>0, <2>2, <2>3, <2>5 DEF LedgerInv, PlanInv
    <2> QED
      BY <2>4, <2>7, <2>8 DEF LedgerInv
  <1>2. CASE RefuseTask
    <2> DEFINE o == Entry(Child.id, Child.cset, "PLANNED", "NOT_ADMITTED", "NOT_SUBMITTED")
               e == Closed(o, "SKIPPED")
    <2>1. e.order = 0 /\ e.status = "SKIPPED"
      BY DEF Entry, Closed
    <2>2. /\ ledger' = Append(ledger, e) /\ workers # 1
          /\ pc = "children" /\ pc' = IF Planned = 0 THEN "record" ELSE "dispatch"
          /\ UNCHANGED <<all, workers, failure, taskFrom, taskTo>>
      BY <1>0, <1>2 DEF RefuseTask, Fresh
    <2> HIDE DEF o, e
    <2>3. /\ DOMAIN ledger' = 1..(Len(ledger) + 1) /\ Len(ledger') = Len(ledger) + 1
          /\ \A i \in DOMAIN ledger : ledger'[i] = ledger[i]
          /\ ledger'[Len(ledger) + 1] = e
      BY <1>0, <2>2
    <2>4. AppliedInv'
      BY <2>1, <2>2, AppliedAppended DEF LedgerInv
    <2>5. taskTo = Len(ledger) /\ failure = "none"
      BY <2>2 DEF LedgerInv, PlanInv
    <2>6. \A i \in DOMAIN ledger :
             IF i \in Tasks THEN ledger[i].order = 0 /\ ledger[i].status = "ADMITTED"
             ELSE Settled(i)
      BY <2>2 DEF LedgerInv, StageInv, Unsettled, Expected
    <2>7. \A i \in DOMAIN ledger' :
             IF i \in Tasks THEN ledger'[i].order = 0 /\ ledger'[i].status = "ADMITTED"
             ELSE Settled(i)'
      BY <1>0, <2>1, <2>3, <2>5, <2>6 DEF Settled, Tasks
    <2>8. Tasks' = Tasks
      BY <2>2 DEF Tasks
    <2>9. CASE pc' = "record"
      <3>1. Planned = 0
        BY <2>2, <2>9
      <3>2. Tasks = {}
        BY <1>0, <3>1 DEF Planned, Tasks
      <3>3. StageInv'
        BY <2>7, <2>9, <3>2 DEF StageInv, Unsettled
      <3>4. PlanInv'
        BY <2>9 DEF PlanInv
      <3> QED
        BY <2>4, <3>3, <3>4 DEF LedgerInv
    <2>10. CASE pc' = "dispatch"
      <3>1. StageInv'
        BY <2>7, <2>8, <2>10 DEF StageInv, Unsettled, Expected
      <3>2. PlanInv'
        BY <1>0, <2>1, <2>2, <2>3, <2>5, <2>10 DEF PlanInv
      <3> QED
        BY <2>4, <3>1, <3>2 DEF LedgerInv
    <2> QED
      BY <2>2, <2>9, <2>10
  <1> QED
    BY <1>1, <1>2

\* Waves are started, submitted and collected; failures close what is left.
LEMMA WaveStep ==
    ASSUME TypeOK, LedgerInv,
           OpenPool \/ PoolFails \/ StartWave \/ StopAtDeadline \/ EndWaves
           \/ Submit \/ SubmitFails \/ WaveSubmitted \/ CollectWave
    PROVE  LedgerInv'
  <1> USE DEF runVars, budgetVars, envVars, genVars, taskVars, waveVars, poolVars, resultVars,
              Submission, Application
  <1>0. /\ Len(ledger) \in Nat /\ DOMAIN ledger = 1..Len(ledger)
        /\ \A i \in DOMAIN ledger : ledger[i] \in EntryType /\ i \in Nat
        /\ taskFrom \in Nat \ {0} /\ taskTo \in Nat /\ taskFrom <= taskTo + 1
        /\ taskTo <= Len(ledger) /\ cursor \in Nat \ {0}
        /\ pc \in Submission => taskFrom <= cursor
        /\ pc = "submit" => waveEnd <= taskTo
        /\ waveEnd \in Nat
    BY LedgerTyped DEF TasksTyped
  <1>1. /\ UNCHANGED <<workers, all, taskFrom, taskTo>>
        /\ pc \in {"dispatch"} \cup Submission
        /\ pc' \in Submission \cup {"apply"}
    BY DEF OpenPool, PoolFails, StartWave, StopAtDeadline, EndWaves, Submit, SubmitFails,
           WaveSubmitted, CollectWave
  <1>2. /\ workers # 1
        /\ \A i \in DOMAIN ledger : i > taskTo => ledger[i].order = 0
    BY <1>1 DEF LedgerInv, PlanInv
  <1>3. \A i \in DOMAIN ledger :
           IF i \in Tasks THEN ledger[i].order = 0 /\ ledger[i].status \in Expected(i)
           ELSE Settled(i)
    BY <1>1 DEF LedgerInv, StageInv, Unsettled
  <1>4. \A i \in DOMAIN ledger : i \in Tasks => ledger[i].status # "SKIPPED"
    BY <1>1, <1>3 DEF Expected
  <1>5. Tasks' = Tasks /\ Tasks \subseteq DOMAIN ledger
    BY <1>0, <1>1 DEF Tasks
  \* The part of the invariant that speaks of applied entries.
  <1>6. ASSUME DOMAIN ledger' = DOMAIN ledger,
               \A i \in DOMAIN ledger :
                  /\ SameTask(ledger'[i], ledger[i]) /\ ledger'[i].order = ledger[i].order
                  /\ i \notin Tasks => ledger'[i].status = ledger[i].status
        PROVE  /\ AppliedInv'
               /\ \A i \in DOMAIN ledger' : i \notin Tasks => Settled(i)'
    <2>1. \A i \in DOMAIN ledger :
             /\ ledger[i].order > 0 => ledger'[i].status \in Terminal
             /\ ledger[i].status = "SKIPPED" => ledger'[i].status = "SKIPPED"
      BY <1>3, <1>4, <1>6 DEF LedgerInv, AppliedInv
    <2> QED
      BY <1>1, <1>3, <1>6, <2>1, AppliedRestated DEF LedgerInv, Settled
  \* A step that ends the waves, and one that goes on with them.
  <1>7. ASSUME DOMAIN ledger' = DOMAIN ledger,
               \A i \in DOMAIN ledger :
                  /\ SameTask(ledger'[i], ledger[i]) /\ ledger'[i].order = ledger[i].order
                  /\ i \notin Tasks => ledger'[i].status = ledger[i].status,
               pc' = "apply", cursor' = taskFrom,
               \A i \in Tasks : ledger'[i].status \in {"SUBMITTED"} \cup Terminal,
               \A i, j \in Tasks :
                  i < j /\ ledger'[i].status = "SKIPPED" => ledger'[j].status = "SKIPPED"
        PROVE  LedgerInv'
    <2>1. AppliedInv' /\ \A i \in DOMAIN ledger' : i \notin Tasks => Settled(i)'
      BY <1>6, <1>7
    <2>2. \A i \in Tasks : ledger'[i].order = 0
      BY <1>3, <1>5, <1>7
    <2>3. (cursor..taskTo)' = Tasks /\ cursor' <= taskTo' + 1
      BY <1>0, <1>1, <1>7 DEF Tasks
    <2>4. StageInv'
      BY <1>5, <1>7, <2>1, <2>2, <2>3 DEF StageInv, Unsettled, Expected
    <2>5. PlanInv'
      BY <1>1, <1>2, <1>5, <1>7, <2>3 DEF PlanInv
    <2> QED
      BY <2>1, <2>4, <2>5 DEF LedgerInv
  <1>8. ASSUME DOMAIN ledger' = DOMAIN ledger,
               \A i \in DOMAIN ledger :
                  /\ SameTask(ledger'[i], ledger[i]) /\ ledger'[i].order = ledger[i].order
                  /\ i \notin Tasks => ledger'[i].status = ledger[i].status,
               pc' \in Submission,
               pc' # "collect" => failure' = "none", failure' # "executor_creation",
               \A i \in Tasks : ledger'[i].status \in Expected(i)'
        PROVE  LedgerInv'
    <2>1. AppliedInv' /\ \A i \in DOMAIN ledger' : i \notin Tasks => Settled(i)'
      BY <1>6, <1>8
    <2>2. \A i \in Tasks : ledger'[i].order = 0
      BY <1>3, <1>5, <1>8
    <2>4. StageInv'
      BY <1>5, <1>8, <2>1, <2>2 DEF StageInv, Unsettled
    <2>5. PlanInv'
      BY <1>1, <1>2, <1>8 DEF PlanInv
    <2> QED
      BY <2>1, <2>4, <2>5 DEF LedgerInv
  <1>9. pc \in {"dispatch", "wave", "submit"} => failure = "none"
    BY DEF LedgerInv, PlanInv
  <1>10. CASE OpenPool
    <2>1. /\ pc = "dispatch" /\ pc' = "wave" /\ cursor' = taskFrom /\ UNCHANGED <<ledger, failure>>
      BY <1>10 DEF OpenPool
    <2>2. \A i \in Tasks : ledger'[i].status \in Expected(i)'
      BY <1>0, <1>3, <1>5, <1>9, <2>1 DEF Expected, Tasks
    <2> QED
      BY <1>8, <1>9, <2>1, <2>2 DEF SameTask
  <1>11. CASE PoolFails \/ StopAtDeadline
    <2> DEFINE k == IF pc = "dispatch" THEN taskFrom ELSE cursor
               status == IF pc = "dispatch" THEN "BLOCKED" ELSE "SKIPPED"
    <2>1. /\ pc \in {"dispatch", "wave"} /\ pc' = "apply" /\ cursor' = taskFrom
          /\ ledger' = CloseFrom(k, status)
      BY <1>11 DEF PoolFails, StopAtDeadline
    <2>2. k \in Nat /\ taskFrom <= k /\ status \in {"BLOCKED", "SKIPPED"}
      BY <1>0, <2>1
    <2>3. /\ pc = "wave" => \A i \in Tasks : i < k => ledger[i].status = "SUBMITTED"
          /\ pc = "dispatch" => k = taskFrom
      BY <1>3, <1>5, <2>1 DEF Expected
    <2> HIDE DEF k, status
    <2>4. /\ DOMAIN ledger' = DOMAIN ledger
          /\ \A i \in DOMAIN ledger :
                /\ SameTask(ledger'[i], ledger[i]) /\ ledger'[i].order = ledger[i].order
                /\ ledger'[i].status = IF i \in k..taskTo THEN status ELSE ledger[i].status
      BY <1>0, <2>1, CloseFromFields
    <2>5. \A i \in DOMAIN ledger : i \notin Tasks => ledger'[i].status = ledger[i].status
      BY <1>0, <2>2, <2>4 DEF Tasks
    <2>6. \A i \in Tasks : IF i < k THEN ledger'[i].status = "SUBMITTED"
                           ELSE ledger'[i].status = status
      BY <1>0, <1>5, <2>1, <2>2, <2>3, <2>4 DEF Tasks
    <2>7. \A i \in Tasks : ledger'[i].status \in {"SUBMITTED"} \cup Terminal
      BY <2>2, <2>6 DEF Terminal
    <2>8. \A i, j \in Tasks :
             i < j /\ ledger'[i].status = "SKIPPED" => ledger'[j].status = "SKIPPED"
      BY <1>0, <2>2, <2>6 DEF Tasks
    <2> QED
      BY <1>7, <2>1, <2>4, <2>5, <2>7, <2>8
  <1>12. CASE StartWave
    <2>1. pc = "wave" /\ pc' = "submit" /\ UNCHANGED <<ledger, cursor, failure>>
      BY <1>12 DEF StartWave
    <2>2. \A i \in Tasks : ledger'[i].status \in Expected(i)'
      BY <1>3, <1>5, <2>1 DEF Expected
    <2> QED
      BY <1>8, <1>9, <2>1, <2>2 DEF SameTask
  <1>13. CASE EndWaves
    <2>1. pc = "wave" /\ pc' = "apply" /\ cursor' = taskFrom /\ cursor > taskTo /\ UNCHANGED ledger
      BY <1>13 DEF EndWaves
    <2>2. \A i \in Tasks : ledger'[i].status = "SUBMITTED"
      BY <1>0, <1>3, <1>5, <2>1 DEF Expected, Tasks
    <2> QED
      BY <1>7, <2>1, <2>2 DEF SameTask
  <1>14. CASE Submit
    <2>1. /\ pc = "submit" /\ pc' = "submit" /\ cursor' = cursor + 1 /\ cursor <= waveEnd
          /\ ledger' = [ledger EXCEPT ![cursor].status = "SUBMITTED",
                                      ![cursor].sub = "SUBMITTED"]
          /\ UNCHANGED failure
      BY <1>14 DEF Submit
    <2>2. cursor \in Tasks
      BY <1>0, <2>1 DEF Tasks
    <2>3. /\ DOMAIN ledger' = DOMAIN ledger
          /\ \A i \in DOMAIN ledger \ {cursor} : ledger'[i] = ledger[i]
          /\ SameTask(ledger'[cursor], ledger[cursor])
          /\ ledger'[cursor].order = ledger[cursor].order
          /\ ledger'[cursor].status = "SUBMITTED"
      BY <1>0, <1>5, <2>1, <2>2 DEF SameTask, EntryType
    <2>4. \A i \in Tasks : ledger'[i].status \in Expected(i)'
      <3>1. \A i \in Tasks : i \in Nat /\ (i < cursor + 1 <=> i < cursor \/ i = cursor)
        BY <1>0 DEF Tasks
      <3>2. \A i \in Tasks : Expected(i)' = IF i < cursor + 1 THEN {"SUBMITTED"} ELSE {"ADMITTED"}
        BY <1>9, <2>1 DEF Expected
      <3>3. \A i \in Tasks : i # cursor =>
               ledger[i].status \in IF i < cursor THEN {"SUBMITTED"} ELSE {"ADMITTED"}
        BY <1>3, <1>5, <2>1 DEF Expected
      <3> QED
        BY <1>5, <2>3, <3>1, <3>2, <3>3
    <2>5. \A i \in DOMAIN ledger :
             /\ SameTask(ledger'[i], ledger[i]) /\ ledger'[i].order = ledger[i].order
             /\ i \notin Tasks => ledger'[i].status = ledger[i].status
      BY <2>2, <2>3 DEF SameTask
    <2> QED
      BY <1>8, <1>9, <2>1, <2>3, <2>4, <2>5
  <1>15. CASE SubmitFails
    <2>1. /\ pc = "submit" /\ pc' = "collect" /\ cursor' = cursor /\ cursor <= waveEnd
          /\ ledger' = [ledger EXCEPT ![cursor] = [Closed(@, "BLOCKED") EXCEPT !.sub = "FAILED"]]
          /\ failure' = "executor_submission"
      BY <1>15 DEF SubmitFails
    <2>2. cursor \in Tasks /\ ledger[cursor] \in EntryType
      BY <1>0, <1>5, <2>1 DEF Tasks
    <2>3. /\ DOMAIN ledger' = DOMAIN ledger
          /\ \A i \in DOMAIN ledger \ {cursor} : ledger'[i] = ledger[i]
          /\ SameTask(ledger'[cursor], ledger[cursor])
          /\ ledger'[cursor].order = ledger[cursor].order
          /\ ledger'[cursor].status = "BLOCKED"
      BY <1>0, <1>5, <2>1, <2>2 DEF SameTask, EntryType, Closed
    <2>4. \A i \in Tasks : ledger'[i].status \in Expected(i)'
      <3>1. \A i \in Tasks : i \in Nat
        BY <1>0 DEF Tasks
      <3>2. \A i \in Tasks : Expected(i)' = IF i < cursor THEN {"SUBMITTED"}
                                            ELSE IF i = cursor THEN {"BLOCKED"} ELSE {"ADMITTED"}
        BY <2>1 DEF Expected
      <3>3. \A i \in Tasks : i # cursor =>
               ledger[i].status \in IF i < cursor THEN {"SUBMITTED"} ELSE {"ADMITTED"}
        BY <1>3, <1>5, <2>1 DEF Expected
      <3>4. ~(cursor < cursor)
        BY <1>0
      <3> QED
        BY <1>5, <2>3, <3>1, <3>2, <3>3, <3>4
    <2>5. \A i \in DOMAIN ledger :
             /\ SameTask(ledger'[i], ledger[i]) /\ ledger'[i].order = ledger[i].order
             /\ i \notin Tasks => ledger'[i].status = ledger[i].status
      BY <2>2, <2>3 DEF SameTask
    <2> QED
      BY <1>8, <2>1, <2>3, <2>4, <2>5
  <1>16. CASE WaveSubmitted
    <2>1. pc = "submit" /\ pc' = "collect" /\ UNCHANGED <<ledger, cursor, failure>>
      BY <1>16 DEF WaveSubmitted
    <2>2. \A i \in Tasks : ledger'[i].status \in Expected(i)'
      BY <1>3, <1>5, <2>1 DEF Expected
    <2> QED
      BY <1>8, <1>9, <2>1, <2>2 DEF SameTask
  <1>17. CASE CollectWave
    <2>0. failure \in {"none", "executor_submission"}
      BY <1>17, LedgerTyped DEF CollectWave, LedgerInv, PlanInv, RunTyped
    <2>1. CASE failure = "none"
      <3>1. pc = "collect" /\ pc' = "wave" /\ UNCHANGED <<ledger, cursor, failure>>
        BY <1>17, <2>1 DEF CollectWave
      <3>2. \A i \in Tasks : ledger'[i].status \in Expected(i)'
        BY <1>3, <1>5, <3>1 DEF Expected
      <3> QED
        BY <1>8, <2>1, <3>1, <3>2 DEF SameTask
    <2>2. CASE failure = "executor_submission"
      <3>1. /\ pc = "collect" /\ pc' = "apply" /\ cursor' = taskFrom
            /\ ledger' = CloseFrom(cursor + 1, "CANCELLED")
        BY <1>17, <2>2 DEF CollectWave
      <3>2. /\ DOMAIN ledger' = DOMAIN ledger
            /\ \A i \in DOMAIN ledger :
                  /\ SameTask(ledger'[i], ledger[i]) /\ ledger'[i].order = ledger[i].order
                  /\ ledger'[i].status = IF i \in (cursor + 1)..taskTo THEN "CANCELLED"
                                         ELSE ledger[i].status
        BY <1>0, <3>1, CloseFromFields
      <3>3. \A i \in DOMAIN ledger : i \notin Tasks => ledger'[i].status = ledger[i].status
        BY <1>0, <3>1, <3>2 DEF Tasks
      <3>4. \A i \in Tasks : ledger[i].status \in IF i < cursor THEN {"SUBMITTED"}
                                ELSE IF i = cursor THEN {"BLOCKED"} ELSE {"ADMITTED"}
        BY <1>3, <1>5, <2>2, <3>1 DEF Expected
      <3>5. \A i \in Tasks : ledger'[i].status \in {"SUBMITTED", "BLOCKED", "CANCELLED"}
        <4>1. \A i \in Tasks : i \in (cursor + 1)..taskTo \/ i < cursor \/ i = cursor
          BY <1>0, <3>1 DEF Tasks
        <4> QED
          BY <1>0, <1>5, <3>2, <3>4, <4>1
      <3> QED
        BY <1>7, <3>1, <3>2, <3>3, <3>5 DEF Terminal
    <2> QED
      BY <2>0, <2>1, <2>2
  <1> QED
    BY <1>10, <1>11, <1>12, <1>13, <1>14, <1>15, <1>16, <1>17

\* Outcomes are observed and applied one by one, up to the first task the
\* deadline skipped.
LEMMA ApplyStep ==
    ASSUME TypeOK, LedgerInv, Observe \/ Settle \/ EndApply
    PROVE  LedgerInv'
  <1> USE DEF runVars, budgetVars, envVars, genVars, taskVars, waveVars, poolVars, resultVars,
              Submission, Application
  <1>0. /\ Len(ledger) \in Nat /\ DOMAIN ledger = 1..Len(ledger)
        /\ \A i \in DOMAIN ledger : ledger[i] \in EntryType /\ i \in Nat
        /\ taskFrom \in Nat \ {0} /\ taskTo \in Nat /\ taskFrom <= taskTo + 1
        /\ taskTo <= Len(ledger) /\ cursor \in Nat \ {0}
        /\ pc \in Application => taskFrom <= cursor
        /\ pc = "settle" => cursor <= taskTo
    BY LedgerTyped DEF TasksTyped
  <1>1. /\ UNCHANGED <<workers, taskFrom, taskTo, failure>> /\ pc \in Application
    BY DEF Observe, ToApply, Settle, EndApply
  <1>2. /\ workers # 1
        /\ cursor <= taskTo + 1
        /\ \A i, j \in Tasks :
              i < j /\ ledger[i].status = "SKIPPED" => ledger[j].status = "SKIPPED"
    BY <1>1 DEF LedgerInv, PlanInv
  <1>3. \A i \in DOMAIN ledger :
           IF i \in cursor..taskTo THEN ledger[i].order = 0 /\ ledger[i].status \in Expected(i)
           ELSE Settled(i)
    BY <1>1 DEF LedgerInv, StageInv, Unsettled
  <1>4. Tasks' = Tasks /\ Tasks \subseteq DOMAIN ledger /\ cursor..taskTo \subseteq Tasks
    BY <1>0, <1>1 DEF Tasks
  <1>5. CASE Observe
    <2>1. /\ pc = "apply" /\ pc' = "settle" /\ UNCHANGED <<all, cursor>>
          /\ cursor <= taskTo /\ ledger[cursor].status # "SKIPPED"
          /\ ledger' = IF ledger[cursor].status \in Terminal THEN ledger
                       ELSE IF Outcome(cursor).error
                       THEN [ledger EXCEPT ![cursor] = Closed(@, "FAILED")]
                       ELSE [ledger EXCEPT ![cursor].status = "RUNNING"]
      BY <1>5 DEF Observe, ToApply
    <2>2. cursor \in cursor..taskTo /\ cursor \in DOMAIN ledger
      BY <1>0, <1>4, <2>1
    <2>3. /\ DOMAIN ledger' = DOMAIN ledger
          /\ \A i \in DOMAIN ledger \ {cursor} : ledger'[i] = ledger[i]
          /\ SameTask(ledger'[cursor], ledger[cursor])
          /\ ledger'[cursor].order = ledger[cursor].order
          /\ ledger'[cursor].status \in ({"RUNNING"} \cup Terminal) \ {"SKIPPED"}
      <3>1. ledger[cursor] \in EntryType
        BY <1>0, <2>2
      <3>2. CASE ledger[cursor].status \in Terminal
        BY <2>1, <3>2 DEF SameTask
      <3>3. CASE ledger[cursor].status \notin Terminal /\ Outcome(cursor).error
        BY <2>1, <2>2, <3>1, <3>3, ClosedFields DEF Terminal
      <3>4. CASE ledger[cursor].status \notin Terminal /\ ~Outcome(cursor).error
        BY <2>1, <2>2, <3>1, <3>4 DEF SameTask, EntryType, Terminal
      <3> QED
        BY <3>2, <3>3, <3>4
    <2>4. ledger[cursor].order = 0
      BY <1>3, <2>2
    <2>5. AppliedInv'
      <3>1. \A i \in DOMAIN ledger :
               /\ SameTask(ledger'[i], ledger[i]) /\ ledger'[i].order = ledger[i].order
               /\ ledger[i].order > 0 => ledger'[i].status \in Terminal
               /\ ledger[i].status = "SKIPPED" => ledger'[i].status = "SKIPPED"
        BY <2>1, <2>3, <2>4 DEF LedgerInv, AppliedInv, SameTask
      <3> QED
        BY <2>1, <2>3, <3>1, AppliedRestated DEF LedgerInv
    <2>6. StageInv'
      <3>1. \A i \in DOMAIN ledger : i \in cursor..taskTo /\ i # cursor =>
               ledger[i].order = 0 /\ ledger[i].status \in {"SUBMITTED"} \cup Terminal
        BY <1>3, <2>1 DEF Expected
      <3>2. \A i \in DOMAIN ledger : i \notin cursor..taskTo => i # cursor /\ Settled(i)
        BY <1>3, <2>2
      <3>3. \A i \in DOMAIN ledger' :
               IF i \in cursor'..taskTo' THEN ledger'[i].order = 0 /\ ledger'[i].status \in Expected(i)'
               ELSE Settled(i)'
        BY <1>1, <2>1, <2>3, <2>4, <3>1, <3>2 DEF Expected, Settled
      <3> QED
        BY <2>1, <3>3 DEF StageInv, Unsettled
    <2>7. PlanInv'
      <3>1. \A i, j \in Tasks :
               i < j /\ ledger'[i].status = "SKIPPED" => ledger'[j].status = "SKIPPED"
        BY <1>2, <1>4, <2>1, <2>3
      <3> QED
        BY <1>1, <1>2, <1>4, <2>1, <3>1 DEF PlanInv
    <2> QED
      BY <2>5, <2>6, <2>7 DEF LedgerInv
  <1>6. CASE Settle
    <2> DEFINE k == cursor
               e == ledger[cursor]
               r == Outcome(cursor)
    <2>1. /\ pc = "settle" /\ pc' = "apply" /\ cursor' = cursor + 1
          /\ Finalize(k, e, r)
      BY <1>6 DEF Settle
    <2>2. cursor \in cursor..taskTo /\ k \in DOMAIN ledger /\ e \in EntryType /\ SameTask(e, ledger[k])
      BY <1>0, <1>4, <2>1 DEF SameTask
    <2>3. /\ ledger[k].order = 0 /\ ledger[k].status \in ({"RUNNING"} \cup Terminal) \ {"SKIPPED"}
          /\ \A i \in DOMAIN ledger : i < k => Settled(i)
      BY <1>0, <1>3, <2>1, <2>2 DEF Expected
    <2> HIDE DEF e, k, r
    <2>4. AppliedInv'
      BY <2>1, <2>2, <2>3, AppliedFinalized DEF LedgerInv
    <2>5. /\ DOMAIN ledger' = DOMAIN ledger
          /\ \A i \in DOMAIN ledger \ {k} : ledger'[i] = ledger[i]
          /\ ledger'[k].order = Len(all) + 1 /\ Len(all) \in Nat
          /\ ledger'[k].status = IF e.status \in Terminal THEN e.status ELSE "COMPLETED"
      BY <2>1, <2>2, FinalizeFields, LedgerTyped DEF LedgerInv, AppliedInv
    <2>6. ledger'[k].order > 0 /\ ledger'[k].status # "SKIPPED"
      BY <2>3, <2>5 DEF e, k
    <2>7. StageInv'
      <3>1. \A i \in DOMAIN ledger : i \in (cursor + 1)..taskTo => i \in cursor..taskTo /\ i # cursor
        BY <1>0
      <3>2. \A i \in DOMAIN ledger : i \notin (cursor + 1)..taskTo => i \notin cursor..taskTo \/ i = cursor
        BY <1>0
      <3>3. \A i \in DOMAIN ledger : i \in cursor..taskTo /\ i # cursor =>
               ledger[i].order = 0 /\ ledger[i].status \in {"SUBMITTED"} \cup Terminal
        BY <1>3, <2>1 DEF Expected
      <3>4. \A i \in DOMAIN ledger' :
               IF i \in cursor'..taskTo'
               THEN ledger'[i].order = 0 /\ ledger'[i].status \in {"SUBMITTED"} \cup Terminal
               ELSE Settled(i)'
        BY <1>1, <1>3, <2>1, <2>5, <2>6, <3>1, <3>2, <3>3 DEF Settled, k
      <3> QED
        BY <2>1, <3>4 DEF StageInv, Unsettled, Expected
    <2>8. PlanInv'
      <3>1. \A i, j \in Tasks :
               i < j /\ ledger'[i].status = "SKIPPED" => ledger'[j].status = "SKIPPED"
        BY <1>2, <1>4, <2>2, <2>3, <2>5, <2>6 DEF k
      <3>2. cursor' <= taskTo' + 1
        BY <1>0, <1>1, <2>1
      <3> QED
        BY <1>1, <1>2, <1>4, <2>1, <3>1, <3>2 DEF PlanInv
    <2> QED
      BY <2>4, <2>7, <2>8 DEF LedgerInv
  <1>7. CASE EndApply
    <2>1. /\ pc = "apply" /\ pc' = "record" /\ UNCHANGED <<ledger, all>>
          /\ cursor > taskTo \/ ledger[cursor].status = "SKIPPED"
      BY <1>0, <1>7 DEF EndApply, ToApply
    <2>2. \A i \in DOMAIN ledger : Settled(i)
      <3>1. \A i \in cursor..taskTo : ledger[i].status = "SKIPPED"
        <4> SUFFICES ASSUME NEW i \in cursor..taskTo PROVE ledger[i].status = "SKIPPED"
          OBVIOUS
        <4>1. /\ cursor <= taskTo /\ cursor \in Tasks /\ i \in Tasks
              /\ i = cursor \/ cursor < i
          BY <1>0, <1>1, <1>4 DEF Tasks
        <4>2. ledger[cursor].status = "SKIPPED"
          BY <1>0, <2>1, <4>1
        <4> QED
          BY <1>2, <4>1, <4>2
      <3> QED
        BY <1>3, <3>1 DEF Settled
    <2>3. AppliedInv'
      BY <2>1, AppliedUnchanged DEF LedgerInv
    <2>4. StageInv' /\ PlanInv'
      BY <2>1, <2>2 DEF StageInv, PlanInv, Unsettled, Settled
    <2> QED
      BY <2>3, <2>4 DEF LedgerInv
  <1> QED
    BY <1>5, <1>6, <1>7

\* Workers, the clock and a stop request leave the ledger alone; a failing
\* coordinator blocks what is unfinished.
LEMMA OtherStep ==
    ASSUME TypeOK, LedgerInv,
           Worker \/ CoordinatorFails \/ RequestStop \/ TimeIsUp \/ Finished \/ UNCHANGED vars
    PROVE  LedgerInv'
  <1> USE DEF runVars, budgetVars, envVars, genVars, taskVars, waveVars, poolVars, resultVars
  <1>1. CASE CoordinatorFails
    <2>1. /\ pc' = "done" /\ execStop' = "FATAL_COORDINATOR_ERROR" /\ UNCHANGED all
          /\ ledger' = [i \in DOMAIN ledger |->
                           IF ledger[i].status \in Terminal THEN ledger[i]
                           ELSE Closed(ledger[i], "BLOCKED")]
      BY <1>1 DEF CoordinatorFails
    <2>2. /\ DOMAIN ledger' = DOMAIN ledger
          /\ \A i \in DOMAIN ledger :
                /\ SameTask(ledger'[i], ledger[i]) /\ ledger'[i].order = ledger[i].order
                /\ ledger'[i].status = IF ledger[i].status \in Terminal THEN ledger[i].status
                                       ELSE "BLOCKED"
      BY <2>1, LedgerTyped, ClosedFields DEF SameTask
    <2>3. \A i \in DOMAIN ledger :
             /\ ledger'[i].status \in Terminal
             /\ ledger[i].status = "SKIPPED" => ledger'[i].status = "SKIPPED"
      BY <2>2 DEF Terminal
    <2>4. AppliedInv'
      BY <2>1, <2>2, <2>3, AppliedRestated DEF LedgerInv
    <2>5. StageInv' /\ PlanInv'
      BY <2>1, <2>2, <2>3 DEF StageInv, PlanInv, Submission, Application
    <2> QED
      BY <2>4, <2>5 DEF LedgerInv
  <1>2. CASE Worker \/ RequestStop \/ TimeIsUp \/ Finished \/ UNCHANGED vars
    <2>1. UNCHANGED <<pc, workers, ledger, all, taskFrom, taskTo, cursor, failure, execStop>>
      BY <1>2 DEF Worker, WorkerDone, RequestStop, TimeIsUp, Finished, vars
    <2>2. AppliedInv'
      BY <2>1, AppliedUnchanged DEF LedgerInv
    <2>3. StageInv' /\ PlanInv'
      BY <2>1 DEF LedgerInv, StageInv, PlanInv, Unsettled, Expected, Settled, Tasks,
                  Submission, Application
    <2> QED
      BY <2>2, <2>3 DEF LedgerInv
  <1> QED
    BY <1>1, <1>2

\* LedgerInv is inductive.
LEMMA LedgerInvStep == TypeOK /\ LedgerInv /\ [Next]_vars => LedgerInv'
  BY OpeningStep, BaselineStep, RoundStep, SerialStep, PlanningStep, WaveStep, ApplyStep,
     OtherStep DEF Next, Coordinator

\* LedgerInv holds throughout every run.
LEMMA LedgerInvariant == Spec => []LedgerInv
  BY LedgerInit, LedgerInvStep, TypeCorrect, PTL DEF Spec

\* Outcomes enter the optimizer in planned order, whatever order the workers
\* finish in and whatever fails (_evaluate_iteration_parallel).
THEOREM InPlannedOrder == Spec => []AppliedInPlanOrder
  <1>1. LedgerInv => AppliedInPlanOrder
    BY DEF LedgerInv, AppliedInv
  <1> QED
    BY <1>1, LedgerInvariant, PTL

\* The ledger stays a projection of the result's candidates: every applied
\* entry is numbered by its candidate and agrees with it on identity and
\* constraint set (_record_ledger_application).
THEOREM LedgerProjectsResult == Spec => []LedgerMatchesResult
  <1>1. LedgerInv => LedgerMatchesResult
    BY DEF LedgerInv, AppliedInv
  <1> QED
    BY <1>1, LedgerInvariant, PTL

-----------------------------------------------------------------------------
(* The pool: a wave fills at most the positions it was given.              *)

\* What runs belongs to the current wave and has been submitted.
FlightInv ==
    /\ pc \notin {"submit", "collect"} => Running = {}
    /\ \A i \in Running : waveEnd - workers < i /\ i <= waveEnd
    /\ pc = "submit" =>
          /\ cursor <= waveEnd + 1 /\ waveEnd < cursor + workers
          /\ \A i \in Running : i < cursor

\* Every step keeps what runs within its wave.
LEMMA FlightStep == TypeOK /\ FlightInv /\ [Next]_vars => FlightInv'
  <1> SUFFICES ASSUME TypeOK, FlightInv, [Next]_vars  PROVE FlightInv'
    OBVIOUS
  <1> USE DEF runVars, budgetVars, envVars, genVars, taskVars, waveVars, poolVars, resultVars
  <1>0. /\ workers \in Nat \ {0} /\ cursor \in Nat \ {0} /\ waveEnd \in Nat /\ taskTo \in Nat
        /\ \A i \in DOMAIN futures : i \in Nat
        /\ \A i \in Running : i \in DOMAIN futures
    BY LedgerTyped DEF TypeOK, FuturesTyped, Tasks, Running
  \* Steps that leave the pool alone and do not move between its stages.
  <1>1. ASSUME UNCHANGED <<workers, waveVars>>, pc \notin {"submit", "collect"},
               pc' \notin {"submit", "collect"}
        PROVE  FlightInv'
    BY <1>1 DEF FlightInv, Running
  <1>2. ASSUME futures' = <<>>, pc' \notin {"submit", "collect"}
        PROVE  FlightInv'
    BY <1>2 DEF FlightInv, Running
  <1>3. CASE StartBaseline \/ StartDisabled \/ StartRound
    BY <1>2, <1>3 DEF StartBaseline, StartDisabled, FreshRun, StartRound
  <1>4. ASSUME NEW r \in Results, BaselineDone(r) \/ DirectDone(r)  PROVE FlightInv'
    BY <1>1, <1>4 DEF BaselineDone, DirectDone
  <1>5. CASE BeginRun \/ EndSearch \/ ExpandParent \/ EndParent \/ SkipKnown \/ EndExpansion
    BY <1>1, <1>5 DEF BeginRun, EndSearch, ExpandParent, EndParent, SkipKnown, EndExpansion
  <1>6. CASE EvaluateDirect \/ PlanTask \/ RefuseTask
    BY <1>1, <1>6 DEF EvaluateDirect, PlanTask, RefuseTask, Fresh
  <1>7. CASE Observe \/ EndApply \/ Record \/ Select
    BY <1>1, <1>7 DEF Observe, ToApply, EndApply, Record, Select
  <1>f. CASE CoordinatorFails
    <2>1. Running = {} /\ UNCHANGED <<workers, waveVars>> /\ pc' = "done"
      BY <1>f DEF CoordinatorFails
    <2>2. Running' = {}
      BY <2>1 DEF Running
    <2> QED
      BY <2>1, <2>2 DEF FlightInv
  <1>8. CASE OpenPool \/ PoolFails \/ StopAtDeadline \/ EndWaves \/ Settle
    <2>1. /\ UNCHANGED <<workers, waveEnd, futures>> /\ pc \notin {"submit", "collect"}
          /\ pc' \notin {"submit", "collect"}
      BY <1>8 DEF OpenPool, PoolFails, StopAtDeadline, EndWaves, Settle
    <2> QED
      BY <2>1 DEF FlightInv, Running
  <1>9. CASE StartWave
    <2>1. /\ pc = "wave" /\ pc' = "submit" /\ UNCHANGED <<workers, cursor, futures>>
          /\ cursor <= taskTo
          /\ waveEnd' = IF cursor + workers - 1 < taskTo THEN cursor + workers - 1 ELSE taskTo
      BY <1>9 DEF StartWave
    <2>2. Running' = {}
      BY <2>1 DEF FlightInv, Running
    <2>3. cursor' <= waveEnd' + 1 /\ waveEnd' < cursor' + workers'
      BY <1>0, <2>1
    <2> QED
      BY <2>1, <2>2, <2>3 DEF FlightInv
  <1>10. CASE Submit
    <2>1. /\ pc = "submit" /\ pc' = "submit" /\ cursor <= waveEnd /\ cursor' = cursor + 1
          /\ UNCHANGED <<workers, waveEnd>>
          /\ futures' = [i \in DOMAIN futures \cup {cursor} |->
                            IF i = cursor THEN [done |-> FALSE, result |-> NotRun]
                            ELSE futures[i]]
      BY <1>10 DEF Submit
    <2>2. Running' \subseteq Running \cup {cursor}
      BY <2>1 DEF Running
    <2>3. /\ \A i \in Running \cup {cursor} : /\ waveEnd - workers < i /\ i <= waveEnd
                                              /\ i < cursor + 1
          /\ cursor + 1 <= waveEnd + 1 /\ waveEnd < cursor + 1 + workers
      BY <1>0, <2>1 DEF FlightInv
    <2> QED
      BY <2>1, <2>2, <2>3 DEF FlightInv
  <1>11. CASE SubmitFails \/ WaveSubmitted
    <2>1. pc = "submit" /\ pc' = "collect" /\ UNCHANGED <<workers, waveVars>>
      BY <1>11 DEF SubmitFails, WaveSubmitted
    <2> QED
      BY <2>1 DEF FlightInv, Running
  <1>12. CASE CollectWave
    <2>1. Running = {} /\ pc' \notin {"submit", "collect"} /\ UNCHANGED <<workers, waveEnd, futures>>
      BY <1>12 DEF CollectWave
    <2> QED
      BY <2>1 DEF FlightInv, Running
  <1>13. CASE Worker
    <2>1. PICK i \in DOMAIN futures, r \in Results :
             /\ futures' = [futures EXCEPT ![i] = [done |-> TRUE, result |-> r]]
             /\ UNCHANGED <<pc, workers, cursor, waveEnd>>
      BY <1>13 DEF Worker, WorkerDone
    <2>2. Running' \subseteq Running
      BY <2>1 DEF Running
    <2> QED
      BY <2>1, <2>2 DEF FlightInv
  <1>14. CASE RequestStop \/ TimeIsUp \/ Finished \/ UNCHANGED vars
    <2>1. UNCHANGED <<pc, workers, waveVars>>
      BY <1>14 DEF RequestStop, TimeIsUp, Finished, vars
    <2> QED
      BY <2>1 DEF FlightInv, Running
  <1> QED
    BY <1>f, <1>3, <1>4, <1>5, <1>6, <1>7, <1>8, <1>9, <1>10, <1>11, <1>12, <1>13, <1>14
       DEF Next, Coordinator

\* FlightInv holds throughout every run.
LEMMA FlightInvariant == Spec => []FlightInv
  <1>1. Init => FlightInv
    BY DEF Init, FlightInv, Running
  <1> QED
    BY <1>1, FlightStep, TypeCorrect, PTL DEF Spec

\* The pool never runs more than workers candidates at a time, through every
\* wave and every failure (_run_parallel_tasks).
THEOREM FlightBounded == Spec => []BoundedFlight
  <1>1. TypeOK /\ FlightInv => BoundedFlight
    <2> SUFFICES ASSUME TypeOK, FlightInv  PROVE BoundedFlight
      OBVIOUS
    <2> DEFINE low == waveEnd - workers + 1
    <2>1. workers \in Nat \ {0} /\ waveEnd \in Nat /\ low \in Int
      BY LedgerTyped
    <2>2. Running \subseteq low..waveEnd
      <3>1. \A i \in Running : i \in Int
        BY LedgerTyped DEF TypeOK, FuturesTyped, Tasks, Running
      <3> QED
        BY <2>1, <3>1 DEF FlightInv
    <2>3. /\ IsFiniteSet(low..waveEnd)
          /\ Cardinality(low..waveEnd) = IF low > waveEnd THEN 0 ELSE waveEnd - low + 1
      BY <2>1, FS_Interval
    <2>4. Cardinality(Running) <= Cardinality(low..waveEnd)
      BY <2>2, <2>3, FS_Subset
    <2>5. Cardinality(low..waveEnd) = workers
      BY <2>1, <2>3
    <2> QED
      BY <2>4, <2>5 DEF BoundedFlight
  <1> QED
    BY <1>1, FlightInvariant, TypeCorrect, PTL

\* When run() returns nothing is in flight, every ledger entry is finished and,
\* unless the coordinator itself failed, every entry was applied once or was
\* skipped (run, _finalize_execution_ledger).
THEOREM RunsSettle == Spec => []RunSettled
  <1>1. LedgerInv /\ FlightInv => RunSettled
    BY DEF LedgerInv, AppliedInv, StageInv, FlightInv, RunSettled, Settled
  <1> QED
    BY <1>1, LedgerInvariant, FlightInvariant, PTL

-----------------------------------------------------------------------------
(* The final candidate.                                                    *)

\* While a run searches it has no final candidate yet, and from the baseline's
\* result on it has candidates.
FinalInv ==
    /\ FinalEligible
    /\ pc \notin {"idle", "resetting", "done"} => final = 0
    /\ pc \notin {"idle", "resetting", "baseline", "done"} => all # <<>>

\* Every step keeps the final candidate one that select_final may return.
LEMMA FinalStep == TypeOK /\ FinalInv /\ [Next]_vars => FinalInv'
  <1> SUFFICES ASSUME TypeOK, FinalInv, [Next]_vars  PROVE FinalInv'
    OBVIOUS
  <1> USE DEF runVars, budgetVars, envVars, genVars, taskVars, waveVars, poolVars, resultVars
  <1>0. /\ all \in Seq(CandidateType) /\ Len(all) \in Nat /\ DOMAIN all = 1..Len(all)
    BY DEF TypeOK, SearchTyped
  <1>a. ASSUME NEW c, all' = Append(all, c)  PROVE all' # <<>>
    <2>1. all \in Seq(CandidateType \cup {c})
      BY <1>0
    <2>2. Len(all') = Len(all) + 1
      BY <1>a, <2>1
    <2> QED
      BY <1>0, <2>2
  <1>1. CASE UNCHANGED <<pc, all, final>>
    BY <1>1 DEF FinalInv, FinalEligible
  <1>2. CASE /\ pc \notin {"idle", "resetting", "baseline", "done"}
             /\ pc' \notin {"idle", "resetting", "baseline", "done"}
             /\ final' = final /\ (all' = all \/ \E c : all' = Append(all, c))
    BY <1>a, <1>2 DEF FinalInv, FinalEligible
  <1>3. CASE BeginRun
    BY <1>3 DEF BeginRun, FinalInv, FinalEligible
  <1>4. CASE StartBaseline
    BY <1>4 DEF StartBaseline, FinalInv, FinalEligible
  <1>5. ASSUME NEW c, all' = <<c>>, final' = 1
        PROVE  /\ final' \in DOMAIN all' /\ all' # <<>>
               /\ (\E i \in DOMAIN all' : Eligible(all'[i])) => Eligible(all'[final'])
    <2>1. DOMAIN all' = {1} /\ all' # <<>>
      BY <1>5
    <2> QED
      BY <1>5, <2>1
  <1>6. CASE StartDisabled
    BY <1>5, <1>6 DEF StartDisabled, FinalInv, FinalEligible
  <1>7. ASSUME NEW r \in Results, BaselineDone(r)  PROVE FinalInv'
    <2>1. all' = <<Candidate(0, BaselineSet, r)>> /\ all' # <<>>
      BY <1>7 DEF BaselineDone
    <2>2. \/ pc' = "done" /\ final' = 1
          \/ pc' = "head" /\ final' = final
      BY <1>7 DEF BaselineDone
    <2>3. pc = "baseline"
      BY <1>7 DEF BaselineDone
    <2>4. CASE pc' = "done" /\ final' = 1
      BY <1>5, <2>1, <2>4 DEF FinalInv, FinalEligible
    <2>5. CASE pc' = "head" /\ final' = final
      BY <2>1, <2>3, <2>5 DEF FinalInv, FinalEligible
    <2> QED
      BY <2>2, <2>4, <2>5
  <1>8. ASSUME NEW r \in Results, DirectDone(r)  PROVE FinalInv'
    <2>1. \E c : all' = Append(all, c)
      BY <1>8 DEF DirectDone, Finalize
    <2> QED
      BY <1>2, <1>8, <2>1 DEF DirectDone
  <1>9. CASE Settle
    <2>1. \E c : all' = Append(all, c)
      BY <1>9 DEF Settle, Finalize
    <2> QED
      BY <1>2, <1>9, <2>1 DEF Settle
  <1>b. ASSUME pc = "select", all' = all, pc' = "done", final' = Chosen
        PROVE  FinalInv'
    <2> DEFINE front == ParetoFront(all)
               best == SelectFinal(all, front)
    <2>1. final' = (IF best = 0 THEN 1 ELSE best) /\ all # <<>>
      BY <1>b DEF Chosen, FinalInv
    <2>2. 1 \in DOMAIN all
      BY <1>0, <2>1
    <2>3. /\ front \subseteq DOMAIN all /\ \A i \in front : Eligible(all[i])
          /\ (\E i \in DOMAIN all : Eligible(all[i])) => front # {}
      BY <1>0, FrontMembers
    <2>4. front # {} => best \in DOMAIN all /\ Eligible(all[best])
      BY <1>0, <2>2, <2>3, FinalIsMember
    <2>5. front = {} => best = 0
      BY DEF SelectFinal
    <2> HIDE DEF front, best
    <2>6. \A i \in DOMAIN all : i # 0
      BY <1>0
    <2> QED
      BY <1>b, <2>1, <2>2, <2>3, <2>4, <2>5, <2>6 DEF FinalInv, FinalEligible
  <1>10. CASE Select
    BY <1>b, <1>10 DEF Select
  <1>11. CASE CoordinatorFails
    <2>1. /\ pc \notin {"idle", "resetting", "done"} /\ pc' = "done" /\ all' = all
          /\ final' = final \/ (pc = "select" /\ final' = Chosen)
      BY <1>11 DEF CoordinatorFails
    <2>2. CASE final' = final
      BY <2>1, <2>2 DEF FinalInv, FinalEligible
    <2>3. CASE pc = "select" /\ final' = Chosen
      BY <1>b, <2>1, <2>3
    <2> QED
      BY <2>1, <2>2, <2>3
  <1>12. CASE StartRound \/ EndSearch \/ ExpandParent \/ EndParent \/ SkipKnown \/ EndExpansion
    <2>1. /\ pc \in {"head", "expand", "children"}
          /\ pc' \in {"expand", "select", "children", "record", "dispatch"}
          /\ UNCHANGED <<all, final>>
      BY <1>12 DEF StartRound, EndSearch, ExpandParent, EndParent, SkipKnown, EndExpansion
    <2> QED
      BY <1>2, <2>1
  <1>13. CASE EvaluateDirect \/ PlanTask \/ RefuseTask
    <2>1. /\ pc = "children" /\ pc' \in {"evaluating", "children", "dispatch", "record"}
          /\ UNCHANGED <<all, final>>
      BY <1>13 DEF EvaluateDirect, PlanTask, RefuseTask, Fresh
    <2> QED
      BY <1>2, <2>1
  <1>14. CASE OpenPool \/ PoolFails \/ StartWave \/ StopAtDeadline \/ EndWaves \/ Submit
              \/ SubmitFails \/ WaveSubmitted \/ CollectWave
    <2>1. /\ pc \in {"dispatch", "wave", "submit", "collect"}
          /\ pc' \in {"wave", "apply", "submit", "collect"}
          /\ UNCHANGED <<all, final>>
      BY <1>14 DEF OpenPool, PoolFails, StartWave, StopAtDeadline, EndWaves, Submit,
                   SubmitFails, WaveSubmitted, CollectWave
    <2> QED
      BY <1>2, <2>1
  <1>15. CASE Observe \/ EndApply \/ Record
    <2>1. /\ pc \in {"apply", "record"} /\ pc' \in {"settle", "record", "select", "head"}
          /\ UNCHANGED <<all, final>>
      BY <1>15 DEF Observe, ToApply, EndApply, Record
    <2> QED
      BY <1>2, <2>1
  <1>16. CASE Worker \/ RequestStop \/ TimeIsUp \/ Finished \/ UNCHANGED vars
    BY <1>1, <1>16 DEF Worker, WorkerDone, RequestStop, TimeIsUp, Finished, vars
  <1> QED
    BY <1>3, <1>4, <1>6, <1>7, <1>8, <1>9, <1>10, <1>11, <1>12, <1>13, <1>14, <1>15, <1>16
    DEF Next, Coordinator

\* The final candidate is one of the run's and eligible whenever any candidate
\* is, for any results and any tolerance (run, select_final).
THEOREM FinalIsEligible == Spec => []FinalEligible
  <1>1. Init => FinalInv
    BY DEF Init, FinalInv, FinalEligible
  <1>2. FinalInv => FinalEligible
    BY DEF FinalInv
  <1> QED
    BY <1>1, <1>2, FinalStep, TypeCorrect, PTL DEF Spec

-----------------------------------------------------------------------------
(* The budget of physical runs.                                            *)

\* The round's tasks whose runs are still to be counted.
Open ==
    IF pc \in {"expand", "children", "dispatch"} \cup Submission THEN Planned
    ELSE IF pc \in Application THEN taskTo - cursor + 1
    ELSE 0

\* The serial loop may start another candidate, or is running one.
MayStart ==
    \/ pc = "expand" /\ frontier # {}
    \/ pc = "children" /\ batch # {}
Spending == MayStart \/ pc = "evaluating"

\* With workers, what is open is paid for; without, there is a run left for the
\* candidate that is about to start.
BudgetInv ==
    /\ EdaBudgetKept
    /\ workers > 1 /\ Open > 0 => edaRuns + Open * TaskCost <= MaxEdaRuns
    /\ workers = 1 /\ Spending => edaRuns < MaxEdaRuns

\* The arithmetic of the budget.
LEMMA Budgets ==
    /\ TaskCost \in Nat \ {0} /\ MaxEdaRuns \in Nat \ {0}
    /\ \A n \in Int : (n + 1) * TaskCost = n * TaskCost + TaskCost
    /\ \A n \in Nat : n * TaskCost \in Nat
  BY OptimizerAssumption

\* The budget says when nothing more may start (OptimizationBudget.should_stop).
LEMMA BudgetLeft ==
    ASSUME NEW eda \in Nat, ShouldStopWith(eda) = "none", TypeOK
    PROVE  eda < MaxEdaRuns /\ iterations < MaxIterations /\ stop = "none"
  <1>1. iterations \in Nat /\ MaxIterations \in Nat /\ MaxEdaRuns \in Nat
    BY OptimizerAssumption, LedgerTyped DEF RunTyped
  <1>2. stop = "none"
    BY DEF ShouldStopWith
  <1>3. ~(iterations >= MaxIterations)
    BY <1>2 DEF ShouldStopWith
  <1>4. ~(eda >= MaxEdaRuns)
    BY <1>1, <1>2, <1>3 DEF ShouldStopWith
  <1> QED
    BY <1>1, <1>2, <1>3, <1>4

\* No outcome counts more runs than one task was budgeted for.
LEMMA OutcomeCost ==
    ASSUME TypeOK, NEW k
    PROVE  Outcome(k).runs \in 1..TaskCost
  <1>1. CASE k \in DOMAIN futures
    <2>1. futures[k].result \in Result
      BY <1>1 DEF TypeOK, FuturesTyped
    <2> QED
      BY <1>1, <2>1 DEF Outcome, Result
  <1>2. CASE k \notin DOMAIN futures
    <2>1. Outcome(k).runs = 1
      BY <1>2 DEF Outcome, NotRun
    <2> QED
      BY <2>1, Budgets
  <1> QED
    BY <1>1, <1>2

\* Every step keeps the budget: admission pays for what it opens, and each
\* outcome is counted once.
LEMMA BudgetStep == TypeOK /\ LedgerInv /\ BudgetInv /\ [Next]_vars => BudgetInv'
  <1> SUFFICES ASSUME TypeOK, LedgerInv, BudgetInv, [Next]_vars  PROVE BudgetInv'
    OBVIOUS
  <1> USE DEF runVars, budgetVars, envVars, genVars, taskVars, waveVars, poolVars, resultVars,
              Submission, Application
  <1>0. /\ workers \in Nat \ {0} /\ cursor \in Nat \ {0} /\ taskTo \in Nat
        /\ taskFrom \in Nat \ {0} /\ taskFrom <= taskTo + 1
        /\ edaRuns \in Nat /\ Planned \in Nat /\ Len(ledger) \in Nat
        /\ pc = "settle" => cursor <= taskTo
        /\ pc \in Submission \cup Application => taskFrom <= cursor
    BY LedgerTyped DEF TypeOK, TasksTyped, SearchTyped, Planned
  \* Steps that count no run.
  <1>1. ASSUME UNCHANGED <<workers, edaRuns>>, Open' = Open \/ Open' = 0,
               workers = 1 /\ Spending' => edaRuns < MaxEdaRuns
        PROVE  BudgetInv'
    BY <1>1 DEF BudgetInv, EdaBudgetKept, Bigger
  <1>2. ASSUME UNCHANGED <<workers, edaRuns, pc, taskFrom, taskTo, cursor, frontier, batch>>
        PROVE  BudgetInv'
    BY <1>2 DEF BudgetInv, EdaBudgetKept, Bigger, Open, Spending, MayStart, Planned
  <1>3. CASE BeginRun \/ EndSearch \/ Record \/ Select \/ CoordinatorFails \/ EndApply
    <2>1. UNCHANGED <<workers, edaRuns>> /\ pc' \in {"resetting", "select", "head", "done", "record"}
      BY <1>3 DEF BeginRun, EndSearch, Record, Select, CoordinatorFails, EndApply
    <2>2. Open' = 0 /\ ~Spending'
      BY <2>1 DEF Open, Spending, MayStart
    <2> QED
      BY <1>1, <2>1, <2>2
  <1>4. CASE StartBaseline \/ StartDisabled
    <2>1. edaRuns' = 0 /\ workers' = workers /\ pc' \in {"baseline", "done"}
      BY <1>4 DEF StartBaseline, StartDisabled, FreshRun
    <2>2. Open' = 0 /\ ~Spending'
      BY <2>1 DEF Open, Spending, MayStart
    <2> QED
      BY <1>0, <2>1, <2>2, Budgets DEF BudgetInv, EdaBudgetKept, Bigger
  <1>5. ASSUME NEW r \in Results, BaselineDone(r)  PROVE BudgetInv'
    <2>1. edaRuns' = r.runs /\ workers' = workers /\ pc' \in {"head", "done"}
      BY <1>5 DEF BaselineDone
    <2>2. Open' = 0 /\ ~Spending'
      BY <2>1 DEF Open, Spending, MayStart
    <2>3. r.runs \in 1..TaskCost
      BY OptimizerAssumption DEF Result
    <2> QED
      BY <1>0, <2>1, <2>2, <2>3, Budgets DEF BudgetInv, EdaBudgetKept, Bigger
  <1>6. CASE StartRound
    <2>1. /\ UNCHANGED <<workers, edaRuns>> /\ ShouldStop = "none" /\ pc' = "expand"
          /\ taskFrom' = Len(ledger) + 1 /\ taskTo' = Len(ledger)
      BY <1>6 DEF StartRound
    <2>2. Open' = 0
      BY <1>0, <2>1 DEF Open, Planned
    <2>3. edaRuns < MaxEdaRuns
      BY <1>0, <2>1, BudgetLeft DEF ShouldStop
    <2> QED
      BY <1>1, <2>1, <2>2, <2>3
  <1>7. CASE ExpandParent \/ SkipKnown \/ EvaluateDirect
    <2>1. /\ UNCHANGED <<workers, edaRuns, taskFrom, taskTo>>
          /\ Spending
          /\ pc' = "evaluating" => workers = 1
          /\ pc' \in {"children", "evaluating"} /\ pc \in {"expand", "children"}
      BY <1>7 DEF ExpandParent, SkipKnown, EvaluateDirect, Spending, MayStart, Fresh
    <2>2. Open' = Open \/ Open' = 0
      BY <2>1 DEF Open, Planned
    <2>3. workers = 1 => edaRuns < MaxEdaRuns
      BY <2>1 DEF BudgetInv
    <2> QED
      BY <1>1, <2>1, <2>2, <2>3
  <1>8. CASE EndParent
    <2>1. /\ UNCHANGED <<workers, edaRuns, taskFrom, taskTo>>
          /\ pc = "children" /\ pc' = "expand"
          /\ workers = 1 /\ frontier' # {} => ShouldStop = "none"
      BY <1>8 DEF EndParent
    <2>2. Open' = Open
      BY <2>1 DEF Open, Planned
    <2>3. workers = 1 /\ Spending' => edaRuns < MaxEdaRuns
      BY <1>0, <2>1, BudgetLeft DEF Spending, MayStart, ShouldStop
    <2> QED
      BY <1>1, <2>1, <2>2, <2>3
  <1>9. CASE EndExpansion
    <2>1. /\ UNCHANGED <<workers, edaRuns, taskFrom, taskTo>>
          /\ pc = "expand" /\ pc' \in {"record", "dispatch"}
      BY <1>9 DEF EndExpansion
    <2>2. (Open' = Open \/ Open' = 0) /\ ~Spending'
      BY <2>1 DEF Open, Planned, Spending, MayStart
    <2> QED
      BY <1>1, <2>1, <2>2
  <1>10. ASSUME NEW r \in Results, DirectDone(r)  PROVE BudgetInv'
    <2>1. /\ edaRuns' = edaRuns + r.runs /\ pc = "evaluating" /\ pc' = "children"
          /\ UNCHANGED <<workers, taskFrom, taskTo>>
          /\ batch' # {} => ShouldStopWith(edaRuns + r.runs) = "none"
      BY <1>10 DEF DirectDone, Finalize
    <2>2. r.runs \in 1..TaskCost /\ edaRuns + r.runs \in Nat
      <3>1. r.runs \in 1..TaskCost
        BY OptimizerAssumption DEF Result
      <3> QED
        BY <1>0, <3>1, Budgets
    <2>3. Spending' => edaRuns' < MaxEdaRuns
      BY <2>1, <2>2, BudgetLeft DEF Spending, MayStart
    <2>4. workers = 1 /\ edaRuns < MaxEdaRuns
      BY <2>1 DEF LedgerInv, PlanInv, BudgetInv, Spending, MayStart
    <2> QED
      BY <1>0, <2>1, <2>2, <2>3, <2>4, Budgets DEF BudgetInv, EdaBudgetKept, Bigger
  <1>11. CASE PlanTask
    <2>1. /\ workers > 1 /\ pc = "children" /\ pc' \in {"children", "dispatch"}
          /\ edaRuns + Planned * TaskCost + TaskCost <= MaxEdaRuns
          /\ taskTo' = taskTo + 1 /\ UNCHANGED <<workers, edaRuns, taskFrom>>
      BY <1>11 DEF PlanTask, Fresh, Projected
    <2>2. Open' = Planned + 1
      BY <1>0, <2>1 DEF Open, Planned
    <2>3. edaRuns + Open' * TaskCost <= MaxEdaRuns
      BY <1>0, <2>1, <2>2, Budgets
    <2> QED
      BY <1>0, <2>1, <2>3 DEF BudgetInv, EdaBudgetKept, Bigger
  <1>12. CASE RefuseTask
    <2>1. /\ UNCHANGED <<workers, edaRuns, taskFrom, taskTo>>
          /\ pc = "children" /\ pc' \in {"record", "dispatch"}
      BY <1>12 DEF RefuseTask, Fresh
    <2>2. (Open' = Open \/ Open' = 0) /\ ~Spending'
      BY <2>1 DEF Open, Planned, Spending, MayStart
    <2> QED
      BY <1>1, <2>1, <2>2
  <1>13. CASE OpenPool \/ StartWave \/ Submit \/ SubmitFails \/ WaveSubmitted
    <2>1. /\ UNCHANGED <<workers, edaRuns, taskFrom, taskTo>>
          /\ pc \in {"dispatch"} \cup Submission /\ pc' \in Submission
      BY <1>13 DEF OpenPool, StartWave, Submit, SubmitFails, WaveSubmitted
    <2>2. Open' = Open /\ ~Spending'
      BY <2>1 DEF Open, Planned, Spending, MayStart
    <2> QED
      BY <1>1, <2>1, <2>2
  <1>14. CASE PoolFails \/ StopAtDeadline \/ EndWaves \/ CollectWave
    <2>1. /\ UNCHANGED <<workers, edaRuns, taskFrom, taskTo>>
          /\ pc \in {"dispatch"} \cup Submission
          /\ pc' = "wave" \/ (pc' = "apply" /\ cursor' = taskFrom)
      BY <1>14 DEF PoolFails, StopAtDeadline, EndWaves, CollectWave
    <2>2. Open' = Open /\ ~Spending'
      BY <1>0, <2>1 DEF Open, Planned, Spending, MayStart
    <2> QED
      BY <1>1, <2>1, <2>2
  <1>15. CASE Observe
    <2>1. /\ UNCHANGED <<workers, edaRuns, taskTo, cursor>> /\ pc = "apply" /\ pc' = "settle"
      BY <1>15 DEF Observe, ToApply
    <2>2. Open' = Open /\ ~Spending'
      BY <2>1 DEF Open, Spending, MayStart
    <2> QED
      BY <1>1, <2>1, <2>2
  <1>16. CASE Settle
    <2> DEFINE runs == Outcome(cursor).runs
    <2>1. /\ edaRuns' = edaRuns + runs /\ UNCHANGED <<workers, taskTo>>
          /\ pc = "settle" /\ pc' = "apply" /\ cursor' = cursor + 1
      BY <1>16 DEF Settle, Finalize
    <2>2. runs \in 1..TaskCost
      BY OutcomeCost
    <2> HIDE DEF runs
    <2>3. Open = Open' + 1 /\ Open' \in Nat /\ ~Spending'
      BY <1>0, <2>1 DEF Open, Spending, MayStart
    <2>4. PICK n \in Nat : Open = n + 1 /\ Open' = n
      BY <2>3
    <2>5. Open * TaskCost = n * TaskCost + TaskCost /\ n * TaskCost \in Nat
      <3>1. (n + 1) * TaskCost = n * TaskCost + TaskCost /\ n * TaskCost \in Nat
        BY Budgets
      <3> QED
        BY <2>4, <3>1
    <2>7. workers > 1
      BY <1>0, <2>1 DEF LedgerInv, PlanInv
    <2>8. edaRuns + n * TaskCost + TaskCost <= MaxEdaRuns
      <3>1. edaRuns + Open * TaskCost <= MaxEdaRuns
        BY <2>4, <2>7 DEF BudgetInv
      <3> QED
        BY <1>0, <2>5, <3>1, Budgets
    <2>9. edaRuns' + n * TaskCost <= MaxEdaRuns /\ edaRuns' <= MaxEdaRuns
      BY <1>0, <2>1, <2>2, <2>5, <2>8, Budgets
    <2>10. EdaBudgetKept'
      <3>1. workers # 1 /\ workers' = workers /\ edaRuns' \in Nat
        BY <1>0, <2>1, <2>2, <2>7
      <3> QED
        BY <2>9, <3>1, Budgets DEF EdaBudgetKept, Bigger
    <2> QED
      BY <1>0, <2>1, <2>3, <2>4, <2>7, <2>9, <2>10 DEF BudgetInv
  <1>17. CASE Worker \/ RequestStop \/ TimeIsUp \/ Finished \/ UNCHANGED vars
    <2>1. UNCHANGED <<workers, edaRuns, pc, taskFrom, taskTo, cursor, frontier, batch>>
      BY <1>17 DEF Worker, WorkerDone, RequestStop, TimeIsUp, Finished, vars
    <2> QED
      BY <1>2, <2>1
  <1> QED
    BY <1>3, <1>4, <1>5, <1>6, <1>7, <1>8, <1>9, <1>10, <1>11, <1>12, <1>13, <1>14, <1>15,
       <1>16, <1>17 DEF Next, Coordinator

\* BudgetInv holds throughout every run.
LEMMA BudgetInvariant == Spec => []BudgetInv
  <1>1. Init => BudgetInv
    BY Budgets DEF Init, BudgetInv, EdaBudgetKept, Bigger, Open, Spending, MayStart, Submission, Application
  <1> QED
    BY <1>1, BudgetStep, LedgerInvariant, TypeCorrect, PTL DEF Spec

\* max_eda_runs is kept, in-flight tasks included: exactly with workers, up to
\* the candidate that reaches it without, and past it only by a baseline that
\* costs more than the whole budget (_plan_parallel_tasks, should_stop).
THEOREM BudgetRespected == Spec => []EdaBudgetKept
  <1>1. BudgetInv => EdaBudgetKept
    BY DEF BudgetInv
  <1> QED
    BY <1>1, BudgetInvariant, PTL

-----------------------------------------------------------------------------
(* Stop requests.                                                          *)

\* A request leaves a reason to stop; without workers nothing replaces it, and
\* once a candidate was started after it no other one will be.
StopInv ==
    /\ StopIsPrompt /\ StopHonoured
    /\ asked # <<>> => stop # "none" /\ asked[2] \in Nat
    /\ workers = 1 => /\ failure = "none" /\ ~deadline
                      /\ asked # <<>> => stop = "USER_STOP"
    /\ asked # <<>> /\ workers = 1 /\ Len(ledger) > asked[2] => ~MayStart

\* Every step keeps what a stop request has left behind.
LEMMA StopStep == TypeOK /\ LedgerInv /\ StopInv /\ [Next]_vars => StopInv'
  <1> SUFFICES ASSUME TypeOK, LedgerInv, StopInv, [Next]_vars  PROVE StopInv'
    OBVIOUS
  <1> USE DEF runVars, budgetVars, envVars, genVars, taskVars, waveVars, poolVars, resultVars,
              Submission, Application
  <1>0. workers \in Nat \ {0} /\ Len(ledger) \in Nat /\ iterations \in Nat /\ edaRuns \in Nat
    BY LedgerTyped DEF TypeOK, RunTyped, SearchTyped
  \* Steps that keep the budget's reason and the ledger's length.
  <1>1. ASSUME UNCHANGED <<workers, stop, iterations, asked, failure, deadline>>,
               Len(ledger') = Len(ledger),
               asked # <<>> /\ workers = 1 /\ MayStart' => MayStart,
               pc' = "done" => (pc = "done" /\ resultStop' = resultStop) \/ resultStop' = "ERROR"
        PROVE  StopInv'
    BY <1>1 DEF StopInv, StopIsPrompt, StopHonoured
  \* Steps of a run with workers.
  <1>2. ASSUME workers # 1, UNCHANGED <<workers, iterations, asked>>,
               stop # "none" => stop' # "none"
        PROVE  StopInv'
    BY <1>2 DEF StopInv, StopIsPrompt, StopHonoured
  <1>3. CASE StartBaseline \/ StartDisabled
    <2>1. asked' = <<>> /\ failure' = "none" /\ deadline' = FALSE
      BY <1>3 DEF StartBaseline, StartDisabled, FreshRun
    <2> QED
      BY <2>1 DEF StopInv, StopIsPrompt, StopHonoured
  <1>4. CASE StartRound
    <2>1. /\ ShouldStop = "none" /\ UNCHANGED <<workers, stop, asked, failure, ledger>>
          /\ deadline' = FALSE /\ pc' = "expand"
      BY <1>4 DEF StartRound
    <2>2. asked = <<>>
      BY <1>0, <2>1, BudgetLeft DEF StopInv, ShouldStop
    <2> QED
      BY <2>1, <2>2 DEF StopInv, StopIsPrompt, StopHonoured
  <1>5. CASE BeginRun \/ EndSearch \/ EndExpansion \/ EndApply
    BY <1>1, <1>5 DEF BeginRun, EndSearch, EndExpansion, EndApply, MayStart
  <1>6. ASSUME NEW r \in Results, BaselineDone(r)  PROVE StopInv'
    <2>1. /\ UNCHANGED <<workers, stop, iterations, asked, failure, deadline>>
          /\ Len(ledger') = 1 /\ pc = "baseline"
          /\ pc' = "head" \/ (pc' = "done" /\ resultStop' = "ERROR")
      BY <1>6 DEF BaselineDone
    <2>2. Len(ledger) = 1
      BY <2>1 DEF TypeOK, TasksTyped
    <2> QED
      BY <1>1, <2>1, <2>2 DEF MayStart
  <1>7. CASE ExpandParent \/ SkipKnown
    <2>1. /\ UNCHANGED <<workers, stop, iterations, asked, failure, deadline, ledger>>
          /\ MayStart /\ pc' = "children"
      BY <1>7 DEF ExpandParent, SkipKnown, MayStart
    <2> QED
      BY <1>1, <2>1
  <1>8. CASE EndParent
    <2>1. /\ UNCHANGED <<workers, stop, iterations, asked, failure, deadline, ledger>>
          /\ pc' = "expand"
          /\ workers = 1 /\ ShouldStop # "none" => frontier' = {}
      BY <1>8 DEF EndParent
    <2>2. asked # <<>> => ShouldStop # "none"
      BY <1>0, BudgetLeft DEF StopInv, ShouldStop
    <2> QED
      BY <1>1, <2>1, <2>2 DEF MayStart
  <1>9. CASE EvaluateDirect
    <2>1. /\ UNCHANGED <<workers, stop, iterations, asked, failure, deadline>>
          /\ MayStart /\ pc' = "evaluating" /\ Len(ledger') = Len(ledger) + 1
      <3>1. ledger \in Seq(EntryType)
        BY DEF TypeOK, TasksTyped
      <3>2. \A e : Len(Append(ledger, e)) = Len(ledger) + 1
        BY <3>1
      <3> QED
        BY <1>9, <3>2 DEF EvaluateDirect, Fresh, MayStart
    <2>2. asked # <<>> /\ workers = 1 => Len(ledger) <= asked[2]
      BY <1>0, <2>1 DEF StopInv
    <2>3. asked' # <<>> /\ workers' = 1 => Len(ledger') <= asked'[2] + 1
      BY <1>0, <2>1, <2>2 DEF StopInv
    <2> QED
      BY <2>1, <2>3 DEF StopInv, StopIsPrompt, StopHonoured, MayStart
  <1>10. ASSUME NEW r \in Results, DirectDone(r)  PROVE StopInv'
    <2>1. /\ UNCHANGED <<workers, stop, iterations, asked, failure, deadline>>
          /\ DOMAIN ledger' = DOMAIN ledger /\ pc' = "children"
          /\ batch' # {} => ShouldStopWith(edaRuns + r.runs) = "none"
      BY <1>10 DEF DirectDone, Finalize
    <2>2. edaRuns + r.runs \in Nat
      BY <1>0, OptimizerAssumption DEF Result
    <2>3. asked # <<>> => batch' = {}
      BY <2>1, <2>2, BudgetLeft DEF StopInv
    <2>4. Len(ledger') = Len(ledger)
      <3>1. ledger' \in Seq(EntryType)
        BY TasksStep DEF TasksTyped
      <3> QED
        BY <2>1, <3>1, LedgerTyped
    <2> QED
      BY <1>1, <2>1, <2>3, <2>4 DEF MayStart
  <1>11. CASE PlanTask \/ RefuseTask
    <2>1. workers # 1 /\ UNCHANGED <<workers, iterations, asked>> /\ stop' \in {stop, "MAX_EDA_RUNS"}
      BY <1>0, <1>11 DEF PlanTask, RefuseTask
    <2> QED
      BY <1>2, <2>1
  <1>12. CASE OpenPool \/ PoolFails \/ StartWave \/ StopAtDeadline \/ EndWaves \/ Submit
              \/ SubmitFails \/ WaveSubmitted \/ CollectWave \/ Observe \/ Settle
    <2>1. /\ UNCHANGED <<workers, iterations, asked, stop>>
          /\ pc \in {"dispatch"} \cup Submission \cup Application
      BY <1>12 DEF OpenPool, PoolFails, StartWave, StopAtDeadline, EndWaves, Submit,
                   SubmitFails, WaveSubmitted, CollectWave, Observe, ToApply, Settle
    <2>2. workers # 1
      BY <2>1 DEF LedgerInv, PlanInv
    <2> QED
      BY <1>2, <2>1, <2>2
  <1>13. CASE Record
    <2>1. /\ UNCHANGED <<workers, iterations, asked, failure, deadline, ledger>>
          /\ stop' = IF failure # "none" THEN "ERROR" ELSE IF deadline THEN "MAX_TIME" ELSE stop
          /\ pc' \in {"select", "head"}
      BY <1>13 DEF Record
    <2>2. CASE workers = 1
      <3>1. stop' = stop
        BY <2>1, <2>2 DEF StopInv
      <3> QED
        BY <1>1, <2>1, <3>1 DEF MayStart
    <2>3. CASE workers # 1
      BY <1>2, <2>1, <2>3
    <2> QED
      BY <2>2, <2>3
  <1>14. CASE Select
    <2>1. /\ UNCHANGED <<workers, stop, iterations, asked, failure, deadline, ledger>>
          /\ pc' = "done"
          /\ resultStop' = IF ShouldStop = "none" THEN "ALL_GOALS_SATISFIED" ELSE ShouldStop
      BY <1>14 DEF Select
    <2>2. stop = "USER_STOP" => ShouldStop = "USER_STOP"
      BY DEF ShouldStop, ShouldStopWith
    <2> QED
      BY <2>1, <2>2 DEF StopInv, StopIsPrompt, StopHonoured, MayStart
  <1>15. CASE Worker \/ TimeIsUp \/ Finished \/ UNCHANGED vars
    <2>1. UNCHANGED <<workers, stop, iterations, asked, failure, deadline, ledger, pc,
                      frontier, batch, resultStop>>
      BY <1>15 DEF Worker, WorkerDone, TimeIsUp, Finished, vars
    <2> QED
      BY <1>1, <2>1 DEF MayStart
  <1>16. CASE CoordinatorFails
    <2>1. /\ UNCHANGED <<workers, stop, iterations, asked, failure, deadline>>
          /\ pc' = "done" /\ resultStop' = "ERROR"
          /\ ledger' = [i \in 1..Len(ledger) |->
                           IF ledger[i].status \in Terminal THEN ledger[i]
                           ELSE Closed(ledger[i], "BLOCKED")]
      BY <1>16, LedgerTyped DEF CoordinatorFails
    <2>2. Len(ledger') = Len(ledger)
      BY <1>0, <2>1
    <2> QED
      BY <1>1, <2>1, <2>2 DEF MayStart
  <1>17. CASE RequestStop
    <2>1. /\ UNCHANGED <<pc, workers, iterations, failure, deadline, ledger, frontier, batch,
                         resultStop>>
          /\ asked = <<>> /\ stop' = "USER_STOP"
          /\ asked' = IF Searching THEN <<iterations, Len(ledger)>> ELSE asked
      BY <1>17 DEF RequestStop
    <2>2. CASE ~Searching
      BY <2>1, <2>2 DEF StopInv, StopIsPrompt, StopHonoured
    <2>3. CASE Searching
      <3>1. pc' # "done"
        BY <2>1, <2>3 DEF Searching
      <3>2. asked'[1] = iterations /\ asked'[2] = Len(ledger)
        BY <2>1, <2>3
      <3> QED
        BY <1>0, <2>1, <3>1, <3>2 DEF StopInv, StopIsPrompt, StopHonoured
    <2> QED
      BY <2>2, <2>3
  <1> QED
    BY <1>3, <1>4, <1>5, <1>6, <1>7, <1>8, <1>9, <1>10, <1>11, <1>12, <1>13, <1>14, <1>15,
       <1>16, <1>17 DEF Next, Coordinator

\* StopInv holds throughout every run.
LEMMA StopInvariant == Spec => []StopInv
  <1>1. Init => StopInv
    BY DEF Init, StopInv, StopIsPrompt, StopHonoured
  <1> QED
    BY <1>1, StopStep, LedgerInvariant, TypeCorrect, PTL DEF Spec

\* A stop asked for at any moment of a run ends it promptly: no further round
\* and, without workers, at most the one candidate already about to start
\* (request_stop, should_stop).
THEOREM StopsPromptly == Spec => []StopIsPrompt
  <1>1. StopInv => StopIsPrompt
    BY DEF StopInv
  <1> QED
    BY <1>1, StopInvariant, PTL

\* Without workers the run reports the stop it was asked for
\* (OptimizationResult.stop_reason).
THEOREM StopsAreReported == Spec => []StopHonoured
  <1>1. StopInv => StopHonoured
    BY DEF StopInv
  <1> QED
    BY <1>1, StopInvariant, PTL

-----------------------------------------------------------------------------
(* The ledger implements ExecutionLedger: View and Shut are the mapping of *)
(* Optimizer!Ledger.                                                       *)

View == [i \in 1..Len(ledger) |-> [task |-> <<ledger[i].id, ledger[i].cset>>,
                                   status |-> ledger[i].status,
                                   order |-> ledger[i].order]]
Shut == pc \in {"idle", "resetting", "done"}

\* The lifecycle drawn by ExecutionStatus, as pairs.
Onward(s, t) ==
    \/ s = t
    \/ s = "PLANNED" /\ t = "BLOCKED"
    \/ s = "ADMITTED" /\ t \in {"SUBMITTED", "SKIPPED", "CANCELLED", "BLOCKED"}
    \/ s = "SUBMITTED" /\ t \in {"RUNNING", "FAILED", "BLOCKED"}
    \/ s = "RUNNING" /\ t \in {"COMPLETED", "FAILED", "BLOCKED"}

\* A step that leaves the ledger alone is none of the lifecycle.
LEMMA LedgerKept ==
    ASSUME UNCHANGED ledger, Shut' = Shut
    PROVE  UNCHANGED <<View, Shut>>
  BY DEF View

\* A step that moves entries forward and applies at most one of them.
LEMMA LedgerAdvances ==
    ASSUME TypeOK, ~Shut, DOMAIN ledger' = DOMAIN ledger, ledger' \in Seq(EntryType),
           \A i \in DOMAIN ledger :
              /\ SameTask(ledger'[i], ledger[i])
              /\ Onward(ledger[i].status, ledger'[i].status)
              /\ \/ ledger'[i].order = ledger[i].order
                 \/ /\ ledger[i].order = 0 /\ ledger'[i].order = AppliedCount + 1
                    /\ ledger'[i].status \in Terminal,
           \A i, j \in DOMAIN ledger :
              ledger'[i].order # ledger[i].order /\ ledger'[j].order # ledger[j].order => i = j,
           Shut' => \A i \in DOMAIN ledger : ledger'[i].status \in Terminal
    PROVE  Ledger!Advance
  <1>0. /\ Len(ledger) \in Nat /\ DOMAIN ledger = 1..Len(ledger)
        /\ Len(ledger') = Len(ledger)
    <2>1. /\ Len(ledger) \in Nat /\ DOMAIN ledger = 1..Len(ledger)
          /\ Len(ledger') \in Nat /\ DOMAIN ledger' = 1..Len(ledger')
      BY LedgerTyped
    <2> QED
      BY <2>1
  <1>1. /\ Len(View) = Len(ledger) /\ DOMAIN View = DOMAIN ledger
        /\ Len(View') = Len(ledger)
        /\ \A i \in DOMAIN ledger :
              /\ View[i].task = <<ledger[i].id, ledger[i].cset>>
              /\ View[i].status = ledger[i].status /\ View[i].order = ledger[i].order
              /\ View'[i].task = <<ledger'[i].id, ledger'[i].cset>>
              /\ View'[i].status = ledger'[i].status /\ View'[i].order = ledger'[i].order
    BY <1>0 DEF View
  <1>2. Ledger!NextOrder = AppliedCount + 1
    <2>1. {i \in DOMAIN View : View[i].order > 0} = {i \in DOMAIN ledger : ledger[i].order > 0}
      BY <1>1
    <2>2. Ledger!NextOrder = 1 + Cardinality({i \in DOMAIN View : View[i].order > 0})
      BY Zenon DEF Ledger!NextOrder, Ledger!Cardinality, Cardinality, View
    <2>3. Ledger!NextOrder = 1 + AppliedCount
      BY <2>1, <2>2 DEF AppliedCount
    <2>4. AppliedCount \in Nat
      BY CountTyped DEF TypeOK, TasksTyped
    <2> QED
      BY <2>3, <2>4
  <1>3. \A s : s \in DOMAIN Ledger!Successors <=> s \in {"PLANNED", "ADMITTED", "SUBMITTED", "RUNNING"}
    BY DEF Ledger!Successors
  <1>4. \A s, t : Onward(s, t) => s = t \/ (s \in DOMAIN Ledger!Successors /\ t \in Ledger!Successors[s])
    BY DEF Onward, Ledger!Successors
  <1>5. \A e : Ledger!IsOpen(e) <=> e.status \in DOMAIN Ledger!Successors
    BY DEF Ledger!IsOpen
  <1>6. \A e : e.status \in Terminal => ~Ledger!IsOpen(e)
    BY <1>3, <1>5 DEF Terminal
  <1>7. \A i \in DOMAIN ledger : Ledger!Forward(View[i], View'[i])
    <2> SUFFICES ASSUME NEW i \in DOMAIN ledger  PROVE Ledger!Forward(View[i], View'[i])
      OBVIOUS
    <2>1. View'[i].task = View[i].task
      BY <1>1 DEF SameTask
    <2>2. View'[i].status = View[i].status
             \/ (Ledger!IsOpen(View[i]) /\ View'[i].status \in Ledger!Successors[View[i].status])
      BY <1>1, <1>4, <1>5
    <2>3. View'[i].order = View[i].order
             \/ (View[i].order = 0 /\ View'[i].order = Ledger!NextOrder /\ ~Ledger!IsOpen(View'[i]))
      BY <1>1, <1>2, <1>6
    <2> QED
      BY <2>1, <2>2, <2>3 DEF Ledger!Forward
  <1>8. Shut' => Ledger!AllClosed(View')
    BY <1>1, <1>6 DEF Ledger!AllClosed
  <1>9. /\ ~Shut /\ Len(View') = Len(View)
        /\ \A i \in DOMAIN View : Ledger!Forward(View[i], View'[i])
        /\ \A i, j \in DOMAIN View :
              View'[i].order # View[i].order /\ View'[j].order # View[j].order => i = j
        /\ Shut' => Ledger!AllClosed(View')
    BY <1>1, <1>7, <1>8
  <1> QED
    BY <1>9 DEF Ledger!Advance, View, Shut

\* A step that restates entries without applying any.
LEMMA LedgerRestated ==
    ASSUME TypeOK, ~Shut, DOMAIN ledger' = DOMAIN ledger, ledger' \in Seq(EntryType),
           \A i \in DOMAIN ledger :
              /\ SameTask(ledger'[i], ledger[i]) /\ ledger'[i].order = ledger[i].order
              /\ Onward(ledger[i].status, ledger'[i].status),
           Shut' => \A i \in DOMAIN ledger : ledger'[i].status \in Terminal
    PROVE  Ledger!Advance
  BY LedgerAdvances

\* A step that applies one outcome.
LEMMA LedgerSettles ==
    ASSUME TypeOK, LedgerInv, ~Shut, ~Shut', ledger' \in Seq(EntryType),
           NEW k \in DOMAIN ledger, ledger[k].order = 0,
           NEW e \in EntryType, SameTask(e, ledger[k]), NEW r, Finalize(k, e, r),
           Onward(ledger[k].status, IF e.status \in Terminal THEN e.status ELSE "COMPLETED")
    PROVE  Ledger!Advance
  <1>1. /\ DOMAIN ledger' = DOMAIN ledger
        /\ \A i \in DOMAIN ledger \ {k} : ledger'[i] = ledger[i]
        /\ SameTask(ledger'[k], ledger[k]) /\ ledger'[k].order = AppliedCount + 1
        /\ ledger'[k].status = IF e.status \in Terminal THEN e.status ELSE "COMPLETED"
    BY FinalizeFields DEF LedgerInv, AppliedInv
  <1>2. \A i \in DOMAIN ledger :
           /\ SameTask(ledger'[i], ledger[i])
           /\ Onward(ledger[i].status, ledger'[i].status)
           /\ \/ ledger'[i].order = ledger[i].order
              \/ /\ ledger[i].order = 0 /\ ledger'[i].order = AppliedCount + 1
                 /\ ledger'[i].status \in Terminal
    BY <1>1 DEF SameTask, Onward, Terminal
  <1>3. \A i, j \in DOMAIN ledger :
           ledger'[i].order # ledger[i].order /\ ledger'[j].order # ledger[j].order => i = j
    BY <1>1
  <1> QED
    BY <1>1, <1>2, <1>3, LedgerAdvances

\* A step that adds an entry.
LEMMA LedgerPlans ==
    ASSUME TypeOK, ~Shut, ~Shut', NEW e, ledger' = Append(ledger, e),
           e.status \in {"ADMITTED", "RUNNING", "SKIPPED"}, e.order = 0
    PROVE  Ledger!Plan
  <1>0. ledger \in Seq(EntryType)
    BY DEF TypeOK, TasksTyped
  <1>1. /\ Len(ledger) \in Nat /\ Len(ledger') = Len(ledger) + 1
        /\ \A i \in 1..Len(ledger) : ledger'[i] = ledger[i]
        /\ ledger'[Len(ledger) + 1] = e
    BY <1>0
  <1>2. /\ Len(View) = Len(ledger) /\ DOMAIN View = 1..Len(ledger)
        /\ Len(View') = Len(ledger) + 1
        /\ \A i \in DOMAIN View : View'[i] = View[i]
        /\ View'[Len(ledger) + 1].status = e.status /\ View'[Len(ledger) + 1].order = e.order
    BY <1>1 DEF View
  <1>3. /\ ~Shut /\ ~Shut' /\ Len(View') = Len(View) + 1
        /\ \A i \in DOMAIN View : View'[i] = View[i]
        /\ View'[Len(View')].status \in {"ADMITTED", "RUNNING", "SKIPPED"}
        /\ View'[Len(View')].order = 0
    BY <1>2
  <1> QED
    BY <1>3 DEF Ledger!Plan, View, Shut

\* A step that opens a ledger.
LEMMA LedgerOpens ==
    ASSUME Shut, NEW e, ledger' = <<e>>,
           \/ ~Shut' /\ e.status = "RUNNING" /\ e.order = 0
           \/ Shut' /\ e.status = "BLOCKED" /\ e.order = 1
    PROVE  Ledger!Open
  <1>1. Len(View') = 1 /\ View'[1].status = e.status /\ View'[1].order = e.order
    BY DEF View
  <1>2. /\ Shut /\ Len(View') = 1
        /\ \/ ~Shut' /\ View'[1].status = "RUNNING" /\ View'[1].order = 0
           \/ Shut' /\ View'[1].status = "BLOCKED" /\ View'[1].order = 1
    BY <1>1
  <1> QED
    BY <1>2 DEF Ledger!Open, View, Shut

\* The empty ledger is an initial state of the lifecycle.
LEMMA LifecycleInit == Init => Ledger!Init
  <1> SUFFICES ASSUME Init PROVE Ledger!Init
    OBVIOUS
  <1>1. View = <<>> /\ Shut
    BY DEF Init, View, Shut
  <1> QED
    BY <1>1 DEF Ledger!Init, View, Shut

\* Every step of the run is a step of the ledger's lifecycle or leaves it.
LEMMA LifecycleStep ==
    ASSUME TypeOK, LedgerInv, [Next]_vars
    PROVE  Ledger!Next \/ UNCHANGED <<View, Shut>>
  <1> USE DEF runVars, budgetVars, envVars, genVars, taskVars, waveVars, poolVars, resultVars,
              Submission, Application
  <1>0. /\ Len(ledger) \in Nat /\ DOMAIN ledger = 1..Len(ledger)
        /\ \A i \in DOMAIN ledger : ledger[i] \in EntryType /\ i \in Nat
        /\ taskFrom \in Nat \ {0} /\ taskTo \in Nat /\ taskTo <= Len(ledger)
        /\ cursor \in Nat \ {0} /\ waveEnd \in Nat
        /\ pc \in Submission \cup Application => taskFrom <= cursor
        /\ pc = "submit" => waveEnd <= taskTo
        /\ pc = "settle" => cursor <= taskTo
    BY LedgerTyped DEF TasksTyped
  <1>1. ledger' \in Seq(EntryType)
    BY TasksStep DEF TasksTyped
  <1>2. pc \in {"dispatch"} \cup Submission \cup Application =>
           ~Shut /\ \A i \in DOMAIN ledger :
              i \in Unsettled => ledger[i].order = 0 /\ ledger[i].status \in Expected(i)
    BY DEF LedgerInv, StageInv, Shut
  <1>3. CASE BeginRun \/ StartRound \/ EndSearch \/ ExpandParent \/ EndParent \/ SkipKnown
             \/ EndExpansion \/ Record
    <2>1. UNCHANGED ledger /\ Shut' = Shut
      BY <1>3 DEF BeginRun, StartRound, EndSearch, ExpandParent, EndParent, SkipKnown,
                  EndExpansion, Record, Shut
    <2> QED
      BY <2>1, LedgerKept
  <1>4. CASE OpenPool \/ StartWave \/ EndWaves \/ WaveSubmitted \/ EndApply
    <2>1. UNCHANGED ledger /\ Shut' = Shut
      BY <1>4 DEF OpenPool, StartWave, EndWaves, WaveSubmitted, EndApply, Shut
    <2> QED
      BY <2>1, LedgerKept
  <1>5. CASE Worker \/ RequestStop \/ TimeIsUp \/ Finished \/ UNCHANGED vars
    <2>1. UNCHANGED ledger /\ Shut' = Shut
      BY <1>5 DEF Worker, WorkerDone, RequestStop, TimeIsUp, Finished, vars, Shut
    <2> QED
      BY <2>1, LedgerKept
  <1>6. CASE Select
    <2>1. pc = "select" /\ UNCHANGED ledger /\ ~Shut
      BY <1>6 DEF Select, Shut
    <2>2. \A i \in DOMAIN ledger : ledger[i].status \in Terminal
      BY <2>1 DEF LedgerInv, AppliedInv, StageInv, Unsettled, Settled, Terminal
    <2>3. Ledger!Advance
      BY <1>1, <2>1, <2>2, LedgerRestated DEF SameTask, Onward
    <2> QED
      BY <2>3 DEF Ledger!Next
  <1>7. CASE StartBaseline
    <2> DEFINE e == Entry(0, BaselineSet, "RUNNING", "ADMITTED", "SUBMITTED")
    <2>1. Shut /\ ledger' = <<e>> /\ ~Shut'
      BY <1>7 DEF StartBaseline, FreshRun, Shut
    <2>2. e.status = "RUNNING" /\ e.order = 0
      BY DEF Entry
    <2> HIDE DEF e
    <2> QED
      BY <2>1, <2>2, LedgerOpens DEF Ledger!Next
  <1>8. CASE StartDisabled
    <2> DEFINE o == Entry(0, BaselineSet, "PLANNED", "PENDING", "NOT_SUBMITTED")
               c == Candidate(0, BaselineSet, NotRun)
               e == Applied(Closed(o, "BLOCKED"), c, 1)
    <2>1. o \in EntryType
      BY EntryTyped, OptimizerAssumption
    <2>2. Shut /\ ledger' = <<e>> /\ Shut'
      BY <1>8 DEF StartDisabled, FreshRun, Shut
    <2> HIDE DEF o, c
    <2>3. e.status = "BLOCKED" /\ e.order = 1
      BY <2>1, ClosedTyped, ClosedFields, AppliedFields DEF Terminal
    <2> HIDE DEF e
    <2> QED
      BY <2>2, <2>3, LedgerOpens DEF Ledger!Next
  <1>9. ASSUME NEW r \in Results, BaselineDone(r)  PROVE Ledger!Next
    <2> DEFINE c == Candidate(0, BaselineSet, r)
               b == IF r.error THEN Closed(ledger[1], "FAILED") ELSE ledger[1]
               e == Applied(b, c, 1)
    <2>1. pc = "baseline" /\ ledger' = <<e>> /\ ~Shut /\ Len(ledger) = 1
      BY <1>9 DEF BaselineDone, Shut, TypeOK, TasksTyped
    <2>2. /\ DOMAIN ledger = {1} /\ DOMAIN ledger' = {1}
          /\ ledger[1] \in EntryType /\ ledger[1].status = "RUNNING" /\ ledger[1].order = 0
      BY <1>0, <2>1 DEF LedgerInv, StageInv, Unsettled, Expected
    <2>3. AppliedCount = 0
      <3>1. {i \in DOMAIN ledger : ledger[i].order > 0} = {}
        BY <2>2
      <3> QED
        BY <3>1, FS_EmptySet DEF AppliedCount
    <2>4. b \in EntryType /\ b.status \in {"FAILED", "RUNNING"} /\ SameTask(b, ledger[1])
      BY <2>2, ClosedTyped, ClosedFields DEF Terminal, SameTask
    <2> HIDE DEF b
    <2>5. e.order = 1 /\ e.status \in {"FAILED", "COMPLETED"} /\ SameTask(e, b)
      BY <2>4, AppliedFields DEF Terminal
    <2> HIDE DEF c, e
    <2>6. /\ SameTask(ledger'[1], ledger[1]) /\ Onward(ledger[1].status, ledger'[1].status)
          /\ ledger'[1].order = AppliedCount + 1 /\ ledger'[1].status \in Terminal
      BY <2>1, <2>2, <2>3, <2>4, <2>5 DEF SameTask, Onward, Terminal
    <2>7. Ledger!Advance
      BY <1>1, <2>1, <2>2, <2>6, LedgerAdvances
    <2> QED
      BY <2>7 DEF Ledger!Next
  <1>10. CASE EvaluateDirect \/ PlanTask
    <2> DEFINE e == IF workers = 1 THEN Entry(Child.id, Child.cset, "RUNNING", "ADMITTED", "SUBMITTED")
                    ELSE Entry(Child.id, Child.cset, "ADMITTED", "ADMITTED", "NOT_SUBMITTED")
    <2>1. ledger' = Append(ledger, e) /\ ~Shut /\ ~Shut'
      BY <1>10, LedgerTyped DEF EvaluateDirect, PlanTask, Fresh, Shut
    <2>2. e.status \in {"ADMITTED", "RUNNING", "SKIPPED"} /\ e.order = 0
      BY DEF Entry
    <2> HIDE DEF e
    <2> QED
      BY <2>1, <2>2, LedgerPlans DEF Ledger!Next
  <1>11. CASE RefuseTask
    <2> DEFINE e == Closed(Entry(Child.id, Child.cset, "PLANNED", "NOT_ADMITTED",
                                 "NOT_SUBMITTED"), "SKIPPED")
    <2>1. ledger' = Append(ledger, e) /\ ~Shut /\ ~Shut'
      BY <1>11 DEF RefuseTask, Fresh, Shut
    <2>2. e.status \in {"ADMITTED", "RUNNING", "SKIPPED"} /\ e.order = 0
      BY DEF Entry, Closed
    <2> HIDE DEF e
    <2> QED
      BY <2>1, <2>2, LedgerPlans DEF Ledger!Next
  <1>12. ASSUME NEW r \in Results, DirectDone(r)  PROVE Ledger!Next
    <2> DEFINE k == Len(ledger)
               e == IF r.error THEN Closed(ledger[k], "FAILED") ELSE ledger[k]
    <2>1. Finalize(k, e, r) /\ k \in DOMAIN ledger /\ pc = "evaluating" /\ ~Shut /\ ~Shut'
      BY <1>0, <1>12 DEF DirectDone, TypeOK, TasksTyped, Shut
    <2>2. ledger[k].order = 0 /\ ledger[k].status = "RUNNING" /\ ledger[k] \in EntryType
      BY <1>0, <2>1 DEF LedgerInv, StageInv, Unsettled, Expected
    <2>3. e \in EntryType /\ SameTask(e, ledger[k]) /\ e.status \in {"FAILED", "RUNNING"}
      BY <2>2, ClosedTyped, ClosedFields DEF SameTask, Terminal
    <2>4. Onward(ledger[k].status, IF e.status \in Terminal THEN e.status ELSE "COMPLETED")
      BY <2>2, <2>3 DEF Onward, Terminal
    <2> HIDE DEF e, k
    <2>5. Ledger!Advance
      BY <1>1, <2>1, <2>2, <2>3, <2>4, LedgerSettles
    <2> QED
      BY <2>5 DEF Ledger!Next
  <1>13. CASE Settle
    <2> DEFINE e == ledger[cursor]
               r == Outcome(cursor)
    <2>1. /\ Finalize(cursor, e, r) /\ cursor \in DOMAIN ledger /\ pc = "settle" /\ ~Shut'
          /\ cursor \in cursor..taskTo
      BY <1>0, <1>13 DEF Settle, Shut
    <2>2. /\ e.order = 0 /\ e.status \in {"RUNNING"} \cup Terminal /\ e \in EntryType
          /\ ~Shut
      BY <1>0, <1>2, <2>1 DEF Unsettled, Expected
    <2>3. Onward(e.status, IF e.status \in Terminal THEN e.status ELSE "COMPLETED")
      BY <2>2 DEF Onward, Terminal
    <2> HIDE DEF r
    <2>4. Ledger!Advance
      BY <1>1, <2>1, <2>2, <2>3, LedgerSettles DEF SameTask
    <2> QED
      BY <2>4 DEF Ledger!Next
  <1>14. CASE PoolFails \/ StopAtDeadline \/ CollectWave
    <2> DEFINE k == IF pc = "dispatch" THEN taskFrom ELSE IF pc = "wave" THEN cursor ELSE cursor + 1
               status == IF pc = "dispatch" THEN "BLOCKED"
                         ELSE IF pc = "wave" THEN "SKIPPED" ELSE "CANCELLED"
    <2>1. /\ pc \in {"dispatch", "wave", "collect"} /\ ~Shut /\ ~Shut' /\ Shut' = Shut
          /\ ledger' = ledger \/ ledger' = CloseFrom(k, status)
      BY <1>14 DEF PoolFails, StopAtDeadline, CollectWave, Shut
    <2>2. CASE ledger' = ledger
      BY <2>1, <2>2, LedgerKept
    <2>3. CASE ledger' = CloseFrom(k, status)
      <3>1. \A i \in DOMAIN ledger : i \in k..taskTo =>
               i \in Tasks /\ (pc = "dispatch" \/ (~(i < cursor) /\ (pc = "wave" \/ i # cursor)))
        BY <1>0, <2>1 DEF Tasks
      <3>2. \A i \in DOMAIN ledger : i \in k..taskTo => ledger[i].status = "ADMITTED"
        <4>1. pc = "wave" => failure = "none"
          BY DEF LedgerInv, PlanInv
        <4> QED
          BY <1>2, <2>1, <3>1, <4>1 DEF Unsettled, Expected
      <3>3. status \in {"BLOCKED", "SKIPPED", "CANCELLED"}
        OBVIOUS
      <3> HIDE DEF k, status
      <3>4. /\ DOMAIN ledger' = DOMAIN ledger
            /\ \A i \in DOMAIN ledger :
                  /\ SameTask(ledger'[i], ledger[i]) /\ ledger'[i].order = ledger[i].order
                  /\ ledger'[i].status = IF i \in k..taskTo THEN status ELSE ledger[i].status
        BY <1>0, <2>3, CloseFromFields
      <3>5. \A i \in DOMAIN ledger : Onward(ledger[i].status, ledger'[i].status)
        BY <3>2, <3>3, <3>4 DEF Onward
      <3>6. Ledger!Advance
        BY <1>1, <2>1, <3>4, <3>5, LedgerRestated
      <3> QED
        BY <3>6 DEF Ledger!Next
    <2> QED
      BY <2>1, <2>2, <2>3
  <1>15. CASE Submit \/ SubmitFails
    <2>1. /\ pc = "submit" /\ cursor <= waveEnd /\ ~Shut /\ ~Shut'
          /\ \/ ledger' = [ledger EXCEPT ![cursor].status = "SUBMITTED",
                                         ![cursor].sub = "SUBMITTED"]
             \/ ledger' = [ledger EXCEPT ![cursor] = [Closed(@, "BLOCKED") EXCEPT !.sub = "FAILED"]]
      BY <1>15 DEF Submit, SubmitFails, Shut
    <2>2. cursor \in Tasks /\ cursor \in DOMAIN ledger /\ ~(cursor < cursor)
      BY <1>0, <2>1 DEF Tasks
    <2>3. failure = "none"
      BY <2>1 DEF LedgerInv, PlanInv
    <2>4. ledger[cursor].status = "ADMITTED" /\ ledger[cursor] \in EntryType
      BY <1>0, <1>2, <2>1, <2>2, <2>3 DEF Unsettled, Expected
    <2>5. /\ DOMAIN ledger' = DOMAIN ledger
          /\ \A i \in DOMAIN ledger \ {cursor} : ledger'[i] = ledger[i]
          /\ SameTask(ledger'[cursor], ledger[cursor])
          /\ ledger'[cursor].order = ledger[cursor].order
          /\ ledger'[cursor].status \in {"SUBMITTED", "BLOCKED"}
      <3> DEFINE e == ledger[cursor]
      <3>1. /\ e \in EntryType /\ cursor \in DOMAIN ledger
            /\ \/ ledger' = [ledger EXCEPT ![cursor] = [e EXCEPT !.status = "SUBMITTED",
                                                               !.sub = "SUBMITTED"]]
               \/ ledger' = [ledger EXCEPT ![cursor] = [Closed(e, "BLOCKED")
                                                          EXCEPT !.sub = "FAILED"]]
        BY <2>1, <2>2, <2>4
      <3>2. CASE ledger' = [ledger EXCEPT ![cursor] = [e EXCEPT !.status = "SUBMITTED",
                                                               !.sub = "SUBMITTED"]]
        <4>1. ledger'[cursor] = [e EXCEPT !.status = "SUBMITTED", !.sub = "SUBMITTED"]
          BY <3>1, <3>2
        <4>2. /\ DOMAIN ledger' = DOMAIN ledger
              /\ \A i \in DOMAIN ledger \ {cursor} : ledger'[i] = ledger[i]
          BY <3>2
        <4> QED
          BY <3>1, <4>1, <4>2 DEF SameTask, EntryType
      <3>3. CASE ledger' = [ledger EXCEPT ![cursor] = [Closed(e, "BLOCKED")
                                                         EXCEPT !.sub = "FAILED"]]
        <4>1. ledger'[cursor] = [Closed(e, "BLOCKED") EXCEPT !.sub = "FAILED"]
          BY <3>1, <3>3
        <4>2. /\ DOMAIN ledger' = DOMAIN ledger
              /\ \A i \in DOMAIN ledger \ {cursor} : ledger'[i] = ledger[i]
          BY <3>3
        <4> QED
          BY <3>1, <4>1, <4>2 DEF SameTask, EntryType, Closed
      <3> QED
        BY <3>1, <3>2, <3>3
    <2>6. \A i \in DOMAIN ledger :
             /\ SameTask(ledger'[i], ledger[i]) /\ ledger'[i].order = ledger[i].order
             /\ Onward(ledger[i].status, ledger'[i].status)
      BY <2>4, <2>5 DEF SameTask, Onward
    <2>7. Ledger!Advance
      BY <1>1, <2>1, <2>5, <2>6, LedgerRestated
    <2> QED
      BY <2>7 DEF Ledger!Next
  <1>16. CASE Observe
    <2>1. /\ pc = "apply" /\ cursor <= taskTo /\ ~Shut /\ ~Shut' /\ Shut' = Shut
          /\ \/ ledger' = ledger
             \/ /\ ledger[cursor].status \notin Terminal
                /\ \/ ledger' = [ledger EXCEPT ![cursor] = Closed(@, "FAILED")]
                   \/ ledger' = [ledger EXCEPT ![cursor].status = "RUNNING"]
      BY <1>16 DEF Observe, ToApply, Shut
    <2>2. CASE ledger' = ledger
      BY <2>1, <2>2, LedgerKept
    <2>3. CASE ledger' # ledger
      <3>1. cursor \in cursor..taskTo /\ cursor \in DOMAIN ledger
        BY <1>0, <2>1
      <3>2. ledger[cursor].status = "SUBMITTED" /\ ledger[cursor] \in EntryType
        BY <1>0, <1>2, <2>1, <2>3, <3>1 DEF Unsettled, Expected
      <3>3. /\ DOMAIN ledger' = DOMAIN ledger
            /\ \A i \in DOMAIN ledger \ {cursor} : ledger'[i] = ledger[i]
            /\ SameTask(ledger'[cursor], ledger[cursor])
            /\ ledger'[cursor].order = ledger[cursor].order
            /\ ledger'[cursor].status \in {"FAILED", "RUNNING"}
        <4>1. CASE ledger' = [ledger EXCEPT ![cursor] = Closed(@, "FAILED")]
          BY <3>1, <3>2, <4>1, ClosedFields
        <4>2. CASE ledger' = [ledger EXCEPT ![cursor].status = "RUNNING"]
          BY <3>1, <3>2, <4>2 DEF SameTask, EntryType
        <4> QED
          BY <2>1, <2>3, <4>1, <4>2
      <3>4. \A i \in DOMAIN ledger :
               /\ SameTask(ledger'[i], ledger[i]) /\ ledger'[i].order = ledger[i].order
               /\ Onward(ledger[i].status, ledger'[i].status)
        BY <3>2, <3>3 DEF SameTask, Onward
      <3>5. Ledger!Advance
        BY <1>1, <2>1, <3>3, <3>4, LedgerRestated
      <3> QED
        BY <3>5 DEF Ledger!Next
    <2> QED
      BY <2>2, <2>3
  <1>17. CASE CoordinatorFails
    <2>1. /\ ~Shut
          /\ ledger' = [i \in DOMAIN ledger |->
                           IF ledger[i].status \in Terminal THEN ledger[i]
                           ELSE Closed(ledger[i], "BLOCKED")]
      BY <1>17 DEF CoordinatorFails, Shut
    <2>2. /\ DOMAIN ledger' = DOMAIN ledger
          /\ \A i \in DOMAIN ledger :
                /\ SameTask(ledger'[i], ledger[i]) /\ ledger'[i].order = ledger[i].order
                /\ ledger'[i].status = IF ledger[i].status \in Terminal THEN ledger[i].status
                                       ELSE "BLOCKED"
      BY <1>0, <2>1, ClosedFields DEF SameTask
    <2>3. \A i \in DOMAIN ledger :
             ledger[i].status \in Terminal \cup {"PLANNED", "ADMITTED", "SUBMITTED", "RUNNING"}
      BY <1>0 DEF EntryType
    <2>4. \A i \in DOMAIN ledger : /\ Onward(ledger[i].status, ledger'[i].status)
                                   /\ ledger'[i].status \in Terminal
      BY <2>2, <2>3 DEF Onward, Terminal
    <2>5. Ledger!Advance
      BY <1>1, <2>1, <2>2, <2>4, LedgerRestated
    <2> QED
      BY <2>5 DEF Ledger!Next
  <1> QED
    BY <1>3, <1>4, <1>5, <1>6, <1>7, <1>8, <1>9, <1>10, <1>11, <1>12, <1>13, <1>14, <1>15,
       <1>16, <1>17 DEF Next, Coordinator

\* The ledger implements the lifecycle promised to its readers: entries move
\* forward only, keep their task, are applied once and in number, and a closed
\* ledger is finished and frozen (ExecutionLedgerEntry, _mark_* and run).
THEOREM LedgerImplementsLifecycle == Spec => LedgerLifecycle
  <1>1. TypeOK /\ LedgerInv /\ [Next]_vars => [Ledger!Next]_<<View, Shut>>
    BY LifecycleStep
  <1> QED
    BY <1>1, LifecycleInit, LedgerInvariant, TypeCorrect, PTL
       DEF Spec, LedgerLifecycle, Ledger!Spec, View, Shut
=============================================================================
