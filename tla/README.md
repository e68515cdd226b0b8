# Verification of the RTL constraint assistant

The repository turns RTL and design intent into timing constraints, evaluates
candidate constraint sets with synthesis and static timing analysis, searches
for better ones, and carries the chosen set through review, release and
handoff. This directory holds TLA+ models of the parts of it where order,
concurrency and failure decide correctness, the TLC configurations that check
them, and proofs checked by TLAPS. Paths below are relative to
`src/src/rca/` unless they start with `src/`.

Modelled are the **closed-loop optimizer** with the **selection** it relies on,
its **multi-corner** evaluation, the **run cache** under it and the **history
database** beside it; the **constraint model** with **inference** and the
application of inferred intent; **validation**, **timing exceptions**,
**readiness** and **comparison** of constraint sets; and the governed path
from **review** over **release** and package to **handoff**.

## 1. Inventory

| Component | State it keeps | Operations | What is hard | What makes it correct |
|---|---|---|---|---|
| Closed-loop optimizer (`optimizer/base.py`, `budget.py`, `execution.py`, `search.py`, `candidate.py`) | candidates, explored hashes, frontier, budget and sticky stop reason, execution ledger, thread pool | `run`, `request_stop`; inside: plan, submit, collect, apply, record, select | workers finish in any order; stop requests from other threads; the deadline; pool creation, submission and coordinator failures; reuse of one object | results do not depend on completion order; no constraint set evaluated twice; budget never oversubscribed; ledger tells the truth; every run returns |
| QoR objectives and selection (`qor/objectives.py`, `qor/model.py`) | none | feasibility, dominance, `pareto_front`, `select_final`, `scalar_score` | missing and proxy metrics, comparison with a tolerance, one pass over a relation that must be transitive | the front is the non-dominated eligible set; the final pick loses to nobody in its pool |
| EDA flow and run cache (`eda/flow.py`, `artifacts/manager.py`) | run directories: artifacts and a manifest each | `run_flow`: hash inputs, look up, clear, synthesize, STA, write, commit | crashes between steps, tool failures and timeouts, reused directories, concurrent callers, damaged files | a cached or fresh result is the result of the inputs the call hashed |
| Tool backends, preflight (`eda/preflight.py`, `eda/yosys`, `eda/opensta`) | tool identity | `discover`, `synthesize`, `run_sta` | subprocess outcomes | missing output is never success |
| QoR history database (`qor/repository.py`) | SQLite tables, schema version | `record_*`, `import_legacy_artifacts`, `best_qor`, migrations | the same evidence arrives twice, live and re-imported; conflicting records; rollback | import is idempotent; history never overrides artifacts |
| Multi-corner multi-mode (`mcmm/`) | per-evaluator baseline map, scenario cache | `MCMMEvaluator.__call__`, `mcmm_pareto_front`, `mcmm_select_final` | workers share an evaluator; a missing scenario must not look like a good one | globally feasible only if every active scenario is |
| Engineering review (`review/engine.py`) | immutable review records chained by supersession | create, assess, decide, revoke, supersede | decision on evidence that has changed since | no approval outlives what it approved |
| Release control (`release/engine.py`) | release records, package files | create, assess, release, revoke, package, verify | review revoked between assessment and release; partial package | a released set was approved and unchanged |
| Implementation handoff (`handoff/engine.py`) | handoff records | assess, prepare, verify | package revoked or modified after preparation | only verified packages of active releases |
| Inference and intent application (`inference/`) | decisions, trial constraint set | `apply_intent_decision` | stale decisions, partial application, duplicates | all or nothing; a decision applies to what it was made about |
| Assumptions, evidence (`provenance/`) | ledger of assumptions and dependents | `add`, `make`, `confirm`, `bind_*`, `stale_consumers` | ids after reload, dependents of a changed assumption | no consumer of a changed assumption is missed |
| Unified constraint model (`constraint_model/`) | constraints, dependency edges, id counter | add, remove, clone, validate, snapshot | dangling and cyclic edges, repair on load | ids unique, closure computes all dependents |
| Validation and conflicts (`validation/`) | none | `validate_conflicts`, precedence | overlapping exceptions | precedence is a strict order |
| Timing exceptions (`exceptions/`) | proof status | `verify_exceptions`, `emittable_exceptions` | bounded or unknown tool results | only proved exceptions are emitted |
| Readiness, lineage, workflow (`readiness/`, `lineage/`, `workflow/`) | none (derived) | assess, explain | stale inputs | status never better than its evidence |
| Knowledge search (`search/knowledge.py`) | patterns by digest | search, `accept_suggestion` | suggestion accepted after the set changed | acceptance goes through intent application |
| Equivalence, SDC, RTL parsing (`equivalence/`, `sdc/`, `sdc_importer/`, `parser/`) | none | render, parse, compare | data conversion | round trips |
| Config, CLI, web, reports | configuration | wiring | limits of the schema | - |

How they interact. The CLI builds an `Optimizer` with an `evaluate_fn`; it
calls `run_flow` (one scenario) or an `MCMMEvaluator`, which calls it once per
active scenario. Workers run `evaluate_fn` in pool threads and return a value;
only the coordinator changes candidates, budget, ledger and the history
database. `run_flow` calls of different workers, and of different invocations
of the program, share the `runs` directory: each writes its own directory and
reads all others when it looks for a cached result. Selection (`objectives.py`)
is called by the coordinator after every round. Review, release and handoff
read the artifacts of the others by content identity.

## 2. Modules

| Module | What it is |
|---|---|
| `QoRSelection` | `qor/objectives.py` as operators: feasibility, `CmpMetric`, `Dominates`, `ParetoFront`, `PriorityCompare`, `SelectFinal`, `ScalarScore` |
| `ParetoLoop` | the loop of `pareto_front` as a machine: `Consider` is one iteration, in every order of arrival; its theorems are at the end of `McmmProofs` |
| `Optimizer` | one `Optimizer` object: `_run_impl`, serial and parallel evaluation, `request_stop`, the deadline, failures |
| `ExecutionLedger` | the abstract specification of `execution.py`: what a reader of the ledger may rely on |
| `OptimizerEquivalence` | a serial and a parallel optimizer run on the same measurements, compared |
| `Mcmm` | `mcmm/aggregate.py`, `mcmm/matrix.py` as operators: scenario matrix, status and margins per scenario, dominance, front, binding objectives, final pick |
| `McmmEvaluation` | one `MCMMEvaluator` shared by worker threads, with its baseline map |
| `RunCache` | calls of `run_flow` and the run directories they share |
| `QoRRecords` | the tables of the history database and what each recording does to them in its transaction |
| `QoRHistory` | processes that initialise, migrate, record into and import into one database, and the files they read |
| `ConstraintSet` | the unified constraint model: ids, edges in both directions, staleness, snapshots, assumption ledger |
| `IntentInference` | the stock rules, the merging engine, and candidates with the identity of their sources |
| `IntentApplication` | sessions that infer, keep, decide, edit and save while the project moves on |
| `TimingConstraints` | the shape of constraints and designs the analyses below share |
| `TimingExceptions` | structural analysis, risk, proofs, binding of answers, the decision to emit |
| `Validation`, `Conflicts`, `Coverage` | the layers of `run_validation`, in its order |
| `Readiness` | every requirement of the readiness report, per-scenario and overall status |
| `SemanticCompare` | normalisation, match keys, pairing, projection and the verdict |
| `Analysis` | a set, its design and its project under edit, asked whether it is ready and whether it equals a copy |
| `EvidenceGates` | scope and the gates review and release have in common |
| `Review`, `Release`, `Handoff` | the three engines as operators on immutable records |
| `Governance` | the files of those records, edits, packers, crashes, damage |
| `MC*` | values for the constants, for TLC |
| `SelectionProofs` | what the operators of `QoRSelection` compute, for every sequence of candidates: induction, the front's pass, the order of `priority_compare`, the best member |
| `*Proofs` | theorems of the machines and their proofs |

Composition: `Optimizer` extends `QoRSelection` and instantiates
`ExecutionLedger` with a mapping; `OptimizerEquivalence` instantiates two
`Optimizer`s; `McmmEvaluation` extends `Mcmm`, which extends `QoRSelection` and
instantiates it a second time with the defaults the evaluator uses;
`IntentApplication` extends `IntentInference` and `ConstraintSet`; `Analysis`
extends `Readiness` (over `Coverage`, `Conflicts`, `Validation`,
`TimingExceptions` and `ConstraintSet`) and `SemanticCompare`; `Governance`
extends `Handoff`, `Release`, `Review`. Operators whose comment or name says
*Mutant* are plausible bugs, used to see that a property would notice them;
nothing else refers to them.

### QoRSelection and ParetoLoop

A candidate is its id and its QoR record. All numbers are integers in a unit of
one's choice, `Unknown` is `None`, `NoQoR` a candidate without result. `Eps` is
how many of these units make the tolerance of 1e-12; the runs take one, and
values that lie one, two or more apart. The share of the baseline's margin is a
pair of numbers, compared exactly up to `1/Resolution`; the 1e-9 below which the
code takes a margin for none is taken for zero. `Admit(s, front, k)` is one iteration of
the loop of `pareto_front`, `ParetoFront` its pass over the candidates; `Keep`
is one step of Python's `max`, `BestOf` its pass over the front. Both passes
are recursive functions, which the proofs can unroll. Equality within a
tolerance is not transitive, so neither dominance nor the comparison of
priorities is an order on all results (`qor/objectives.py:305`, `:547`). The
properties therefore say separately what holds of every result, and what holds
where it matters that comparisons compose: values `ToldApart` -- equal, or
further apart than the tolerance -- and metrics `ReportedAlike`. `Turn` is the place of a
bucket in the order of priorities and `Lexical` the verdict of the first bucket
that has one. The scalar score is scaled so that the rounding-free ratios stay integers; only
equality of scores matters to the optimizer.

### Optimizer

`pc` is the coordinator's position. A constraint set is the tuple of its
tunable values, which is what its semantic hash distinguishes; `Children` is
`generate_candidates` (clamping and Python's half-to-even rounding included).
Candidates and ledger entries are referred to by position.

| Code | Actions |
|---|---|
| `run`, reset of an earlier run | `BeginRun`, `StartBaseline`, `StartDisabled` (a stop is read before and written back after the reset) |
| baseline | `BaselineDone` |
| while loop head | `StartRound`, `EndSearch` |
| `_evaluate_iteration_serial` | `ExpandParent`, `SkipKnown`, `EvaluateDirect`, `DirectDone`, `EndParent`, `EndExpansion` |
| `_plan_parallel_tasks` | `ExpandParent`, `SkipKnown`, `PlanTask`, `RefuseTask`, `EndParent`, `EndExpansion` |
| `_run_parallel_tasks` | `OpenPool`, `PoolFails`, `StartWave`, `StopAtDeadline`, `Submit`, `SubmitFails`, `WaveSubmitted`, `CollectWave`, `EndWaves` |
| pool thread | `WorkerDone` |
| application in planned order | `Observe`, `Settle`, `EndApply` |
| end of a round, end of a run | `Record`, `Select` |
| exception in the coordinator | `CoordinatorFails` (anywhere; the pool's shutdown first waits for what is in flight, and a final selected before is kept) |
| other threads, time | `RequestStop`, `TimeIsUp` |

What `evaluate_fn` returns is any member of `Results`: an exception, a
violation, results that trade timing against area. `TaskCost` is the number of
physical runs of a candidate (its active scenarios), which the planner uses as
the projected cost. `asked` is history: what had been done when a stop was
requested.

### RunCache

A file's content stands for what it was computed from, so equal contents are
equal hashes and a QoR tells which inputs it measured. `world` is everything
that is hashed into the cache key except the constraints: sources, include
directories, Liberty, power report, configuration and tools. A process is a
worker thread or another invocation.

| Code | Actions |
|---|---|
| `mkdir`, `generated.sdc` | `Call` |
| input hashes, cache key | `HashInputs` |
| `_find_cached_run`: the manifests, last name first; the artifacts of one, each compared in a step of its own; `qor.json` again | `Lookup` (`Usable`), `VerifyFile` (`Fits`), `ReadHit`; `Miss` |
| preflight, `_clear_stale_execution_outputs` | `NotReady`, `ClearStale`, `ClearFails` |
| Yosys | `Synthesize`, `SynthesisFails`, `RecordFailure` |
| OpenSTA | `Sta` |
| `qor.json`, not atomic | `BeginWriteQor`, `EndWriteQor` |
| hashing of artifacts, atomic manifest | `Commit`; `_blocked` is `Blocked`, whose manifest may fail to be stored |
| the process dies, or `run_flow` raises | `Crash`, at every position |
| someone else | `Edit` (inputs, between calls), `Damage` (a file lost or truncated), `Overwrite` (a file of another run copied over) |

Netlist, constraints, QoR and one log stand for all artifacts: the code treats
the others (scripts, statistics, reports) like the netlist, or like the log.
Manifests are replaced atomically and not damaged by `Damage`: an unreadable
manifest is skipped as if it were missing. An artifact of `Unhashable` may be
unreadable when it is hashed and then has the hash "", which is never compared
(`Unread`). `Valid` asks of an entry at one moment what the lookup asks of it
in several steps; only the properties use it.

### Mcmm and McmmEvaluation

A candidate is `[id, results, baseline]`: a QoR per scenario that was run, and
the map of baseline slacks its margin was measured against, kept so that a
property can say what it was. A play gives what each scenario of each candidate
measures when no tool fails. Candidate 0 is the baseline, which the optimizer
evaluates first; when that call has ended, well or not, workers take the others.

| Code | Actions |
|---|---|
| `__call__`, one scenario after the other | `Start`, `RunScenario`, `Raise` |
| `baseline_by_scenario is None` read, filled, used | `LookForBaseline`, `RunBaseline`, `AssignBaseline` (three steps, between which other workers run) |
| aggregation and margin | `Finish` |

Front and pick see the candidates that returned as a function from ids
(`Found`). The code sorts the list by id and loops over it; `McmmFront` and
`McmmBest` are those loops as recursive functions of the id, one round per
number, in which an id without an eligible candidate changes nothing. The
baseline has the least id and, when it is not in the front, comes last in the
pool, as in `mcmm_select_final`.

### QoRRecords and QoRHistory

A recording is an operator from tables to tables; `Conflict` is the exception
that rolls the transaction back. Writers exclude each other and a transaction
is all or nothing, which is what the connection settings ask of SQLite; what is
read before the transaction (versions, a run's artifacts, `candidates.jsonl`) is
read in steps of its own, and others write files and rows in between. `unit` is
what an import has read and not yet written; of the snapshot it holds the records
and, apart from them, the content that was hashed: the file is opened twice. A play gives each process its recordings in order.

| Code | Actions |
|---|---|
| the flow and the CLI write `qor.json` and `candidates.jsonl` | `WriteArtifacts`, `StartSnapshot`, `FinishSnapshot` (in place: a reader may see half) |
| `initialize`, application id, version and ledger check, migrations | `Connect`, `Claim`, `ReadVersion`, `ReadLedger`, `Migrate` |
| `record_flow_evaluation`, `record_optimizer_session`, `record_mcmm_aggregate` | `Record` |
| `import_legacy_artifacts`, one transaction per run directory, then the snapshot | `StartImport`, `ReadRun`, `ImportRun`, `ReadSnapshot`, `HashSnapshot`, `ImportSnapshot` |
| the process dies | `Crash` |

### ConstraintSet, IntentInference and IntentApplication

An id is `<<prefix, object, number>>`: fresh ids come from a counter, slots of
materialised inference from the object's name. A constraint keeps what
normalisation tells apart: its match key and its value, and whether its own
optimisation status is `FIXED` (`pinned`). A *world* is all that the rules read
of design, timing graph and configuration, the scenarios the project file
defines among it; a candidate carries the identity of the world and of the set
it was inferred from. The content hash of a set also covers precedence, comment
and raw value texts of its constraints; no action changes these alone.

| Code | Actions |
|---|---|
| `rca apply` loads the set | `Load` |
| `infer_candidates`, or a caller that builds a candidate | `Infer` |
| `apply_intent_decision`, `accept_candidate` (the legacy adapter), dry runs | `Decide` |
| a user or importer adds, binds an assumption, draws an edge | `Edit`, `Assume`, `Depend` |
| the set is saved atomically, or by a plain write that may be cut off | `SaveAtomic`, `BeginWrite`, `EndWrite`, `Exit` |
| design or configuration change | `Reconfigure` |

`Resolve` follows `apply_intent_decision` return by return: decidability,
staleness of design and configuration, templates that repeat each other,
duplicates, staleness of the set, conflicts, scenarios, missing dependencies and
assumptions, ids that are taken, validation of the trial set, dry run. What
`run_validation` says of the trial set is any of `Checks`; of dependency edges
it reads none, so it cannot refuse any. `AddTemplates` adds the templates one
by one and then draws the edges between them, as
`_restore_internal_dependency_edges` does because a template may depend on a
later one. `Committed` is what replaces the session's set, and only at the end.

### TimingConstraints to Analysis

Constraints are records with a partial function of values, so that "absent"
and "given" stay apart, and `Garbled` for a number that does not parse. Issues
and findings keep what later layers read of them: severity, category, code,
resolution, scenario; a report keeps a set, as `ValidationReport.add` drops
repeats. A path's class, clocks and elements stand for the timing graph, which
is an input; `objects` of a design has every pin of a known cell, as the code
accepts what precedes the last "/". Lists of names are sets: a name given twice
counts once here, and twice in a normalised constraint. A fan-out limit that is
no whole number is `Garbled`, like one that is no number: both are refused.

| Code | Actions |
|---|---|
| the stored set is edited | `AddConstraint`, `RemoveConstraint`, `ToggleConstraint`, `ChangeScenario` |
| assumptions, RTL and records of applications change | `WithdrawAssumption`, `ReElaborate`, `RecordApplication` |
| `run_validation`, then `assess_constraint_readiness` | `AssessSet` |
| `compare` | `TakeReference`, `CompareSets` |

Both analyses are functions of their inputs, so the interest is in which inputs
a sequence of edits can build: an answer is dropped by the next change.

### Governance

An id of a record is a hash of its contents, so here a record is its id.
`review`, `release` and `handoff` are the files the CLI overwrites with the
successor an engine returns. `dir` is the package directory, written file by
file; the five evidence files of a package are one file here, being written
and verified alike. Verification is one step, and so is everything a handoff
reads after it; packers, crashes and damage come in between. `root` of a record is what its id was made from; `evidence`
is what later decisions replace.

| Code | Actions |
|---|---|
| `review create`, `review decide` | `NewReview`, `Decide` (all five kinds) |
| `release create`, `release release`, `release revoke` | `NewCandidate`, `ReleaseConstraintSet`, `Revoke` |
| `create_release_package` | `StartPackage` (checks); per file `WriteFile` and then `HashFile`, which takes what it finds; `WriteManifest`; `AbandonPackage` is a crash, an unreadable SDC, a file gone before it was hashed or a missing required one |
| `handoff --prepare`, `--execute` | `VerifyPackage`, then `Prepare`, which reads manifest, record and files again; `Execute` |
| everything else | `EditUcm`, `DamageFile` |

A caller hands a decision any supply of evidence its project can produce, also
of another constraint set, and any form of the review it holds. A review is
given no SDC: no gate of it reads one.

## 3. What is checked

| Run | Question | Answer |
|---|---|---|
| `pareto_front` | What does the one-pass front keep, in every arrival order, with metrics missing, proxies, or values the tolerance blurs? | always: nobody in the front dominates another, and who is left out was dominated; of values told apart, the front is exact and a rejected candidate has a surviving witness. Where the pool agrees on what the leading bucket looks at, nobody is ahead of the final pick there; if it agrees on all of them, nobody is preferred to it |
| `optimizer_calls` | One optimizer called twice, with one and two workers: eligible final, prompt and reported stop, and does every call return? | holds; the report of the stop with one worker only (section 6) |
| `optimizer_parallel` | Two and three workers, every completion order and failure: order of application, agreement of ledger and result, nothing left over, budget, width of waves | holds |
| `equivalence_prefix` | How far do serial and parallel runs agree? | the parallel run evaluates the serial candidates in the same order, at most one more, and none more unless the serial run stopped at its iteration limit |
| `equivalence_same` | Are the outcomes the same, as the concurrency test asserts? | **violated** by that one candidate |
| `mcmm` | Workers share an evaluator; tools fail and raise: are margins comparable, does no scenario vanish, is the front irredundant, and exact of values told apart, and the pick the best? | holds |
| `run_cache` | After crashes, failures, reuse and damage: does a call return the QoR of its inputs, and does a bad entry hide a good one? | holds |
| `qor_history` | Processes migrate, record and import at once and crash: is a refusal only ever somebody's progress, is recording again a no-op, is a session whole, is evidence immutable? | holds |
| `intent` | Candidates are kept while the world moves: is what is applied still offered, is a retry recognised, does a withdrawn assumption reach all dependents, does a saved set restore? | holds |
| `analysis` | A set is spoiled and repaired: is "ready" only said of a set that settles clocks, ports, crossings and evidence, is "equivalent" only said of sets of the same meaning? | holds |
| `governance` | Edits, decisions, revocations, two packers, crashes and damage, in any order: is a release justified, a revocation final, and a handoff traced to one release and its review? | holds, if the package named is the one verified (section 6) |
| `review_reports` | Is a review only approved on reports of the set reviewed, as STEP31 says? | **violated** after deferring or rejecting it while another set is in force |

The violated runs each check one sentence of the repository's documents,
comments or tests against the code; `PROJECT.json` quotes the sentence and the
lines. `equivalence_same` is a difference between the two evaluation paths that
the test's single scenario does not reach: in the last permitted iteration the
serial loop looks at the budget after every parent, the planner only after a
task it admits. Serial and parallel runs may also report different stop reasons
for the same candidates; `SerialIsPrefix` therefore does not compare them.

`ReadyIsEarned` and `CompareExact` do not repeat the code's layers: they state
of the set, design and scenarios directly what the verdict is taken to mean --
every clock of the graph defined once and with a period, every port path timed
against its own clock, every crossing named and no exception refuted, evidence
and assumptions in force; the same constraints the same number of times in
every active scenario -- and so notice a gap between layers, a scope that hides
a finding, or a pairing that loses a constraint. That every port path is timed
is said of fewer than `RoundedAway` paths: coverage is rounded to one decimal
before it is compared with 100 (section 6).

`LedgerLifecycle` is refinement: the optimizer's ledger, with a closed ledger
outside a run, implements `ExecutionLedger!Spec` -- entries are only added,
keep their task, move forward in their lifecycle, are applied once and numbered
consecutively, and a closed ledger has no open entry. The `mark_*` methods of
the code check none of this.

### Bounds

| Bound | Value | Why it is enough |
|---|---|---|
| `MaxPool` | 4 candidates | a chain that the tolerance breaks needs three, and a fourth to arrive after a beaten one; the front and a baseline outside it make four |
| tunables, grid | two tunables on 0..1 to 0..3, four moves | children known from another parent, from an earlier round and from the clamping all occur |
| `MaxIterations`, `MaxEdaRuns` | 2 to 3 rounds, 4 to 11 runs | every stop reason, a limit in the middle of a wave, a refused and a last admitted task |
| workers | 1, 2 and 3 | a wave that is full, one that is not, and several waves |
| `TaskCost` | 2 in `optimizer_parallel` | planned cost and applied cost differ while tasks are in flight |
| `MaxRuns` | 2 in `optimizer_calls` | the second run starts from any state the first can end in |
| `Procs`, `Dirs`, `MaxCalls` | 2, 2, 3 | a fill, a concurrent lookup and a reuse of either directory |
| `Worlds`, `Sdcs` | 2, 1 | an old and a new version of what is hashed; two constraint texts add no new case, which the proofs confirm for any number |
| `MaxFaults` in `RunCache` | 1 | one file damaged, overwritten or unreadable when hashed, at any moment |
| plays of `mcmm` | 2 scenarios, 3 candidates, 2 workers, at most 2 failing runs | a candidate better in one scenario and worse in another; both workers missing the map at once; a scenario without definition |
| plays of `qor_history` | 5 plays of 3 processes, versions 0 to 3, one crash | a run shared by sessions, recorded twice, indexed late or never, a session with colliding ids, a shared directory; an empty, an old, a current and a too new database |
| `intent` | one session, at most 3 constraints and 2 edges, 3 worlds | a duplicate, a conflict and a dependency beside the candidate; every world differs from the others in something a rule reads. One session: sessions meet only in the file, whose contents a session's own reload meets too. A full set is saved and restored but not loaded again, and the project changes only while a candidate is kept: without one nobody knows it |
| `analysis` | `MaxEdits` 2; a catalogue of 24 constraints, 6 of which complete the set; two designs, three settings, four proof backends; path thresholds 1, 2, 3 for 20, 100, 200; `RoundedAway` 2000 as in the code | one edit spoils, the next repairs it apparently; one crossing path is below, the whole graph above the thresholds |
| `governance` | three projects: tolerant policies and partial scopes, 2 decisions; the strict path to the handoff with one packer; two packers, 3 decisions; one damaged file | approve, revoke, decide again; a release over fewer scenarios than its review; two packages of different records interleaved |

In `governance` reviews are created while there is no release record, and the
working files change only while the package directory is empty (`Open`): from
then on a handoff reads the directory alone.

`CHECK_DEADLOCK FALSE` is said where the system may stop: when the pool of
`pareto_front` is full, all plays are played, decisions, edits and writers are
used up, or all candidates are evaluated. `RunCache.cfg` uses symmetry in
processes and versions of the inputs, which no operator tells apart; no liveness
is checked there.

### Fairness

`FairSpec` assumes that the coordinator thread keeps running (weak fairness of
its steps, and that it does not stay in `Record` or `Select`, which are always
enabled where they are reached), and that evaluations end: `run_flow` passes a
timeout to every tool, so a worker's step is eventually taken. Nobody has to
call `run`, request a stop, fail, or let the deadline pass. Under it
`RunReturns` says that a started run returns on every path.

### Assumptions of the models

- `OptimizerAssumption` is what the configuration schema enforces: at least one
  iteration, run, patience step and worker; a result that is an exception has
  no QoR and counts as one run.
- `StartDisabled` models a disabled optimizer without a baseline QoR given by
  the caller.
- `PoolAssumption`, `CacheAssumption`: typing of constants, and that "no file"
  and "damaged file" are told apart from contents.
- `RunCache` assumes of its environment that run ids of concurrent calls
  differ and are new (within one process `_parallel_task_flow_id` provides
  this; between processes the default id has a resolution of one second), that
  a directory is reused only while no other call runs, that inputs are not
  edited while a call runs, and that nobody damages files under their writer.
  The hazards list where the code relies on this. Of the artifacts only the
  netlist may be unreadable when it is hashed (`Unhashable`): constraints and
  QoR were written by the same call a moment ago.
- `QoRHistory`: writing transactions exclude each other and roll back on a
  crash (SQLite), versions are numbers (`VersionsAssumption`), and each process
  has a list of recordings, whose candidates and members are lists, too
  (`ScriptsAssumption`; nothing is assumed of what is in them).
- `Governance`: hashes do not collide; packers are among those that may write
  (`PackersAssumption`), the bounds are numbers (`DecisionsAssumption`,
  `MaxFaultsAssumption`). Any damage that leaves a record readable but changed is
  a `Torn` file: its hash no longer fits.
- `Analysis`: thresholds are ordered (`ThresholdAssumption`); constraints carry
  an id and a position in the order of ids of their own, and the catalogue is
  finite (`ConstraintsAssumption`); designs, projects and the records of applied
  decisions have the shape their loaders give them (`DesignsAssumption`,
  `ProjectsAssumption`, `SnapshotsAssumption`); `RoundingAssumption`: the number
  of paths from which on one of them rounds away. No edit builds a
  set on which the code raises (`ValidationRaises`, `CompareRaises`: section 6).
  `ReadyIsEarned` looks at reports that name no scenario and, with MCMM on, at
  sets whose constraints are all of active scenarios (section 6).
- `IntentApplication`: names have an order (`NameOrderAssumption`), worlds and
  constraints have the fields their classes have (`WorldsAssumption`,
  `UserIntentAssumption`: whoever adds by hand leaves reverse edges to `add`).
  `PackagesAssumption` is about candidates built by callers. Most of it leaves
  out what `apply_intent_decision` refuses before it looks at the set. The rest
  it does not check (section 6): that no template depends on itself or lists a
  reverse edge without the edge, and that no id is one of C0001, C0002, ...,
  which `add` gives.
- `McmmEvaluation`: the baseline is evaluated before any other candidate, as
  the optimizer does. `PlaysAssumption`: a play has a baseline, finitely many
  candidates numbered by naturals, finitely many active scenarios, and tools
  that report a QoR or nothing. `FinalIsBest` says in
  any case that the pick is eligible; that nobody has a better worst setup
  slack than it needs timing to come first and binding slacks that are told
  apart and known for all; that nobody at all is preferred to it needs this of
  every objective -- one that is unknown silences its bucket for the pairs it
  is in, and the comparison is no order -- and a baseline that was evaluated:
  section 6 tells what happens without it; `Optimizer` ends such a run
  (`optimizer/base.py:410`), the model lets the callers go on.

## 4. What is proved

TLAPS checks these for all values of the constants that satisfy the
assumptions above: any number of candidates, scenarios, workers, processes,
directories, calls, records, packers and faults, any results, plans, policies
and budgets. Each invariant was checked by TLC on the run that names it before
it was proved; `PROJECT.json` lists the theorems with the property each states.

- `SelectionProofs`, about operators, under no assumption on who calls them.
  *Induction* is that of a set of numbers (`SetInduction`, from the library's
  well-founded minimum), because an induction rule over an operator cannot be
  instantiated. A pass (`Pass`, `Scan`) is a function that satisfies the
  equations of its loop up to n; that one exists for every n is the first
  lemma, and makes the recursive definition of `ParetoFront` and `BestOf` equal
  to its end. `FrontMembers`: the front has eligible members only, and some
  when there are any. *Order*: `Orders(V, M)` says of a comparison that swapping
  its arguments swaps its verdict and that "not preferred to" composes. Every
  bucket orders (`BucketOrders`), the first verdict of several orders orders
  (`LexicalOrders`: two comparisons chained meet their first decisive buckets in
  turn), the tie-break over margin and id orders (`TieBreakOrders`), and so
  does one comparison followed by another (`ThenOrders`): `PriorityOrders`. The
  tie-break alone is the delicate step -- the baseline has no margin, and a
  comparison that skips what one side lacks is not transitive in general; it is
  here, because the only candidate without one has the smallest id.
  `FinalNotBeaten`: if the comparison orders the pool, `select_final` loses to
  no member of it, though it looks at each once.
- `McmmProofs`, last part: `ParetoLoop`, one scenario, for every tolerance.
  `DominanceAsymmetric` holds of all results, `DominanceTransitive` of results
  told apart; both metrics and their sources may be missing, and the proof goes
  metric by metric, because "equal" holds only between two measured values or
  two missing ones of the same kind. `LoopFrontIrredundant` needs no order, only
  that dominance is asymmetric: whoever is dropped is dominated by the newcomer
  or by a member, though perhaps by nobody in the front. `LoopFrontExact` needs
  one. Its two halves are not inductive alone: that a beaten candidate can be
  dropped needs a *surviving* witness, and that needs transitivity.
  `PoolInv` says both at once: the machine's front is what rounds of the loop
  leave of the pool (`FrontOf`, exact and covering if dominance is an order),
  and ids follow positions, which `LoopPickIsBest` needs. `LoopLeadDecides` follows from one look
  at `max` (`SelectionProofs`): comparisons that are no order in the lesser
  buckets cannot lead it away from the leading one, which decides first.
- `OptimizerProofs`. `TypeCorrect`: `TypeOK` is inductive. Its four conjuncts
  (`RunTyped`, `SearchTyped`, `TasksTyped`, `FuturesTyped`) depend on each
  other -- a future's index is in the planned range, the range in the ledger --
  so each lemma assumes all four. `EachEvaluatedOnce`: `NeverReevaluated` needs
  `ExploredInv`, that while the search runs every admitted constraint set is in
  `explored`; an entry's constraint set and admission never change, and a task
  is only planned for a set not in `explored`.
  `InPlannedOrder`, `LedgerProjectsResult`: by `LedgerInv`. `AppliedInv` relates
  the ledger to the candidates; what makes it inductive is `StageInv`, which
  says for every position of the coordinator which entries it has not dealt
  with yet and what status those may have, and `PlanInv`, where they are: the
  round's tasks are the end of the ledger, and once one of them was skipped at
  the deadline the later ones were, too. `RunsSettle` is `StageInv` at the end.
  `FlightBounded`: `FlightInv`, what runs was submitted in the current wave.
  `BudgetRespected`: `BudgetInv`, what is planned and not yet counted
  (`Open`) is paid for with workers; without, one run is left for whoever
  may start. `StopsPromptly`, `StopsAreReported`: `StopInv`; nothing replaces
  a user's stop unless there are workers, and no second candidate starts after
  it. `FinalIsEligible`: `FinalInv`, from `FrontMembers` and `FinalIsMember`.
  `LedgerImplementsLifecycle`: `Optimizer` refines `ExecutionLedger` under the
  mapping `View`, `Shut`. Initial states map to initial states; each step adds
  entries, closes, or moves entries along `Onward` and applies at most one
  (`LedgerAdvances`), or leaves the view alone; `LedgerInv` and `FlightInv`
  supply which status an entry can have where.
- `McmmProofs`. `MarginsTheorem`, `FeasibleTheorem` by `EvaluatorInv`. That
  margins share one baseline is not inductive: before the baseline has returned,
  the map must be unfilled or filled by it alone (`BaselineAlone`); afterwards
  nobody may be left who could fill it again (`BaselineFixed`); and a result
  holds only what the tools reported for its candidate (`EvaluatorTyped`).
  `DominanceTheorem`: a bucket compares the worst scenario of two candidates,
  dominance all of them. Minima and maxima of finite sets of integers exist
  (`MinIsLeast`, by a shortest counterexample), and the candidate that is no
  worse everywhere is no worse in the other's worst scenario; for timing the
  two metrics of the bucket are taken together (`BucketsFollow`).
  `FrontTheorem`: one round of the loop keeps a front irredundant for any
  asymmetric relation; among eligible results told apart dominance is a strict
  order (`DominanceOrders`), one round keeps a front exact and covering for any
  strict order (`RoundExact`), and induction over the ids does the rest
  (`FrontUndominated`).
  `FinalTheorem`: binding objectives that are settled are numbers told apart,
  so each bucket orders the eligible results (`GlobalOrders`) and so does their
  lexical combination. The margin spent is known for all of them or for none,
  because `EvaluatorInv` has all of them weighed against one map
  (`GlobalUtilizationKnown`, `TiesOrder`): this is where the evaluated baseline
  is needed. In an order the search for the best ends at the best
  (`McmmBestIsBest`, `McmmFinalNotBeaten`), and with timing first who is ahead
  in the binding setup slack is preferred (`TimingSlack`).
- `RunCacheProofs`. `CacheInv` is inductive (`CacheInvariant`), from which
  `TypeCorrect`, `EntriesSound` and `ResultsSound`. The argument: calls work in
  different directories (`Exclusive`), so a call finds its own files as it left
  them and the inputs as it hashed them (`Working`); therefore the manifest of
  a completed run records the constraints and the QoR of its key
  (`RecordsTruthful`), and an entry whose files still have the recorded hashes
  holds that QoR. While the files of an entry are compared, and before its QoR
  is read, another call may be rewriting that very directory. Once the
  constraints have been compared they are those of the verified entry or
  damaged (`Verifying`, `SdcVerified`), and the inputs are today's, so what such
  a call writes is the same QoR (`Reading`). `MissesJustified`: `SearchInv` says that an entry nobody touched
  and that would be accepted is still ahead of the lookup (`Pending`). That an
  entry the lookup has passed does not become acceptable behind it needs
  `NetlistsWhole`, that no manifest of a completed run hashed a torn file, and
  that nobody works in those directories (`Undisturbed`).
- `GovernanceProofs`. `ReleaseTheorem`, `RevocationTheorem`, `HandoffTheorem`.
  None of these is inductive: an approval is judged by the evidence in the
  record now, a release by a review that may since have been decided otherwise,
  a handoff by files somebody wrote long ago. `GovernanceInv` says of every copy
  of a record -- in its file, in a packer's hands, in the directory -- what it
  carries with it. A review is `ReviewFounded`: its findings and its evidence
  were derived together, and an approved one has no blocker among them. A
  release is `ReleaseSound`: its evidence holds the review that was approved
  when the release was assessed, over the contents and scenarios of the record,
  and once revoked it is no longer eligible. `SameDefinitionSameCover` is why
  comparing scenario definitions is enough to keep the scope. For the handoff,
  the verifier makes the directory's record the manifest's, its evidence its
  root, and the review file the one its snapshot names; the manifest lists and
  requires each of these, whoever wrote what was hashed (`Sealed`), and the
  artifact gate finds the same contents again when the handoff is prepared, for
  the same manifest. `TypeCorrect`: every record has a status its engine can
  give it and no packer is ahead of its files by more than the one it hashes next; Governance's `TypeOK` is proved and is not in the run.
- `QoRHistoryProofs`. `RefusalTheorem`: whoever is refused lost to progress. The
  invariant says that what an initializer has read of the version is old but
  never wrong, and that both version marks move together.
  `EvidenceTheorem`, `RecordedTheorem`: every operation on the tables, down to
  the insertion of one row, conflicts or *grows* them (`Grows`: rows are added,
  sessions stay as they are, an evaluation changes at most from no owner to
  one), and growth composes. Lists go through `RunGrows`, by induction over a
  set of numbers; as no lemma can take the operator a list is folded with,
  `Recorded` names the five of them. `EffectGrows` puts them together. That
  evidence is immutable is then what growth means. For repetition `HistoryInv`
  keeps with each successful recording its mark (`Done`): its evidence under its
  run and its constraint set, its session with this fingerprint, its aggregate.
  Growth takes no mark away (`DoneStays`), and a recording that finds its mark
  does nothing (`DoneIsNoOp`). An aggregate's repetition ends in a commit,
  which passes because the foreign keys hold at every moment (`Keyed`), also
  after recordings that do not check them: those record evidence nobody owns.
- `AnalysisProofs`. The machine's part is `AnalysisInvariant`: the set is finite,
  ids and positions are its members' own, and an answer that is still there is
  its engine's for the present set, design and project (`AnswerInv`), because
  every change drops it. The rest is about the engines. `ReadyTheorem` goes
  requirement by requirement: a report that says "ready" has no requirement
  blocked, so none of the findings that would have blocked it exists, so the
  clocks, ports, crossings and exceptions are as the property says; coverage
  counts covered paths, and only below `RoundedAway` does 100 mean all.
  `CompareTheorem` is about the greedy pairing. By induction over the set it
  pairs each constraint at most once, and one that stays unpaired had no partner
  left (`Matched`, `ExhaustKeeps`); so when nothing is left over the pairs are a
  bijection between constraints of the same meaning, and the two sets have the
  same meanings the same number of times. Per scenario this is said of
  projections (`Under`); comparing a set with itself pairs each with a mirror
  image. `ModesMatchStatus`: what an emission mode lets through is what the
  report's emission status says.

- `IntentProofs`. The loops of the model (names walked, edges followed,
  templates added, slots materialised) are recursive functions; of each the
  proofs use the function of its values after 0 to n rounds. `Inv` is inductive
  (`SessionInvariant`): every set in memory is `WellKept` -- both directions of
  each edge agree, no end is missing, none is its own, the counter's ids are
  its own -- and every candidate kept is `HeldWell`, made by inference or a
  caller of some world and some set. The hard step is `Decide`: while templates
  are added, a forward edge may wait for its other end, so `Grown` says what
  holds in between, and only drawing the edges closes it. `SavedTheorem` is then
  `Restored`: a well kept set has no structural fault and no mismatch, and
  nothing else changes. `StaleTheorem`: what forward edges reach in n steps,
  from a set, backward edges reach from one of its members; the engine asks
  for as many steps as there are constraints, and so does the property.
  `RetryTheorem`: templates say different things (the code refuses those that
  repeat each other when it applies), each is there once, so there are as many
  duplicates as templates and no conflict, and that is looked at before the
  staleness of the set. `FreshTheorem`: a candidate stays acceptable only if
  running the rules again proposes the same template. For an inferred one this
  is a clock's: relationships and port delays are always the user's. Whether a
  slot is a clock's, inferred, with this period, is decided by clocks and
  declared clocks alone, which are part of the design identity
  (`SourceIdentity`) -- hence the legacy adapter may ignore the configuration;
  then `Exact` and `Conflicting` are empty in the present set and the candidate
  is offered again as it was.

### Only model-checked

- `RunReturns`: liveness under fairness is outside the provers' reach.
- `SerialIsPrefix` compares two whole runs, step by step of neither: there is no
  step that both take, and a proof would first need the serial run as a function
  of its inputs.
- `QoRHistory`'s `SessionWhole`: it is not true of every list of candidates (two
  that name each other as parents satisfy the foreign keys, and their lineage
  is a cycle), so a theorem needs what the optimizer guarantees of its
  candidates as an assumption, and induction along their lineage.

## 5. Not modelled, and why

- **Lineage, workflow and reproducibility** (`lineage/`, `workflow/`,
  `reproducibility/`): they collect what other components have stored and
  present it; no state, no order of their own.
- **Knowledge search** (`search/knowledge.py`): text retrieval. Accepting a
  suggestion goes through the intent application.
- **SDC rendering and import** (`sdc/`, `sdc_importer/`), **RTL parsing and
  timing graph** (`parser/`, `timing_model/`): conversions, where tests serve
  better; design and graph are inputs of the models.
- **Tool backends**: subprocess control and report parsing; the outcomes are
  inputs of `RunCache` and `McmmEvaluation`.
- **Configuration, CLI, reports, web**: wiring and presentation. The order in
  which commands call the engines, and the files between them, are part of the
  models; minima of the schema are assumptions on constants.
- Within modelled components: clock-period exploration, a baseline handed in by
  the caller, ranks and explanations of the optimizer; a failure before the
  optimizer has a result, which `run` raises again; the mock backend, staging
  of the power report and manifests without an execution status; filters and
  paging of history queries; `optimizer_state.json`, imported when there is no
  `candidates.jsonl`, imports from other directories than one (the path is part
  of a snapshot's fingerprint) and artifacts that do not parse; additional
  artifacts of a package, which are copied and checked like the SDC, and
  policies that require them; confidence scores; the field-by-field differences
  of a comparison; hashing (a content is its identity) and wording everywhere.
  `ConstraintSet` has no removal that cleans references: nothing in `src/`
  calls it on a set with edges. Its snapshot keeps no order of lists (`to_dict`
  sorts some) and no `_extensions`, which no operation modelled here reads.

## 6. What the code does differently

Met while modelling; each model follows the code. The first two have a run.

**With a run.** `equivalence_same`, `review_reports` (above). In the second, the
guards of `decide_review` look at approvals only (`review/engine.py:208`): a
review deferred or rejected while another set is in force takes over that set's
reports, and is later approved on them as its recorded evidence. `REVOKED`
reviews, too, can be deferred and then approved.

**Optimizer and selection.** Candidate ids are numbered before known children
are skipped, so two children can carry one id (`optimizer/base.py:651`). With
workers the planner or the deadline overwrites `USER_STOP`
(`optimizer/base.py:694`), which is why `StopHonoured` speaks of one worker. The
final pick may be a baseline the front dominates (`qor/objectives.py:576`,
`:644`). Values closer than the tolerance make dominance
intransitive (`qor/objectives.py:305`): a candidate recorded as DOMINATED may
then have no witness in the front, and a candidate nobody in the front
dominates may be missing from it. Metrics missing for some candidates, or
blurred values, make the comparison of priorities no order: then the pick
depends on the order of the front, outside the leading bucket.

**MCMM.** The evaluator aggregates with default margins:
`optimization.required_setup_margin_ns` has no effect (`mcmm/evaluate.py:87`
against `qor/objectives.py:236`). When the baseline raised, workers race to fill
the map from their own baseline runs, so `MarginsComparable` has a baseline as
its premise. Then the pick can be one that is beaten, too, in spite of "against
the SAME per-scenario baseline" (`mcmm/evaluate.py:54`): with three candidates
of which two were measured against different maps, one of which lacks a
scenario, the margin decides one pair and the id the other two, in a circle
(`mcmm/aggregate.py:660`). The proof of `FinalIsBest` ran into this; the
property has the baseline as a premise since, which the optimizer provides.
The evaluator changes a run's QoR before its deferred indexing
(`mcmm/evaluate.py:197`): history and `qor.json` differ.

**Run cache and history.** Sizes of logs are recorded, never compared
(`eda/flow.py:962`). An artifact that cannot be read when the manifest is
written gets the hash "", and is then accepted whatever it becomes
(`eda/flow.py:147`, `:964`): for `qor.json` itself that would be a hit with any
QoR, which `Unhashable` leaves out. A run first recorded by a session cannot be indexed by the
flow afterwards: the import of it conflicts and is reported
(`eda/flow.py:316`). An
import reads `candidates.jsonl` and then opens it again to hash it
(`qor/repository.py:917`). When the file was rewritten in between, the session
carries the hash of content of which it holds an older or shorter list, and
importing that content afterwards is "skipped" as already there. `SessionWhole`
therefore says that a session is whole as some import that hashed this content
had read it; for every such import TLC refutes it.

**Governance.** The packaged SDC need not be the one released on
(`release/engine.py:322`). A candidate may be released on its recorded
evidence after the review in it was revoked; `ReleaseJustified` therefore speaks
of the review the release names. Evidence other than the
candidate's may release, but the package then never verifies
(`release/engine.py:456`), nor does a handoff prepared with a configuration
(`handoff/engine.py:202`). A handoff verifies the package and then reads it again
(`handoff/engine.py:63`); nothing compares the two. A package finished in
between by a second writer -- over files of which one was damaged when it was
hashed, say -- is then handed off on the verification of the first: the record
names one package among its evidence and depends on another. `HandoffTraced`
speaks of handoffs in which these agree. An SDC is not required by default and
may be lost from a package. `FUTURE_VENDOR` always fails, so `UNSUPPORTED` is never reached.

**Intent.** A fresh id may be one that is present, and `add` overwrites
silently (`constraint_model/constraint_set.py:133`). Duplicates are recognised
by their number. Contradicting templates inside one candidate are not looked
for. The legacy adapter ignores configuration and MCMM. Dependency edges of
a candidate are never looked at: `run_validation` reads none, and
`ConstraintSet.validate`, which does, is called by tests only. A candidate built
by a caller whose template depends on itself, or lists a reverse edge without
the edge, is applied and saved, and `from_snapshot_dict` then refuses the file
(`constraint_model/constraint_set.py:819`). The proof of `SavedSetRestores`
asked for the assumption that leaves such candidates out. Two `apply` commands
can lose one of two updates; `--output` writes in place.

**Validation, readiness, comparison.**
- A requirement whose findings all name one scenario is dropped from that
  scenario's own result, too (`readiness/engine.py:934`).
- Coverage is rounded to one decimal (`validation/coverage.py:90`) before
  readiness asks whether it is below 100 (`readiness/engine.py:449`, `:667`):
  with 2000 applicable paths, one that nothing constrains is not seen, and the
  report says "All applicable I/O timing coverage is complete"
  (`readiness/engine.py:463`). The proof of `ReadyIsEarned` stopped here; TLC
  finds it on a design of 2000 paths.
- A report may be `READY_WITH_WARNINGS` and list blockers; a warning about setup
  and hold without coherence blocks.
- With MCMM on and no scenario requested, findings of a scenario that is not
  active are skipped; hence the premise of `ReadyIsEarned`.
- A validation handed in is not checked to be of the present set.
- A rejected constraint still counts as coverage; a clock of one scenario
  covers all. Coverage of a crossing ignores its direction.
- Zero cycles of a multicycle path, and design-rule values, are read
  differently by two validators.
- A period that does not parse is reported, and then raises in
  `validate_conflicts`, as do latencies, uncertainties and minimum or maximum
  delays; edges that do not parse raise in a comparison, and cycles silence the
  backend layer.
- In a comparison two values that do not parse are equal; pairing is not
  symmetric; one constraint for two scenarios and none is not the same as one
  for all.
- Balanced emission covers low and medium risk; the docstring says non-critical.

## 7. Plan

1. The part of `SessionWhole` that holds for all lists of candidates: a session
   has all its candidates and from each its evidence is found. It needs of each
   loop what it has recorded so far, and of each member that its aggregate
   keeps pointing at evidence of the same owner.
2. A composition of `McmmEvaluation` with `Optimizer` in place of `TaskCost`.
