--------------------------- MODULE AnalysisProofs ---------------------------
(***************************************************************************)
(* Theorems about the questions asked of a constraint set: whether it is   *)
(* ready, whether it means what another one means, and which of its        *)
(* exceptions may be emitted.                                              *)
(***************************************************************************)
EXTENDS Analysis, FiniteSetTheorems, NaturalsInduction, TLAPS

-----------------------------------------------------------------------------
(* What an edit keeps.                                                     *)

\* Constraints are finite in number, and none shares its id or position with
\* another; each has those of a constraint of the catalogue or of the start.
Source(c) == \E x \in Catalogue \cup Starting : x.id = c.id /\ x.at = c.at
Apart(cons) == \A c1, c2 \in cons : c1.id = c2.id \/ c1.at = c2.at => c1 = c2
IsSet(cons) == IsFiniteSet(cons) /\ Apart(cons) /\ \A c \in cons : IsConstraint(c) /\ Source(c)

IsReceipt(r) == DOMAIN r.snapshot \subseteq Sources /\ r.snapshot = [s \in DOMAIN r.snapshot |-> r.snapshot[s]]

\* The set and everything readiness looks at beside it are well formed.
WorldInv ==
    /\ IsSet(ucm)
    /\ IsScenarios(scenarios)
    /\ design \in Designs /\ project \in Projects
    /\ confirmed \subseteq RequiredAssumptions
    /\ DOMAIN sources = Sources
    /\ \A r \in receipts : IsReceipt(r)

\* An answer is the answer for the state it is there in.
AnswerInv ==
    /\ report # NoAnswer =>
         report.answer = AssessReadiness(ucm, design, RunValidation(ucm, design, Request(report.backend)),
                                         World, report.requested)
    /\ reference # NoAnswer => IsSet(reference.cons) /\ IsScenarios(reference.scenarios)
    /\ verdict # NoAnswer =>
         /\ reference # NoAnswer
         /\ \E failed \in {{}, {"A"}} :
              verdict = CompareTexts([cons |-> ucm, scenarios |-> scenarios], reference, failed)

AnalysisInv == WorldInv /\ AnswerInv

\* Disabling a constraint changes nothing else of it.
LEMMA ToggleKeeps ==
    ASSUME NEW c, IsConstraint(c)
    PROVE  LET t == [c EXCEPT !.disabled = ~c.disabled]
           IN /\ IsConstraint(t) /\ t.id = c.id /\ t.at = c.at
              /\ t.scenarios = c.scenarios
  <1> DEFINE t == [c EXCEPT !.disabled = ~c.disabled]
  <1>1. DOMAIN c = ConstraintFields /\ "disabled" \in ConstraintFields
    BY DEF IsConstraint, ConstraintFields
  <1>2. t = [f \in ConstraintFields |-> IF f = "disabled" THEN ~c.disabled ELSE c[f]]
    BY <1>1
  <1> HIDE DEF t
  <1>3. \A f \in ConstraintFields : f # "disabled" => t[f] = c[f]
    BY <1>2
  <1>4. t.disabled = ~c.disabled
    BY <1>1, <1>2
  <1>5. /\ t.id = c.id /\ t.at = c.at /\ t.scenarios = c.scenarios /\ t.values = c.values
        /\ t.selector = c.selector /\ t.unsupported = c.unsupported
    BY <1>3 DEF ConstraintFields
  <1>6. t = [f \in ConstraintFields |-> t[f]]
    BY <1>2
  <1> QED
    BY <1>4, <1>5, <1>6 DEF IsConstraint, Has, t

\* The start is well formed, and nothing was asked.
LEMMA AnalysisStart == Init => AnalysisInv
<1> SUFFICES ASSUME Init  PROVE AnalysisInv
  OBVIOUS
<1> USE DEF Init
<1>1. IsSet(ucm)
  BY ConstraintsAssumption DEF IsSet, Apart, Source
<1>2. design \in Designs /\ project \in Projects /\ IsScenarios(scenarios)
  BY ProjectsAssumption
<1>3. DOMAIN sources = Sources
  BY DEF Sources
<1> QED
  BY <1>1, <1>2, <1>3 DEF AnalysisInv, WorldInv, AnswerInv

\* A constraint whose id is free takes a position that is free.
LEMMA AddKeeps ==
    ASSUME NEW cons, IsSet(cons), NEW c \in Catalogue, c.id \notin {x.id : x \in cons}
    PROVE  IsSet(cons \cup {c})
<1>1. IsFiniteSet(cons \cup {c})
  BY FS_AddElement DEF IsSet
<1>2. IsConstraint(c) /\ Source(c)
  BY ConstraintsAssumption DEF Source
<1>3. ASSUME NEW x \in cons  PROVE x.id # c.id /\ x.at # c.at
  <2>1. PICK y \in Catalogue \cup Starting : y.id = x.id /\ y.at = x.at
    BY DEF IsSet, Source
  <2>2. y.at = c.at <=> y.id = c.id
    BY ConstraintsAssumption
  <2> QED
    BY <2>1, <2>2
<1>4. Apart(cons \cup {c})
  BY <1>3 DEF IsSet, Apart
<1> QED
  BY <1>1, <1>2, <1>4 DEF IsSet

\* A constraint is taken out.
LEMMA RemoveKeeps ==
    ASSUME NEW cons, IsSet(cons), NEW c
    PROVE  IsSet(cons \ {c})
<1>1. IsFiniteSet(cons \ {c})
  BY FS_RemoveElement DEF IsSet
<1> QED
  BY <1>1 DEF IsSet, Apart

\* A constraint is disabled, or enabled again.
LEMMA DisableKeeps ==
    ASSUME NEW cons, IsSet(cons), NEW c \in cons
    PROVE  IsSet((cons \ {c}) \cup {[c EXCEPT !.disabled = ~c.disabled]})
<1> DEFINE t == [c EXCEPT !.disabled = ~c.disabled]
<1>1. IsConstraint(t) /\ t.id = c.id /\ t.at = c.at
  BY ToggleKeeps DEF IsSet
<1> HIDE DEF t
<1>2. IsSet(cons \ {c})
  BY RemoveKeeps
<1>3. IsFiniteSet((cons \ {c}) \cup {t})
  BY <1>2, FS_AddElement DEF IsSet
<1>4. Source(t)
  BY <1>1 DEF IsSet, Source
<1>5. Apart((cons \ {c}) \cup {t})
  BY <1>1 DEF IsSet, Apart
<1>6. IsSet((cons \ {c}) \cup {t})
  BY <1>1, <1>2, <1>3, <1>4, <1>5 DEF IsSet
<1> QED
  BY <1>6 DEF t

\* A change forgets the answers; what is compared with stays.
LEMMA EditAnswers ==
    ASSUME AnswerInv, Edit
    PROVE  AnswerInv' /\ design' = design /\ project' = project
BY DEF AnswerInv, Edit

\* Every change keeps the set well formed, and every answer is that of its state.
LEMMA AnalysisStep == AnalysisInv /\ [Next]_vars => AnalysisInv'
<1> SUFFICES ASSUME AnalysisInv, [Next]_vars  PROVE AnalysisInv'
  OBVIOUS
<1> USE DEF AnalysisInv
<1>1. ASSUME NEW c \in Catalogue, AddConstraint(c)  PROVE AnalysisInv'
  <2>1. IsSet(ucm')
    BY <1>1, AddKeeps DEF AddConstraint, WorldInv
  <2>2. AnswerInv' /\ design' = design /\ project' = project
    BY <1>1, EditAnswers DEF AddConstraint
  <2> QED
    BY <1>1, <2>1, <2>2 DEF AddConstraint, WorldInv
<1>2. ASSUME NEW c \in ucm, RemoveConstraint(c)  PROVE AnalysisInv'
  <2>1. IsSet(ucm')
    BY <1>2, RemoveKeeps DEF RemoveConstraint, WorldInv
  <2>2. AnswerInv' /\ design' = design /\ project' = project
    BY <1>2, EditAnswers DEF RemoveConstraint
  <2> QED
    BY <1>2, <2>1, <2>2 DEF RemoveConstraint, WorldInv
<1>3. ASSUME NEW c \in ucm, ToggleConstraint(c)  PROVE AnalysisInv'
  <2>1. IsSet(ucm')
    BY <1>3, DisableKeeps DEF ToggleConstraint, WorldInv
  <2>2. AnswerInv' /\ design' = design /\ project' = project
    BY <1>3, EditAnswers DEF ToggleConstraint
  <2> QED
    BY <1>3, <2>1, <2>2 DEF ToggleConstraint, WorldInv
<1>4. ASSUME NEW c \in ucm, NEW snapshot \in Snapshots, RecordApplication(c, snapshot)  PROVE AnalysisInv'
  <2>1. AnswerInv' /\ design' = design /\ project' = project
    BY <1>4, EditAnswers DEF RecordApplication
  <2>2. snapshot \subseteq Sources
    BY SnapshotsAssumption
  <2>3. IsReceipt([applied |-> {c.id}, snapshot |-> [s \in snapshot |-> sources[s]]])
    BY <2>2 DEF IsReceipt
  <2> QED
    BY <1>4, <2>1, <2>3 DEF RecordApplication, WorldInv
<1>5. ASSUME NEW a \in RequiredAssumptions, WithdrawAssumption(a)  PROVE AnalysisInv'
  <2>1. AnswerInv' /\ design' = design /\ project' = project
    BY <1>5, EditAnswers DEF WithdrawAssumption
  <2> QED
    BY <1>5, <2>1 DEF WithdrawAssumption, WorldInv
<1>6. ASSUME ReElaborate  PROVE AnalysisInv'
  <2>1. AnswerInv' /\ design' = design /\ project' = project
    BY <1>6, EditAnswers DEF ReElaborate
  <2> QED
    BY <1>6, <2>1 DEF ReElaborate, WorldInv
<1>7. ASSUME NEW s \in DOMAIN scenarios, NEW key \in {0, 1}, NEW on \in BOOLEAN,
             ChangeScenario(s, [active |-> on, key |-> key])
      PROVE  AnalysisInv'
  <2>1. AnswerInv' /\ design' = design /\ project' = project
    BY <1>7, EditAnswers DEF ChangeScenario
  <2>2. IsScenarios(scenarios')
    BY <1>7 DEF ChangeScenario, WorldInv, IsScenarios
  <2> QED
    BY <1>7, <2>1, <2>2 DEF ChangeScenario, WorldInv
<1>8. ASSUME TakeReference  PROVE AnalysisInv'
  <2>1. WorldInv'
    BY <1>8 DEF TakeReference, WorldInv, world
  <2>2. AnswerInv'
    BY <1>8 DEF TakeReference, WorldInv, AnswerInv, world
  <2> QED
    BY <2>1, <2>2
<1>9. ASSUME NEW requested \in SUBSET DOMAIN scenarios, NEW backend \in Proofs, AssessSet(requested, backend)
      PROVE  AnalysisInv'
  <2>1. WorldInv'
    BY <1>9 DEF AssessSet, WorldInv, world
  <2>2. World' = World /\ \A x : Request(x)' = Request(x)
    BY <1>9 DEF AssessSet, world, World, Present, Request, Active, MatrixOn
  <2>3. report'.answer = AssessReadiness(ucm, design, RunValidation(ucm, design, Request(report'.backend)),
                                         World, report'.requested)
    BY <1>9 DEF AssessSet
  <2>4. AnswerInv'
    BY <1>9, <2>2, <2>3 DEF AssessSet, AnswerInv, world
  <2> QED
    BY <2>1, <2>4
<1>10. ASSUME NEW failed \in {{}, {"A"}}, CompareSets(failed)  PROVE AnalysisInv'
  <2>1. WorldInv'
    BY <1>10 DEF CompareSets, WorldInv, world
  <2>2. World' = World /\ \A x : Request(x)' = Request(x)
    BY <1>10 DEF CompareSets, world, World, Present, Request, Active, MatrixOn
  <2>3. AnswerInv'
    BY <1>10, <2>2 DEF CompareSets, AnswerInv, world
  <2> QED
    BY <2>1, <2>3
<1>11. CASE UNCHANGED vars
  <2>1. World' = World /\ \A x : Request(x)' = Request(x)
    BY <1>11 DEF vars, World, Present, Request, Active, MatrixOn
  <2> QED
    BY <1>11, <2>1 DEF vars, WorldInv, AnswerInv
<1> QED
  BY <1>1, <1>2, <1>3, <1>4, <1>5, <1>6, <1>7, <1>8, <1>9, <1>10, <1>11 DEF Next

\* Whatever is edited and asked, the set is well formed and an answer that is
\* there is the one its engine gives in the present state (readiness/engine.py,
\* equivalence/semantic_compare.py).
THEOREM AnalysisInvariant == Spec => []AnalysisInv
BY AnalysisStart, AnalysisStep, PTL DEF Spec

-----------------------------------------------------------------------------
(* What a status other than ready does to the report.                      *)

Spoiling == {"BLOCKED", "UNSUPPORTED", "INCOMPLETE", "UNKNOWN"}

\* The worst status decides.
LEMMA WorstDecides ==
    ASSUME NEW statuses, NEW s \in statuses, s \in Spoiling
    PROVE  AggregateStatus(statuses) \notin ReadyStates
<1> DEFINE found == {i \in 1 .. 6 : StatusOrder[i] \in statuses} \cup {6}
<1>1. /\ StatusOrder[1] = "BLOCKED" /\ StatusOrder[2] = "UNSUPPORTED" /\ StatusOrder[3] = "INCOMPLETE"
      /\ StatusOrder[4] = "UNKNOWN" /\ Len(StatusOrder) = 6
  BY DEF StatusOrder
<1>2. PICK i \in 1 .. 4 : StatusOrder[i] = s
  BY <1>1 DEF Spoiling
<1>3. i \in found /\ found \subseteq 1 .. 6
  BY <1>2
<1>4. AggregateStatus(statuses) = StatusOrder[Min(found)]
  BY <1>1 DEF AggregateStatus
<1> HIDE DEF found
<1>5. \E x \in found : \A y \in found : x <= y
  BY <1>3
<1>6. Min(found) \in found /\ \A y \in found : Min(found) <= y
  BY <1>5 DEF Min
<1>7. Min(found) \in 1 .. 4
  <2>1. Min(found) \in 1 .. 6 /\ Min(found) <= i
    BY <1>3, <1>6
  <2> QED
    BY <1>2, <2>1
<1> QED
  BY <1>1, <1>4, <1>7 DEF ReadyStates

-----------------------------------------------------------------------------
(* A set that is called ready, as the report saw it.                       *)

Validated == RunValidation(ucm, design, Request(report.backend))
Required == Requirements(ucm, design, Validated, World, {})
Chosen == IF MatrixOn THEN Active ELSE {}

\* No requirement that counts is short of ready.
LEMMA RequirementMet ==
    ASSUME AnswerInv, CalledReady, NEW r \in Required, r.required, r.scenario = NoScenario,
           r.id # "SCENARIOS_VALID", Localized(r) => Chosen = {} \/ Touches(r, Chosen)
    PROVE  r.status \notin Spoiling
<1>1. Selected(World, {}) = Chosen
  BY DEF Selected, World, Chosen
<1>2. report.answer.status = OverallReadiness(Required, Chosen)
  BY <1>1 DEF AnswerInv, CalledReady, AssessReadiness, Required, Validated
<1>3. Counts(r, Required, Chosen)
  BY DEF Counts
<1>4. r.status \in {x.status : x \in {y \in Required : Counts(y, Required, Chosen)}}
  BY <1>3
<1> QED
  BY <1>2, <1>4, WorstDecides DEF CalledReady, OverallReadiness

\* In particular none whose one finding is of the whole set.
LEMMA PlainMet ==
    ASSUME AnswerInv, CalledReady, NEW id, NEW status, Requirement(id, status, TRUE) \in Required,
           id # "SCENARIOS_VALID"
    PROVE  status \notin Spoiling
<1> DEFINE r == Requirement(id, status, TRUE)
<1>1. /\ r.required /\ r.scenario = NoScenario /\ r.id = id /\ r.status = status
      /\ r.findings = {} \/ r.findings = Global(status)
  BY DEF Requirement
<1>2. ~Localized(r)
  <2>1. CASE r.findings = {}
    BY <2>1 DEF Localized
  <2>2. CASE r.findings = Global(status)
    <3>1. Supports(status, NoScenario) \in r.findings /\ Supports(status, NoScenario).scenario = NoScenario
      BY <2>2 DEF Global, Supports
    <3> QED
      BY <3>1 DEF Localized
  <2> QED
    BY <1>1, <2>1, <2>2
<1> QED
  BY <1>1, <1>2, RequirementMet

-----------------------------------------------------------------------------
(* Issues.                                                                 *)

IsIssue(i) ==
    i = [severity |-> i.severity, category |-> i.category, code |-> i.code, on |-> i.on,
         objects |-> i.objects, scenario |-> i.scenario, blocking |-> i.blocking, resolution |-> i.resolution]
Serious(i) == IsIssue(i) /\ i.scenario = NoScenario /\ i.blocking /\ Blocks(i.severity)

Layers ==
    ReferenceIssues(ucm, design) \cup SemanticIssues(ucm, design) \cup ConflictIssues(ucm)
        \cup ExceptionIssues(ucm, design, report.backend) \cup CompletenessIssues(ucm, design)
        \cup CoverageIssues(ucm, design)

\* Errors and blockers are serious however they are completed.
LEMMA SeriousIssue ==
    ASSUME NEW a, NEW b, NEW c, NEW k, NEW o, NEW x, Blocks(a)
    PROVE  /\ Serious(Issue(a, b, c, k))
           /\ Serious(About(Issue(a, b, c, k), o))
           /\ Serious(WithResolution(Issue(a, b, c, k), x))
<1>1. Serious(Issue(a, b, c, k))
  <2>1. Issue(a, b, c, k) =
            [severity |-> a, category |-> b, code |-> c, on |-> k, objects |-> {},
             scenario |-> NoScenario, blocking |-> Blocks(a), resolution |-> "RESOLVED"]
    BY DEF Issue
  <2> DEFINE i == Issue(a, b, c, k)
  <2> HIDE DEF i
  <2>2. i = [severity |-> a, category |-> b, code |-> c, on |-> k, objects |-> {},
             scenario |-> NoScenario, blocking |-> Blocks(a), resolution |-> "RESOLVED"]
    BY <2>1 DEF i
  <2>3. i.severity = a /\ i.scenario = NoScenario /\ i.blocking /\ Blocks(i.severity)
    BY <2>2 DEF Blocks
  <2>4. IsIssue(i)
    BY <2>2 DEF IsIssue
  <2>5. Serious(i)
    BY <2>3, <2>4 DEF Serious
  <2> QED
    BY <2>5 DEF i
<1>2. Serious(About(Issue(a, b, c, k), o))
  <2>1. About(Issue(a, b, c, k), o) =
            [severity |-> a, category |-> b, code |-> c, on |-> k, objects |-> o,
             scenario |-> NoScenario, blocking |-> Blocks(a), resolution |-> "RESOLVED"]
    BY DEF About, Issue, Blocks
  <2> DEFINE i == About(Issue(a, b, c, k), o)
  <2> HIDE DEF i
  <2>2. i = [severity |-> a, category |-> b, code |-> c, on |-> k, objects |-> o,
             scenario |-> NoScenario, blocking |-> Blocks(a), resolution |-> "RESOLVED"]
    BY <2>1 DEF i
  <2>3. i.severity = a /\ i.scenario = NoScenario /\ i.blocking /\ Blocks(i.severity)
    BY <2>2 DEF Blocks
  <2>4. IsIssue(i)
    BY <2>2 DEF IsIssue
  <2>5. Serious(i)
    BY <2>3, <2>4 DEF Serious
  <2> QED
    BY <2>5 DEF i
<1>3. Serious(WithResolution(Issue(a, b, c, k), x))
  <2>1. WithResolution(Issue(a, b, c, k), x) =
            [severity |-> a, category |-> b, code |-> c, on |-> k, objects |-> {},
             scenario |-> NoScenario, blocking |-> Blocks(a), resolution |-> x]
    BY DEF WithResolution, Issue, Blocks
  <2> DEFINE i == WithResolution(Issue(a, b, c, k), x)
  <2> HIDE DEF i
  <2>2. i = [severity |-> a, category |-> b, code |-> c, on |-> k, objects |-> {},
             scenario |-> NoScenario, blocking |-> Blocks(a), resolution |-> x]
    BY <2>1 DEF i
  <2>3. i.severity = a /\ i.scenario = NoScenario /\ i.blocking /\ Blocks(i.severity)
    BY <2>2 DEF Blocks
  <2>4. IsIssue(i)
    BY <2>2 DEF IsIssue
  <2>5. Serious(i)
    BY <2>3, <2>4 DEF Serious
  <2> QED
    BY <2>5 DEF i
<1> QED
  BY <1>1, <1>2, <1>3

\* What a layer finds is in the report of the validation.
LEMMA Reported ==
    ASSUME NEW i \in Layers
    PROVE  Hydrated(i, ucm) \in Validated.report
BY DEF Layers, Validated, RunValidation, Request

\* An issue of a constraint keeps all but its scenario, which is then one of
\* an active set.
LEMMA HydratedIssue ==
    ASSUME WorldInv, CalledReady, NEW i, IsIssue(i), i.scenario = NoScenario
    PROVE  LET h == Hydrated(i, ucm)
           IN /\ h.severity = i.severity /\ h.category = i.category /\ h.code = i.code
              /\ h.blocking = i.blocking /\ h.resolution = i.resolution
              /\ h.scenario = NoScenario \/ Chosen = {} \/ h.scenario \in Chosen
<1> DEFINE of == {c \in ucm : c.id = i.on /\ Cardinality(c.scenarios) = 1}
           s == CHOOSE x \in UNION {c.scenarios : c \in of} : TRUE
<1>1. CASE of = {}
  BY <1>1 DEF Hydrated
<1>2. CASE of # {}
  <2>1. Hydrated(i, ucm) = [i EXCEPT !.scenario = s]
    BY <1>2 DEF Hydrated
  <2>2. PICK c \in of : TRUE
    BY <1>2
  <2>3. c.scenarios # {}
    BY <2>2, FS_EmptySet
  <2>4. s \in UNION {x.scenarios : x \in of}
    BY <2>2, <2>3
  <2>5. Chosen = {} \/ s \in Chosen
    BY <2>4 DEF CalledReady, Chosen
  <2> HIDE DEF s, of
  <2> QED
    BY <2>1, <2>5 DEF IsIssue
<1> QED
  BY <1>1, <1>2

\* A ready set has no serious issue in any layer.
LEMMA NoSerious ==
    ASSUME WorldInv, AnswerInv, CalledReady, NEW i \in Layers
    PROVE  ~Serious(i)
<1> SUFFICES ASSUME Serious(i)  PROVE FALSE
  OBVIOUS
<1> DEFINE h == Hydrated(i, ucm)
           v == Validated
           r == ValidationClean(v, project.formalRequired)
           scopes == {x.scenario : x \in Blocking(v.report)}
           scope == IF \E x \in scopes : scopes = {x} THEN CHOOSE x \in scopes : TRUE ELSE NoScenario
<1>1. h \in v.report
  BY Reported
<1>2. /\ h.blocking /\ Blocks(h.severity)
      /\ h.scenario = NoScenario \/ Chosen = {} \/ h.scenario \in Chosen
  BY HydratedIssue DEF Serious
<1> HIDE DEF h
<1>3. v.status = "BLOCKED"
  <2>1. v.status = OverallStatus(v.report)
    BY DEF Validated, RunValidation
  <2>2. h \in Blocking(v.report) /\ h \in Errors(v.report)
    BY <1>1, <1>2 DEF Blocking, Errors
  <2> QED
    BY <2>1, <2>2 DEF OverallStatus
<1>4. h.scenario \in scopes
  BY <1>1, <1>2 DEF Blocking
<1>5. scope = NoScenario \/ scope = h.scenario
  BY <1>4
<1> HIDE DEF v
<1>6. r = WithFindings(Requirement("VALIDATION_CLEAN", "BLOCKED", TRUE), {Supports("BLOCKED", scope)})
  BY <1>3 DEF ValidationClean
<1> HIDE DEF scope, scopes
<1>7. /\ r.id = "VALIDATION_CLEAN" /\ r.status = "BLOCKED" /\ r.required /\ r.scenario = NoScenario
      /\ r.findings = {Supports("BLOCKED", scope)}
  BY <1>6 DEF WithFindings, Requirement
<1>8. r \in Required
  BY DEF Required, Requirements, World, v
<1> HIDE DEF r
<1>9. Localized(r) => Chosen = {} \/ Touches(r, Chosen)
  BY <1>2, <1>5, <1>7 DEF Localized, Touches, Supports
<1> QED
  BY <1>7, <1>8, <1>9, RequirementMet DEF Spoiling

\* The checks a layer is made of.
LEMMA LayerParts ==
    /\ ClockIssues(ucm) \subseteq Layers /\ IoIssues(ucm, design) \subseteq Layers
    /\ ClockConflicts(ucm) \subseteq Layers /\ IoConflicts(ucm) \subseteq Layers
    /\ ContradictoryExceptions(ucm) \subseteq Layers
    /\ VerificationIssues(ucm, design, report.backend) \subseteq Layers
    /\ CoverageIssues(ucm, design) \subseteq Layers
<1>1. ClockIssues(ucm) \subseteq Layers /\ IoIssues(ucm, design) \subseteq Layers
  BY DEF Layers, SemanticIssues
<1>2. /\ ClockConflicts(ucm) \subseteq Layers /\ IoConflicts(ucm) \subseteq Layers
      /\ ContradictoryExceptions(ucm) \subseteq Layers
  BY DEF Layers, ConflictIssues
<1>3. VerificationIssues(ucm, design, report.backend) \subseteq Layers
  <2>1. VerificationIssues(ucm, design, report.backend) \subseteq ExceptionIssues(ucm, design, report.backend)
    BY DEF ExceptionIssues
  <2> QED
    BY <2>1 DEF Layers
<1>4. CoverageIssues(ucm, design) \subseteq Layers
  BY DEF Layers
<1> QED
  BY <1>1, <1>2, <1>3, <1>4

\* Two different members make a set larger than one.
LEMMA TwoDiffer ==
    ASSUME NEW S, IsFiniteSet(S), NEW x \in S, NEW y \in S, x # y
    PROVE  Cardinality(S) > 1
<1>1. Cardinality(S) \in Nat
  BY FS_CardinalityType
<1>2. Cardinality(S) # 0
  BY FS_EmptySet
<1>3. Cardinality(S) # 1
  BY FS_Singleton
<1> QED
  BY <1>1, <1>2, <1>3

\* The values of a function on a finite set are finite in number.
LEMMA FiniteRange ==
    ASSUME NEW S, IsFiniteSet(S), NEW f, f = [x \in S |-> f[x]],
           NEW T, \A y \in T : \E x \in S : y = f[x]
    PROVE  IsFiniteSet(T)
<1>1. f \in Surjection(S, {f[x] : x \in S})
  BY DEF Surjection
<1>2. IsFiniteSet({f[x] : x \in S})
  BY <1>1, FS_Surjection
<1> QED
  BY <1>2, FS_Subset

\* Constraints that are finite in number give finitely many periods and delays.
LEMMA PeriodsFinite ==
    ASSUME NEW s, IsFiniteSet(s)
    PROVE  IsFiniteSet(Periods(s))
<1> DEFINE given == {x \in s : Has(x, "period")}
           f == [c \in given |-> Period(c)]
<1>1. IsFiniteSet(given)
  BY FS_Subset
<1>2. \A y \in Periods(s) : \E c \in given : y = f[c]
  BY DEF Periods
<1>3. f = [c \in given |-> f[c]]
  OBVIOUS
<1> HIDE DEF f, given
<1> QED
  BY <1>1, <1>2, <1>3, FiniteRange

\* Delays are finite in number.
LEMMA DelaysFinite ==
    ASSUME NEW s, IsFiniteSet(s)
    PROVE  IsFiniteSet(Delays(s))
<1> DEFINE given == {x \in s : Has(x, "delay")}
           f == [c \in given |-> Delay(c)]
<1>1. IsFiniteSet(given)
  BY FS_Subset
<1>2. \A y \in Delays(s) : \E c \in given : y = f[c]
  BY DEF Delays
<1>3. f = [c \in given |-> f[c]]
  OBVIOUS
<1> HIDE DEF f, given
<1> QED
  BY <1>1, <1>2, <1>3, FiniteRange

-----------------------------------------------------------------------------
(* What readiness stands for, part by part.                                *)

\* The timing graph was built.
LEMMA ReadyGraph ==
    ASSUME WorldInv, AnswerInv, CalledReady
    PROVE  design.graph /\ design.available /\ Measurable(design)
<1> DEFINE graph == IF design.graph THEN "READY" ELSE "BLOCKED"
           available == IF design.available THEN "READY" ELSE "BLOCKED"
<1>1. /\ Requirement("TIMING_GRAPH_AVAILABLE", graph, TRUE) \in Required
      /\ Requirement("DESIGN_ELABORATED", available, TRUE) \in Required
  BY DEF Required, Requirements, SourceRequirements
<1>2. graph \notin Spoiling /\ available \notin Spoiling
  BY <1>1, PlainMet
<1>3. design.graph \in BOOLEAN /\ design.available \in BOOLEAN
  BY DesignsAssumption DEF WorldInv
<1> QED
  BY <1>2, <1>3 DEF Spoiling, Measurable

\* Two constraints of one kind and clock name cannot differ in period.
LEMMA ReadyClocks ==
    ASSUME WorldInv, AnswerInv, CalledReady
    PROVE  ClocksSettled
<1>1. \A i \in Layers : ~Serious(i)
  BY NoSerious
<1>2. ASSUME NEW n \in design.clocks  PROVE n \in {c.name : c \in Enabled(ucm)}
  <2>1. SUFFICES ASSUME n \notin Constrained(ucm)  PROVE FALSE
    BY DEF Constrained, Names, Clocks, GeneratedClocks, ByType, Enabled
  <2> DEFINE m == Measure("clock_source", ucm, design)
             gap == CoverageGap("ERROR", "COVERAGE_CLOCK_GAP", {n})
  <2>2. m = ClockSourceCoverage(ucm, design)
    BY DEF Measure
  <2>3. n \in m.total \ m.covered /\ m.gap[n] = gap
    BY <2>1, <2>2 DEF ClockSourceCoverage
  <2>4. gap \in {m.gap[x] : x \in m.total \ m.covered}
    BY <2>3
  <2> HIDE DEF m, gap
  <2>5. gap \in CoverageIssues(ucm, design)
    BY <2>4, ReadyGraph DEF CoverageIssues, Measures, m
  <2>6. Serious(gap)
    BY SeriousIssue DEF gap, CoverageGap, Blocks
  <2> QED
    BY <1>1, <2>5, <2>6, LayerParts
<1>3. ASSUME NEW c \in Clocks(ucm)
      PROVE  Has(c, "period") /\ c.values.period # Garbled /\ c.values.period \in Int /\ c.values.period > 0
  <2>1. Has(c, "period")
    <3>1. Serious(Issue("ERROR", "CLOCK", "CLOCK_PERIOD_MISSING", c.id))
      BY SeriousIssue DEF Blocks
    <3>2. ~Has(c, "period") => Issue("ERROR", "CLOCK", "CLOCK_PERIOD_MISSING", c.id) \in ClockIssues(ucm)
      BY DEF ClockIssues
    <3> QED
      BY <1>1, <3>1, <3>2, LayerParts
  <2>2. ReadablePeriod(c) /\ ~(Period(c) <= 0)
    <3>1. Serious(Issue("CRITICAL", "CLOCK", "CLOCK_PERIOD_INVALID", c.id))
      BY SeriousIssue DEF Blocks
    <3>2. (ReadablePeriod(c) => Period(c) <= 0)
            => Issue("CRITICAL", "CLOCK", "CLOCK_PERIOD_INVALID", c.id) \in ClockIssues(ucm)
      BY <2>1 DEF ClockIssues
    <3> QED
      BY <1>1, <3>1, <3>2, LayerParts
  <2>3. c.values.period \in Int \cup {Garbled}
    BY <2>1 DEF WorldInv, IsSet, IsConstraint, Clocks, ByType
  <2> QED
    BY <2>1, <2>2, <2>3 DEF ReadablePeriod, Period
<1>4. ASSUME NEW c1 \in Clocks(ucm), NEW c2 \in Clocks(ucm), c1.name = c2.name, c1.name # ""
      PROVE  c1.values.period = c2.values.period
  <2> SUFFICES ASSUME c1.values.period # c2.values.period  PROVE FALSE
    OBVIOUS
  <2> DEFINE n == c1.name
             named == {c \in Clocks(ucm) : ClockName(c) = n}
             conflict == About(Issue("ERROR", "CONFLICT", "CONFLICT_CLOCK_PERIOD", First(named).id), {n})
  <2>1. c1 \in named /\ c2 \in named
    BY <1>4 DEF ClockName
  <2>2. IsFiniteSet(named)
    BY FS_Subset DEF WorldInv, IsSet, Clocks, ByType
  <2>3. Cardinality(named) > 1
    BY <2>1, <2>2, TwoDiffer
  <2>4. Cardinality(Periods(named)) > 1
    <3>1. IsFiniteSet(Periods(named))
      BY <2>2, PeriodsFinite
    <3>2. Period(c1) \in Periods(named) /\ Period(c2) \in Periods(named) /\ Period(c1) # Period(c2)
      BY <1>3, <2>1 DEF Periods, Period
    <3> HIDE DEF named
    <3> QED
      BY <3>1, <3>2, TwoDiffer
  <2>5. conflict \in Disagreement(named, "CONFLICT_CLOCK_PERIOD", {n})
    BY DEF Disagreement
  <2>6. conflict \in ClockConflicts(ucm)
    <3>1. n \in {ClockName(c) : c \in Clocks(ucm)}
      BY <2>1
    <3> QED
      BY <2>3, <2>4, <2>5, <3>1 DEF ClockConflicts
  <2>7. Serious(conflict)
    BY SeriousIssue DEF Blocks
  <2> QED
    BY <1>1, <2>6, <2>7, LayerParts
<1>5. {c \in Enabled(ucm) : c.type = "create_clock"} = Clocks(ucm)
  BY DEF Enabled, Clocks, ByType
<1> QED
  BY <1>2, <1>3, <1>4, <1>5 DEF ClocksSettled

\* Every delay is a number.
LEMMA ReadyDelays ==
    ASSUME WorldInv, AnswerInv, CalledReady, NEW c \in IoConstraints(ucm)
    PROVE  Has(c, "delay") /\ c.values.delay # Garbled
<1> DEFINE i == Issue("ERROR", "TIMING", "IO_DELAY_INVALID", c.id)
<1>1. Serious(i)
  BY SeriousIssue DEF Blocks
<1>2. ~ValidDelay(c) => i \in IoIssues(ucm, design)
  BY DEF IoIssues
<1>3. ValidDelay(c)
  BY <1>1, <1>2, NoSerious, LayerParts
<1> QED
  BY <1>3 DEF ValidDelay, ReadableDelay, Delay

\* Two delays that set the same thing share a key, and then their value.
LEMMA ReadyAgree ==
    ASSUME WorldInv, AnswerInv, CalledReady
    PROVE  DelaysAgree
<1> SUFFICES ASSUME NEW type \in IoTypes, NEW c1 \in DelaysOf(type), NEW c2 \in DelaysOf(type),
                    c1.targets = c2.targets, IoClock(c1) = IoClock(c2),
                    c1.values = [c2.values EXCEPT !.delay = c1.values.delay],
                    c1.values.delay # c2.values.delay
             PROVE  FALSE
  BY DEF DelaysAgree
<1>1. /\ c1 \in IoConstraints(ucm) /\ c2 \in IoConstraints(ucm)
      /\ c1.type = type /\ c2.type = type /\ Has(c1, "delay") /\ Has(c2, "delay")
  BY DEF DelaysOf, Enabled, IoConstraints
<1>2. /\ DOMAIN c1.values = DOMAIN c2.values
      /\ \A f \in DOMAIN c2.values : f # "delay" => c1.values[f] = c2.values[f]
  OBVIOUS
<1>3. \A t : IoKey(c1, t) = IoKey(c2, t)
  BY <1>1, <1>2 DEF IoKey, Value, Flag, Has
<1>4. PICK t \in (IF c1.targets # {} THEN c1.targets ELSE {""}) : TRUE
  OBVIOUS
<1> DEFINE k == IoKey(c1, t)
           sharing == {c \in IoConstraints(ucm) : k \in IoKeys(c)}
           conflict == About(Issue("ERROR", "CONFLICT", "CONFLICT_IO_DELAY", First(sharing).id), {k[2]})
<1>5. k \in IoKeys(c1) /\ k \in IoKeys(c2)
  BY <1>3, <1>4 DEF IoKeys
<1> HIDE DEF k
<1>6. c1 \in sharing /\ c2 \in sharing
  BY <1>1, <1>5
<1>7. IsFiniteSet(sharing)
  BY FS_Subset DEF WorldInv, IsSet, IoConstraints
<1>8. Cardinality(sharing) > 1
  BY <1>6, <1>7, TwoDiffer
<1>9. Cardinality(Delays(sharing)) > 1
  <2>1. IsFiniteSet(Delays(sharing))
    BY <1>7, DelaysFinite
  <2>2. Delay(c1) \in Delays(sharing) /\ Delay(c2) \in Delays(sharing) /\ Delay(c1) # Delay(c2)
    BY <1>1, <1>6 DEF Delays, Delay
  <2> HIDE DEF sharing
  <2> QED
    BY <2>1, <2>2, TwoDiffer
<1>10. conflict \in Disagreement(sharing, "CONFLICT_IO_DELAY", {k[2]})
  BY DEF Disagreement
<1>11. conflict \in IoConflicts(ucm)
  <2>1. k \in UNION {IoKeys(c) : c \in IoConstraints(ucm)}
    BY <1>1, <1>5
  <2> QED
    BY <1>8, <1>9, <1>10, <2>1 DEF IoConflicts
<1>12. Serious(conflict)
  BY SeriousIssue DEF Blocks
<1> QED
  BY <1>11, <1>12, NoSerious, LayerParts

\* A crossing nothing names is a gap, an exception that is refuted, or that
\* contradicts another one, an error.
LEMMA ReadyCrossings ==
    ASSUME WorldInv, AnswerInv, CalledReady
    PROVE  CrossingsSettled
<1> DEFINE excs == {c \in Enabled(ucm) : c.type \in ExceptionTypes}
           answers == VerifyExceptions(ucm, design, report.backend, {}, {})
<1>1. \A i \in Layers : ~Serious(i)
  BY NoSerious
<1>2. excs = Exceptions(ucm)
  BY DEF Enabled, Exceptions
<1>3. ASSUME NEW p \in PathsOf(design, {"CDC"})
      PROVE  \E c \in excs : \/ p.launch \in c.from /\ p.capture \in c.to
                             \/ p.capture \in c.from /\ p.launch \in c.to
  <2> DEFINE m == Measure("cdc", ucm, design)
             gap == CoverageGap("ERROR", "COVERAGE_CDC_GAP", {p.start, p.end})
  <2>1. m = CdcPaths(ucm, design)
    BY DEF Measure
  <2>2. p \in m.total /\ m.gap[p] = gap
    BY <2>1 DEF CdcPaths
  <2>3. p \in m.covered
    <3> SUFFICES ASSUME p \notin m.covered  PROVE FALSE
      OBVIOUS
    <3>1. gap \in {m.gap[x] : x \in m.total \ m.covered}
      BY <2>2
    <3> HIDE DEF m, gap
    <3>2. gap \in CoverageIssues(ucm, design)
      BY <3>1, ReadyGraph DEF CoverageIssues, Measures, m
    <3>3. Serious(gap)
      BY SeriousIssue DEF gap, CoverageGap, Blocks
    <3> QED
      BY <1>1, <3>2, <3>3, LayerParts
  <2>4. {p.launch, p.capture} \in ExceptionPairs(ucm)
    BY <2>1, <2>3 DEF CdcPaths, Ends
  <2>5. PICK c \in Exceptions(ucm) : \E a \in c.from, b \in c.to : {p.launch, p.capture} = {a, b}
    BY <2>4 DEF ExceptionPairs, DistinctPairs, Pair
  <2>6. PICK a \in c.from, b \in c.to : {p.launch, p.capture} = {a, b}
    BY <2>5
  <2>7. (p.launch = a /\ p.capture = b) \/ (p.launch = b /\ p.capture = a)
    BY <2>6
  <2> QED
    BY <1>2, <2>5, <2>6, <2>7
<1>4. ASSUME NEW v \in answers  PROVE v.status # "INVALID" /\ v.status # "ERROR"
  <2> DEFINE refuted == Issue("ERROR", "EXCEPTION", "EXCEPTION_FORMAL_INVALID", v.c.id)
             failed == WithResolution(Issue("ERROR", "EXCEPTION", "EXCEPTION_VERIFICATION_ERROR", v.c.id), "UNRESOLVED")
  <2>1. Serious(refuted) /\ Serious(failed)
    BY SeriousIssue DEF Blocks
  <2> HIDE DEF refuted, failed
  <2>2. v.status = "INVALID" => refuted \in VerificationIssues(ucm, design, report.backend)
    BY DEF VerificationIssues, refuted
  <2>3. v.status = "ERROR" => failed \in VerificationIssues(ucm, design, report.backend)
    BY DEF VerificationIssues, failed
  <2> QED
    BY <1>1, <2>1, <2>2, <2>3, LayerParts
<1>5. ASSUME NEW v \in answers, project.formalRequired, v.status = "UNRESOLVED"  PROVE FALSE
  <2> DEFINE i == WithResolution(Issue("INFO", "EXCEPTION", "EXCEPTION_UNVERIFIED", v.c.id), "UNRESOLVED")
             h == Hydrated(i, ucm)
             matching == {x \in Validated.report : x.category = "EXCEPTION"}
             unverified == Coded(matching, {"EXCEPTION_UNVERIFIED"})
             refuted == Coded(matching, Refuting) \cup Blocking(matching)
             status == IF refuted # {} THEN "BLOCKED"
                       ELSE IF unverified # {} /\ TRUE THEN "BLOCKED"
                       ELSE IF Unresolved(matching) # {} /\ TRUE THEN "UNKNOWN"
                       ELSE IF matching # {} THEN "READY_WITH_WARNINGS"
                       ELSE "READY"
             findings == IssueFindings(status, unverified) \cup IssueFindings("", matching \ unverified)
             r == WithFindings(Requirement("EXCEPTIONS_VALIDATED", "BLOCKED", TRUE), findings)
  <2>1. i = [severity |-> "INFO", category |-> "EXCEPTION", code |-> "EXCEPTION_UNVERIFIED", on |-> v.c.id,
             objects |-> {}, scenario |-> NoScenario, blocking |-> Blocks("INFO"), resolution |-> "UNRESOLVED"]
    BY DEF WithResolution, Issue, Blocks
  <2>2. i \in VerificationIssues(ucm, design, report.backend)
    BY <1>5 DEF VerificationIssues
  <2> HIDE DEF i
  <2>3. IsIssue(i) /\ i.scenario = NoScenario /\ i.category = "EXCEPTION" /\ i.code = "EXCEPTION_UNVERIFIED"
    BY <2>1 DEF IsIssue
  <2>4. h \in Validated.report
    BY <2>2, Reported, LayerParts
  <2>5. /\ h.category = "EXCEPTION" /\ h.code = "EXCEPTION_UNVERIFIED"
        /\ h.scenario = NoScenario \/ Chosen = {} \/ h.scenario \in Chosen
    BY <2>3, HydratedIssue
  <2> HIDE DEF h
  <2>6. h \in unverified /\ h \in matching
    BY <2>4, <2>5 DEF Coded
  <2>7. status = "BLOCKED"
    BY <2>6
  <2>8. Supports("BLOCKED", h.scenario) \in findings
    BY <2>6, <2>7 DEF IssueFindings
  <2>9. Exceptions(ucm) # {}
    BY DEF VerifyExceptions
  <2>10. project.formalRequired = TRUE
    BY <1>5, ProjectsAssumption DEF WorldInv
  <2>11. r \in ExceptionsValidated(ucm, Validated, TRUE)
    BY <2>6, <2>7, <2>9 DEF ExceptionsValidated
  <2> HIDE DEF findings, status, refuted, unverified, matching
  <2>12. r \in Required
    BY <2>10, <2>11 DEF Required, Requirements, World
  <2>13. /\ r.id = "EXCEPTIONS_VALIDATED" /\ r.status = "BLOCKED" /\ r.required /\ r.scenario = NoScenario
         /\ r.findings = findings
    BY DEF WithFindings, Requirement
  <2> HIDE DEF r
  <2>14. Localized(r) => Chosen = {} \/ Touches(r, Chosen)
    BY <2>5, <2>8, <2>13 DEF Localized, Touches, Supports
  <2> QED
    BY <2>12, <2>13, <2>14, RequirementMet DEF Spoiling
<1>6. ASSUME NEW c1 \in excs, NEW c2 \in excs, c1.selector, c2.selector, c1.type = "set_false_path",
             c2.type \in {"set_multicycle_path", "set_max_delay"}, Selector(c1) = Selector(c2)
      PROVE  FALSE
  <2> DEFINE all == {c \in ucm : c.type \in ExceptionTypes /\ c.selector}
             group == {c \in all : Selector(c) = Selector(c1)}
             conflict == Issue("HIGH", "CONFLICT", "CONFLICT_EXCEPTION", First(group).id)
  <2>1. c1 \in group /\ c2 \in group
    BY <1>6 DEF Enabled
  <2>2. group \in {{c \in all : Selector(c) = Selector(x)} : x \in all}
    BY <2>1
  <2>3. conflict \in ContradictoryExceptions(ucm)
    BY <1>6, <2>1, <2>2 DEF ContradictoryExceptions, SharedSelectors, Contradictory, Types
  <2>4. Serious(conflict)
    BY SeriousIssue DEF Blocks
  <2> QED
    BY <1>1, <2>3, <2>4, LayerParts
<1> QED
  BY <1>3, <1>4, <1>5, <1>6 DEF CrossingsSettled

\* Nothing the set rests on is missing, withdrawn or of an older source.
LEMMA ReadyEvidence ==
    ASSUME WorldInv, AnswerInv, CalledReady
    PROVE  EvidenceSettled
<1> DEFINE bare == {c \in ucm : c.source \in {"INFERENCE", "DERIVED"} /\ c.evidence = {}}
           open == {a \in World.ledger : a.required /\ ~a.confirmed}
           present == IF bare \cup open = {} THEN "READY" ELSE "INCOMPLETE"
           stale == {r \in World.stored : StaleStored(r, ucm, World)}
                        \cup {r \in World.external : StaleExternal(r, ucm, World)}
                        \cup {k \in World.candidates : Moved(k.snapshot, World, Sources \cup {"constraint_set"}) # {}}
           clear == IF stale = {} THEN "READY" ELSE "BLOCKED"
<1>1. Requirement("REQUIRED_EVIDENCE_PRESENT", present, TRUE) \in Required
  BY DEF Required, Requirements, EvidencePresent
<1>2. Requirement("STALE_EVIDENCE_CLEAR", clear, TRUE) \in Required
  BY DEF Required, Requirements, StaleEvidence
<1>3. present \notin Spoiling /\ clear \notin Spoiling
  <2> HIDE DEF present, clear
  <2> QED
    BY <1>1, <1>2, PlainMet
<1>4. bare \cup open = {} /\ stale = {}
  <2> HIDE DEF bare, open, stale
  <2> QED
    BY <1>3 DEF Spoiling
<1>5. confirmed = RequiredAssumptions
  <2>1. ASSUME NEW a \in RequiredAssumptions  PROVE a \in confirmed
    <3> DEFINE entry == [id |-> a, required |-> TRUE, confirmed |-> a \in confirmed]
    <3>1. entry \in World.ledger
      BY DEF World
    <3>2. entry \notin open
      BY <1>4
    <3> QED
      BY <3>1, <3>2
  <2> QED
    BY <2>1 DEF WorldInv
<1>6. \A c \in ucm : c.source \in {"INFERENCE", "DERIVED"} => c.evidence # {}
  BY <1>4
<1>7. ASSUME NEW r \in receipts
      PROVE  /\ r.applied \subseteq {c.id : c \in ucm}
             /\ \A s \in DOMAIN r.snapshot : r.snapshot[s] = sources[s]
  <2>1. ~StaleStored(r, ucm, World)
    BY <1>4 DEF World
  <2>2. r.applied \subseteq {c.id : c \in ucm} /\ Moved(r.snapshot, World, Sources) = {}
    BY <2>1 DEF StaleStored
  <2>3. World.identity = [s \in Sources |-> sources[s]] /\ DOMAIN r.snapshot \subseteq Sources
    <3>1. design.graph /\ design.available
      BY ReadyGraph
    <3> QED
      BY <3>1 DEF World, Present, WorldInv, IsReceipt
  <2> QED
    BY <2>2, <2>3 DEF Moved
<1> QED
  BY <1>5, <1>6, <1>7 DEF EvidenceSettled

\* With fewer paths than are rounded away, a coverage that is not short is
\* complete.
LEMMA FullIsAll ==
    ASSUME NEW total, IsFiniteSet(total), Cardinality(total) < RoundedAway,
           NEW covered, Percentage(covered, total) # Short
    PROVE  total \subseteq covered
<1> DEFINE missing == total \ covered
           m == Cardinality(missing)
           n == Cardinality(total)
<1>1. CASE total = {}
  BY <1>1
<1>2. CASE total # {}
  <2>1. IsFiniteSet(missing)
    BY FS_Subset
  <2>2. m \in Nat /\ n \in Nat /\ RoundedAway \in Nat
    BY <2>1, FS_CardinalityType, RoundingAssumption
  <2>3. RoundedAway * m <= n
    BY <1>2 DEF Percentage, Short, NotApplicable
  <2> HIDE DEF m, n
  <2>4. n < RoundedAway
    BY DEF n
  <2>5. m = 0
    <3>1. m >= 1 => RoundedAway * m >= RoundedAway
      BY <2>2
    <3> QED
      BY <2>2, <2>3, <2>4, <3>1
  <2>6. missing = {}
    BY <2>1, <2>5, FS_EmptySet DEF m
  <2> QED
    BY <2>6
<1> QED
  BY <1>1, <1>2

\* No measure of a set that is called ready falls short.
LEMMA ReadyCoverage ==
    ASSUME WorldInv, AnswerInv, CalledReady, NEW m \in Measures
    PROVE  Percentage(Measure(m, ucm, design).covered, Measure(m, ucm, design).total) # Short
<1> DEFINE values == {Validated.coverage[x] : x \in Measures}
           status == IF Unknowable \in values THEN "UNKNOWN" ELSE IF Short \in values THEN "INCOMPLETE" ELSE "READY"
<1>1. Requirement("COVERAGE_KNOWN", status, TRUE) \in Required
  BY DEF Required, Requirements, CoverageKnown
<1>2. status \notin Spoiling
  <2> HIDE DEF status
  <2> QED
    BY <1>1, PlainMet
<1>3. Short \notin values
  <2> HIDE DEF values
  <2> QED
    BY <1>2 DEF Spoiling
<1>4. Validated.coverage = ComputeCoverage(ucm, design)
  BY DEF Validated, RunValidation
<1>5. Validated.coverage[m] = Percentage(Measure(m, ucm, design).covered, Measure(m, ucm, design).total)
  BY <1>4, ReadyGraph DEF ComputeCoverage
<1> QED
  BY <1>3, <1>5

\* Few enough paths to be told apart are all timed.
LEMMA ReadyPorts ==
    ASSUME WorldInv, AnswerInv, CalledReady, Cardinality(design.paths) < RoundedAway
    PROVE  PortsTimed
<1>1. IsFiniteSet(design.paths) /\ Cardinality(design.paths) \in Nat /\ RoundedAway \in Nat
  BY DesignsAssumption, FS_CardinalityType, RoundingAssumption DEF WorldInv
<1>2. ASSUME NEW paths, paths \subseteq design.paths  PROVE IsFiniteSet(paths) /\ Cardinality(paths) < RoundedAway
  <2>1. IsFiniteSet(paths) /\ Cardinality(paths) <= Cardinality(design.paths)
    BY <1>1, <1>2, FS_Subset
  <2> QED
    BY <1>1, <2>1, FS_CardinalityType
<1>3. ASSUME NEW type \in IoTypes, NEW port, NEW clock, DelaysOn(ucm, type, port, clock) # {}
      PROVE  GivenDelay(type, port, clock)
  <2>1. PICK c \in DelaysOn(ucm, type, port, clock) : TRUE
    BY <1>3
  <2>2. c \in ucm /\ c.type = type /\ ~c.disabled /\ port \in c.targets /\ IoClock(c) = clock
    BY <2>1 DEF DelaysOn, ByType
  <2>3. Has(c, "delay") /\ c.values.delay # Garbled
    BY <2>2, ReadyDelays DEF IoConstraints
  <2> QED
    BY <2>2, <2>3 DEF GivenDelay, DelaysOf, Enabled
<1>4. ASSUME NEW p \in InputPaths(design)  PROVE GivenDelay("set_input_delay", p.start, p.capture)
  <2> DEFINE m == Measure("input", ucm, design)
  <2>1. m = InputTiming(ucm, design)
    BY DEF Measure
  <2>2. m.total = InputPaths(design)
        /\ \A x \in m.covered : DelaysOn(ucm, "set_input_delay", x.start, x.capture) # {}
    BY <2>1 DEF InputTiming, Timed
  <2>3. Percentage(m.covered, m.total) # Short
    BY ReadyCoverage DEF Measures
  <2>4. IsFiniteSet(m.total) /\ Cardinality(m.total) < RoundedAway
    BY <1>2, <2>2 DEF InputPaths, PathsOf
  <2> HIDE DEF m
  <2>5. p \in m.covered
    BY <2>2, <2>3, <2>4, FullIsAll
  <2> QED
    BY <1>3, <2>2, <2>5 DEF IoTypes
<1>5. ASSUME NEW p \in OutputPaths(design)  PROVE GivenDelay("set_output_delay", p.end, p.launch)
  <2> DEFINE m == Measure("output", ucm, design)
  <2>1. m = OutputTiming(ucm, design)
    BY DEF Measure
  <2>2. m.total = OutputPaths(design)
        /\ \A x \in m.covered : DelaysOn(ucm, "set_output_delay", x.end, x.launch) # {}
    BY <2>1 DEF OutputTiming, Timed
  <2>3. Percentage(m.covered, m.total) # Short
    BY ReadyCoverage DEF Measures
  <2>4. IsFiniteSet(m.total) /\ Cardinality(m.total) < RoundedAway
    BY <1>2, <2>2 DEF OutputPaths, PathsOf
  <2> HIDE DEF m
  <2>5. p \in m.covered
    BY <2>2, <2>3, <2>4, FullIsAll
  <2> QED
    BY <1>3, <2>2, <2>5 DEF IoTypes
<1> QED
  BY <1>4, <1>5 DEF PortsTimed

\* For any constraints, designs, settings and proofs: a set is called ready
\* only when its clocks, delays, crossings and evidence are settled, and all
\* its ports timed if the design has fewer paths than are rounded away.
THEOREM ReadyTheorem == Spec => []ReadyIsEarned
<1>1. AnalysisInv => ReadyIsEarned
  BY ReadyGraph, ReadyClocks, ReadyAgree, ReadyCrossings, ReadyEvidence, ReadyPorts
     DEF AnalysisInv, ReadyIsEarned
<1> QED
  BY <1>1, AnalysisInvariant, PTL

-----------------------------------------------------------------------------
(* Induction, for a set of numbers, and what it says of positions.         *)

\* A set that holds 0 and with each number the next one holds all.
LEMMA SetInduction ==
    ASSUME NEW P, 0 \in P, \A k \in Nat : k \in P => k + 1 \in P
    PROVE  Nat \subseteq P
<1> DEFINE Lacking == Nat \ P
<1>1. SUFFICES ASSUME Lacking # {}  PROVE FALSE
  OBVIOUS
<1>2. PICK m \in Lacking : \A k \in Lacking : <<k, m>> \notin OpToRel(<, Nat)
  BY <1>1, NatLessThanWellFounded, WFMin, Lacking \in SUBSET Nat
<1>3. \A k \in Lacking : ~(k < m)
  BY <1>2 DEF OpToRel
<1>4. m \in Nat /\ m \notin P
  OBVIOUS
<1>5. m # 0
  BY <1>4
<1>6. m - 1 \in Nat /\ m - 1 < m /\ m - 1 \in P
  BY <1>3, <1>4, <1>5
<1> HIDE DEF Lacking
<1>7. (m - 1) + 1 \in P
  BY <1>6
<1>8. (m - 1) + 1 = m
  BY <1>4
<1> QED
  BY <1>4, <1>7, <1>8

Placed(S) == IsFiniteSet(S) /\ \A c \in S : c.at \in Int
HasFirst(n) == \A S : Placed(S) /\ Cardinality(S) = n + 1 => \E c \in S : \A d \in S : c.at <= d.at

\* Constraints that are finite in number have a first one.
LEMMA FirstIsFirst ==
    ASSUME NEW S, Placed(S), S # {}
    PROVE  First(S) \in S /\ \A d \in S : First(S).at <= d.at
<1> DEFINE P == {n \in Nat : HasFirst(n)}
<1>1. 0 \in P
  <2>1. ASSUME NEW T, Placed(T), Cardinality(T) = 1  PROVE \E c \in T : \A d \in T : c.at <= d.at
    <3>1. PICK c : T = {c}
      BY <2>1, FS_Singleton DEF Placed
    <3>2. c.at \in Int
      BY <2>1, <3>1 DEF Placed
    <3> QED
      BY <3>1, <3>2
  <2> QED
    BY <2>1 DEF HasFirst
<1>2. ASSUME NEW n \in Nat, n \in P  PROVE n + 1 \in P
  <2>1. ASSUME NEW T, Placed(T), Cardinality(T) = n + 2  PROVE \E c \in T : \A d \in T : c.at <= d.at
    <3>1. PICK x \in T : TRUE
      BY <2>1, FS_EmptySet
    <3>2. IsFiniteSet(T \ {x}) /\ Cardinality(T \ {x}) = n + 1
      BY <2>1, FS_RemoveElement DEF Placed
    <3>3. Placed(T \ {x})
      BY <2>1, <3>2 DEF Placed
    <3>4. PICK y \in T \ {x} : \A d \in T \ {x} : y.at <= d.at
      BY <1>2, <3>2, <3>3 DEF HasFirst
    <3>5. x.at \in Int /\ y.at \in Int /\ \A d \in T : d.at \in Int
      BY <2>1, <3>4 DEF Placed
    <3>6. CASE x.at <= y.at
      <4>1. ASSUME NEW d \in T  PROVE x.at <= d.at
        BY <3>4, <3>5, <3>6
      <4> QED
        BY <4>1
    <3>7. CASE y.at <= x.at
      <4>1. ASSUME NEW d \in T  PROVE y.at <= d.at
        BY <3>4, <3>5, <3>7
      <4> QED
        BY <4>1
    <3> QED
      BY <3>5, <3>6, <3>7
  <2> QED
    BY <2>1 DEF HasFirst
<1> HIDE DEF P
<1>3. Nat \subseteq P
  BY <1>1, <1>2, SetInduction
<1>4. Cardinality(S) \in Nat /\ Cardinality(S) # 0
  BY FS_CardinalityType, FS_EmptySet DEF Placed
<1>5. HasFirst(Cardinality(S) - 1)
  BY <1>3, <1>4 DEF P
<1>6. \E c \in S : \A d \in S : c.at <= d.at
  BY <1>4, <1>5 DEF HasFirst
<1> QED
  BY <1>6 DEF First

-----------------------------------------------------------------------------
(* Pairing.                                                                *)

\* No constraint is in two pairs, and what is left over is in none.
Matched(L, R, s) ==
    /\ s.left \subseteq L /\ s.right \subseteq R /\ s.pairs \subseteq L \X R
    /\ \A a \in L : a \in s.left <=> ~(\E p \in s.pairs : p[1] = a)
    /\ \A b \in R : b \in s.right <=> ~(\E p \in s.pairs : p[2] = b)
    /\ \A p, q \in s.pairs : p[1] = q[1] <=> p[2] = q[2]

\* One more pair of two that were left over.
LEMMA OnePair ==
    ASSUME NEW L, NEW R, NEW s, Matched(L, R, s), NEW a \in s.left, NEW b \in s.right
    PROVE  Matched(L, R, [left |-> s.left \ {a}, right |-> s.right \ {b}, pairs |-> s.pairs \cup {<<a, b>>}])
<1> DEFINE t == [left |-> s.left \ {a}, right |-> s.right \ {b}, pairs |-> s.pairs \cup {<<a, b>>}]
<1>1. t.left = s.left \ {a} /\ t.right = s.right \ {b} /\ t.pairs = s.pairs \cup {<<a, b>>}
  OBVIOUS
<1> HIDE DEF t
<1>2. a \in L /\ b \in R
  BY DEF Matched
<1>3. t.left \subseteq L /\ t.right \subseteq R /\ t.pairs \subseteq L \X R
  BY <1>1, <1>2 DEF Matched
<1>4. \A p \in s.pairs : p[1] # a /\ p[2] # b
  BY <1>2 DEF Matched
<1>5. ASSUME NEW c \in L  PROVE c \in t.left <=> ~(\E p \in t.pairs : p[1] = c)
  BY <1>1, <1>4, <<a, b>>[1] = a DEF Matched
<1>6. ASSUME NEW c \in R  PROVE c \in t.right <=> ~(\E p \in t.pairs : p[2] = c)
  BY <1>1, <1>4, <<a, b>>[2] = b DEF Matched
<1>7. ASSUME NEW p \in t.pairs, NEW q \in t.pairs  PROVE p[1] = q[1] <=> p[2] = q[2]
  <2>1. CASE p \in s.pairs /\ q \in s.pairs
    BY <2>1 DEF Matched
  <2>2. CASE p = <<a, b>> /\ q \in s.pairs
    BY <1>4, <2>2
  <2>3. CASE p \in s.pairs /\ q = <<a, b>>
    BY <1>4, <2>3
  <2>4. CASE p = <<a, b>> /\ q = <<a, b>>
    BY <2>4
  <2> QED
    BY <1>1, <2>1, <2>2, <2>3, <2>4
<1>8. Matched(L, R, t)
  BY <1>3, <1>5, <1>6, <1>7 DEF Matched
<1> QED
  BY <1>8 DEF t

\* The two ways a pair is found.
NextPair(how, s) == IF how = "signature" THEN PairUp(s, SameSignature) ELSE PairUp(s, OnlyIdentity)
Partners(how, a, right) == IF how = "signature" THEN SameSignature(a, right) ELSE OnlyIdentity(a, right)

\* A next pair, spelled out.
LEMMA NextPairUp ==
    ASSUME NEW how, NEW s
    PROVE  LET ready == {a \in s.left : Partners(how, a, s.right) # {}}
               a == First(ready)
               b == First(Partners(how, a, s.right))
           IN NextPair(how, s) =
                IF ready = {} THEN s
                ELSE [left |-> s.left \ {a}, right |-> s.right \ {b}, pairs |-> s.pairs \cup {<<a, b>>}]
<1>1. CASE how = "signature"
  <2>1. \A a : Partners(how, a, s.right) = SameSignature(a, s.right)
    BY <1>1 DEF Partners
  <2>2. {a \in s.left : Partners(how, a, s.right) # {}} = {a \in s.left : SameSignature(a, s.right) # {}}
    BY <2>1
  <2> QED
    BY <1>1, <2>1, <2>2 DEF NextPair, PairUp
<1>2. CASE how # "signature"
  <2>1. \A a : Partners(how, a, s.right) = OnlyIdentity(a, s.right)
    BY <1>2 DEF Partners
  <2>2. {a \in s.left : Partners(how, a, s.right) # {}} = {a \in s.left : OnlyIdentity(a, s.right) # {}}
    BY <2>1
  <2> QED
    BY <1>2, <2>1, <2>2 DEF NextPair, PairUp
<1> QED
  BY <1>1, <1>2

\* Partners are looked for on the right.
LEMMA PartnersWithin ==
    ASSUME NEW how, NEW a, NEW right
    PROVE  Partners(how, a, right) \subseteq right
BY DEF Partners, SameSignature, OnlyIdentity

\* A next pair gives no constraint a second partner.
LEMMA NextPairKeeps ==
    ASSUME NEW L, NEW R, Placed(L), Placed(R), NEW how, NEW s, Matched(L, R, s)
    PROVE  Matched(L, R, NextPair(how, s))
<1> DEFINE ready == {a \in s.left : Partners(how, a, s.right) # {}}
           x == First(ready)
           y == First(Partners(how, x, s.right))
<1>1. CASE ready = {}
  BY <1>1, NextPairUp
<1>2. CASE ready # {}
  <2>1. NextPair(how, s) = [left |-> s.left \ {x}, right |-> s.right \ {y}, pairs |-> s.pairs \cup {<<x, y>>}]
    BY <1>2, NextPairUp
  <2>2. Placed(ready)
    BY FS_Subset DEF Placed, Matched
  <2>3. x \in ready
    BY <1>2, <2>2, FirstIsFirst
  <2>4. Placed(Partners(how, x, s.right))
    <3>1. Partners(how, x, s.right) \subseteq R
      BY PartnersWithin DEF Matched
    <3> QED
      BY <3>1, FS_Subset DEF Placed
  <2>5. y \in s.right
    <3>1. Partners(how, x, s.right) # {}
      BY <2>3
    <3>2. y \in Partners(how, x, s.right)
      BY <2>4, <3>1, FirstIsFirst
    <3> QED
      BY <3>2, PartnersWithin
  <2> HIDE DEF y
  <2> QED
    BY <2>1, <2>3, <2>5, OnePair
<1> QED
  BY <1>1, <1>2

\* The pairings after each of the first n pairs.
PairRun(how, s, n, run) ==
    run = [k \in 0..n |-> IF k = 0 THEN s ELSE NextPair(how, run[k - 1])]

\* There is such a run.
LEMMA PairRunExists ==
    ASSUME NEW how, NEW s, NEW n \in Nat
    PROVE  \E run : PairRun(how, s, n, run)
<1> DEFINE step(f, k) == IF k = 0 THEN s ELSE NextPair(how, f[k - 1])
           P == {m \in Nat : \E run : PairRun(how, s, m, run)}
<1>1. 0 \in P
  <2>1. PairRun(how, s, 0, [k \in 0..0 |-> s])
    BY DEF PairRun
  <2> QED
    BY <2>1
<1>2. ASSUME NEW m \in Nat, m \in P  PROVE m + 1 \in P
  <2>1. PICK run : PairRun(how, s, m, run)
    BY <1>2
  <2> DEFINE more == [k \in 0..(m + 1) |-> IF k = m + 1 THEN step(run, m + 1) ELSE run[k]]
  <2>2. run = [k \in 0..m |-> step(run, k)]
    BY <2>1 DEF PairRun
  <2>3. ASSUME NEW k \in 0..(m + 1)  PROVE more[k] = step(more, k)
    <3>1. CASE k = m + 1
      <4>1. k # 0 /\ k - 1 = m /\ m \in 0..(m + 1) /\ m # m + 1
        BY <3>1
      <4>2. more[k - 1] = run[k - 1] /\ more[k] = step(run, k)
        BY <3>1, <4>1
      <4> HIDE DEF more
      <4> QED
        BY <4>1, <4>2
    <3>2. CASE k # m + 1
      <4>1. k \in 0..m /\ (k # 0 => k - 1 \in 0..(m + 1) /\ k - 1 # m + 1)
        BY <2>3, <3>2
      <4>2. more[k] = run[k] /\ (k # 0 => more[k - 1] = run[k - 1])
        BY <2>3, <3>2, <4>1
      <4>3. run[k] = step(run, k)
        BY <2>2, <4>1
      <4> HIDE DEF more
      <4> QED
        BY <4>2, <4>3
    <3> QED
      BY <3>1, <3>2
  <2>4. more = [k \in 0..(m + 1) |-> more[k]]
    OBVIOUS
  <2> HIDE DEF more
  <2>5. PairRun(how, s, m + 1, more)
    BY <2>3, <2>4 DEF PairRun
  <2> QED
    BY <2>5
<1> HIDE DEF P
<1>3. n \in P
  BY <1>1, <1>2, SetInduction
<1> QED
  BY <1>3 DEF P

\* Exhaust is the end of such a run.
Exhausted(how, s) == IF how = "signature" THEN Exhaust(s, SameSignature) ELSE Exhaust(s, OnlyIdentity)

\* It ends where Exhaust does.
LEMMA ExhaustRuns ==
    ASSUME NEW how, NEW s, IsFiniteSet(s.left)
    PROVE  \E run : /\ PairRun(how, s, Cardinality(s.left), run)
                    /\ Exhausted(how, s) = run[Cardinality(s.left)]
<1> DEFINE n == Cardinality(s.left)
<1>0. n \in Nat
  BY FS_CardinalityType
<1> HIDE DEF n
<1>1. PICK f : PairRun(how, s, n, f)
  BY <1>0, PairRunExists
<1>2. CASE how = "signature"
  <2>1. \E g : g = [k \in 0..n |-> IF k = 0 THEN s ELSE PairUp(g[k - 1], SameSignature)]
    BY <1>1, <1>2 DEF PairRun, NextPair
  <2> DEFINE after[k \in 0..n] == IF k = 0 THEN s ELSE PairUp(after[k - 1], SameSignature)
  <2>2. after = [k \in 0..n |-> IF k = 0 THEN s ELSE PairUp(after[k - 1], SameSignature)]
    BY <2>1
  <2>3. Exhausted(how, s) = after[n]
    BY <1>2 DEF Exhausted, Exhaust, n
  <2> HIDE DEF after
  <2>4. PairRun(how, s, n, after)
    BY <1>2, <2>2 DEF PairRun, NextPair
  <2> QED
    BY <2>3, <2>4 DEF n
<1>3. CASE how # "signature"
  <2>1. \E g : g = [k \in 0..n |-> IF k = 0 THEN s ELSE PairUp(g[k - 1], OnlyIdentity)]
    BY <1>1, <1>3 DEF PairRun, NextPair
  <2> DEFINE after[k \in 0..n] == IF k = 0 THEN s ELSE PairUp(after[k - 1], OnlyIdentity)
  <2>2. after = [k \in 0..n |-> IF k = 0 THEN s ELSE PairUp(after[k - 1], OnlyIdentity)]
    BY <2>1
  <2>3. Exhausted(how, s) = after[n]
    BY <1>3 DEF Exhausted, Exhaust, n
  <2> HIDE DEF after
  <2>4. PairRun(how, s, n, after)
    BY <1>3, <2>2 DEF PairRun, NextPair
  <2> QED
    BY <2>3, <2>4 DEF n
<1> QED
  BY <1>2, <1>3

\* However it goes on, no constraint gets a second partner.
LEMMA ExhaustKeeps ==
    ASSUME NEW L, NEW R, Placed(L), Placed(R), NEW how, NEW s, Matched(L, R, s)
    PROVE  Matched(L, R, Exhausted(how, s))
<1> DEFINE n == Cardinality(s.left)
<1>1. IsFiniteSet(s.left)
  BY FS_Subset DEF Placed, Matched
<1>2. n \in Nat
  BY <1>1, FS_CardinalityType
<1>3. PICK run : PairRun(how, s, n, run) /\ Exhausted(how, s) = run[n]
  BY <1>1, ExhaustRuns
<1> HIDE DEF n
<1> DEFINE P == {k \in Nat : k <= n => Matched(L, R, run[k])}
<1>4. 0 \in P
  <2>1. run[0] = s
    BY <1>2, <1>3 DEF PairRun
  <2> QED
    BY <2>1
<1>5. ASSUME NEW k \in Nat, k \in P  PROVE k + 1 \in P
  <2> SUFFICES ASSUME k + 1 <= n  PROVE Matched(L, R, run[k + 1])
    OBVIOUS
  <2>1. k + 1 \in 0..n /\ k + 1 # 0 /\ (k + 1) - 1 = k /\ k <= n
    BY <1>2
  <2>2. run[k + 1] = NextPair(how, run[k])
    BY <1>3, <2>1 DEF PairRun
  <2>3. Matched(L, R, run[k])
    BY <1>5, <2>1
  <2> QED
    BY <2>2, <2>3, NextPairKeeps
<1> HIDE DEF P
<1>6. n \in P
  BY <1>2, <1>4, <1>5, SetInduction
<1> QED
  BY <1>2, <1>3, <1>6 DEF P

\* The pairing of two groups leaves over what has no partner.
LEMMA MultisetMatched ==
    ASSUME NEW L, NEW R, Placed(L), Placed(R)
    PROVE  Matched(L, R, PairMultiset(L, R))
<1> DEFINE start == [left |-> L, right |-> R, pairs |-> {}]
           exact == Exhausted("signature", start)
           named == Exhausted("identity", exact)
<1>1. Matched(L, R, start)
  BY DEF Matched
<1> HIDE DEF start
<1>2. Matched(L, R, exact)
  BY <1>1, ExhaustKeeps
<1> HIDE DEF exact
<1>3. Matched(L, R, named)
  BY <1>2, ExhaustKeeps
<1>4. PairMultiset(L, R) =
        IF Cardinality(named.left) = 1 /\ Cardinality(named.right) = 1
        THEN [left |-> {}, right |-> {}, pairs |-> named.pairs \cup (named.left \X named.right)]
        ELSE named
  BY DEF PairMultiset, Exhausted, start, exact, named
<1> HIDE DEF named
<1>5. CASE Cardinality(named.left) = 1 /\ Cardinality(named.right) = 1
  <2>1. IsFiniteSet(named.left) /\ IsFiniteSet(named.right)
    BY <1>3, FS_Subset DEF Placed, Matched
  <2>2. PICK a : named.left = {a}
    BY <1>5, <2>1, FS_Singleton
  <2>3. PICK b : named.right = {b}
    BY <1>5, <2>1, FS_Singleton
  <2>4. {} = named.left \ {a} /\ {} = named.right \ {b} /\ named.left \X named.right = {<<a, b>>}
    BY <2>2, <2>3
  <2> QED
    BY <1>3, <1>4, <1>5, <2>2, <2>3, <2>4, OnePair
<1>6. CASE ~(Cardinality(named.left) = 1 /\ Cardinality(named.right) = 1)
  BY <1>3, <1>4, <1>6
<1> QED
  BY <1>5, <1>6

-----------------------------------------------------------------------------
(* What a comparison that finds no difference has established.             *)

InGroup(cons, k) == {c \in cons : MatchGroup(c) = k}
Keys(L, R) == {MatchGroup(c) : c \in L \cup R}
PairedIn(L, R, k) == PairMultiset(InGroup(L, k), InGroup(R, k))
AllPairs(L, R) == UNION {PairedIn(L, R, k).pairs : k \in Keys(L, R)}
LeftOver(L, R) == UNION {PairedIn(L, R, k).left \cup PairedIn(L, R, k).right : k \in Keys(L, R)}

\* Each constraint of either side is in exactly one pair.
OneToOne(L, R, pairs) ==
    /\ pairs \subseteq L \X R
    /\ \A a \in L : \E p \in pairs : p[1] = a
    /\ \A b \in R : \E p \in pairs : p[2] = b
    /\ \A p, q \in pairs : p[1] = q[1] <=> p[2] = q[2]

\* So it is in every group.
LEMMA GroupMatched ==
    ASSUME NEW L, NEW R, Placed(L), Placed(R), NEW k
    PROVE  Matched(InGroup(L, k), InGroup(R, k), PairedIn(L, R, k))
<1>1. Placed(InGroup(L, k)) /\ Placed(InGroup(R, k))
  BY FS_Subset DEF Placed, InGroup
<1> QED
  BY <1>1, MultisetMatched DEF PairedIn

\* When nothing is left over the pairs of all groups are one to one.
LEMMA NothingAlone ==
    ASSUME NEW L, NEW R, Placed(L), Placed(R), LeftOver(L, R) = {}
    PROVE  OneToOne(L, R, AllPairs(L, R))
<1>1. ASSUME NEW k \in Keys(L, R)
      PROVE  /\ PairedIn(L, R, k).left = {} /\ PairedIn(L, R, k).right = {}
             /\ Matched(InGroup(L, k), InGroup(R, k), PairedIn(L, R, k))
  BY <1>1, GroupMatched DEF LeftOver
<1>2. ASSUME NEW p \in AllPairs(L, R)
      PROVE  \E k \in Keys(L, R) : p \in PairedIn(L, R, k).pairs
  BY <1>2 DEF AllPairs
<1>3. ASSUME NEW k \in Keys(L, R), NEW p \in PairedIn(L, R, k).pairs
      PROVE  p \in L \X R /\ MatchGroup(p[1]) = k /\ MatchGroup(p[2]) = k
  <2>1. p \in InGroup(L, k) \X InGroup(R, k)
    BY <1>1 DEF Matched
  <2> QED
    BY <2>1 DEF InGroup
<1>4. AllPairs(L, R) \subseteq L \X R
  BY <1>2, <1>3
<1>5. ASSUME NEW a \in L  PROVE \E p \in AllPairs(L, R) : p[1] = a
  <2> DEFINE k == MatchGroup(a)
  <2>1. k \in Keys(L, R) /\ a \in InGroup(L, k)
    BY DEF Keys, InGroup
  <2> HIDE DEF k
  <2>2. \E p \in PairedIn(L, R, k).pairs : p[1] = a
    BY <1>1, <2>1 DEF Matched
  <2> QED
    BY <2>1, <2>2 DEF AllPairs
<1>6. ASSUME NEW b \in R  PROVE \E p \in AllPairs(L, R) : p[2] = b
  <2> DEFINE k == MatchGroup(b)
  <2>1. k \in Keys(L, R) /\ b \in InGroup(R, k)
    BY DEF Keys, InGroup
  <2> HIDE DEF k
  <2>2. \E p \in PairedIn(L, R, k).pairs : p[2] = b
    BY <1>1, <2>1 DEF Matched
  <2> QED
    BY <2>1, <2>2 DEF AllPairs
<1>7. ASSUME NEW p \in AllPairs(L, R), NEW q \in AllPairs(L, R)  PROVE p[1] = q[1] <=> p[2] = q[2]
  <2>1. PICK k \in Keys(L, R) : p \in PairedIn(L, R, k).pairs
    BY <1>2
  <2>2. PICK m \in Keys(L, R) : q \in PairedIn(L, R, m).pairs
    BY <1>2
  <2>3. p[1] = q[1] \/ p[2] = q[2] => k = m
    BY <1>3, <2>1, <2>2
  <2>4. k = m => (p[1] = q[1] <=> p[2] = q[2])
    BY <1>1, <2>1, <2>2 DEF Matched
  <2> QED
    BY <2>3, <2>4
<1> QED
  BY <1>4, <1>5, <1>6, <1>7 DEF OneToOne

Same == {"EQUIVALENT", "EQUIVALENT_AFTER_NORMALIZATION"}

\* What it takes for a verdict of equivalence.
LEMMA SameParts ==
    ASSUME NEW a, NEW b, NEW failed, CompareTexts(a, b, failed).status \in Same
    PROVE  LET scoped == BothScoped(a, b)
               L == Projected(a, scoped)
               R == Projected(b, scoped)
           IN /\ LeftOver(L, R) = {}
              /\ \A p \in AllPairs(L, R) : PairStatus(p[1], p[2]) \notin {"DIFFERENT", "UNKNOWN"}
              /\ ScenarioDifferences(a, b) = {} /\ ~OneScoped(a, b)
              /\ ScopeUnknown(a, scoped) = {} /\ ScopeUnknown(b, scoped) = {}
<1> DEFINE scoped == BothScoped(a, b)
           L == Projected(a, scoped)
           R == Projected(b, scoped)
           statuses == {PairStatus(p[1], p[2]) : p \in AllPairs(L, R)}
           doubtful == ScopeUnknown(a, scoped) \cup ScopeUnknown(b, scoped)
           status == IF "DIFFERENT" \in statuses \/ LeftOver(L, R) # {} \/ ScenarioDifferences(a, b) # {} THEN "DIFFERENT"
                     ELSE IF "UNKNOWN" \in statuses \/ doubtful # {} \/ OneScoped(a, b) THEN "UNKNOWN"
                     ELSE IF \E p \in AllPairs(L, R) : ProvenanceDiffers(p[1], p[2]) THEN "EQUIVALENT_AFTER_NORMALIZATION"
                     ELSE "EQUIVALENT"
<1>1. CompareTexts(a, b, failed) = Compare(a, b)
  BY DEF CompareTexts, Same
<1>2. Compare(a, b).status = status
  BY DEF Compare, AllPairs, LeftOver, PairedIn, InGroup, Keys
<1>3. /\ "DIFFERENT" \notin statuses /\ LeftOver(L, R) = {} /\ ScenarioDifferences(a, b) = {}
      /\ "UNKNOWN" \notin statuses /\ doubtful = {} /\ ~OneScoped(a, b)
  <2> HIDE DEF statuses, doubtful, L, R
  <2> QED
    BY <1>1, <1>2 DEF Same
<1> QED
  BY <1>3

\* A pair with nothing different or unknown says the same.
LEMMA PairSame ==
    ASSUME NEW c, NEW d, PairStatus(c, d) \notin {"DIFFERENT", "UNKNOWN"}
    PROVE  ~Unsupported(c) /\ ~Unsupported(d) /\ Signature(c) = Signature(d)
BY DEF PairStatus

\* Sets whose members are paired have the same number of them.
LEMMA SameCount ==
    ASSUME NEW L, NEW R, NEW pairs, OneToOne(L, R, pairs), NEW A, NEW B, A \subseteq L, B \subseteq R, IsFiniteSet(A),
           \A p \in pairs : p[1] \in A <=> p[2] \in B
    PROVE  Cardinality(A) = Cardinality(B)
<1> DEFINE f == [a \in A |-> (CHOOSE p \in pairs : p[1] = a)[2]]
<1>1. ASSUME NEW a \in A  PROVE \E p \in pairs : p[1] = a /\ p[2] = f[a] /\ f[a] \in B
  <2>1. \E p \in pairs : p[1] = a
    BY DEF OneToOne
  <2> DEFINE p == CHOOSE x \in pairs : x[1] = a
  <2>2. p \in pairs /\ p[1] = a
    BY <2>1
  <2>3. f[a] = p[2]
    OBVIOUS
  <2> HIDE DEF p
  <2> QED
    BY <2>2, <2>3
<1>2. DOMAIN f = A /\ f = [a \in A |-> f[a]]
  OBVIOUS
<1> HIDE DEF f
<1>3. f \in [A -> B]
  BY <1>1, <1>2
<1>4. \A x, y \in A : f[x] = f[y] => x = y
  BY <1>1 DEF OneToOne
<1>5. \A b \in B : \E a \in A : f[a] = b
  <2> TAKE b \in B
  <2>1. PICK p \in pairs : p[2] = b
    BY DEF OneToOne
  <2>2. p[1] \in A
    BY <2>1
  <2>3. PICK q \in pairs : q[1] = p[1] /\ q[2] = f[p[1]]
    BY <1>1, <2>2
  <2>4. q[2] = p[2]
    BY <2>1, <2>3 DEF OneToOne
  <2> QED
    BY <2>1, <2>2, <2>3, <2>4
<1>6. f \in Bijection(A, B)
  BY <1>3, <1>4, <1>5 DEF Bijection, Injection, Surjection, IsInjective
<1>7. ExistsBijection(A, B)
  BY <1>6 DEF ExistsBijection
<1> QED
  BY <1>7, FS_Bijection

-----------------------------------------------------------------------------
(* Constraints under the scenarios they apply to.                          *)

\* A side as it is compared: a set and its scenarios.
IsSide(side) == IsSet(side.cons) /\ IsScenarios(side.scenarios)

\* A constraint under the scenarios it applies to.
Under(c, side) == [c EXCEPT !.scenarios = Effective(c, side)]

\* Nothing else of it changes.
LEMMA UnderFields ==
    ASSUME NEW c, IsConstraint(c), NEW side
    PROVE  LET d == Under(c, side)
           IN /\ d.id = c.id /\ d.at = c.at /\ d.type = c.type /\ d.name = c.name /\ d.values = c.values
              /\ d.targets = c.targets /\ d.sources = c.sources /\ d.clockRefs = c.clockRefs
              /\ d.selector = c.selector /\ d.from = c.from /\ d.to = c.to /\ d.through = c.through /\ d.groups = c.groups
              /\ d.unsupported = c.unsupported /\ d.scenarios = Effective(c, side)
<1> DEFINE e == Effective(c, side)
<1>1. c = [f \in ConstraintFields |-> c[f]]
  BY DEF IsConstraint
<1> HIDE DEF e
<1> QED
  BY <1>1 DEF Under, ConstraintFields, e

\* Signatures that differ in their scenarios are the same without them.
LEMMA WithoutScenarios ==
    ASSUME NEW type, NEW s1, NEW s2, NEW name, NEW given, NEW fields, NEW times, NEW lists, NEW selector,
           NEW targets, NEW sources1, NEW clocks, NEW groups, NEW raw
    PROVE  LET whole(s) == [type |-> type, scenarios |-> s, name |-> name, given |-> given, fields |-> fields,
                            times |-> times, lists |-> lists, selector |-> selector, targets |-> targets,
                            sources |-> sources1, clocks |-> clocks, groups |-> groups, raw |-> raw]
           IN [whole(s1) EXCEPT !.scenarios = {}] = [whole(s2) EXCEPT !.scenarios = {}]
OBVIOUS

\* The scenarios apart, it means what it meant.
LEMMA UnderMeans ==
    ASSUME NEW c, IsConstraint(c), NEW side
    PROVE  /\ [Signature(Under(c, side)) EXCEPT !.scenarios = {}] = [Signature(c) EXCEPT !.scenarios = {}]
           /\ Signature(Under(c, side)).scenarios = Effective(c, side)
           /\ Unsupported(Under(c, side)) <=> Unsupported(c)
<1> DEFINE d == Under(c, side)
<1>1. /\ d.type = c.type /\ d.name = c.name /\ d.values = c.values
      /\ d.targets = c.targets /\ d.sources = c.sources /\ d.clockRefs = c.clockRefs
      /\ d.selector = c.selector /\ d.from = c.from /\ d.to = c.to /\ d.through = c.through /\ d.groups = c.groups
      /\ d.unsupported = c.unsupported /\ d.scenarios = Effective(c, side)
  BY UnderFields
<1> HIDE DEF d
<1>2. \A k, default : Value(d, k, default) = Value(c, k, default)
  BY <1>1 DEF Value, Has
<1>3. /\ Partition(d) = Partition(c) /\ SelectorKey(d) = SelectorKey(c) /\ ClockRefSet(d) = ClockRefSet(c)
      /\ \A k : Given(d, k) = Given(c, k)
  BY <1>1 DEF Partition, SelectorKey, ClockRefSet, Given
<1>4. [Signature(d) EXCEPT !.scenarios = {}] = [Signature(c) EXCEPT !.scenarios = {}]
  <2> DEFINE defaults == FieldDefaults(c.type)
             given(x) == [k \in IdentityFields(c.type) \cup OptionalFields(c.type) |-> Given(x, k)]
             fields(x) == [k \in DOMAIN defaults |-> Value(x, k, defaults[k])]
             times(x) == [k \in TimeFields(c.type) |-> Value(x, k, Garbled)]
             lists(x) == [k \in SequenceFields(c.type) |-> Value(x, k, <<>>)]
             name(x) == IF c.type \in ClockTypes THEN x.name ELSE ""
             selector(x) == IF c.type \in ExceptionTypes THEN SelectorKey(x) ELSE <<>>
             targets(x) == IF c.type \in ExceptionTypes THEN {} ELSE x.targets
             from(x) == IF c.type = "create_clock" THEN x.sources ELSE {}
             clocks(x) == IF c.type \in ExceptionTypes THEN {} ELSE ClockRefSet(x)
             groups(x) == IF c.type = "set_clock_groups" THEN Partition(x) ELSE <<>>
             raw(x) == IF c.type \in Documented THEN {} ELSE {x.values}
             whole(x) == [type |-> c.type, scenarios |-> x.scenarios, name |-> name(x), given |-> given(x),
                          fields |-> fields(x), times |-> times(x), lists |-> lists(x),
                          selector |-> selector(x), targets |-> targets(x), sources |-> from(x),
                          clocks |-> clocks(x), groups |-> groups(x), raw |-> raw(x)]
  <2>1. fields(d) = fields(c) /\ times(d) = times(c) /\ lists(d) = lists(c)
    BY <1>2
  <2>2. name(d) = name(c) /\ selector(d) = selector(c) /\ targets(d) = targets(c) /\ from(d) = from(c)
    BY <1>1, <1>3
  <2>3. clocks(d) = clocks(c) /\ groups(d) = groups(c) /\ given(d) = given(c) /\ raw(d) = raw(c)
    BY <1>1, <1>3
  <2>4. Signature(d) = whole(d) /\ Signature(c) = whole(c)
    BY <1>1 DEF Signature
  <2> HIDE DEF given, fields, times, lists, name, selector, targets, from, clocks, groups, raw
  <2>5. [whole(d) EXCEPT !.scenarios = {}] = [whole(c) EXCEPT !.scenarios = {}]
    BY <2>1, <2>2, <2>3, WithoutScenarios
  <2> QED
    BY <2>4, <2>5
<1>5. Signature(d).scenarios = d.scenarios
  BY DEF Signature
<1>6. Unsupported(d) <=> Unsupported(c)
  BY <1>1 DEF Unsupported
<1> QED
  BY <1>1, <1>4, <1>5, <1>6 DEF d

\* What it says in a scenario; all it says, where there is none.
Plain(c, s) == IF s = NoScenario THEN Signature(c) ELSE [Signature(c) EXCEPT !.scenarios = {}]

\* What means the same under its scenarios applies to the same and says the
\* same in each.
LEMMA SameUnder ==
    ASSUME NEW c, IsConstraint(c), NEW a, NEW d, IsConstraint(d), NEW b,
           Signature(Under(c, a)) = Signature(Under(d, b))
    PROVE  /\ Effective(c, a) = Effective(d, b)
           /\ \A s : s # NoScenario => Plain(c, s) = Plain(d, s)
<1>1. [Signature(Under(c, a)) EXCEPT !.scenarios = {}] = [Signature(c) EXCEPT !.scenarios = {}]
  BY UnderMeans
<1>2. [Signature(Under(d, b)) EXCEPT !.scenarios = {}] = [Signature(d) EXCEPT !.scenarios = {}]
  BY UnderMeans
<1>3. [Signature(c) EXCEPT !.scenarios = {}] = [Signature(d) EXCEPT !.scenarios = {}]
  BY <1>1, <1>2
<1>4. Signature(Under(c, a)).scenarios = Effective(c, a)
  BY UnderMeans
<1>5. Signature(Under(d, b)).scenarios = Effective(d, b)
  BY UnderMeans
<1> QED
  BY <1>3, <1>4, <1>5 DEF Plain

\* Constraints with positions of their own.
Positioned(S) == Placed(S) /\ \A c, d \in S : c.at = d.at => c = d

\* What a side contributes has positions of its own.
LEMMA SidePlaced ==
    ASSUME NEW side, IsSide(side), NEW scoped
    PROVE  Positioned(Projected(side, scoped))
<1> DEFINE enabled == {c \in side.cons : ~c.disabled}
           on == {x \in enabled : ~UnknownScope(x, side) /\ Effective(x, side) # {}}
<1>1. IsFiniteSet(side.cons) /\ \A c \in side.cons : IsConstraint(c) /\ c.at \in Int
  BY DEF IsSide, IsSet, IsConstraint
<1>2. \A c, d \in side.cons : c.at = d.at => c = d
  BY DEF IsSide, IsSet, Apart
<1>3. CASE ~scoped
  <2>1. Projected(side, scoped) = enabled
    BY <1>3 DEF Projected
  <2>2. IsFiniteSet(enabled)
    BY <1>1, FS_Subset
  <2> QED
    BY <1>1, <1>2, <2>1, <2>2 DEF Positioned, Placed
<1>4. CASE scoped
  <2>1. Projected(side, scoped) = {Under(c, side) : c \in on}
    BY <1>4 DEF Projected, Under
  <2>2. on \subseteq side.cons /\ IsFiniteSet(on)
    BY <1>1, FS_Subset
  <2> HIDE DEF on
  <2> DEFINE f == [c \in on |-> Under(c, side)]
             T == {Under(c, side) : c \in on}
  <2>3. IsFiniteSet(T)
    <3>1. \A t \in T : \E c \in on : t = f[c]
      OBVIOUS
    <3>2. f = [c \in on |-> f[c]]
      OBVIOUS
    <3> HIDE DEF T, f
    <3> QED
      BY <2>2, <3>1, <3>2, FiniteRange
  <2>4. \A c \in on : Under(c, side).at = c.at
    BY <1>1, <2>2, UnderFields
  <2>5. \A t \in T : t.at \in Int
    BY <1>1, <2>2, <2>4
  <2>6. \A t, u \in T : t.at = u.at => t = u
    BY <1>2, <2>2, <2>4
  <2> QED
    BY <2>1, <2>3, <2>5, <2>6 DEF Positioned, Placed
<1> QED
  BY <1>3, <1>4

\* Meaning, taken apart.
Holding(side, s) == {c \in Enabled(side.cons) : s = NoScenario \/ c.scenarios = {} \/ s \in c.scenarios}

\* Sides whose constraints in a scenario are paired by what they say mean the
\* same there.
LEMMA MeaningFromPairs ==
    ASSUME NEW a, NEW b, NEW s, NEW pairs, IsFiniteSet(a.cons), OneToOne(Holding(a, s), Holding(b, s), pairs),
           \A p \in pairs : Plain(p[1], s) = Plain(p[2], s)
    PROVE  Meaning(a, s) = Meaning(b, s)
<1> DEFINE L == Holding(a, s)
           R == Holding(b, s)
           values(S) == {Plain(c, s) : c \in S}
           class(S, x) == {c \in S : Plain(c, s) = x}
<1>1. Meaning(a, s) = [x \in values(L) |-> Cardinality(class(L, x))]
  BY DEF Meaning, Holding, Plain
<1>2. Meaning(b, s) = [x \in values(R) |-> Cardinality(class(R, x))]
  BY DEF Meaning, Holding, Plain
<1>3. IsFiniteSet(L)
  BY FS_Subset DEF Holding, Enabled
<1> HIDE DEF L, R
<1>4. OneToOne(L, R, pairs)
  BY DEF L, R
<1>5. values(L) = values(R)
  BY <1>4 DEF OneToOne
<1>6. ASSUME NEW x  PROVE Cardinality(class(L, x)) = Cardinality(class(R, x))
  <2>1. class(L, x) \subseteq L /\ class(R, x) \subseteq R
    OBVIOUS
  <2>2. IsFiniteSet(class(L, x))
    BY <1>3, <2>1, FS_Subset
  <2>3. \A p \in pairs : p[1] \in class(L, x) <=> p[2] \in class(R, x)
    BY <1>4 DEF OneToOne
  <2> HIDE DEF class
  <2> QED
    BY <1>4, <2>1, <2>2, <2>3, SameCount
<1> HIDE DEF values, class
<1> QED
  BY <1>1, <1>2, <1>5, <1>6

\* Pairs of projections are pairs of constraints.
Projecting(a, b, s) ==
    {p \in Holding(a, s) \X Holding(b, s) :
        <<Under(p[1], a), Under(p[2], b)>> \in AllPairs(Projected(a, TRUE), Projected(b, TRUE))}

\* A constraint holds in an active scenario when it is compared under it.
LEMMA HoldsUnder ==
    ASSUME NEW side, IsSide(side), ScopeUnknown(side, TRUE) = {}, NEW s \in ActiveScenarios(side), NEW c \in side.cons
    PROVE  /\ c \in Holding(side, s) <=> ~c.disabled /\ s \in Effective(c, side)
           /\ c \in Holding(side, s) => Under(c, side) \in Projected(side, TRUE)
<1>1. s # NoScenario
  BY DEF IsSide, IsScenarios, ActiveScenarios
<1>2. c \in Holding(side, s) <=> ~c.disabled /\ s \in Effective(c, side)
  BY <1>1 DEF Holding, Enabled, Effective
<1>3. ~c.disabled => ~UnknownScope(c, side)
  BY DEF ScopeUnknown
<1>4. ASSUME ~c.disabled, s \in Effective(c, side)  PROVE Under(c, side) \in Projected(side, TRUE)
  <2>1. Effective(c, side) # {}
    BY <1>4
  <2> QED
    BY <1>3, <1>4, <2>1 DEF Projected, Under
<1> QED
  BY <1>2, <1>4

\* Whatever a side contributes is a constraint of it, under its scenarios.
LEMMA ProjectionOf ==
    ASSUME NEW side, NEW d \in Projected(side, TRUE)
    PROVE  \E c \in side.cons : ~c.disabled /\ d = Under(c, side) /\ Effective(c, side) # {}
BY DEF Projected, Under

\* With a matrix: when nothing is left over and all pairs say the same, both
\* sides mean the same in each active scenario.
LEMMA ScopedMeaning ==
    ASSUME NEW a, NEW b, IsSide(a), IsSide(b), ScopeUnknown(a, TRUE) = {}, ScopeUnknown(b, TRUE) = {},
           LeftOver(Projected(a, TRUE), Projected(b, TRUE)) = {},
           \A p \in AllPairs(Projected(a, TRUE), Projected(b, TRUE)) : Signature(p[1]) = Signature(p[2]),
           NEW s \in ActiveScenarios(a), s \in ActiveScenarios(b)
    PROVE  Meaning(a, s) = Meaning(b, s)
<1> DEFINE L == Projected(a, TRUE)
           R == Projected(b, TRUE)
           all == AllPairs(L, R)
           pairs == Projecting(a, b, s)
<1>1. OneToOne(L, R, all)
  BY SidePlaced, NothingAlone DEF Positioned
<1>2. \A p \in all : Signature(p[1]) = Signature(p[2])
  OBVIOUS
<1>3. /\ \A c \in a.cons : IsConstraint(c)
      /\ \A c \in b.cons : IsConstraint(c)
      /\ \A c, d \in a.cons : c.id = d.id => c = d
      /\ \A c, d \in b.cons : c.id = d.id => c = d
      /\ IsFiniteSet(a.cons)
  BY DEF IsSide, IsSet, Apart
<1>4. Holding(a, s) \subseteq a.cons /\ Holding(b, s) \subseteq b.cons
  BY DEF Holding, Enabled
<1>5. \A p : p \in pairs <=> p \in Holding(a, s) \X Holding(b, s) /\ <<Under(p[1], a), Under(p[2], b)>> \in all
  BY DEF Projecting
<1>6. s # NoScenario
  BY DEF IsSide, IsScenarios, ActiveScenarios
<1> HIDE DEF L, R, all, pairs
<1>7. ASSUME NEW p \in pairs
       PROVE  p[1] \in a.cons /\ p[2] \in b.cons /\ <<Under(p[1], a), Under(p[2], b)>> \in all
  <2>1. p \in Holding(a, s) \X Holding(b, s) /\ <<Under(p[1], a), Under(p[2], b)>> \in all
    BY <1>5
  <2>2. p[1] \in Holding(a, s) /\ p[2] \in Holding(b, s)
    BY <2>1
  <2> QED
    BY <1>4, <2>1, <2>2
<1>8. ASSUME NEW p \in pairs  PROVE Plain(p[1], s) = Plain(p[2], s)
  <2> DEFINE x == <<Under(p[1], a), Under(p[2], b)>>
  <2>1. Signature(Under(p[1], a)) = Signature(Under(p[2], b))
    <3>1. x \in all /\ x[1] = Under(p[1], a) /\ x[2] = Under(p[2], b)
      BY <1>7
    <3> HIDE DEF x
    <3>2. Signature(x[1]) = Signature(x[2])
      BY <1>2, <3>1
    <3> QED
      BY <3>1, <3>2
  <2>2. IsConstraint(p[1]) /\ IsConstraint(p[2])
    BY <1>3, <1>7
  <2> QED
    BY <1>6, <2>1, <2>2, SameUnder
<1>9. ASSUME NEW c \in Holding(a, s)  PROVE \E p \in pairs : p[1] = c
  <2>1. c \in a.cons /\ s \in Effective(c, a) /\ Under(c, a) \in L
    BY <1>4, HoldsUnder DEF L
  <2>2. PICK p \in all : p[1] = Under(c, a)
    BY <1>1, <2>1 DEF OneToOne
  <2>3. p \in L \X R
    BY <1>1 DEF OneToOne
  <2>4. PICK d \in b.cons : ~d.disabled /\ p[2] = Under(d, b)
    BY <2>3, ProjectionOf DEF R
  <2>5. Signature(Under(c, a)) = Signature(Under(d, b))
    BY <1>2, <2>2, <2>4
  <2>6. Effective(c, a) = Effective(d, b)
    <3>1. IsConstraint(c) /\ IsConstraint(d)
      BY <1>3, <2>1, <2>4
    <3> QED
      BY <2>5, <3>1, SameUnder
  <2>7. d \in Holding(b, s)
    BY <2>1, <2>4, <2>6, HoldsUnder
  <2>8. <<Under(c, a), Under(d, b)>> \in all
    BY <2>2, <2>3, <2>4
  <2>9. <<c, d>>[1] = c /\ <<c, d>>[2] = d /\ <<c, d>> \in Holding(a, s) \X Holding(b, s)
    BY <2>7
  <2>10. <<c, d>> \in pairs
    BY <1>5, <2>8, <2>9
  <2> QED
    BY <2>9, <2>10
<1>10. ASSUME NEW d \in Holding(b, s)  PROVE \E p \in pairs : p[2] = d
  <2>1. d \in b.cons /\ s \in Effective(d, b) /\ Under(d, b) \in R
    BY <1>4, HoldsUnder DEF R
  <2>2. PICK p \in all : p[2] = Under(d, b)
    BY <1>1, <2>1 DEF OneToOne
  <2>3. p \in L \X R
    BY <1>1 DEF OneToOne
  <2>4. PICK c \in a.cons : ~c.disabled /\ p[1] = Under(c, a)
    BY <2>3, ProjectionOf DEF L
  <2>5. Signature(Under(c, a)) = Signature(Under(d, b))
    BY <1>2, <2>2, <2>4
  <2>6. Effective(c, a) = Effective(d, b)
    <3>1. IsConstraint(c) /\ IsConstraint(d)
      BY <1>3, <2>1, <2>4
    <3> QED
      BY <2>5, <3>1, SameUnder
  <2>7. c \in Holding(a, s)
    BY <2>1, <2>4, <2>6, HoldsUnder
  <2>8. <<Under(c, a), Under(d, b)>> \in all
    BY <2>2, <2>3, <2>4
  <2>9. <<c, d>>[1] = c /\ <<c, d>>[2] = d /\ <<c, d>> \in Holding(a, s) \X Holding(b, s)
    BY <2>7
  <2>10. <<c, d>> \in pairs
    BY <1>5, <2>8, <2>9
  <2> QED
    BY <2>9, <2>10
<1>11. ASSUME NEW p \in pairs, NEW q \in pairs  PROVE p[1] = q[1] <=> p[2] = q[2]
  <2> DEFINE x == <<Under(p[1], a), Under(p[2], b)>>
             y == <<Under(q[1], a), Under(q[2], b)>>
  <2>1. x \in all /\ y \in all
    BY <1>7
  <2>2. x[1] = y[1] <=> x[2] = y[2]
    BY <1>1, <2>1 DEF OneToOne
  <2>3. Under(p[1], a) = Under(q[1], a) <=> Under(p[2], b) = Under(q[2], b)
    BY <2>2
  <2>4. p[1] \in a.cons /\ q[1] \in a.cons /\ p[2] \in b.cons /\ q[2] \in b.cons
    BY <1>7
  <2>5. /\ Under(p[1], a).id = p[1].id /\ Under(q[1], a).id = q[1].id
        /\ Under(p[2], b).id = p[2].id /\ Under(q[2], b).id = q[2].id
    BY <1>3, <2>4, UnderFields
  <2> HIDE DEF x, y
  <2>6. p[1] = q[1] <=> Under(p[1], a) = Under(q[1], a)
    BY <1>3, <2>4, <2>5
  <2>7. p[2] = q[2] <=> Under(p[2], b) = Under(q[2], b)
    BY <1>3, <2>4, <2>5
  <2> QED
    BY <2>3, <2>6, <2>7
<1>12. OneToOne(Holding(a, s), Holding(b, s), pairs)
  BY <1>5, <1>9, <1>10, <1>11 DEF OneToOne
<1> QED
  BY <1>3, <1>8, <1>12, MeaningFromPairs

\* And without one.
LEMMA UnscopedMeaning ==
    ASSUME NEW a, NEW b, IsSide(a), IsSide(b),
           LeftOver(Enabled(a.cons), Enabled(b.cons)) = {},
           \A p \in AllPairs(Enabled(a.cons), Enabled(b.cons)) : Signature(p[1]) = Signature(p[2])
    PROVE  Meaning(a, NoScenario) = Meaning(b, NoScenario)
<1> DEFINE pairs == AllPairs(Enabled(a.cons), Enabled(b.cons))
<1>1. Projected(a, FALSE) = Enabled(a.cons) /\ Projected(b, FALSE) = Enabled(b.cons)
  BY DEF Projected, Enabled
<1>2. Placed(Enabled(a.cons)) /\ Placed(Enabled(b.cons))
  BY <1>1, SidePlaced DEF Positioned
<1>3. OneToOne(Enabled(a.cons), Enabled(b.cons), pairs)
  BY <1>2, NothingAlone
<1>4. Holding(a, NoScenario) = Enabled(a.cons) /\ Holding(b, NoScenario) = Enabled(b.cons)
  BY DEF Holding, Enabled
<1>5. \A p \in pairs : Plain(p[1], NoScenario) = Plain(p[2], NoScenario)
  BY DEF Plain
<1>6. IsFiniteSet(a.cons)
  BY DEF IsSide, IsSet
<1> HIDE DEF pairs
<1> QED
  BY <1>3, <1>4, <1>5, <1>6, MeaningFromPairs

\* Something about a side is not known: CompareExact's doubtful.
Doubtful(side) ==
    \E c \in Enabled(side.cons) :
        \/ /\ Unsupported(c)
           /\ \/ ActiveScenarios(side) = {}
              \/ c.scenarios = {}
              \/ c.scenarios \cap ActiveScenarios(side) # {}
        \/ ActiveScenarios(side) # {} /\ ~(c.scenarios \subseteq DOMAIN side.scenarios)

\* A side is known when each constraint it contributes is and each scenario
\* named is.
LEMMA KnownSide ==
    ASSUME NEW side, IsSide(side), NEW scoped \in BOOLEAN, scoped <=> ActiveScenarios(side) # {}
    PROVE  ~Doubtful(side) <=> /\ ScopeUnknown(side, scoped) = {}
                               /\ \A c \in Projected(side, scoped) : ~Unsupported(c)
<1> DEFINE on == ActiveScenarios(side)
<1>1. \A c \in side.cons : IsConstraint(c)
  BY DEF IsSide, IsSet
<1>2. CASE ~scoped
  <2>1. Projected(side, scoped) = Enabled(side.cons) /\ ScopeUnknown(side, scoped) = {} /\ on = {}
    BY <1>2 DEF Projected, Enabled, ScopeUnknown
  <2> QED
    BY <2>1 DEF Doubtful
<1>3. CASE scoped
  <2>1. on # {}
    BY <1>3
  <2>2. ScopeUnknown(side, scoped) = {} <=> \A c \in Enabled(side.cons) : c.scenarios \subseteq DOMAIN side.scenarios
    BY <1>3 DEF ScopeUnknown, Enabled, UnknownScope
  <2>3. ASSUME NEW c \in Enabled(side.cons)
        PROVE  Effective(c, side) # {} <=> c.scenarios = {} \/ c.scenarios \cap on # {}
    BY <2>1 DEF Effective
  <2>4. ASSUME ScopeUnknown(side, scoped) = {}, NEW d
        PROVE  d \in Projected(side, scoped)
                  <=> \E c \in Enabled(side.cons) : d = Under(c, side) /\ Effective(c, side) # {}
    BY <1>3, <2>2, <2>4 DEF Projected, Under, Enabled, UnknownScope
  <2>5. \A c \in Enabled(side.cons) : Unsupported(Under(c, side)) <=> Unsupported(c)
    BY <1>1, UnderMeans DEF Enabled
  <2>6. Doubtful(side) <=> \/ ScopeUnknown(side, scoped) # {}
                           \/ \E c \in Enabled(side.cons) : Unsupported(c) /\ Effective(c, side) # {}
    BY <2>1, <2>2, <2>3 DEF Doubtful
  <2>7. ScopeUnknown(side, scoped) = {} =>
            ((\E c \in Enabled(side.cons) : Unsupported(c) /\ Effective(c, side) # {})
                <=> \E d \in Projected(side, scoped) : Unsupported(d))
    BY <2>4, <2>5
  <2> QED
    BY <2>6, <2>7
<1> QED
  BY <1>2, <1>3

-----------------------------------------------------------------------------
(* A set is paired with a copy of itself constraint by constraint.         *)

\* Left and right hold the same m constraints of G, and whatever is paired is
\* paired with itself.
Mirrored(G, s, m) ==
    /\ s.left = s.right /\ s.left \subseteq G /\ Cardinality(s.left) = m
    /\ \A p \in s.pairs : p[1] = p[2] /\ p[1] \in G

\* The first on the left takes itself, its first partner on the right.
LEMMA MirrorStep ==
    ASSUME NEW G, Positioned(G), NEW s, NEW m \in Nat, Mirrored(G, s, m + 1)
    PROVE  Mirrored(G, NextPair("signature", s), m)
<1> DEFINE ready == {x \in s.left : Partners("signature", x, s.right) # {}}
           a == First(ready)
           hits == Partners("signature", a, s.right)
           b == First(hits)
<1>1. IsFiniteSet(s.left) /\ s.left \subseteq G /\ s.right = s.left /\ Cardinality(s.left) = m + 1
  BY FS_Subset DEF Mirrored, Positioned, Placed
<1>2. \A x \in s.left : x \in Partners("signature", x, s.right)
  BY <1>1 DEF Partners, SameSignature
<1>3. ready = s.left
  BY <1>2
<1>4. Placed(s.left) /\ s.left # {}
  BY <1>1, FS_EmptySet DEF Positioned, Placed
<1> HIDE DEF ready
<1>5. a \in s.left /\ \A x \in s.left : a.at <= x.at
  BY <1>3, <1>4, FirstIsFirst
<1>6. NextPair("signature", s) = [left |-> s.left \ {a}, right |-> s.right \ {b}, pairs |-> s.pairs \cup {<<a, b>>}]
  <2>1. ready # {}
    BY <1>3, <1>4
  <2> QED
    BY <2>1, NextPairUp DEF ready
<1> HIDE DEF a
<1>7. hits \subseteq s.left /\ a \in hits
  BY <1>1, <1>2, <1>5, PartnersWithin
<1> HIDE DEF hits
<1>8. Placed(hits)
  BY <1>4, <1>7, FS_Subset DEF Placed
<1>9. b \in hits /\ b.at <= a.at
  BY <1>7, <1>8, FirstIsFirst
<1>10. b = a
  <2>1. a.at <= b.at /\ a \in G /\ b \in G
    BY <1>1, <1>5, <1>7, <1>9
  <2>2. a.at \in Int /\ b.at \in Int
    BY <2>1 DEF Positioned, Placed
  <2>3. a.at = b.at
    BY <1>9, <2>1, <2>2
  <2> QED
    BY <2>1, <2>3 DEF Positioned
<1> HIDE DEF b
<1>11. Cardinality(s.left \ {a}) = m
  <2>1. Cardinality(s.left \ {a}) = Cardinality(s.left) - 1
    BY <1>1, <1>5, FS_RemoveElement
  <2> QED
    BY <1>1, <2>1
<1> DEFINE t == NextPair("signature", s)
<1>12. t.left = s.left \ {a} /\ t.right = s.left \ {a} /\ t.pairs = s.pairs \cup {<<a, a>>}
  <2>1. t = [left |-> s.left \ {a}, right |-> s.left \ {a}, pairs |-> s.pairs \cup {<<a, a>>}]
    BY <1>1, <1>6, <1>10
  <2> HIDE DEF t
  <2> QED
    BY <2>1
<1> HIDE DEF t
<1>13. a \in G
  BY <1>1, <1>5
<1>14. \A p \in t.pairs : p[1] = p[2] /\ p[1] \in G
  <2> TAKE p \in t.pairs
  <2>1. CASE p \in s.pairs
    BY <2>1 DEF Mirrored
  <2>2. CASE p = <<a, a>>
    BY <1>13, <2>2
  <2> QED
    BY <1>12, <2>1, <2>2
<1>15. Mirrored(G, t, m)
  BY <1>1, <1>11, <1>12, <1>14 DEF Mirrored
<1> QED
  BY <1>15 DEF t

\* So pairing a group with itself leaves nothing over.
LEMMA MirrorPairing ==
    ASSUME NEW G, Positioned(G)
    PROVE  LET found == PairMultiset(G, G)
           IN found.left = {} /\ found.right = {} /\ \A p \in found.pairs : p[1] = p[2] /\ p[1] \in G
<1> DEFINE start == [left |-> G, right |-> G, pairs |-> {}]
           n == Cardinality(G)
           exact == Exhausted("signature", start)
           named == Exhausted("identity", exact)
<1>1. IsFiniteSet(G) /\ n \in Nat
  BY FS_CardinalityType DEF Positioned, Placed
<1>2. start.left = G /\ Mirrored(G, start, n)
  BY DEF Mirrored
<1>3. PairMultiset(G, G) =
        IF Cardinality(named.left) = 1 /\ Cardinality(named.right) = 1
        THEN [left |-> {}, right |-> {}, pairs |-> named.pairs \cup (named.left \X named.right)]
        ELSE named
  BY DEF PairMultiset, Exhausted
<1> HIDE DEF start
<1>4. PICK run : PairRun("signature", start, n, run) /\ exact = run[n]
  BY <1>1, <1>2, ExhaustRuns
<1> HIDE DEF exact, n
<1>5. Mirrored(G, exact, 0)
  <2> DEFINE P == {k \in Nat : k <= n => Mirrored(G, run[k], n - k)}
  <2>1. 0 \in P
    <3>1. run[0] = start
      BY <1>1, <1>4 DEF PairRun
    <3> QED
      BY <1>1, <1>2, <3>1
  <2>2. ASSUME NEW k \in Nat, k \in P  PROVE k + 1 \in P
    <3> SUFFICES ASSUME k + 1 <= n  PROVE Mirrored(G, run[k + 1], n - (k + 1))
      OBVIOUS
    <3>1. k + 1 \in 0..n /\ k + 1 # 0 /\ (k + 1) - 1 = k /\ k <= n
      BY <1>1
    <3>2. run[k + 1] = NextPair("signature", run[k])
      BY <1>4, <3>1 DEF PairRun
    <3>3. Mirrored(G, run[k], n - k)
      BY <2>2, <3>1
    <3>4. n - (k + 1) \in Nat /\ n - k = (n - (k + 1)) + 1
      BY <1>1, <3>1
    <3> QED
      BY <3>2, <3>3, <3>4, MirrorStep
  <2> HIDE DEF P
  <2>3. n \in P
    BY <1>1, <2>1, <2>2, SetInduction
  <2>4. Mirrored(G, run[n], n - n)
    BY <1>1, <2>3 DEF P
  <2> QED
    BY <1>1, <1>4, <2>4
<1>6. exact.left = {} /\ exact.right = {}
  <2>1. IsFiniteSet(exact.left) /\ Cardinality(exact.left) = 0 /\ exact.right = exact.left
    BY <1>1, <1>5, FS_Subset DEF Mirrored
  <2> QED
    BY <2>1, FS_EmptySet
<1>7. named = exact
  <2>1. IsFiniteSet(exact.left) /\ Cardinality(exact.left) = 0
    BY <1>6, FS_EmptySet
  <2>2. PICK r : PairRun("identity", exact, Cardinality(exact.left), r) /\ named = r[Cardinality(exact.left)]
    BY <2>1, ExhaustRuns
  <2>3. PairRun("identity", exact, 0, r) /\ named = r[0]
    BY <2>1, <2>2
  <2> HIDE DEF named
  <2> QED
    BY <2>3 DEF PairRun
<1> HIDE DEF named
<1>8. PairMultiset(G, G) = exact
  <2>1. Cardinality(named.left) # 1
    BY <1>6, <1>7, FS_EmptySet
  <2> QED
    BY <1>3, <1>7, <2>1
<1> QED
  BY <1>5, <1>6, <1>8 DEF Mirrored

\* A known side is equivalent to itself.
LEMMA SelfEquivalent ==
    ASSUME NEW a, IsSide(a), ~Doubtful(a)
    PROVE  Compare(a, a).status = "EQUIVALENT"
<1> DEFINE scoped == BothScoped(a, a)
           L == Projected(a, scoped)
           statuses == {PairStatus(p[1], p[2]) : p \in AllPairs(L, L)}
           doubtful == ScopeUnknown(a, scoped) \cup ScopeUnknown(a, scoped)
           status == IF "DIFFERENT" \in statuses \/ LeftOver(L, L) # {} \/ ScenarioDifferences(a, a) # {} THEN "DIFFERENT"
                     ELSE IF "UNKNOWN" \in statuses \/ doubtful # {} \/ OneScoped(a, a) THEN "UNKNOWN"
                     ELSE IF \E p \in AllPairs(L, L) : ProvenanceDiffers(p[1], p[2]) THEN "EQUIVALENT_AFTER_NORMALIZATION"
                     ELSE "EQUIVALENT"
<1>1. Compare(a, a).status = status
  BY DEF Compare, AllPairs, LeftOver, PairedIn, InGroup, Keys
<1>2. ~OneScoped(a, a) /\ ScenarioDifferences(a, a) = {}
  BY DEF OneScoped, ScenarioDifferences
<1>3. scoped \in BOOLEAN /\ (scoped <=> ActiveScenarios(a) # {})
  BY DEF BothScoped
<1> HIDE DEF scoped
<1>4. ScopeUnknown(a, scoped) = {} /\ \A c \in L : ~Unsupported(c)
  BY <1>3, KnownSide
<1>5. Positioned(L)
  BY SidePlaced
<1> HIDE DEF L
<1>6. ASSUME NEW k
      PROVE  /\ PairedIn(L, L, k).left = {} /\ PairedIn(L, L, k).right = {}
             /\ \A p \in PairedIn(L, L, k).pairs : p[1] = p[2] /\ p[1] \in L
  <2>1. InGroup(L, k) \subseteq L
    BY DEF InGroup
  <2>2. Positioned(InGroup(L, k))
    BY <1>5, <2>1, FS_Subset DEF Positioned, Placed
  <2> QED
    BY <2>1, <2>2, MirrorPairing DEF PairedIn
<1>7. LeftOver(L, L) = {}
  BY <1>6 DEF LeftOver
<1>8. \A p \in AllPairs(L, L) : p[1] = p[2] /\ p[1] \in L
  BY <1>6 DEF AllPairs
<1>9. \A p \in AllPairs(L, L) : PairStatus(p[1], p[2]) = "EQUIVALENT" /\ ~ProvenanceDiffers(p[1], p[2])
  BY <1>4, <1>8 DEF PairStatus, ProvenanceDiffers
<1>10. "DIFFERENT" \notin statuses /\ "UNKNOWN" \notin statuses
  BY <1>9
<1>11. doubtful = {}
  BY <1>4
<1> HIDE DEF statuses, doubtful
<1> QED
  BY <1>1, <1>2, <1>7, <1>9, <1>10, <1>11

\* What a comparison says that calls two sides equivalent.
LEMMA SameSides ==
    ASSUME NEW a, NEW b, IsSide(a), IsSide(b), NEW failed, CompareTexts(a, b, failed).status \in Same
    PROVE  /\ ActiveScenarios(a) = ActiveScenarios(b)
           /\ \A s \in ActiveScenarios(a) : a.scenarios[s] = b.scenarios[s]
           /\ \A s \in ActiveScenarios(a) \cup (IF ActiveScenarios(a) = {} THEN {NoScenario} ELSE {}) :
                    Meaning(a, s) = Meaning(b, s)
           /\ ~Doubtful(a) /\ ~Doubtful(b)
<1> DEFINE scoped == BothScoped(a, b)
           L == Projected(a, scoped)
           R == Projected(b, scoped)
<1>1. /\ LeftOver(L, R) = {}
      /\ \A p \in AllPairs(L, R) : PairStatus(p[1], p[2]) \notin {"DIFFERENT", "UNKNOWN"}
      /\ ScenarioDifferences(a, b) = {} /\ ~OneScoped(a, b)
      /\ ScopeUnknown(a, scoped) = {} /\ ScopeUnknown(b, scoped) = {}
  BY SameParts
<1>2. scoped \in BOOLEAN /\ (scoped <=> ActiveScenarios(a) # {}) /\ (scoped <=> ActiveScenarios(b) # {})
  BY <1>1 DEF BothScoped, OneScoped
<1>3. \A p \in AllPairs(L, R) : ~Unsupported(p[1]) /\ ~Unsupported(p[2]) /\ Signature(p[1]) = Signature(p[2])
  BY <1>1, PairSame
<1>4. OneToOne(L, R, AllPairs(L, R))
  BY <1>1, SidePlaced, NothingAlone DEF Positioned
<1>5. (\A c \in L : ~Unsupported(c)) /\ (\A c \in R : ~Unsupported(c))
  BY <1>3, <1>4 DEF OneToOne
<1>6. ~Doubtful(a) /\ ~Doubtful(b)
  <2>1. ~Doubtful(a)
    BY <1>1, <1>2, <1>5, KnownSide
  <2>2. ~Doubtful(b)
    BY <1>1, <1>2, <1>5, KnownSide
  <2> QED
    BY <2>1, <2>2
<1>7. CASE scoped
  <2>1. \A s \in ActiveScenarios(a) \cup ActiveScenarios(b) :
            /\ s \in ActiveScenarios(a) \cap ActiveScenarios(b)
            /\ a.scenarios[s].key = b.scenarios[s].key
    BY <1>1, <1>7 DEF ScenarioDifferences
  <2>2. ActiveScenarios(a) = ActiveScenarios(b)
    BY <2>1
  <2>3. ASSUME NEW s \in ActiveScenarios(a)  PROVE a.scenarios[s] = b.scenarios[s]
    <3>1. a.scenarios[s].active /\ b.scenarios[s].active /\ s \in DOMAIN a.scenarios /\ s \in DOMAIN b.scenarios
      BY <2>2 DEF ActiveScenarios
    <3>2. /\ a.scenarios[s] = [active |-> a.scenarios[s].active, key |-> a.scenarios[s].key]
          /\ a.scenarios[s].active \in BOOLEAN
      BY <3>1 DEF IsSide, IsScenarios
    <3>3. /\ b.scenarios[s] = [active |-> b.scenarios[s].active, key |-> b.scenarios[s].key]
          /\ b.scenarios[s].active \in BOOLEAN
      BY <3>1 DEF IsSide, IsScenarios
    <3>4. a.scenarios[s].active = b.scenarios[s].active /\ a.scenarios[s].key = b.scenarios[s].key
      BY <2>1, <3>1, <3>2, <3>3
    <3> QED
      BY <3>2, <3>3, <3>4
  <2>4. scoped = TRUE
    BY <1>2, <1>7
  <2>5. ASSUME NEW s \in ActiveScenarios(a)  PROVE Meaning(a, s) = Meaning(b, s)
    <3>1. s \in ActiveScenarios(b)
      BY <2>2
    <3>2. LeftOver(Projected(a, TRUE), Projected(b, TRUE)) = {}
      BY <1>1, <2>4
    <3>3. \A p \in AllPairs(Projected(a, TRUE), Projected(b, TRUE)) : Signature(p[1]) = Signature(p[2])
      BY <1>3, <2>4
    <3>4. ScopeUnknown(a, TRUE) = {} /\ ScopeUnknown(b, TRUE) = {}
      BY <1>1, <2>4
    <3> QED
      BY <3>1, <3>2, <3>3, <3>4, ScopedMeaning
  <2>6. ActiveScenarios(a) # {}
    BY <1>2, <1>7
  <2> QED
    BY <1>6, <2>2, <2>3, <2>5, <2>6
<1>8. CASE ~scoped
  <2>1. ActiveScenarios(a) = {} /\ ActiveScenarios(b) = {}
    BY <1>2, <1>8
  <2>2. L = Enabled(a.cons) /\ R = Enabled(b.cons)
    BY <1>8 DEF Projected, Enabled
  <2> HIDE DEF L, R
  <2>3. Meaning(a, NoScenario) = Meaning(b, NoScenario)
    BY <1>1, <1>3, <2>2, UnscopedMeaning
  <2> QED
    BY <1>6, <2>1, <2>3
<1> QED
  BY <1>7, <1>8

\* What the invariant says of a verdict.
LEMMA SidesKnown ==
    ASSUME WorldInv, AnswerInv, verdict # NoAnswer
    PROVE  LET here == [cons |-> ucm, scenarios |-> scenarios]
           IN /\ IsSide(here) /\ IsSide(reference)
              /\ \E failed : verdict = CompareTexts(here, reference, failed)
BY DEF WorldInv, AnswerInv, IsSide

\* For any constraints and scenarios, in any number: sets that are called
\* equivalent mean the same in every scenario and are known throughout, and a
\* known set is equivalent to an unchanged copy.
THEOREM CompareTheorem == Spec => []CompareExact
<1>1. ASSUME AnalysisInv  PROVE CompareExact
  <2> SUFFICES ASSUME verdict # NoAnswer  PROVE CompareExact
    BY DEF CompareExact
  <2> DEFINE here == [cons |-> ucm, scenarios |-> scenarios]
  <2>1. IsSide(here) /\ IsSide(reference) /\ here.scenarios = scenarios
    BY <1>1, SidesKnown DEF AnalysisInv
  <2>2. PICK failed : verdict = CompareTexts(here, reference, failed)
    BY <1>1, SidesKnown DEF AnalysisInv
  <2> HIDE DEF here
  <2>3. ASSUME verdict.status \in Same
        PROVE  /\ ActiveScenarios(here) = ActiveScenarios(reference)
               /\ \A s \in ActiveScenarios(here) : here.scenarios[s] = reference.scenarios[s]
               /\ \A s \in ActiveScenarios(here) \cup (IF ActiveScenarios(here) = {} THEN {NoScenario} ELSE {}) :
                        Meaning(here, s) = Meaning(reference, s)
               /\ ~Doubtful(here) /\ ~Doubtful(reference)
    BY <2>1, <2>2, <2>3, SameSides
  <2>4. ASSUME here = reference, ~Doubtful(here), verdict.status # "ERROR"
        PROVE  verdict.status = "EQUIVALENT"
    <3>1. verdict = Compare(here, here)
      BY <2>2, <2>4 DEF CompareTexts
    <3> QED
      BY <2>1, <2>4, <3>1, SelfEquivalent
  <2>5. CompareExact <=>
            /\ verdict.status \in Same =>
                 /\ ActiveScenarios(here) = ActiveScenarios(reference)
                 /\ \A s \in ActiveScenarios(here) : here.scenarios[s] = reference.scenarios[s]
                 /\ \A s \in ActiveScenarios(here) \cup (IF ActiveScenarios(here) = {} THEN {NoScenario} ELSE {}) :
                        Meaning(here, s) = Meaning(reference, s)
                 /\ ~Doubtful(here) /\ ~Doubtful(reference)
            /\ (here = reference /\ ~Doubtful(here) /\ verdict.status # "ERROR") => verdict.status = "EQUIVALENT"
    BY DEF CompareExact, ActiveScenarios, Doubtful, Same, here
  <2> QED
    BY <2>3, <2>4, <2>5
<1> QED
  BY <1>1, AnalysisInvariant, PTL

-----------------------------------------------------------------------------
(* The decision to emit a timing exception: the two places of              *)
(* exceptions/analyzer.py that take it (is_emittable, which the export     *)
(* obeys, and emission_status, which reports show) agree where they should *)
(* and no mode emits what must not be.                                     *)

\* What verify_exceptions can record of one exception.
ExceptionVerdicts ==
    [status : {"VERIFIED", "UNRESOLVED", "INVALID", "ERROR", "NOT_APPLICABLE"},
     r : [id : STRING, lifecycle : STRING, approval : {"NONE", "USER_CONFIRMED", "USER_REJECTED"},
          risk : {"LOW", "MEDIUM", "HIGH", "CRITICAL"}]]

\* What each mode emits, by what the report calls it: strict what is allowed
\* without a user's word, balanced also what a user confirmed and what is
\* unverified at a low or medium risk, exploratory the unverified at any risk
\* but a critical one (docstring of ExceptionAnalysisResult.is_emittable,
\* whose "non-CRITICAL" for balanced is narrower in the code).
THEOREM ModesMatchStatus ==
    ASSUME NEW v \in ExceptionVerdicts
    PROVE  LET status == EmissionStatus(v)
               allowed == status \in {"ALLOWED", "ALLOWED_USER_CONFIRMED"}
               unverified == status = "BLOCKED_UNVERIFIED"
           IN /\ Emittable(v, "strict") <=> status = "ALLOWED"
              /\ Emittable(v, "balanced") <=>
                    allowed \/ (unverified /\ v.r.risk \in {"LOW", "MEDIUM"})
              /\ Emittable(v, "exploratory") <=>
                    allowed \/ (unverified /\ v.r.risk # "CRITICAL")
<1>1. CASE v.r.approval = "USER_REJECTED"
      BY <1>1 DEF Emittable, EmissionStatus
<1>2. CASE v.status \in {"INVALID", "ERROR", "NOT_APPLICABLE"}
      BY <1>2 DEF Emittable, EmissionStatus
<1>3. CASE v.status = "VERIFIED" /\ v.r.approval # "USER_REJECTED"
      BY <1>3 DEF Emittable, EmissionStatus, ExceptionVerdicts
<1>4. CASE v.status = "UNRESOLVED" /\ v.r.approval = "USER_CONFIRMED"
      BY <1>4 DEF Emittable, EmissionStatus, ExceptionVerdicts
<1>5. CASE v.status = "UNRESOLVED" /\ v.r.approval = "NONE"
      BY <1>5 DEF Emittable, EmissionStatus, ExceptionVerdicts
<1> QED BY <1>1, <1>2, <1>3, <1>4, <1>5 DEF ExceptionVerdicts
=============================================================================
