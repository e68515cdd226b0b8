----------------------------- MODULE QoRRecords -----------------------------
(***************************************************************************)
(* The tables of the QoR history database and what each recording does to  *)
(* them inside its transaction (rca/qor/repository.py).  A recording is an *)
(* operator from tables to tables; Conflict stands for the exception that  *)
(* makes the caller roll back.  Measurements, power evidence and artifact  *)
(* rows are written with their evaluation and never alone, so the          *)
(* evaluation stands for them.                                             *)
(***************************************************************************)
EXTENDS Integers, FiniteSets, SequencesExt, TLC

CONSTANTS
    None,       \* a missing value, SQL NULL
    Conflict    \* the transaction raises and is rolled back

EmptyTables ==
    [sessions   |-> [s \in {} |-> None],    \* session -> fingerprint
     candidates |-> [k \in {} |-> None],    \* <<session, candidate>> -> parent key
     evals      |-> [e \in {} |-> None],    \* evaluation id -> evidence
     aggregates |-> [a \in {} |-> None],    \* MCMM aggregate -> its members
     csets      |-> {}]                     \* constraint sets named so far

\* A table with one row more, or another one.
With(table, key, row) ==
    [k \in DOMAIN table \cup {key} |-> IF k = key THEN row ELSE table[k]]

CandidateKey(session, id) == <<session, id>>

\* The ways an evaluation is named: by its physical run, or by what it is a
\* projection of when the run belongs to somebody else or there is none.
Physical(run) == <<run>>
LogicalId(key) == <<"logical", key[1], key[2]>>
LogicalMemberId(key, sid) == <<"logical", key[1], key[2], sid>>
LegacyId(key) == <<"legacy", key[1], key[2]>>
LegacyMemberId(key, sid) == <<"legacy", key[1], key[2], sid>>

EvaluationValues(kind, key, source, artifact, ref, cset) ==
    [kind |-> kind, link |-> key, source |-> source, artifact |-> artifact,
     ref |-> ref, cset |-> cset]

\* One recording after another, the first exception ends them.
Then(tables, Step(_)) == IF tables = Conflict THEN Conflict ELSE Step(tables)
InOrder(tables, items, Step(_, _)) ==
    LET after[k \in 0..Len(items)] ==
            IF k = 0 THEN tables
            ELSE Then(after[k - 1], LAMBDA t : Step(t, items[k]))
    IN  after[Len(items)]

Linked(tables, eid, key) == [tables EXCEPT !.evals[eid].link = key]

SameEvidence(old, new) ==
    \/ old.source = new.source
    \/ /\ new.kind = "legacy_import"
       /\ new.artifact # None
       /\ old.artifact = new.artifact

InsertEvaluationGraph(tables, eid, new) ==
    IF eid \notin DOMAIN tables.evals
    THEN [tables EXCEPT !.evals = With(@, eid, new)]
    ELSE LET old == tables.evals[eid] IN
         IF ~SameEvidence(old, new) THEN Conflict
         ELSE IF new.link # None /\ old.link \notin {None, new.link} THEN Conflict
         ELSE IF new.link # None THEN Linked(tables, eid, new.link)
         ELSE tables

InsertConstraintSet(tables, cset) ==
    IF cset = None THEN tables ELSE [tables EXCEPT !.csets = @ \cup {cset}]

(***************************************************************************)
(* A physical flow run.  "memory" is the QoR held by the recorder, "disk"  *)
(* the artifacts it wrote; the artifact fingerprint is taken from memory.  *)
(***************************************************************************)
ArtifactFingerprint(run, content) == <<run, content>>

RecordFlowEvaluation(tables, flow) ==
    InsertEvaluationGraph(
        InsertConstraintSet(tables, flow.cset), Physical(flow.run),
        EvaluationValues("flow", None, <<"flow", flow.run, flow.memory, flow.cset>>,
            ArtifactFingerprint(flow.run, flow.memory), None, flow.cset))

(***************************************************************************)
(* An optimizer session: the session row, every candidate, then the        *)
(* evidence of each candidate, an MCMM aggregate or one QoR.               *)
(***************************************************************************)
InsertCandidate(tables, session, candidate) ==
    LET key == CandidateKey(session, candidate.id) IN
    IF key \in DOMAIN tables.candidates THEN Conflict   \* primary key
    ELSE [InsertConstraintSet(tables, candidate.cset) EXCEPT
            !.candidates = With(@, key, IF candidate.parent = None THEN None
                                        ELSE CandidateKey(session, candidate.parent))]

Known(tables, run) == run # None /\ Physical(run) \in DOMAIN tables.evals
\* Mutant: a run may change hands.
FreeForAnyone(tables, run, key) == TRUE
FreeFor(tables, run, key) == tables.evals[Physical(run)].link \in {None, key}

\* Mutant: a run that belongs to another candidate is skipped.
RecordCandidateQorOwned(tables, key, candidate) ==
    LET run == candidate.qor.run IN
    IF Known(tables, run) /\ FreeFor(tables, run, key)
    THEN Linked(tables, Physical(run), key)
    ELSE IF Known(tables, run) THEN tables
    ELSE LET shared == Known(tables, run)
             eid == IF run = None \/ shared THEN LogicalId(key) ELSE Physical(run) IN
         InsertEvaluationGraph(
            InsertConstraintSet(tables, candidate.cset), eid,
            EvaluationValues("optimizer_logical", key,
                <<"optimizer", key, candidate.qor.content>>, None,
                IF shared THEN run ELSE None, candidate.cset))

RecordCandidateQor(tables, key, candidate) ==
    LET run == candidate.qor.run IN
    IF Known(tables, run) /\ FreeFor(tables, run, key)
    THEN Linked(tables, Physical(run), key)
    ELSE LET shared == Known(tables, run)
             eid == IF run = None \/ shared THEN LogicalId(key) ELSE Physical(run) IN
         InsertEvaluationGraph(
            InsertConstraintSet(tables, candidate.cset), eid,
            EvaluationValues("optimizer_logical", key,
                <<"optimizer", key, candidate.qor.content>>, None,
                IF shared THEN run ELSE None, candidate.cset))

\* The evaluation a member of an aggregate points to, if it has a result.
MemberEvaluation(tables, key, member) ==
    IF member.qor = None THEN None
    ELSE IF /\ member.qor.run # None
            /\ Known(tables, member.qor.run) => FreeFor(tables, member.qor.run, key)
         THEN Physical(member.qor.run)
         ELSE LogicalMemberId(key, member.sid)

InsertMcmmMember(tables, aggregate, key, cset, member) ==
    LET eid == MemberEvaluation(tables, key, member)
        run == IF member.qor = None THEN None ELSE member.qor.run
        shared == eid = LogicalMemberId(key, member.sid) /\ run # None
        stored == CASE eid = None -> tables
                    [] eid # None /\ eid \in DOMAIN tables.evals ->
                         IF eid = Physical(run) THEN Linked(tables, eid, key) ELSE tables
                    [] OTHER ->
                         InsertEvaluationGraph(tables, eid,
                            EvaluationValues("mcmm_logical", key,
                                <<"mcmm", aggregate, member.sid, member.qor.content>>, None,
                                IF shared THEN run ELSE None, cset)) IN
    [stored EXCEPT !.aggregates[aggregate] = With(@, member.sid, eid)]

\* The aggregate's id and its fingerprint are the same hash.
AggregateId(key, members) == <<key, members>>

RecordMcmm(tables, key, cset, members) ==
    LET aggregate == AggregateId(key, members) IN
    IF aggregate \in DOMAIN tables.aggregates THEN tables
    ELSE InOrder([tables EXCEPT !.aggregates = With(@, aggregate, [sid \in {} |-> None])],
                 members,
                 LAMBDA t, member : InsertMcmmMember(t, aggregate, key, cset, member))

RecordEvidence(tables, session, candidate) ==
    LET key == CandidateKey(session, candidate.id) IN
    CASE candidate.mcmm # None ->
            RecordMcmm(tables, key, candidate.cset, candidate.mcmm)
      [] candidate.mcmm = None /\ candidate.qor # None ->
            RecordCandidateQor(tables, key, candidate)
      [] OTHER -> tables

\* The foreign keys checked when the transaction commits.
Committed(tables) ==
    LET keys == DOMAIN tables.candidates IN
    IF /\ \A k \in keys : tables.candidates[k] \in keys \cup {None}
       /\ \A e \in DOMAIN tables.evals : tables.evals[e].link \in keys \cup {None}
    THEN tables
    ELSE Conflict

RecordOptimizerSession(tables, session, candidates) ==
    IF session \in DOMAIN tables.sessions
    THEN IF tables.sessions[session] = candidates THEN tables ELSE Conflict
    ELSE LET opened  == [tables EXCEPT !.sessions = With(@, session, candidates)]
             listed  == InOrder(opened, candidates,
                            LAMBDA t, c : InsertCandidate(t, session, c))
             entered == Then(listed, LAMBDA u : InOrder(u, candidates,
                            LAMBDA t, c : RecordEvidence(t, session, c))) IN
         Then(entered, Committed)

RecordMcmmAggregate(tables, session, candidate) ==
    LET key == CandidateKey(session, candidate.id) IN
    IF key \notin DOMAIN tables.candidates THEN Conflict
    ELSE Then(RecordMcmm(tables, key, candidate.cset, candidate.mcmm), Committed)

(***************************************************************************)
(* Import of what older runs left on disk: a run directory by itself, or   *)
(* the retained snapshot of the optimizer's candidates.                    *)
(***************************************************************************)
ImportLegacyRun(tables, run, content) ==
    LET fingerprint == ArtifactFingerprint(run, content) IN
    InsertEvaluationGraph(tables, Physical(run),
        EvaluationValues("legacy_import", None, fingerprint, fingerprint, None, None))

\* A run of another candidate is an error here, never a projection.
InsertLegacyEvidence(tables, key, run, logical, fingerprint) ==
    CASE Known(tables, run) /\ ~FreeFor(tables, run, key) -> Conflict
      [] Known(tables, run) /\ FreeFor(tables, run, key) ->
            Linked(tables, Physical(run), key)
      [] OTHER ->
            LET eid == IF run = None THEN logical ELSE Physical(run) IN
            IF eid \in DOMAIN tables.evals THEN tables
            ELSE InsertEvaluationGraph(tables, eid,
                    EvaluationValues("legacy_import", key, fingerprint, fingerprint,
                                     None, None))

InsertLegacyMcmmMember(tables, aggregate, key, member) ==
    LET run    == IF member.qor = None THEN None ELSE member.qor.run
        eid    == CASE member.qor = None -> None
                    [] run = None /\ member.qor # None -> LegacyMemberId(key, member.sid)
                    [] OTHER -> Physical(run)
        stored == IF member.qor = None THEN tables
                  ELSE InsertLegacyEvidence(tables, key, run,
                            LegacyMemberId(key, member.sid),
                            <<"legacy_mcmm", aggregate, member.sid, member.qor.content>>) IN
    Then(stored, LAMBDA t : [t EXCEPT !.aggregates[aggregate] = With(@, member.sid, eid)])

InsertLegacyMcmm(tables, key, members) ==
    LET aggregate == <<"legacy", key, members>> IN
    InOrder([tables EXCEPT !.aggregates = With(@, aggregate, [sid \in {} |-> None])],
            members, LAMBDA t, member : InsertLegacyMcmmMember(t, aggregate, key, member))

InsertLegacyCandidate(tables, session, candidate) ==
    LET key == CandidateKey(session, candidate.id)
        listed == InsertCandidate(tables, session, [candidate EXCEPT !.cset = None])
        entered == Then(listed, LAMBDA t :
            IF candidate.qor = None THEN t
            ELSE InsertLegacyEvidence(t, key, candidate.qor.run, LegacyId(key),
                     <<"legacy_candidate", key, candidate.qor.content>>)) IN
    Then(entered, LAMBDA t :
        IF candidate.mcmm = None THEN t ELSE InsertLegacyMcmm(t, key, candidate.mcmm))

\* The hash of the snapshot names its session and, with where it lies, is its
\* fingerprint, so a session already there has the same one.  "candidates" are
\* the records that were read, "hashed" what the file held when it was hashed.
LegacySession(hashed) == <<"legacy", hashed>>

\* A list of candidates, of whom some have aggregates.
Listed(candidates) ==
    /\ candidates \in Seq(Range(candidates))
    /\ \A c \in Range(candidates) : c.mcmm # None => Len(c.mcmm) \in Nat

\* Mutant: a session that is there already is inserted again.
ImportLegacySnapshotAgain(tables, candidates, hashed) ==
    LET session == LegacySession(hashed) IN
    Then(InOrder([tables EXCEPT !.sessions = With(@, session, hashed)], candidates,
                      LAMBDA t, c : InsertLegacyCandidate(t, session, c)),
              Committed)

ImportLegacySnapshot(tables, candidates, hashed) ==
    LET session == LegacySession(hashed) IN
    IF session \in DOMAIN tables.sessions THEN tables
    ELSE Then(InOrder([tables EXCEPT !.sessions = With(@, session, hashed)], candidates,
                      LAMBDA t, c : InsertLegacyCandidate(t, session, c)),
              Committed)

(***************************************************************************)
(* Queries.                                                                *)
(***************************************************************************)
\* Root to candidate within one session; a cycle is an error.
CandidateLineage(tables, key) ==
    LET n == Cardinality(DOMAIN tables.candidates)
        Path[left \in 0..n, k \in DOMAIN tables.candidates \cup {None}] ==
            IF k = None THEN <<>>
            ELSE IF left = 0 THEN Conflict
            ELSE Then(Path[left - 1, tables.candidates[k]], LAMBDA up : Append(up, k)) IN
    IF key \in DOMAIN tables.candidates THEN Path[n, key] ELSE <<>>

ListRuns(tables, key) == {e \in DOMAIN tables.evals : tables.evals[e].link = key}
=============================================================================
