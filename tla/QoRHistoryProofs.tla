-------------------------- MODULE QoRHistoryProofs --------------------------
(***************************************************************************)
(* For any processes, plays, starting versions and number of crashes       *)
(* (qor/repository.py): a process that is refused the database lost it to  *)
(* one that brought the schema further; evidence once recorded is never    *)
(* removed or changed; what was recorded may be recorded again.  The last  *)
(* two rest on one fact about every operation on the tables: it conflicts  *)
(* and is rolled back, or it only adds to them.                            *)
(***************************************************************************)
EXTENDS QoRHistory, WellFoundedInduction, TLAPS

-----------------------------------------------------------------------------
(* Who is refused the database.                                            *)

Places == {"start", "writing", "claim", "version", "ledger", "migrate", "ready", "scan",
           "run", "hash", "legacy"}
Outcomes == {"none", "written", "refused", "conflict", "recorded"}

\* Both versions move together, and no versioned database is unclaimed.
SchemaInv ==
    /\ DOMAIN schema = {"claimed", "version", "ledger"}
    /\ schema.ledger = schema.version
    /\ schema.version \in Nat
    /\ schema.version > 0 => schema.claimed

LocalsInv ==
    /\ pc \in [Processes -> Places]
    /\ outcome \in [Processes -> Outcomes]
    /\ seen \in [Processes -> Nat]
    /\ began \in [Processes -> Nat]

\* What an initializer knows of the version is old, never wrong.
ProcessInv(p) ==
    /\ began[p] <= schema.version
    /\ pc[p] = "claim" => began[p] = 0
    /\ pc[p] \in {"version", "ledger", "migrate"} => schema.claimed
    /\ pc[p] \in {"ledger", "migrate"} => began[p] <= seen[p] /\ seen[p] <= schema.version
    /\ outcome[p] = "refused" => schema.version > began[p] \/ began[p] > SchemaVersion

InitializationInv == SchemaInv /\ LocalsInv /\ \A p \in Processes : ProcessInv(p)

-----------------------------------------------------------------------------
\* No process has seen anything before it connects.
LEMMA InitializationStart == Init => InitializationInv
<1> SUFFICES ASSUME Init PROVE InitializationInv
    OBVIOUS
<1>1. PICK v \in Versions : schema = [claimed |-> v > 0, version |-> v, ledger |-> v]
    BY DEF Init
<1>2. schema.claimed = (v > 0) /\ schema.version = v /\ schema.ledger = v
    BY <1>1
<1>3. SchemaInv
    BY <1>1, <1>2, VersionsAssumption DEF SchemaInv
<1>4. LocalsInv /\ \A p \in Processes : ProcessInv(p)
    BY <1>3 DEF Init, SchemaInv, LocalsInv, ProcessInv, Places, Outcomes
<1> QED BY <1>3, <1>4 DEF InitializationInv

\* The end of a recording that is not refused.
LEMMA EndKeeps ==
    ASSUME InitializationInv, NEW p \in Processes, NEW result \in Outcomes \ {"refused"},
           EndCommand(p, result), UNCHANGED <<schema, seen, began>>
    PROVE  InitializationInv'
BY DEF InitializationInv, SchemaInv, LocalsInv, ProcessInv, EndCommand, Goto, Places, Outcomes

\* A refusal that is justified.
LEMMA RefuseKeeps ==
    ASSUME InitializationInv, NEW p \in Processes, Refuse(p), UNCHANGED began,
           schema.version > began[p] \/ began[p] > SchemaVersion
    PROVE  InitializationInv'
BY DEF InitializationInv, SchemaInv, LocalsInv, ProcessInv, Refuse, EndCommand, Goto,
       Places, Outcomes

\* A step to another place that leaves the schema and what is known of it.
LEMMA GotoKeeps ==
    ASSUME InitializationInv, NEW p \in Processes,
           NEW place \in {"writing", "scan", "run", "hash", "legacy"}, Goto(p, place),
           UNCHANGED <<schema, seen, began, outcome>>
    PROVE  InitializationInv'
BY DEF InitializationInv, SchemaInv, LocalsInv, ProcessInv, Goto, Places

\* The schema only gets newer, and a process that lost a race finds it newer
\* than what it has read.
LEMMA InitializationStep == InitializationInv /\ [Next]_vars => InitializationInv'
<1> SUFFICES ASSUME InitializationInv, [Next]_vars PROVE InitializationInv'
    OBVIOUS
<1> USE DEF SchemaVersion
<1>1. ASSUME NEW p \in Processes, WriteArtifacts(p) PROVE InitializationInv'
    BY <1>1, EndKeeps DEF WriteArtifacts, Outcomes
<1>2. ASSUME NEW p \in Processes, StartSnapshot(p) PROVE InitializationInv'
    BY <1>2, GotoKeeps DEF StartSnapshot
<1>3. ASSUME NEW p \in Processes, FinishSnapshot(p) PROVE InitializationInv'
    BY <1>3, EndKeeps DEF FinishSnapshot, Outcomes
<1>4. ASSUME NEW p \in Processes, Connect(p) PROVE InitializationInv'
    <2>1. ~schema.claimed => schema.version = 0
        BY DEF InitializationInv, SchemaInv
    <2> QED
        BY <1>4, <2>1 DEF Connect, Goto, InitializationInv, SchemaInv, LocalsInv, ProcessInv,
                          Places, Outcomes
<1>5. ASSUME NEW p \in Processes, Claim(p) PROVE InitializationInv'
    <2>0. pc[p] = "claim" /\ began[p] = 0 /\ UNCHANGED began
        BY <1>5 DEF Claim, At, InitializationInv, ProcessInv
    <2>1. CASE schema.version > 0
        BY <1>5, <2>0, <2>1, RefuseKeeps DEF Claim
    <2>2. CASE ~(schema.version > 0)
        <3>1. /\ schema' = [schema EXCEPT !.claimed = TRUE]
              /\ Goto(p, "version")
              /\ UNCHANGED <<seen, outcome, began>>
            BY <1>5, <2>0, <2>2 DEF Claim
        <3>2. /\ DOMAIN schema' = DOMAIN schema
              /\ schema'.version = schema.version
              /\ schema'.ledger = schema.ledger
            BY <3>1 DEF InitializationInv, SchemaInv
        <3>3. schema'.claimed = TRUE
            BY <3>1 DEF InitializationInv, SchemaInv
        <3>4. SchemaInv'
            BY <3>2, <3>3 DEF InitializationInv, SchemaInv
        <3> QED
            BY <3>1, <3>2, <3>3, <3>4
            DEF Goto, InitializationInv, SchemaInv, LocalsInv, ProcessInv, Places
    <2> QED BY <2>1, <2>2
<1>6. ASSUME NEW p \in Processes, ReadVersion(p) PROVE InitializationInv'
    BY <1>6 DEF ReadVersion, At, Goto, InitializationInv, SchemaInv, LocalsInv, ProcessInv, Places
<1>7. ASSUME NEW p \in Processes, ReadLedger(p) PROVE InitializationInv'
    <2>0. /\ pc[p] = "ledger" /\ UNCHANGED began
          /\ began[p] <= seen[p] /\ seen[p] <= schema.version
          /\ schema.ledger = schema.version
          /\ began[p] \in Nat /\ seen[p] \in Nat /\ schema.version \in Nat
        BY <1>7 DEF ReadLedger, At, InitializationInv, SchemaInv, LocalsInv, ProcessInv
    <2>1. CASE Consistent(seen[p], schema.ledger)
        BY <1>7, <2>0, <2>1
        DEF ReadLedger, Goto, InitializationInv, SchemaInv, LocalsInv, ProcessInv, Places
    <2>2. CASE ~Consistent(seen[p], schema.ledger)
        <3>1. schema.version > began[p] \/ began[p] > SchemaVersion
            BY <2>0, <2>2 DEF Consistent
        <3> QED BY <1>7, <2>0, <2>2, <3>1, RefuseKeeps DEF ReadLedger
    <2> QED BY <2>1, <2>2
<1>8. ASSUME NEW p \in Processes, Migrate(p) PROVE InitializationInv'
    <2>0. /\ pc[p] = "migrate" /\ UNCHANGED began
          /\ began[p] <= seen[p] /\ seen[p] <= schema.version
          /\ began[p] \in Nat /\ seen[p] \in Nat /\ schema.version \in Nat
        BY <1>8 DEF Migrate, At, InitializationInv, SchemaInv, LocalsInv, ProcessInv
    <2>1. CASE Applicable(seen[p] + 1)
        <3>1. /\ schema.version = seen[p]
              /\ schema' = Migrated(seen[p] + 1)
              /\ seen' = [seen EXCEPT ![p] = seen[p] + 1]
              /\ \E place \in {"ready", "migrate"} : Goto(p, place)
              /\ UNCHANGED outcome
            BY <1>8, <2>0, <2>1 DEF Migrate, Applicable
        <3>2. schema.claimed
            BY <2>0 DEF InitializationInv, ProcessInv
        <3>3. /\ DOMAIN schema' = DOMAIN schema
              /\ schema'.claimed = schema.claimed
              /\ schema'.version = seen[p] + 1
              /\ schema'.ledger = seen[p] + 1
            BY <3>1 DEF Migrated, InitializationInv, SchemaInv
        <3>4. SchemaInv'
            BY <2>0, <3>2, <3>3 DEF InitializationInv, SchemaInv
        <3> QED
            BY <2>0, <3>1, <3>2, <3>3, <3>4
            DEF Goto, InitializationInv, SchemaInv, LocalsInv, ProcessInv, Places
    <2>2. CASE ~Applicable(seen[p] + 1)
        <3>1. schema.version > began[p]
            BY <2>0, <2>2 DEF Applicable
        <3> QED BY <1>8, <2>0, <2>2, <3>1, RefuseKeeps DEF Migrate
    <2> QED BY <2>1, <2>2
<1>9. ASSUME NEW p \in Processes, Record(p) PROVE InitializationInv'
    BY <1>9, EndKeeps DEF Record, Outcomes
<1>10. ASSUME NEW p \in Processes, StartImport(p) PROVE InitializationInv'
    BY <1>10, GotoKeeps DEF StartImport
<1>11. ASSUME NEW p \in Processes, ReadRun(p) \/ ImportRun(p) PROVE InitializationInv'
    BY <1>11, GotoKeeps DEF ReadRun, ImportRun
<1>12. ASSUME NEW p \in Processes, ReadSnapshot(p) PROVE InitializationInv'
    BY <1>12, GotoKeeps, EndKeeps DEF ReadSnapshot, Outcomes
<1>13. ASSUME NEW p \in Processes, HashSnapshot(p) PROVE InitializationInv'
    BY <1>13, GotoKeeps DEF HashSnapshot
<1>14. ASSUME NEW p \in Processes, ImportSnapshot(p) PROVE InitializationInv'
    BY <1>14, EndKeeps DEF ImportSnapshot, Outcomes
<1>15. ASSUME NEW p \in Processes, Crash(p) PROVE InitializationInv'
    BY <1>15 DEF Crash, InitializationInv, SchemaInv, LocalsInv, ProcessInv
<1>16. CASE UNCHANGED vars
    BY <1>16 DEF vars, InitializationInv, SchemaInv, LocalsInv, ProcessInv
<1> QED
    BY <1>1, <1>2, <1>3, <1>4, <1>5, <1>6, <1>7, <1>8, <1>9, <1>10, <1>11, <1>12, <1>13,
       <1>14, <1>15, <1>16
    DEF Next

\* A process whose initialization is refused lost to one that got further
\* since it connected (repository.initialize): whatever the number of
\* processes, some initializer always wins.
THEOREM RefusalTheorem == Spec => []RefusalMeansProgress
<1>1. InitializationInv => RefusalMeansProgress
    BY DEF InitializationInv, ProcessInv, RefusalMeansProgress
<1> QED BY <1>1, InitializationStart, InitializationStep, PTL DEF Spec

-----------------------------------------------------------------------------
(* The history grows.                                                      *)

Columns == {"sessions", "candidates", "evals", "aggregates", "csets"}
EvidenceColumns == {"kind", "link", "source", "artifact", "ref", "cset"}

\* The tables, and evidence with all its columns.
EvidenceRows(evals) ==
    \A e \in DOMAIN evals : evals[e] = [column \in EvidenceColumns |-> evals[e][column]]

Tables(t) ==
    /\ t = [column \in Columns |-> t[column]]
    /\ EvidenceRows(t.evals)

\* An evaluation is the same evidence later, and its owner's once it has one.
SameLater(old, new) ==
    /\ new = [old EXCEPT !.link = new.link]
    /\ old.link \in {None, new.link}

\* Rows are added, none is removed or changed, but for owners and members.
Grows(t, u) ==
    /\ Tables(u)
    /\ \A s \in DOMAIN t.sessions : s \in DOMAIN u.sessions /\ u.sessions[s] = t.sessions[s]
    /\ DOMAIN t.candidates \subseteq DOMAIN u.candidates
    /\ DOMAIN t.aggregates \subseteq DOMAIN u.aggregates
    /\ t.csets \subseteq u.csets
    /\ \A e \in DOMAIN t.evals : e \in DOMAIN u.evals /\ SameLater(t.evals[e], u.evals[e])

\* Doing nothing is growth.
LEMMA GrowsAtAll ==
    ASSUME NEW t, Tables(t)
    PROVE  Grows(t, t)
<1>1. ASSUME NEW e \in DOMAIN t.evals  PROVE SameLater(t.evals[e], t.evals[e])
    BY DEF Tables, EvidenceRows, SameLater
<1> QED BY <1>1 DEF Grows

\* Growth goes on.
LEMMA GrowsOn ==
    ASSUME NEW t, NEW u, NEW v, Tables(t), Grows(t, u), Grows(u, v)
    PROVE  Grows(t, v)
<1>1. ASSUME NEW e \in DOMAIN t.evals
      PROVE  e \in DOMAIN v.evals /\ SameLater(t.evals[e], v.evals[e])
    <2>1. /\ e \in DOMAIN u.evals /\ SameLater(t.evals[e], u.evals[e])
          /\ e \in DOMAIN v.evals /\ SameLater(u.evals[e], v.evals[e])
        BY DEF Grows
    <2>2. t.evals[e] = [column \in EvidenceColumns |-> t.evals[e][column]]
        BY DEF Tables, EvidenceRows
    <2> QED BY <2>1, <2>2 DEF SameLater, EvidenceColumns
<1> QED BY <1>1 DEF Grows

\* A constraint set is named.
LEMMA ConstraintSetGrows ==
    ASSUME NEW t, Tables(t), NEW cset
    PROVE  Grows(t, InsertConstraintSet(t, cset))
<1> DEFINE u == InsertConstraintSet(t, cset)
<1>1. /\ u = [column \in Columns |-> u[column]]
      /\ u.sessions = t.sessions /\ u.candidates = t.candidates /\ u.evals = t.evals
      /\ u.aggregates = t.aggregates /\ t.csets \subseteq u.csets
    BY DEF InsertConstraintSet, Tables, Columns
<1>2. Grows(t, t)
    BY GrowsAtAll
<1> HIDE DEF u
<1> QED BY <1>1, <1>2 DEF u, Grows, Tables

\* Another table of evaluations that grew grows the database.
LEMMA EvaluationsGrow ==
    ASSUME NEW t, Tables(t), NEW evals,
           \A e \in DOMAIN evals : evals[e] = [column \in EvidenceColumns |-> evals[e][column]],
           \A e \in DOMAIN t.evals : e \in DOMAIN evals /\ SameLater(t.evals[e], evals[e])
    PROVE  Grows(t, [t EXCEPT !.evals = evals])
<1> DEFINE u == [t EXCEPT !.evals = evals]
<1>1. /\ u = [column \in Columns |-> u[column]]
      /\ u.sessions = t.sessions /\ u.candidates = t.candidates /\ u.evals = evals
      /\ u.aggregates = t.aggregates /\ u.csets = t.csets
    BY DEF Tables, Columns
<1> HIDE DEF u
<1>2. Grows(t, u)
    BY <1>1 DEF Grows, Tables, EvidenceRows
<1> QED BY <1>2 DEF u

\* An evaluation gets an owner, if it has none or this one.
LEMMA LinkGrows ==
    ASSUME NEW t, Tables(t), NEW eid \in DOMAIN t.evals, NEW key,
           t.evals[eid].link \in {None, key}
    PROVE  Grows(t, Linked(t, eid, key))
<1> DEFINE linked == [t.evals[eid] EXCEPT !.link = key]
           evals == [t.evals EXCEPT ![eid] = linked]
<1>0. t.evals[eid] = [column \in EvidenceColumns |-> t.evals[eid][column]]
    BY DEF Tables, EvidenceRows
<1>1. /\ linked = [column \in EvidenceColumns |-> linked[column]]
      /\ linked.link = key
    BY <1>0 DEF EvidenceColumns
<1>2. linked = [t.evals[eid] EXCEPT !.link = linked.link]
    BY <1>1
<1>3. Linked(t, eid, key) = [t EXCEPT !.evals = evals]
    BY DEF Linked
<1>4. SameLater(t.evals[eid], linked)
    BY <1>1, <1>2 DEF SameLater
<1> HIDE DEF linked
<1>5. /\ DOMAIN evals = DOMAIN t.evals
      /\ \A e \in DOMAIN evals : evals[e] = IF e = eid THEN linked ELSE t.evals[e]
    OBVIOUS
<1> HIDE DEF evals
<1>6. \A e \in DOMAIN t.evals : SameLater(t.evals[e], t.evals[e])
    BY GrowsAtAll DEF Grows
<1>7. Grows(t, [t EXCEPT !.evals = evals])
    BY <1>1, <1>4, <1>5, <1>6, EvaluationsGrow DEF Tables, EvidenceRows
<1> QED BY <1>3, <1>7

\* New evidence has all its columns.
LEMMA NewEvidence ==
    ASSUME NEW kind, NEW key, NEW source, NEW artifact, NEW ref, NEW cset
    PROVE  LET v == EvaluationValues(kind, key, source, artifact, ref, cset) IN
           /\ v = [column \in EvidenceColumns |-> v[column]]
           /\ v.kind = kind /\ v.link = key /\ v.source = source /\ v.artifact = artifact
BY DEF EvaluationValues, EvidenceColumns

\* Inserting an evaluation conflicts or grows, and it is there afterwards, with
\* the same evidence.
LEMMA EvaluationGrows ==
    ASSUME NEW t, Tables(t), NEW eid, NEW v, v = [column \in EvidenceColumns |-> v[column]]
    PROVE  LET u == InsertEvaluationGraph(t, eid, v) IN
           \/ u = Conflict
           \/ Grows(t, u) /\ eid \in DOMAIN u.evals /\ SameEvidence(u.evals[eid], v)
<1>1. CASE eid \notin DOMAIN t.evals
    <2> DEFINE evals == With(t.evals, eid, v)
    <2>1. /\ DOMAIN evals = DOMAIN t.evals \cup {eid}
          /\ \A e \in DOMAIN evals : evals[e] = IF e = eid THEN v ELSE t.evals[e]
        BY <1>1 DEF With
    <2>2. InsertEvaluationGraph(t, eid, v) = [t EXCEPT !.evals = evals]
        BY <1>1 DEF InsertEvaluationGraph
    <2> HIDE DEF evals
    <2>3. \A e \in DOMAIN t.evals : SameLater(t.evals[e], t.evals[e])
        BY GrowsAtAll DEF Grows
    <2>4. Grows(t, [t EXCEPT !.evals = evals])
        BY <1>1, <2>1, <2>3, EvaluationsGrow DEF Tables, EvidenceRows
    <2>5. [t EXCEPT !.evals = evals].evals = evals
        BY DEF Tables, Columns
    <2> QED BY <2>1, <2>2, <2>4, <2>5 DEF SameEvidence
<1>2. CASE eid \in DOMAIN t.evals
    <2> DEFINE old == t.evals[eid]
    <2>1. CASE ~SameEvidence(old, v) \/ (v.link # None /\ old.link \notin {None, v.link})
        BY <1>2, <2>1 DEF InsertEvaluationGraph
    <2>2. CASE SameEvidence(old, v) /\ v.link # None /\ old.link \in {None, v.link}
        <3>1. InsertEvaluationGraph(t, eid, v) = Linked(t, eid, v.link)
            BY <1>2, <2>2 DEF InsertEvaluationGraph
        <3>2. Grows(t, Linked(t, eid, v.link))
            BY <1>2, <2>2, LinkGrows
        <3> DEFINE u == Linked(t, eid, v.link)
                   new == u.evals[eid]
        <3> HIDE DEF u
        <3>3. Grows(t, u)
            BY <3>2 DEF u
        <3>4. eid \in DOMAIN u.evals /\ SameLater(old, new)
            BY <1>2, <3>3 DEF Grows
        <3>5. old = [column \in EvidenceColumns |-> old[column]]
            BY <1>2 DEF Tables, EvidenceRows
        <3>6. new.source = old.source /\ new.artifact = old.artifact
            BY <3>4, <3>5 DEF SameLater, EvidenceColumns
        <3>7. SameEvidence(new, v)
            BY <2>2, <3>6 DEF SameEvidence
        <3> QED BY <3>1, <3>3, <3>4, <3>7 DEF u
    <2>3. CASE SameEvidence(old, v) /\ v.link = None
        BY <1>2, <2>3, GrowsAtAll DEF InsertEvaluationGraph
    <2> QED BY <2>1, <2>2, <2>3
<1> QED BY <1>1, <1>2

\* A row of candidates, with the constraint set it names.
LEMMA CandidateGrows ==
    ASSUME NEW t, Tables(t), NEW session, NEW c
    PROVE  LET u == InsertCandidate(t, session, c) IN u = Conflict \/ Grows(t, u)
<1> DEFINE key == CandidateKey(session, c.id)
           named == InsertConstraintSet(t, c.cset)
           parent == IF c.parent = None THEN None ELSE CandidateKey(session, c.parent)
           u == [named EXCEPT !.candidates = With(@, key, parent)]
<1>1. CASE key \in DOMAIN t.candidates
    BY <1>1 DEF InsertCandidate
<1>2. CASE key \notin DOMAIN t.candidates
    <2>1. InsertCandidate(t, session, c) = u
        BY <1>2 DEF InsertCandidate
    <2>2. Grows(t, named)
        BY ConstraintSetGrows
    <2> HIDE DEF named
    <2>3. /\ u = [column \in Columns |-> u[column]]
          /\ u.sessions = named.sessions /\ u.evals = named.evals
          /\ u.aggregates = named.aggregates /\ u.csets = named.csets
          /\ DOMAIN named.candidates \subseteq DOMAIN u.candidates
        BY <2>2 DEF Grows, Tables, Columns, With
    <2> HIDE DEF u
    <2>4. Tables(named) /\ Grows(named, named)
        BY <2>2, GrowsAtAll DEF Grows
    <2>0. Tables(u)
        BY <2>3, <2>4 DEF Tables
    <2>5. Grows(named, u)
        BY <2>0, <2>3, <2>4 DEF Grows
    <2>6. Grows(t, u)
        BY <2>2, <2>5, GrowsOn
    <2> QED BY <2>1, <2>6
<1> QED BY <1>1, <1>2

\* A row that only sets sessions, or the members of an aggregate.
LEMMA SessionGrows ==
    ASSUME NEW t, Tables(t), NEW session, NEW candidates, session \notin DOMAIN t.sessions
    PROVE  LET u == [t EXCEPT !.sessions = With(@, session, candidates)] IN
           /\ Grows(t, u)
           /\ session \in DOMAIN u.sessions /\ u.sessions[session] = candidates
<1> DEFINE u == [t EXCEPT !.sessions = With(@, session, candidates)]
<1>1. /\ u = [column \in Columns |-> u[column]]
      /\ u.sessions = With(t.sessions, session, candidates)
      /\ u.candidates = t.candidates /\ u.evals = t.evals
      /\ u.aggregates = t.aggregates /\ u.csets = t.csets
    BY DEF Tables, Columns
<1>2. Grows(t, t)
    BY GrowsAtAll
<1> HIDE DEF u
<1>3. /\ \A s \in DOMAIN t.sessions : s \in DOMAIN u.sessions /\ u.sessions[s] = t.sessions[s]
      /\ session \in DOMAIN u.sessions /\ u.sessions[session] = candidates
    BY <1>1 DEF With
<1>0. Tables(u)
    BY <1>1 DEF Tables
<1>4. Grows(t, u)
    BY <1>0, <1>1, <1>2, <1>3 DEF Grows
<1> QED BY <1>3, <1>4 DEF u

\* Aggregates are added, and get members.
LEMMA AggregatesGrow ==
    ASSUME NEW t, Tables(t), NEW aggregates, DOMAIN t.aggregates \subseteq DOMAIN aggregates
    PROVE  LET u == [t EXCEPT !.aggregates = aggregates] IN
           Grows(t, u) /\ u.aggregates = aggregates
<1> DEFINE u == [t EXCEPT !.aggregates = aggregates]
<1>1. /\ u = [column \in Columns |-> u[column]]
      /\ u.sessions = t.sessions /\ u.candidates = t.candidates /\ u.evals = t.evals
      /\ u.aggregates = aggregates /\ u.csets = t.csets
    BY DEF Tables, Columns
<1>2. Grows(t, t)
    BY GrowsAtAll
<1> HIDE DEF u
<1>0. Tables(u)
    BY <1>1 DEF Tables
<1>4. Grows(t, u)
    BY <1>0, <1>1, <1>2 DEF Grows
<1> QED BY <1>1, <1>4 DEF u

\* Evidence of a named constraint set, recorded under an id of its own.
LEMMA NamedEvidenceGrows ==
    ASSUME NEW t, Tables(t), NEW cset, NEW eid, NEW v,
           v = [column \in EvidenceColumns |-> v[column]]
    PROVE  LET u == InsertEvaluationGraph(InsertConstraintSet(t, cset), eid, v) IN
           \/ u = Conflict
           \/ Grows(t, u) /\ eid \in DOMAIN u.evals /\ SameEvidence(u.evals[eid], v)
<1> DEFINE named == InsertConstraintSet(t, cset)
           u == InsertEvaluationGraph(named, eid, v)
<1>1. Grows(t, named)
    BY ConstraintSetGrows
<1>2. Tables(named)
    BY <1>1 DEF Grows
<1> HIDE DEF named
<1>3. \/ u = Conflict
      \/ Grows(named, u) /\ eid \in DOMAIN u.evals /\ SameEvidence(u.evals[eid], v)
    BY <1>2, EvaluationGrows
<1>4. Grows(named, u) => Grows(t, u)
    BY <1>1, GrowsOn
<1> QED BY <1>3, <1>4 DEF named

\* A candidate's QoR: its run is taken over, or it gets a projection.
LEMMA CandidateQorGrows ==
    ASSUME NEW t, Tables(t), NEW key, NEW c
    PROVE  LET u == RecordCandidateQor(t, key, c) IN u = Conflict \/ Grows(t, u)
<1> DEFINE run == c.qor.run
           shared == Known(t, run)
           eid == IF run = None \/ shared THEN LogicalId(key) ELSE Physical(run)
           v == EvaluationValues("optimizer_logical", key,
                    <<"optimizer", key, c.qor.content>>, None,
                    IF shared THEN run ELSE None, c.cset)
<1>1. CASE Known(t, run) /\ FreeFor(t, run, key)
    <2>1. RecordCandidateQor(t, key, c) = Linked(t, Physical(run), key)
        BY <1>1 DEF RecordCandidateQor
    <2>2. Physical(run) \in DOMAIN t.evals /\ t.evals[Physical(run)].link \in {None, key}
        BY <1>1 DEF Known, FreeFor
    <2> QED BY <2>1, <2>2, LinkGrows
<1>2. CASE ~(Known(t, run) /\ FreeFor(t, run, key))
    <2>1. RecordCandidateQor(t, key, c)
            = InsertEvaluationGraph(InsertConstraintSet(t, c.cset), eid, v)
        BY <1>2 DEF RecordCandidateQor
    <2>2. v = [column \in EvidenceColumns |-> v[column]]
        BY NewEvidence
    <2> HIDE DEF v, eid
    <2> QED BY <2>1, <2>2, NamedEvidenceGrows
<1> QED BY <1>1, <1>2

\* One member of an aggregate.  A projection is never a run.
LEMMA MemberGrows ==
    ASSUME NEW t, Tables(t), NEW aggregate, NEW key, NEW cset, NEW member
    PROVE  LET u == InsertMcmmMember(t, aggregate, key, cset, member) IN
           u = Conflict \/ Grows(t, u)
<1> DEFINE eid == MemberEvaluation(t, key, member)
           run == IF member.qor = None THEN None ELSE member.qor.run
           shared == eid = LogicalMemberId(key, member.sid) /\ run # None
           v == EvaluationValues("mcmm_logical", key,
                    <<"mcmm", aggregate, member.sid, member.qor.content>>, None,
                    IF shared THEN run ELSE None, cset)
           stored == CASE eid = None -> t
                       [] eid # None /\ eid \in DOMAIN t.evals ->
                            IF eid = Physical(run) THEN Linked(t, eid, key) ELSE t
                       [] OTHER -> InsertEvaluationGraph(t, eid, v)
           u == [stored EXCEPT !.aggregates[aggregate] = With(@, member.sid, eid)]
<1>1. InsertMcmmMember(t, aggregate, key, cset, member) = u
    BY DEF InsertMcmmMember
<1>2. ASSUME eid # None, eid \in DOMAIN t.evals, eid = Physical(run)
      PROVE  t.evals[eid].link \in {None, key}
    <2>1. Physical(run) # LogicalMemberId(key, member.sid)
        BY DEF Physical, LogicalMemberId
    <2>2. member.qor # None /\ run # None /\ (Known(t, run) => FreeFor(t, run, key))
        BY <1>2, <2>1 DEF MemberEvaluation
    <2> QED BY <1>2, <2>2 DEF Known, FreeFor
<1>3. v = [column \in EvidenceColumns |-> v[column]]
    BY NewEvidence
<1> HIDE DEF v, eid, run
<1>4. Grows(t, stored)
    <2>1. CASE eid = None
        BY <2>1, GrowsAtAll
    <2>2. CASE eid # None /\ eid \in DOMAIN t.evals /\ eid = Physical(run)
        BY <1>2, <2>2, LinkGrows
    <2>3. CASE eid # None /\ eid \in DOMAIN t.evals /\ eid # Physical(run)
        BY <2>3, GrowsAtAll
    <2>4. CASE eid # None /\ eid \notin DOMAIN t.evals
        <3>1. stored = InsertEvaluationGraph(t, eid, v)
            BY <2>4
        <3>2. InsertEvaluationGraph(t, eid, v) = [t EXCEPT !.evals = With(@, eid, v)]
            BY <2>4 DEF InsertEvaluationGraph
        <3> DEFINE evals == With(t.evals, eid, v)
        <3>3. /\ DOMAIN evals = DOMAIN t.evals \cup {eid}
              /\ \A e \in DOMAIN evals : evals[e] = IF e = eid THEN v ELSE t.evals[e]
            BY DEF With
        <3> HIDE DEF evals
        <3>4. \A e \in DOMAIN t.evals : SameLater(t.evals[e], t.evals[e])
            BY GrowsAtAll DEF Grows
        <3>5. Grows(t, [t EXCEPT !.evals = evals])
            BY <1>3, <2>4, <3>3, <3>4, EvaluationsGrow DEF Tables, EvidenceRows
        <3> QED BY <3>1, <3>2, <3>5 DEF evals
    <2> QED BY <2>1, <2>2, <2>3, <2>4
<1> HIDE DEF stored
<1>5. Tables(stored)
    BY <1>4 DEF Grows
<1> DEFINE aggregates == [stored.aggregates EXCEPT ![aggregate] = With(@, member.sid, eid)]
<1>6. u = [stored EXCEPT !.aggregates = aggregates]
    OBVIOUS
<1>7. DOMAIN aggregates = DOMAIN stored.aggregates
    OBVIOUS
<1> HIDE DEF aggregates
<1>8. Grows(stored, u)
    BY <1>5, <1>6, <1>7, AggregatesGrow
<1>9. Grows(t, u)
    BY <1>4, <1>8, GrowsOn
<1> QED BY <1>1, <1>9

-----------------------------------------------------------------------------
(* Induction, for a set of numbers.                                        *)

\* A set that holds 0 and with each number the next one holds all.
LEMMA SetInduction ==
    ASSUME NEW P, 0 \in P, \A k \in Nat : k \in P => k + 1 \in P
    PROVE  Nat \subseteq P
<1> DEFINE Lacking == Nat \ P
<1>1. SUFFICES ASSUME Lacking # {}  PROVE FALSE
  OBVIOUS
<1>2. PICK m \in Lacking : \A k \in Lacking : <<k, m>> \notin OpToRel(<, Nat)
  BY <1>1, NatLessThanWellFounded, WFMin, Lacking \in SUBSET Nat
<1>3. \A k \in Lacking : ~(k < m)
  BY <1>2 DEF OpToRel
<1>4. m \in Nat /\ m \notin P
  OBVIOUS
<1>5. m # 0
  BY <1>4
<1>6. m - 1 \in Nat /\ m - 1 < m /\ m - 1 \in P
  BY <1>3, <1>4, <1>5
<1> HIDE DEF Lacking
<1>7. (m - 1) + 1 \in P
  BY <1>6
<1>8. (m - 1) + 1 = m
  BY <1>4
<1> QED
  BY <1>4, <1>7, <1>8

-----------------------------------------------------------------------------
(* One recording after another.                                            *)

\* What the loops of the repository record of one item.
Recorded(loop, t, item) ==
    CASE loop.kind = "candidates" -> InsertCandidate(t, loop.session, item)
      [] loop.kind = "evidence" -> RecordEvidence(t, loop.session, item)
      [] loop.kind = "members" ->
            InsertMcmmMember(t, loop.aggregate, loop.key, loop.cset, item)
      [] loop.kind = "legacy candidates" -> InsertLegacyCandidate(t, loop.session, item)
      [] loop.kind = "legacy members" ->
            InsertLegacyMcmmMember(t, loop.aggregate, loop.key, item)

\* The tables after each of the first n items.
Run(loop, t, items, n, run) ==
    run = [k \in 0..n |-> IF k = 0 THEN t
                          ELSE IF run[k - 1] = Conflict THEN Conflict
                          ELSE Recorded(loop, run[k - 1], items[k])]

\* Every loop has a run of every length.
LEMMA RunExists ==
    ASSUME NEW loop, NEW t, NEW items, NEW n \in Nat
    PROVE  \E run : Run(loop, t, items, n, run)
<1> DEFINE step(f, k) == IF k = 0 THEN t
                         ELSE IF f[k - 1] = Conflict THEN Conflict
                         ELSE Recorded(loop, f[k - 1], items[k])
           P == {m \in Nat : \E run : Run(loop, t, items, m, run)}
<1>1. 0 \in P
  <2>1. Run(loop, t, items, 0, [k \in 0..0 |-> t])
    BY DEF Run
  <2> QED
    BY <2>1
<1>2. ASSUME NEW m \in Nat, m \in P  PROVE m + 1 \in P
  <2>1. PICK run : Run(loop, t, items, m, run)
    BY <1>2
  <2> DEFINE more == [k \in 0..(m + 1) |-> IF k = m + 1 THEN step(run, m + 1) ELSE run[k]]
  <2>2. run = [k \in 0..m |-> step(run, k)]
    BY <2>1 DEF Run
  <2>3. ASSUME NEW k \in 0..(m + 1)  PROVE more[k] = step(more, k)
    <3>1. CASE k = m + 1
      <4>1. k # 0 /\ k - 1 = m /\ m \in 0..(m + 1) /\ m # m + 1
        BY <3>1
      <4>2. more[k - 1] = run[k - 1] /\ more[k] = step(run, k)
        BY <3>1, <4>1
      <4> HIDE DEF more
      <4> QED
        BY <4>1, <4>2
    <3>2. CASE k # m + 1
      <4>1. k \in 0..m /\ (k # 0 => k - 1 \in 0..(m + 1) /\ k - 1 # m + 1)
        BY <2>3, <3>2
      <4>2. more[k] = run[k] /\ (k # 0 => more[k - 1] = run[k - 1])
        BY <2>3, <3>2, <4>1
      <4>3. run[k] = step(run, k)
        BY <2>2, <4>1
      <4> HIDE DEF more
      <4> QED
        BY <4>2, <4>3
    <3> QED
      BY <3>1, <3>2
  <2>4. more = [k \in 0..(m + 1) |-> more[k]]
    OBVIOUS
  <2> HIDE DEF more
  <2>5. Run(loop, t, items, m + 1, more)
    BY <2>3, <2>4 DEF Run
  <2> QED
    BY <2>5
<1> HIDE DEF P
<1>3. n \in P
  BY <1>1, <1>2, SetInduction
<1> QED
  BY <1>3 DEF P

\* If each item conflicts or grows the tables, so does the loop.
LEMMA RunGrows ==
    ASSUME NEW loop, NEW t, Tables(t), NEW items, NEW n \in Nat, NEW run,
           Run(loop, t, items, n, run),
           \A i \in 1..n : \A u : Tables(u) =>
              Recorded(loop, u, items[i]) = Conflict \/ Grows(u, Recorded(loop, u, items[i]))
    PROVE  run[n] = Conflict \/ Grows(t, run[n])
<1> DEFINE step(k) == IF k = 0 THEN t
                      ELSE IF run[k - 1] = Conflict THEN Conflict
                      ELSE Recorded(loop, run[k - 1], items[k])
           P == {m \in Nat : m <= n => run[m] = Conflict \/ Grows(t, run[m])}
<1>0. \A k \in 0..n : run[k] = step(k)
  BY DEF Run
<1>1. 0 \in P
  BY <1>0, GrowsAtAll
<1>2. ASSUME NEW m \in Nat, m \in P  PROVE m + 1 \in P
  <2> SUFFICES ASSUME m + 1 <= n
               PROVE  run[m + 1] = Conflict \/ Grows(t, run[m + 1])
    OBVIOUS
  <2>1. m + 1 \in 0..n /\ m + 1 # 0 /\ (m + 1) - 1 = m /\ m + 1 \in 1..n /\ m <= n
    OBVIOUS
  <2>2. run[m + 1] = IF run[m] = Conflict THEN Conflict
                     ELSE Recorded(loop, run[m], items[m + 1])
    BY <1>0, <2>1
  <2>3. run[m] = Conflict \/ Grows(t, run[m])
    BY <1>2, <2>1
  <2> HIDE DEF P
  <2>4. CASE run[m] = Conflict
    BY <2>2, <2>4
  <2>5. CASE run[m] # Conflict
    <3>1. Grows(t, run[m]) /\ Tables(run[m])
      BY <2>3, <2>5 DEF Grows
    <3>2. run[m + 1] = Conflict \/ Grows(run[m], run[m + 1])
      BY <2>1, <2>2, <2>5, <3>1
    <3> QED
      BY <3>1, <3>2, GrowsOn
  <2> QED
    BY <2>4, <2>5
<1> HIDE DEF P
<1>3. n \in P
  BY <1>1, <1>2, SetInduction
<1> QED
  BY <1>3 DEF P

\* The members of an aggregate, one after the other.
AllMembers(t, aggregate, key, cset, items) ==
    InOrder(t, items, LAMBDA v, item : InsertMcmmMember(v, aggregate, key, cset, item))

\* The members of an aggregate conflict or grow the tables.
LEMMA MembersGrow ==
    ASSUME NEW t, Tables(t), NEW items, Len(items) \in Nat, NEW aggregate, NEW key, NEW cset,
           \A i \in 1..Len(items) : \A u : Tables(u) =>
              LET v == InsertMcmmMember(u, aggregate, key, cset, items[i]) IN
              v = Conflict \/ Grows(u, v)
    PROVE  LET u == AllMembers(t, aggregate, key, cset, items) IN
           u = Conflict \/ Grows(t, u)
<1> DEFINE loop == [kind |-> "members", aggregate |-> aggregate, key |-> key, cset |-> cset]
           after[k \in 0..Len(items)] ==
             IF k = 0 THEN t
             ELSE IF after[k - 1] = Conflict THEN Conflict
             ELSE InsertMcmmMember(after[k - 1], aggregate, key, cset, items[k])
<1>1. \A u, item : Recorded(loop, u, item) = InsertMcmmMember(u, aggregate, key, cset, item)
  BY DEF Recorded
<1>2. AllMembers(t, aggregate, key, cset, items) = after[Len(items)]
  BY DEF AllMembers, InOrder, Then
<1> HIDE DEF loop
<1>3. \E f : f = [k \in 0..Len(items) |->
             IF k = 0 THEN t
             ELSE IF f[k - 1] = Conflict THEN Conflict
             ELSE InsertMcmmMember(f[k - 1], aggregate, key, cset, items[k])]
  <2>1. \E run : Run(loop, t, items, Len(items), run)
    BY RunExists
  <2> QED
    BY <1>1, <2>1 DEF Run
<1>4. after = [k \in 0..Len(items) |->
             IF k = 0 THEN t
             ELSE IF after[k - 1] = Conflict THEN Conflict
             ELSE InsertMcmmMember(after[k - 1], aggregate, key, cset, items[k])]
  BY <1>3
<1> HIDE DEF after
<1>5. Run(loop, t, items, Len(items), after)
  BY <1>1, <1>4 DEF Run
<1>6. after[Len(items)] = Conflict \/ Grows(t, after[Len(items)])
  BY <1>1, <1>5, RunGrows
<1> QED
  BY <1>2, <1>6

\* The members of an imported aggregate.
AllLegacyMembers(t, aggregate, key, items) ==
    InOrder(t, items, LAMBDA v, item : InsertLegacyMcmmMember(v, aggregate, key, item))

\* So do those of an imported one.
LEMMA LegacyMembersGrow ==
    ASSUME NEW t, Tables(t), NEW items, Len(items) \in Nat, NEW aggregate, NEW key,
           \A i \in 1..Len(items) : \A u : Tables(u) =>
              LET v == InsertLegacyMcmmMember(u, aggregate, key, items[i]) IN
              v = Conflict \/ Grows(u, v)
    PROVE  LET u == AllLegacyMembers(t, aggregate, key, items) IN
           u = Conflict \/ Grows(t, u)
<1> DEFINE loop == [kind |-> "legacy members", aggregate |-> aggregate, key |-> key]
           after[k \in 0..Len(items)] ==
             IF k = 0 THEN t
             ELSE IF after[k - 1] = Conflict THEN Conflict
             ELSE InsertLegacyMcmmMember(after[k - 1], aggregate, key, items[k])
<1>1. \A u, item : Recorded(loop, u, item) = InsertLegacyMcmmMember(u, aggregate, key, item)
  BY DEF Recorded
<1>2. AllLegacyMembers(t, aggregate, key, items) = after[Len(items)]
  BY DEF AllLegacyMembers, InOrder, Then
<1> HIDE DEF loop
<1>3. \E f : f = [k \in 0..Len(items) |->
             IF k = 0 THEN t
             ELSE IF f[k - 1] = Conflict THEN Conflict
             ELSE InsertLegacyMcmmMember(f[k - 1], aggregate, key, items[k])]
  <2>1. \E run : Run(loop, t, items, Len(items), run)
    BY RunExists
  <2> QED
    BY <1>1, <2>1 DEF Run
<1>4. after = [k \in 0..Len(items) |->
             IF k = 0 THEN t
             ELSE IF after[k - 1] = Conflict THEN Conflict
             ELSE InsertLegacyMcmmMember(after[k - 1], aggregate, key, items[k])]
  BY <1>3
<1> HIDE DEF after
<1>5. Run(loop, t, items, Len(items), after)
  BY <1>1, <1>4 DEF Run
<1>6. after[Len(items)] = Conflict \/ Grows(t, after[Len(items)])
  BY <1>1, <1>5, RunGrows
<1> QED
  BY <1>2, <1>6

\* The rows of the candidates of a session.
AllCandidates(t, session, items) ==
    InOrder(t, items, LAMBDA v, item : InsertCandidate(v, session, item))

\* The rows of the candidates conflict or grow the tables.
LEMMA CandidatesGrow ==
    ASSUME NEW t, Tables(t), NEW items, Len(items) \in Nat, NEW session,
           \A i \in 1..Len(items) : \A u : Tables(u) =>
              LET v == InsertCandidate(u, session, items[i]) IN
              v = Conflict \/ Grows(u, v)
    PROVE  LET u == AllCandidates(t, session, items) IN
           u = Conflict \/ Grows(t, u)
<1> DEFINE loop == [kind |-> "candidates", session |-> session]
           after[k \in 0..Len(items)] ==
             IF k = 0 THEN t
             ELSE IF after[k - 1] = Conflict THEN Conflict
             ELSE InsertCandidate(after[k - 1], session, items[k])
<1>1. \A u, item : Recorded(loop, u, item) = InsertCandidate(u, session, item)
  BY DEF Recorded
<1>2. AllCandidates(t, session, items) = after[Len(items)]
  BY DEF AllCandidates, InOrder, Then
<1> HIDE DEF loop
<1>3. \E f : f = [k \in 0..Len(items) |->
             IF k = 0 THEN t
             ELSE IF f[k - 1] = Conflict THEN Conflict
             ELSE InsertCandidate(f[k - 1], session, items[k])]
  <2>1. \E run : Run(loop, t, items, Len(items), run)
    BY RunExists
  <2> QED
    BY <1>1, <2>1 DEF Run
<1>4. after = [k \in 0..Len(items) |->
             IF k = 0 THEN t
             ELSE IF after[k - 1] = Conflict THEN Conflict
             ELSE InsertCandidate(after[k - 1], session, items[k])]
  BY <1>3
<1> HIDE DEF after
<1>5. Run(loop, t, items, Len(items), after)
  BY <1>1, <1>4 DEF Run
<1>6. after[Len(items)] = Conflict \/ Grows(t, after[Len(items)])
  BY <1>1, <1>5, RunGrows
<1> QED
  BY <1>2, <1>6

\* The evidence of the candidates of a session.
AllEvidence(t, session, items) ==
    InOrder(t, items, LAMBDA v, item : RecordEvidence(v, session, item))

\* So does their evidence.
LEMMA AllEvidenceGrows ==
    ASSUME NEW t, Tables(t), NEW items, Len(items) \in Nat, NEW session,
           \A i \in 1..Len(items) : \A u : Tables(u) =>
              LET v == RecordEvidence(u, session, items[i]) IN
              v = Conflict \/ Grows(u, v)
    PROVE  LET u == AllEvidence(t, session, items) IN
           u = Conflict \/ Grows(t, u)
<1> DEFINE loop == [kind |-> "evidence", session |-> session]
           after[k \in 0..Len(items)] ==
             IF k = 0 THEN t
             ELSE IF after[k - 1] = Conflict THEN Conflict
             ELSE RecordEvidence(after[k - 1], session, items[k])
<1>1. \A u, item : Recorded(loop, u, item) = RecordEvidence(u, session, item)
  BY DEF Recorded
<1>2. AllEvidence(t, session, items) = after[Len(items)]
  BY DEF AllEvidence, InOrder, Then
<1> HIDE DEF loop
<1>3. \E f : f = [k \in 0..Len(items) |->
             IF k = 0 THEN t
             ELSE IF f[k - 1] = Conflict THEN Conflict
             ELSE RecordEvidence(f[k - 1], session, items[k])]
  <2>1. \E run : Run(loop, t, items, Len(items), run)
    BY RunExists
  <2> QED
    BY <1>1, <2>1 DEF Run
<1>4. after = [k \in 0..Len(items) |->
             IF k = 0 THEN t
             ELSE IF after[k - 1] = Conflict THEN Conflict
             ELSE RecordEvidence(after[k - 1], session, items[k])]
  BY <1>3
<1> HIDE DEF after
<1>5. Run(loop, t, items, Len(items), after)
  BY <1>1, <1>4 DEF Run
<1>6. after[Len(items)] = Conflict \/ Grows(t, after[Len(items)])
  BY <1>1, <1>5, RunGrows
<1> QED
  BY <1>2, <1>6

\* The candidates of an imported snapshot.
AllLegacyCandidates(t, session, items) ==
    InOrder(t, items, LAMBDA v, item : InsertLegacyCandidate(v, session, item))

\* So does a snapshot.
LEMMA LegacyCandidatesGrow ==
    ASSUME NEW t, Tables(t), NEW items, Len(items) \in Nat, NEW session,
           \A i \in 1..Len(items) : \A u : Tables(u) =>
              LET v == InsertLegacyCandidate(u, session, items[i]) IN
              v = Conflict \/ Grows(u, v)
    PROVE  LET u == AllLegacyCandidates(t, session, items) IN
           u = Conflict \/ Grows(t, u)
<1> DEFINE loop == [kind |-> "legacy candidates", session |-> session]
           after[k \in 0..Len(items)] ==
             IF k = 0 THEN t
             ELSE IF after[k - 1] = Conflict THEN Conflict
             ELSE InsertLegacyCandidate(after[k - 1], session, items[k])
<1>1. \A u, item : Recorded(loop, u, item) = InsertLegacyCandidate(u, session, item)
  BY DEF Recorded
<1>2. AllLegacyCandidates(t, session, items) = after[Len(items)]
  BY DEF AllLegacyCandidates, InOrder, Then
<1> HIDE DEF loop
<1>3. \E f : f = [k \in 0..Len(items) |->
             IF k = 0 THEN t
             ELSE IF f[k - 1] = Conflict THEN Conflict
             ELSE InsertLegacyCandidate(f[k - 1], session, items[k])]
  <2>1. \E run : Run(loop, t, items, Len(items), run)
    BY RunExists
  <2> QED
    BY <1>1, <2>1 DEF Run
<1>4. after = [k \in 0..Len(items) |->
             IF k = 0 THEN t
             ELSE IF after[k - 1] = Conflict THEN Conflict
             ELSE InsertLegacyCandidate(after[k - 1], session, items[k])]
  BY <1>3
<1> HIDE DEF after
<1>5. Run(loop, t, items, Len(items), after)
  BY <1>1, <1>4 DEF Run
<1>6. after[Len(items)] = Conflict \/ Grows(t, after[Len(items)])
  BY <1>1, <1>5, RunGrows
<1> QED
  BY <1>2, <1>6

-----------------------------------------------------------------------------
(* Each recording grows the tables or conflicts.                           *)

\* An aggregate with all its members.
LEMMA McmmGrows ==
    ASSUME NEW t, Tables(t), NEW key, NEW cset, NEW members, Len(members) \in Nat
    PROVE  LET u == RecordMcmm(t, key, cset, members) IN
           \/ u = Conflict
           \/ Grows(t, u) /\ AggregateId(key, members) \in DOMAIN u.aggregates
<1> DEFINE aggregate == AggregateId(key, members)
           aggregates == With(t.aggregates, aggregate, [sid \in {} |-> None])
           opened == [t EXCEPT !.aggregates = aggregates]
           u == AllMembers(opened, aggregate, key, cset, members)
<1>1. CASE aggregate \in DOMAIN t.aggregates
  BY <1>1, GrowsAtAll DEF RecordMcmm
<1>2. CASE aggregate \notin DOMAIN t.aggregates
  <2>1. RecordMcmm(t, key, cset, members) = u
    BY <1>2 DEF RecordMcmm, AllMembers, InOrder, Then
  <2>2. DOMAIN aggregates = DOMAIN t.aggregates \cup {aggregate}
    BY DEF With
  <2> HIDE DEF aggregates
  <2>3. Grows(t, opened) /\ opened.aggregates = aggregates
    BY <2>2, AggregatesGrow
  <2> HIDE DEF opened, aggregate
  <2>4. Tables(opened)
    BY <2>3 DEF Grows
  <2>5. \A i \in 1..Len(members) : \A v : Tables(v) =>
            LET w == InsertMcmmMember(v, aggregate, key, cset, members[i]) IN
            w = Conflict \/ Grows(v, w)
    BY MemberGrows
  <2>6. u = Conflict \/ Grows(opened, u)
    BY <2>4, <2>5, MembersGrow
  <2> HIDE DEF u
  <2>7. Grows(opened, u) => Grows(t, u) /\ aggregate \in DOMAIN u.aggregates
    BY <2>2, <2>3, GrowsOn DEF Grows
  <2> QED
    BY <2>1, <2>6, <2>7 DEF aggregate
<1> QED
  BY <1>1, <1>2

\* A candidate's evidence.
LEMMA EvidenceGrows ==
    ASSUME NEW t, Tables(t), NEW session, NEW c, c.mcmm # None => Len(c.mcmm) \in Nat
    PROVE  LET u == RecordEvidence(t, session, c) IN u = Conflict \/ Grows(t, u)
<1> DEFINE key == CandidateKey(session, c.id)
<1>1. CASE c.mcmm # None
  <2>1. RecordEvidence(t, session, c) = RecordMcmm(t, key, c.cset, c.mcmm)
    BY <1>1 DEF RecordEvidence
  <2> QED
    BY <1>1, <2>1, McmmGrows
<1>2. CASE c.mcmm = None /\ c.qor # None
  <2>1. RecordEvidence(t, session, c) = RecordCandidateQor(t, key, c)
    BY <1>2 DEF RecordEvidence
  <2> QED
    BY <2>1, CandidateQorGrows
<1>3. CASE c.mcmm = None /\ c.qor = None
  <2>1. RecordEvidence(t, session, c) = t
    BY <1>3 DEF RecordEvidence
  <2> QED
    BY <2>1, GrowsAtAll
<1> QED
  BY <1>1, <1>2, <1>3

\* Imported evidence, which never takes a run of somebody else.
LEMMA LegacyEvidenceGrows ==
    ASSUME NEW t, Tables(t), NEW key, NEW run, NEW logical, NEW fingerprint
    PROVE  LET u == InsertLegacyEvidence(t, key, run, logical, fingerprint) IN
           u = Conflict \/ Grows(t, u)
<1> DEFINE eid == IF run = None THEN logical ELSE Physical(run)
           v == EvaluationValues("legacy_import", key, fingerprint, fingerprint, None, None)
           u == InsertLegacyEvidence(t, key, run, logical, fingerprint)
<1>1. CASE Known(t, run) /\ ~FreeFor(t, run, key)
  BY <1>1 DEF InsertLegacyEvidence
<1>2. CASE Known(t, run) /\ FreeFor(t, run, key)
  <2>1. u = Linked(t, Physical(run), key)
    BY <1>2 DEF InsertLegacyEvidence
  <2>2. Physical(run) \in DOMAIN t.evals /\ t.evals[Physical(run)].link \in {None, key}
    BY <1>2 DEF Known, FreeFor
  <2> HIDE DEF u
  <2> QED
    BY <2>1, <2>2, LinkGrows DEF u
<1>3. CASE ~Known(t, run) /\ eid \in DOMAIN t.evals
  <2>1. u = t
    BY <1>3 DEF InsertLegacyEvidence
  <2> QED
    BY <2>1, GrowsAtAll
<1>4. CASE ~Known(t, run) /\ eid \notin DOMAIN t.evals
  <2>1. u = InsertEvaluationGraph(t, eid, v)
    BY <1>4 DEF InsertLegacyEvidence
  <2>2. v = [column \in EvidenceColumns |-> v[column]]
    BY NewEvidence
  <2> HIDE DEF v, eid
  <2> QED
    BY <2>1, <2>2, EvaluationGrows
<1> QED
  BY <1>1, <1>2, <1>3, <1>4

\* One member of an imported aggregate.
LEMMA LegacyMemberGrows ==
    ASSUME NEW t, Tables(t), NEW aggregate, NEW key, NEW member
    PROVE  LET u == InsertLegacyMcmmMember(t, aggregate, key, member) IN
           u = Conflict \/ Grows(t, u)
<1> DEFINE run == IF member.qor = None THEN None ELSE member.qor.run
           eid == CASE member.qor = None -> None
                    [] run = None /\ member.qor # None -> LegacyMemberId(key, member.sid)
                    [] OTHER -> Physical(run)
           stored == IF member.qor = None THEN t
                     ELSE InsertLegacyEvidence(t, key, run,
                              LegacyMemberId(key, member.sid),
                              <<"legacy_mcmm", aggregate, member.sid, member.qor.content>>)
           u == [stored EXCEPT !.aggregates[aggregate] = With(@, member.sid, eid)]
<1>1. InsertLegacyMcmmMember(t, aggregate, key, member)
        = IF stored = Conflict THEN Conflict ELSE u
  BY DEF InsertLegacyMcmmMember, Then
<1>2. stored = Conflict \/ Grows(t, stored)
  BY GrowsAtAll, LegacyEvidenceGrows
<1> HIDE DEF eid, run, stored
<1>3. ASSUME Grows(t, stored)  PROVE Grows(t, u)
  <2>1. Tables(stored)
    BY <1>3 DEF Grows
  <2> DEFINE aggregates == [stored.aggregates EXCEPT ![aggregate] = With(@, member.sid, eid)]
  <2>2. u = [stored EXCEPT !.aggregates = aggregates]
    OBVIOUS
  <2>3. DOMAIN aggregates = DOMAIN stored.aggregates
    OBVIOUS
  <2> HIDE DEF aggregates
  <2>4. Grows(stored, u)
    BY <2>1, <2>2, <2>3, AggregatesGrow
  <2> QED
    BY <1>3, <2>4, GrowsOn
<1> QED
  BY <1>1, <1>2, <1>3

\* An imported aggregate.
LEMMA LegacyMcmmGrows ==
    ASSUME NEW t, Tables(t), NEW key, NEW members, Len(members) \in Nat
    PROVE  LET u == InsertLegacyMcmm(t, key, members) IN u = Conflict \/ Grows(t, u)
<1> DEFINE aggregate == <<"legacy", key, members>>
           aggregates == With(t.aggregates, aggregate, [sid \in {} |-> None])
           opened == [t EXCEPT !.aggregates = aggregates]
           u == AllLegacyMembers(opened, aggregate, key, members)
<1>1. InsertLegacyMcmm(t, key, members) = u
  BY DEF InsertLegacyMcmm, AllLegacyMembers, InOrder, Then
<1>2. DOMAIN t.aggregates \subseteq DOMAIN aggregates
  BY DEF With
<1> HIDE DEF aggregates
<1>3. Grows(t, opened)
  BY <1>2, AggregatesGrow
<1> HIDE DEF opened, aggregate
<1>4. Tables(opened)
  BY <1>3 DEF Grows
<1>5. \A i \in 1..Len(members) : \A v : Tables(v) =>
          LET w == InsertLegacyMcmmMember(v, aggregate, key, members[i]) IN
          w = Conflict \/ Grows(v, w)
  BY LegacyMemberGrows
<1>6. u = Conflict \/ Grows(opened, u)
  BY <1>4, <1>5, LegacyMembersGrow
<1> HIDE DEF u
<1> QED
  BY <1>1, <1>3, <1>6, GrowsOn

\* A candidate of an imported snapshot: its row, its evidence, its aggregate.
LEMMA LegacyCandidateGrows ==
    ASSUME NEW t, Tables(t), NEW session, NEW c, c.mcmm # None => Len(c.mcmm) \in Nat
    PROVE  LET u == InsertLegacyCandidate(t, session, c) IN u = Conflict \/ Grows(t, u)
<1> DEFINE key == CandidateKey(session, c.id)
           listed == InsertCandidate(t, session, [c EXCEPT !.cset = None])
           evidence(v) == IF c.qor = None THEN v
                          ELSE InsertLegacyEvidence(v, key, c.qor.run, LegacyId(key),
                                  <<"legacy_candidate", key, c.qor.content>>)
           entered == IF listed = Conflict THEN Conflict ELSE evidence(listed)
           u == IF entered = Conflict THEN Conflict
                ELSE IF c.mcmm = None THEN entered
                ELSE InsertLegacyMcmm(entered, key, c.mcmm)
<1>1. InsertLegacyCandidate(t, session, c) = u
  BY DEF InsertLegacyCandidate, Then
<1>2. listed = Conflict \/ Grows(t, listed)
  BY CandidateGrows
<1> HIDE DEF listed
<1>3. entered = Conflict \/ Grows(t, entered)
  <2>1. CASE listed = Conflict
    BY <2>1
  <2>2. CASE listed # Conflict
    <3>1. Grows(t, listed) /\ Tables(listed)
      BY <1>2, <2>2 DEF Grows
    <3>2. entered = evidence(listed)
      BY <2>2
    <3>3. evidence(listed) = Conflict \/ Grows(listed, evidence(listed))
      BY <3>1, GrowsAtAll, LegacyEvidenceGrows
    <3> HIDE DEF evidence, entered
    <3> QED
      BY <3>1, <3>2, <3>3, GrowsOn
  <2> QED
    BY <2>1, <2>2
<1> HIDE DEF entered
<1>4. u = Conflict \/ Grows(t, u)
  <2>1. CASE entered = Conflict
    BY <2>1
  <2>2. CASE entered # Conflict /\ c.mcmm = None
    BY <1>3, <2>2
  <2>3. CASE entered # Conflict /\ c.mcmm # None
    <3>1. Grows(t, entered) /\ Tables(entered)
      BY <1>3, <2>3 DEF Grows
    <3>2. u = InsertLegacyMcmm(entered, key, c.mcmm)
      BY <2>3
    <3>3. u = Conflict \/ Grows(entered, u)
      BY <2>3, <3>1, <3>2, LegacyMcmmGrows
    <3> HIDE DEF u
    <3> QED
      BY <3>1, <3>3, GrowsOn
  <2> QED
    BY <2>1, <2>2, <2>3
<1> QED
  BY <1>1, <1>4

\* A list has a length, and its items are its range.
LEMMA ListItems ==
    ASSUME NEW candidates, Listed(candidates)
    PROVE  /\ Len(candidates) \in Nat
           /\ \A i \in 1..Len(candidates) :
                 candidates[i].mcmm # None => Len(candidates[i].mcmm) \in Nat
<1> DEFINE S == Range(candidates)
<1>1. candidates \in Seq(S) /\ \A c \in S : c.mcmm # None => Len(c.mcmm) \in Nat
  BY DEF Listed
<1> HIDE DEF S
<1>2. Len(candidates) \in Nat /\ \A i \in 1..Len(candidates) : candidates[i] \in S
  BY <1>1
<1> QED
  BY <1>1, <1>2

\* The foreign keys: a parent is a candidate, and so is an owner.
Keyed(t) ==
    /\ \A k \in DOMAIN t.candidates : t.candidates[k] \in DOMAIN t.candidates \cup {None}
    /\ \A e \in DOMAIN t.evals : t.evals[e].link \in DOMAIN t.candidates \cup {None}

\* Commit changes nothing, and passes only when the keys are there.
LEMMA CommitKeeps ==
    ASSUME NEW t
    PROVE  /\ Keyed(t) => Committed(t) = t
           /\ Committed(t) = Conflict \/ (Committed(t) = t /\ Keyed(t))
BY DEF Committed, Keyed

\* Evidence nobody owns may be recorded without a look at the keys.
LEMMA UnownedKeepsKeys ==
    ASSUME NEW t, Tables(t), Keyed(t), NEW eid, NEW v, v.link = None,
           InsertEvaluationGraph(t, eid, v) # Conflict
    PROVE  Keyed(InsertEvaluationGraph(t, eid, v))
<1>1. CASE eid \notin DOMAIN t.evals
  <2> DEFINE evals == With(t.evals, eid, v)
             u == [t EXCEPT !.evals = evals]
  <2>1. /\ DOMAIN evals = DOMAIN t.evals \cup {eid}
        /\ \A e \in DOMAIN evals : evals[e] = IF e = eid THEN v ELSE t.evals[e]
    BY DEF With
  <2>2. InsertEvaluationGraph(t, eid, v) = u
    BY <1>1 DEF InsertEvaluationGraph
  <2> HIDE DEF evals
  <2>3. u.evals = evals /\ u.candidates = t.candidates
    BY DEF Tables, Columns
  <2> HIDE DEF u
  <2>4. Keyed(u)
    BY <2>1, <2>3 DEF Keyed
  <2> QED
    BY <2>2, <2>4
<1>2. CASE eid \in DOMAIN t.evals
  <2>1. InsertEvaluationGraph(t, eid, v) = t
    BY <1>2 DEF InsertEvaluationGraph
  <2> QED
    BY <2>1
<1> QED
  BY <1>1, <1>2

\* A flow run: its evidence, under its run.
FlowEvidence(flow) ==
    EvaluationValues("flow", None, <<"flow", flow.run, flow.memory, flow.cset>>,
        ArtifactFingerprint(flow.run, flow.memory), None, flow.cset)

\* Indexing a flow run conflicts, or grows the tables and leaves the run's evidence.
LEMMA FlowGrows ==
    ASSUME NEW t, Tables(t), Keyed(t), NEW flow
    PROVE  LET u == RecordFlowEvaluation(t, flow)
               eid == Physical(flow.run) IN
           \/ u = Conflict
           \/ /\ Grows(t, u) /\ Keyed(u)
              /\ flow.cset \in u.csets \cup {None}
              /\ eid \in DOMAIN u.evals /\ SameEvidence(u.evals[eid], FlowEvidence(flow))
<1> DEFINE named == InsertConstraintSet(t, flow.cset)
           eid == Physical(flow.run)
           v == FlowEvidence(flow)
           u == InsertEvaluationGraph(named, eid, v)
<1>1. RecordFlowEvaluation(t, flow) = u
  BY DEF RecordFlowEvaluation, FlowEvidence
<1>2. v = [column \in EvidenceColumns |-> v[column]] /\ v.link = None
  BY NewEvidence DEF FlowEvidence
<1>3. Grows(t, named)
  BY ConstraintSetGrows
<1>4. /\ named.candidates = t.candidates /\ named.evals = t.evals
      /\ flow.cset \in named.csets \cup {None}
  BY DEF InsertConstraintSet, Tables, Columns
<1> HIDE DEF v, named, eid
<1>5. Tables(named) /\ Keyed(named)
  BY <1>3, <1>4 DEF Grows, Keyed
<1>6. \/ u = Conflict
      \/ Grows(named, u) /\ eid \in DOMAIN u.evals /\ SameEvidence(u.evals[eid], v)
  BY <1>2, <1>5, EvaluationGrows
<1>7. u # Conflict => Keyed(u)
  BY <1>2, <1>5, UnownedKeepsKeys
<1> HIDE DEF u
<1>8. Grows(named, u) => Grows(t, u) /\ flow.cset \in u.csets \cup {None}
  BY <1>3, <1>4, GrowsOn DEF Grows
<1> QED
  BY <1>1, <1>6, <1>7, <1>8 DEF v, eid

\* A run directory: its evidence, under its run.
LegacyEvidence(run, content) ==
    LET fingerprint == ArtifactFingerprint(run, content) IN
    EvaluationValues("legacy_import", None, fingerprint, fingerprint, None, None)

\* So does the import of a run directory.
LEMMA LegacyRunGrows ==
    ASSUME NEW t, Tables(t), Keyed(t), NEW run, NEW content
    PROVE  LET u == ImportLegacyRun(t, run, content)
               eid == Physical(run) IN
           \/ u = Conflict
           \/ /\ Grows(t, u) /\ Keyed(u)
              /\ eid \in DOMAIN u.evals /\ SameEvidence(u.evals[eid], LegacyEvidence(run, content))
<1> DEFINE v == LegacyEvidence(run, content)
           eid == Physical(run)
           u == InsertEvaluationGraph(t, eid, v)
<1>1. ImportLegacyRun(t, run, content) = u
  BY DEF ImportLegacyRun, LegacyEvidence
<1>2. v = [column \in EvidenceColumns |-> v[column]] /\ v.link = None
  BY NewEvidence DEF LegacyEvidence
<1> HIDE DEF v, eid
<1>3. \/ u = Conflict
      \/ Grows(t, u) /\ eid \in DOMAIN u.evals /\ SameEvidence(u.evals[eid], v)
  BY <1>2, EvaluationGrows
<1>4. u # Conflict => Keyed(u)
  BY <1>2, UnownedKeepsKeys
<1> QED
  BY <1>1, <1>3, <1>4 DEF v, eid

\* A new session, then all its candidates, then all their evidence.
LEMMA OptimizerSessionGrows ==
    ASSUME NEW t, Tables(t), Keyed(t), NEW session, NEW candidates, Listed(candidates)
    PROVE  LET u == RecordOptimizerSession(t, session, candidates) IN
           \/ u = Conflict
           \/ /\ Grows(t, u) /\ Keyed(u)
              /\ session \in DOMAIN u.sessions /\ u.sessions[session] = candidates
<1> DEFINE opened == [t EXCEPT !.sessions = With(@, session, candidates)]
           listed == AllCandidates(opened, session, candidates)
           entered == IF listed = Conflict THEN Conflict
                      ELSE AllEvidence(listed, session, candidates)
           u == IF entered = Conflict THEN Conflict ELSE Committed(entered)
<1>0. /\ Len(candidates) \in Nat
      /\ \A i \in 1..Len(candidates) :
            candidates[i].mcmm # None => Len(candidates[i].mcmm) \in Nat
  BY ListItems
<1>1. CASE session \in DOMAIN t.sessions
  BY <1>1, GrowsAtAll DEF RecordOptimizerSession
<1>2. CASE session \notin DOMAIN t.sessions
  <2>1. RecordOptimizerSession(t, session, candidates) = u
    BY <1>2 DEF RecordOptimizerSession, Then, AllCandidates, AllEvidence, InOrder
  <2>2. /\ Grows(t, opened)
        /\ session \in DOMAIN opened.sessions /\ opened.sessions[session] = candidates
    BY <1>2, SessionGrows
  <2> HIDE DEF opened
  <2>3. Tables(opened)
    BY <2>2 DEF Grows
  <2>4. listed = Conflict \/ Grows(opened, listed)
    BY <1>0, <2>3, CandidateGrows, CandidatesGrow
  <2> HIDE DEF listed
  <2>5. entered = Conflict \/ Grows(opened, entered)
    <3>1. CASE listed = Conflict
      BY <3>1
    <3>2. CASE listed # Conflict
      <4>1. Grows(opened, listed) /\ Tables(listed)
        BY <2>4, <3>2 DEF Grows
      <4>2. \A i \in 1..Len(candidates) : \A v : Tables(v) =>
              LET w == RecordEvidence(v, session, candidates[i]) IN
              w = Conflict \/ Grows(v, w)
        BY <1>0, EvidenceGrows
      <4> DEFINE all == AllEvidence(listed, session, candidates)
      <4>3. all = Conflict \/ Grows(listed, all)
        BY <1>0, <4>1, <4>2, AllEvidenceGrows
      <4> HIDE DEF all
      <4>4. Grows(listed, all) => Grows(opened, all)
        BY <2>3, <4>1, GrowsOn
      <4> QED
        BY <3>2, <4>3, <4>4 DEF all
    <3> QED
      BY <3>1, <3>2
  <2> HIDE DEF entered
  <2>6. u = Conflict \/ (u = entered /\ entered # Conflict /\ Keyed(u))
    BY CommitKeeps
  <2> HIDE DEF u
  <2>7. Grows(opened, u) =>
          /\ Grows(t, u)
          /\ session \in DOMAIN u.sessions /\ u.sessions[session] = candidates
    BY <2>2, GrowsOn DEF Grows
  <2> QED
    BY <2>1, <2>5, <2>6, <2>7
<1> QED
  BY <1>1, <1>2

\* An imported snapshot.
LEMMA LegacySnapshotGrows ==
    ASSUME NEW t, Tables(t), Keyed(t), NEW candidates, Listed(candidates), NEW hashed
    PROVE  LET u == ImportLegacySnapshot(t, candidates, hashed) IN
           \/ u = Conflict
           \/ Grows(t, u) /\ Keyed(u) /\ LegacySession(hashed) \in DOMAIN u.sessions
<1> DEFINE session == LegacySession(hashed)
           opened == [t EXCEPT !.sessions = With(@, session, hashed)]
           entered == AllLegacyCandidates(opened, session, candidates)
           u == IF entered = Conflict THEN Conflict ELSE Committed(entered)
<1>0. /\ Len(candidates) \in Nat
      /\ \A i \in 1..Len(candidates) :
            candidates[i].mcmm # None => Len(candidates[i].mcmm) \in Nat
  BY ListItems
<1>1. CASE session \in DOMAIN t.sessions
  BY <1>1, GrowsAtAll DEF ImportLegacySnapshot
<1>2. CASE session \notin DOMAIN t.sessions
  <2>1. ImportLegacySnapshot(t, candidates, hashed) = u
    BY <1>2 DEF ImportLegacySnapshot, Then, AllLegacyCandidates, InOrder
  <2> HIDE DEF session
  <2>2. Grows(t, opened) /\ session \in DOMAIN opened.sessions
    BY <1>2, SessionGrows
  <2> HIDE DEF opened
  <2>3. Tables(opened)
    BY <2>2 DEF Grows
  <2>4. \A i \in 1..Len(candidates) : \A v : Tables(v) =>
          LET w == InsertLegacyCandidate(v, session, candidates[i]) IN
          w = Conflict \/ Grows(v, w)
    BY <1>0, LegacyCandidateGrows
  <2>5. entered = Conflict \/ Grows(opened, entered)
    BY <1>0, <2>3, <2>4, LegacyCandidatesGrow
  <2> HIDE DEF entered
  <2>6. u = Conflict \/ (u = entered /\ entered # Conflict /\ Keyed(u))
    BY CommitKeeps
  <2> HIDE DEF u
  <2>7. Grows(opened, u) => Grows(t, u) /\ session \in DOMAIN u.sessions
    BY <2>2, GrowsOn DEF Grows
  <2> QED
    BY <2>1, <2>5, <2>6, <2>7 DEF session
<1> QED
  BY <1>1, <1>2

\* An aggregate of a recorded candidate.
LEMMA AggregateGrows ==
    ASSUME NEW t, Tables(t), Keyed(t), NEW session, NEW c, Len(c.mcmm) \in Nat
    PROVE  LET u == RecordMcmmAggregate(t, session, c)
               key == CandidateKey(session, c.id) IN
           \/ u = Conflict
           \/ /\ Grows(t, u) /\ Keyed(u)
              /\ key \in DOMAIN u.candidates
              /\ AggregateId(key, c.mcmm) \in DOMAIN u.aggregates
<1> DEFINE key == CandidateKey(session, c.id)
           entered == RecordMcmm(t, key, c.cset, c.mcmm)
           u == IF entered = Conflict THEN Conflict ELSE Committed(entered)
<1>1. CASE key \notin DOMAIN t.candidates
  BY <1>1 DEF RecordMcmmAggregate
<1>2. CASE key \in DOMAIN t.candidates
  <2>1. RecordMcmmAggregate(t, session, c) = u
    BY <1>2 DEF RecordMcmmAggregate, Then
  <2> HIDE DEF key
  <2>2. \/ entered = Conflict
        \/ Grows(t, entered) /\ AggregateId(key, c.mcmm) \in DOMAIN entered.aggregates
    BY McmmGrows
  <2> HIDE DEF entered
  <2>3. u = Conflict \/ (u = entered /\ entered # Conflict /\ Keyed(u))
    BY CommitKeeps
  <2> HIDE DEF u
  <2>4. Grows(t, u) => key \in DOMAIN u.candidates
    BY <1>2 DEF Grows
  <2> QED
    BY <2>1, <2>2, <2>3, <2>4 DEF key
<1> QED
  BY <1>1, <1>2

-----------------------------------------------------------------------------
(* What was recorded stays, and recording it again changes nothing.        *)

\* What a transaction may be given: an import has two kinds.
Unit(c) ==
    /\ c.op \in {"index", "session", "aggregate", "run", "legacy"}
    /\ c.op \in {"session", "legacy"} => Listed(c.candidates)
    /\ c.op = "aggregate" => Len(c.candidate.mcmm) \in Nat

\* What a recording that succeeded leaves in the tables.
Done(t, c) ==
    /\ c.op = "index" =>
          /\ Physical(c.flow.run) \in DOMAIN t.evals
          /\ SameEvidence(t.evals[Physical(c.flow.run)], FlowEvidence(c.flow))
          /\ c.flow.cset \in t.csets \cup {None}
    /\ c.op = "session" =>
          c.session \in DOMAIN t.sessions /\ t.sessions[c.session] = c.candidates
    /\ c.op = "aggregate" =>
          LET key == CandidateKey(c.session, c.candidate.id) IN
          /\ key \in DOMAIN t.candidates
          /\ AggregateId(key, c.candidate.mcmm) \in DOMAIN t.aggregates
    /\ c.op = "run" =>
          /\ Physical(c.run) \in DOMAIN t.evals
          /\ SameEvidence(t.evals[Physical(c.run)], LegacyEvidence(c.run, c.content))
    /\ c.op = "legacy" => LegacySession(c.hashed) \in DOMAIN t.sessions

\* A transaction that does not conflict grows the tables and leaves its mark.
LEMMA EffectGrows ==
    ASSUME NEW t, Tables(t), Keyed(t), NEW c, Unit(c)
    PROVE  LET u == Effect(t, c) IN
           u = Conflict \/ (Grows(t, u) /\ Keyed(u) /\ Done(u, c))
<1>1. CASE c.op = "index"
    <2>1. Effect(t, c) = RecordFlowEvaluation(t, c.flow)
        BY <1>1 DEF Effect
    <2> QED BY <1>1, <2>1, FlowGrows DEF Done
<1>2. CASE c.op = "session"
    <2>1. Effect(t, c) = RecordOptimizerSession(t, c.session, c.candidates)
        BY <1>2 DEF Effect
    <2> QED BY <1>2, <2>1, OptimizerSessionGrows DEF Done, Unit
<1>3. CASE c.op = "aggregate"
    <2>1. Effect(t, c) = RecordMcmmAggregate(t, c.session, c.candidate)
        BY <1>3 DEF Effect
    <2> QED BY <1>3, <2>1, AggregateGrows DEF Done, Unit
<1>4. CASE c.op = "run"
    <2>1. Effect(t, c) = ImportLegacyRun(t, c.run, c.content)
        BY <1>4 DEF Effect
    <2> QED BY <1>4, <2>1, LegacyRunGrows DEF Done
<1>5. CASE c.op = "legacy"
    <2>1. Effect(t, c) = ImportLegacySnapshot(t, c.candidates, c.hashed)
        BY <1>5 DEF Effect
    <2> QED BY <1>5, <2>1, LegacySnapshotGrows DEF Done, Unit
<1> QED BY <1>1, <1>2, <1>3, <1>4, <1>5 DEF Unit

\* The same evidence later is the same evidence still.
LEMMA EvidenceStays ==
    ASSUME NEW t, Tables(t), NEW u, Grows(t, u), NEW e \in DOMAIN t.evals, NEW v,
           SameEvidence(t.evals[e], v)
    PROVE  e \in DOMAIN u.evals /\ SameEvidence(u.evals[e], v)
<1>1. e \in DOMAIN u.evals /\ SameLater(t.evals[e], u.evals[e])
    BY DEF Grows
<1>2. u.evals[e].source = t.evals[e].source /\ u.evals[e].artifact = t.evals[e].artifact
    BY <1>1 DEF Tables, EvidenceRows, SameLater, EvidenceColumns
<1> QED BY <1>1, <1>2 DEF SameEvidence

\* No growth takes a mark away.
LEMMA DoneStays ==
    ASSUME NEW t, Tables(t), NEW u, Grows(t, u), NEW c, Done(t, c)
    PROVE  Done(u, c)
<1>1. c.op = "index" =>
          /\ Physical(c.flow.run) \in DOMAIN u.evals
          /\ SameEvidence(u.evals[Physical(c.flow.run)], FlowEvidence(c.flow))
          /\ c.flow.cset \in u.csets \cup {None}
    BY EvidenceStays DEF Done, Grows
<1>2. c.op = "run" =>
          /\ Physical(c.run) \in DOMAIN u.evals
          /\ SameEvidence(u.evals[Physical(c.run)], LegacyEvidence(c.run, c.content))
    BY EvidenceStays DEF Done
<1> QED BY <1>1, <1>2 DEF Done, Grows

\* Evidence that is there, and that nobody is to own, is not touched.
LEMMA SameEvidenceIsNoOp ==
    ASSUME NEW t, NEW e \in DOMAIN t.evals, NEW v, v.link = None, SameEvidence(t.evals[e], v)
    PROVE  InsertEvaluationGraph(t, e, v) = t
BY DEF InsertEvaluationGraph

\* A recording that left its mark does nothing.
LEMMA DoneIsNoOp ==
    ASSUME NEW t, Tables(t), Keyed(t), NEW c, Unit(c), Done(t, c)
    PROVE  Effect(t, c) = t
<1>1. CASE c.op = "index"
    <2>1. Effect(t, c) = RecordFlowEvaluation(t, c.flow)
        BY <1>1 DEF Effect
    <2>2. InsertConstraintSet(t, c.flow.cset) = t
        BY <1>1 DEF InsertConstraintSet, Done, Tables, Columns
    <2>3. RecordFlowEvaluation(t, c.flow)
            = InsertEvaluationGraph(t, Physical(c.flow.run), FlowEvidence(c.flow))
        BY <2>2 DEF RecordFlowEvaluation, FlowEvidence
    <2>4. FlowEvidence(c.flow).link = None
        BY NewEvidence DEF FlowEvidence
    <2> QED BY <1>1, <2>1, <2>3, <2>4, SameEvidenceIsNoOp DEF Done
<1>2. CASE c.op = "session"
    BY <1>2 DEF Effect, Done, RecordOptimizerSession
<1>3. CASE c.op = "aggregate"
    <2> DEFINE key == CandidateKey(c.session, c.candidate.id)
    <2>1. Effect(t, c) = RecordMcmmAggregate(t, c.session, c.candidate)
        BY <1>3 DEF Effect
    <2>2. RecordMcmm(t, key, c.candidate.cset, c.candidate.mcmm) = t
        BY <1>3 DEF Done, RecordMcmm
    <2>3. Committed(t) = t
        BY CommitKeeps
    <2>4. key \in DOMAIN t.candidates
        BY <1>3 DEF Done
    <2>5. RecordMcmmAggregate(t, c.session, c.candidate)
            = LET rows == RecordMcmm(t, key, c.candidate.cset, c.candidate.mcmm) IN
              IF rows = Conflict THEN Conflict ELSE Committed(rows)
        BY <2>4 DEF RecordMcmmAggregate, Then
    <2> QED BY <2>1, <2>2, <2>3, <2>5
<1>4. CASE c.op = "run"
    <2>1. Effect(t, c) = ImportLegacyRun(t, c.run, c.content)
        BY <1>4 DEF Effect
    <2>2. ImportLegacyRun(t, c.run, c.content)
            = InsertEvaluationGraph(t, Physical(c.run), LegacyEvidence(c.run, c.content))
        BY DEF ImportLegacyRun, LegacyEvidence
    <2>3. LegacyEvidence(c.run, c.content).link = None
        BY NewEvidence DEF LegacyEvidence
    <2> QED BY <1>4, <2>1, <2>2, <2>3, SameEvidenceIsNoOp DEF Done
<1>5. CASE c.op = "legacy"
    BY <1>5 DEF Effect, Done, ImportLegacySnapshot
<1> QED BY <1>1, <1>2, <1>3, <1>4, <1>5 DEF Unit

\* The rows: complete, with the keys they name, and with the mark of every
\* recording that succeeded.
RowsInv ==
    /\ Tables(tables)
    /\ Keyed(tables)
    /\ \A c \in recorded : Unit(c) /\ Done(tables, c)

\* A snapshot an import has read.
HeldSnapshot(u) ==
    /\ u = [op |-> "legacy", candidates |-> u.candidates, hashed |-> u.hashed]
    /\ Listed(u.candidates)

\* What each process is at and holds, and the snapshot, whole or cut short.
Current(p) ==
    todo[p] # <<>> =>
        /\ pc[p] = "writing" => Command(p).op = "snapshot"
        /\ pc[p] \in {"claim", "version", "ledger", "migrate", "ready"} =>
              Command(p).op \in Recordings
        /\ pc[p] = "run" => Unit(unit[p])
        /\ pc[p] \in {"hash", "legacy"} => HeldSnapshot(unit[p])

CommandsInv ==
    /\ unit = [p \in Processes |-> unit[p]]
    /\ todo \in [Processes -> Seq(Commands)]
    /\ pc \in [Processes -> Places]
    /\ DOMAIN disk = {"runs", "snapshot"}
    /\ disk.snapshot # None => Listed(disk.snapshot)
    /\ \A p \in Processes : Current(p)

HistoryInv == RowsInv /\ CommandsInv

\* A transaction keeps the marks of all others and leaves its own, or nothing.
LEMMA TransactionKeeps ==
    ASSUME RowsInv, NEW c, Unit(c), Transaction(c)
    PROVE  RowsInv' /\ Grows(tables, tables')
<1> DEFINE result == Effect(tables, c)
<1>1. result = Conflict \/ (Grows(tables, result) /\ Keyed(result) /\ Done(result, c))
    BY EffectGrows DEF RowsInv
<1>2. /\ tables' = IF result = Conflict THEN tables ELSE result
      /\ recorded' = IF result = Conflict THEN recorded ELSE recorded \cup {c}
    BY DEF Transaction
<1> HIDE DEF result
<1>3. CASE result = Conflict
    BY <1>2, <1>3, GrowsAtAll DEF RowsInv
<1>4. CASE result # Conflict
    <2>1. tables' = result /\ recorded' = recorded \cup {c}
        BY <1>2, <1>4
    <2>2. Grows(tables, tables') /\ Keyed(tables') /\ Done(tables', c) /\ Tables(tables')
        BY <1>1, <1>4, <2>1 DEF Grows
    <2>3. \A d \in recorded : Done(tables', d)
        BY <2>2, DoneStays DEF RowsInv
    <2> QED BY <2>1, <2>2, <2>3 DEF RowsInv
<1> QED BY <1>3, <1>4

\* A step that leaves the rows.
LEMMA RowsStay ==
    ASSUME RowsInv, UNCHANGED <<tables, recorded>>
    PROVE  RowsInv' /\ Grows(tables, tables')
BY GrowsAtAll DEF RowsInv

\* The current recording is one of some play.
LEMMA CommandKnown ==
    ASSUME CommandsInv, NEW p \in Processes, todo[p] # <<>>
    PROVE  Command(p) \in Commands /\ Tail(todo[p]) \in Seq(Commands)
BY DEF CommandsInv, Command

\* A recording that ends.
LEMMA EndKeepsCommands ==
    ASSUME CommandsInv, NEW p \in Processes, todo[p] # <<>>, NEW result,
           EndCommand(p, result),
           UNCHANGED unit \/ \E held : unit' = [unit EXCEPT ![p] = held],
           DOMAIN disk' = {"runs", "snapshot"},
           disk'.snapshot # None => Listed(disk'.snapshot)
    PROVE  CommandsInv'
<1>1. Tail(todo[p]) \in Seq(Commands)
    BY CommandKnown
<1>2. /\ todo' = [todo EXCEPT ![p] = Tail(todo[p])]
      /\ pc' = [pc EXCEPT ![p] = "start"]
    BY DEF EndCommand, Goto
<1>3. todo' \in [Processes -> Seq(Commands)] /\ pc' \in [Processes -> Places]
    BY <1>1, <1>2 DEF CommandsInv, Places
<1>4. ASSUME NEW q \in Processes  PROVE Current(q)'
    <2>1. CASE q = p
        <3>1. pc'[q] = "start"
            BY <1>2, <2>1 DEF CommandsInv
        <3> QED BY <3>1 DEF Current
    <2>2. CASE q # p
        <3>1. pc'[q] = pc[q] /\ todo'[q] = todo[q] /\ unit'[q] = unit[q]
            BY <1>2, <2>2 DEF CommandsInv
        <3> QED BY <3>1 DEF Current, Command, CommandsInv
    <2> QED BY <2>1, <2>2
<1> QED BY <1>3, <1>4 DEF CommandsInv

\* A recording that goes on.
LEMMA GotoKeepsCommands ==
    ASSUME CommandsInv, NEW p \in Processes, NEW place \in Places, Goto(p, place),
           UNCHANGED todo,
           UNCHANGED unit \/ \E held : unit' = [unit EXCEPT ![p] = held],
           place = "run" => Unit(unit'[p]),
           place \in {"hash", "legacy"} => HeldSnapshot(unit'[p]),
           place = "writing" => Command(p).op = "snapshot",
           place \in {"claim", "version", "ledger", "migrate", "ready"} =>
              Command(p).op \in Recordings,
           DOMAIN disk' = {"runs", "snapshot"},
           disk'.snapshot # None => Listed(disk'.snapshot)
    PROVE  CommandsInv'
<1>1. pc' = [pc EXCEPT ![p] = place] /\ pc' \in [Processes -> Places]
    BY DEF Goto, CommandsInv
<1>2. ASSUME NEW q \in Processes  PROVE Current(q)'
    <2>1. CASE q = p
        <3>1. pc'[q] = place
            BY <1>1, <2>1 DEF CommandsInv
        <3> QED BY <2>1, <3>1 DEF Current, Command
    <2>2. CASE q # p
        <3>1. pc'[q] = pc[q] /\ unit'[q] = unit[q]
            BY <1>1, <2>2 DEF CommandsInv
        <3> QED BY <3>1 DEF Current, Command, CommandsInv
    <2> QED BY <2>1, <2>2
<1> QED BY <1>1, <1>2 DEF CommandsInv

\* A snapshot cut short is a list of candidates too.
LEMMA PrefixListed ==
    ASSUME NEW candidates, Listed(candidates), NEW n \in 0..(Len(candidates) - 1)
    PROVE  Listed(SubSeq(candidates, 1, n))
<1> DEFINE S == Range(candidates)
           prefix == SubSeq(candidates, 1, n)
<1>1. candidates \in Seq(S) /\ \A c \in S : c.mcmm # None => Len(c.mcmm) \in Nat
    BY DEF Listed
<1> HIDE DEF S
<1>2. /\ prefix \in Seq(S) /\ Len(prefix) = n /\ n \in Nat
      /\ \A i \in 1..n : prefix[i] = candidates[i] /\ candidates[i] \in S
    BY <1>1
<1> HIDE DEF prefix
<1>3. DOMAIN prefix = 1..n
    BY <1>2
<1>4. Range(prefix) \subseteq S /\ \A i \in 1..n : prefix[i] \in Range(prefix)
    BY <1>2, <1>3 DEF Range
<1>5. prefix \in Seq(Range(prefix))
    BY <1>2, <1>3, <1>4
<1> QED BY <1>1, <1>4, <1>5 DEF Listed, prefix

\* Nothing is recorded at first.
LEMMA HistoryStart == Init => HistoryInv
<1> SUFFICES ASSUME Init PROVE HistoryInv
    OBVIOUS
<1>1. Tables(tables) /\ Keyed(tables)
    <2>1. /\ tables = EmptyTables
          /\ EmptyTables = [column \in Columns |-> EmptyTables[column]]
          /\ DOMAIN EmptyTables.evals = {} /\ DOMAIN EmptyTables.candidates = {}
        BY DEF Init, EmptyTables, Columns
    <2> QED BY <2>1 DEF Tables, EvidenceRows, Keyed
<1>2. recorded = {}
    BY DEF Init
<1>3. todo \in [Processes -> Seq(Commands)]
    BY ScriptsAssumption DEF Init
<1>4. /\ pc \in [Processes -> Places] /\ \A p \in Processes : pc[p] = "start"
      /\ disk = [runs |-> [r \in {} |-> None], snapshot |-> None]
    BY DEF Init, Places
<1>5. unit = [p \in Processes |-> unit[p]] /\ \A p \in Processes : Current(p)
    BY <1>4 DEF Current, Init
<1> QED BY <1>1, <1>2, <1>3, <1>4, <1>5 DEF HistoryInv, RowsInv, CommandsInv

\* Each step keeps the history.
LEMMA HistoryStep ==
    ASSUME HistoryInv, [Next]_vars
    PROVE  HistoryInv' /\ Grows(tables, tables')
<1>0. RowsInv /\ CommandsInv
    BY DEF HistoryInv
<1>1. ASSUME NEW p \in Processes, WriteArtifacts(p)
      PROVE  HistoryInv' /\ Grows(tables, tables')
    <2>1. /\ todo[p] # <<>> /\ EndCommand(p, "written") /\ UNCHANGED <<unit, tables, recorded>>
          /\ disk' = [disk EXCEPT !.runs = With(@, Command(p).run, Command(p).content)]
        BY <1>1 DEF WriteArtifacts, At
    <2>2. DOMAIN disk' = {"runs", "snapshot"} /\ disk'.snapshot = disk.snapshot
        BY <1>0, <2>1 DEF CommandsInv
    <2>3. disk'.snapshot # None => Listed(disk'.snapshot)
        BY <1>0, <2>2 DEF CommandsInv
    <2> QED BY <1>0, <2>1, <2>2, <2>3, EndKeepsCommands, RowsStay DEF HistoryInv
<1>2. ASSUME NEW p \in Processes, StartSnapshot(p)
      PROVE  HistoryInv' /\ Grows(tables, tables')
    <2>1. /\ todo[p] # <<>> /\ Command(p).op = "snapshot"
          /\ Goto(p, "writing") /\ UNCHANGED <<todo, unit, tables, recorded>>
        BY <1>2 DEF StartSnapshot, At
    <2>2. Listed(Command(p).candidates)
        BY <1>0, <2>1, CommandKnown, ScriptsAssumption
    <2>3. PICK n \in 0..(Len(Command(p).candidates) - 1) :
            disk' = [disk EXCEPT !.snapshot = SubSeq(Command(p).candidates, 1, n)]
        BY <1>2 DEF StartSnapshot
    <2>4. Listed(SubSeq(Command(p).candidates, 1, n))
        BY <2>2, PrefixListed
    <2> DEFINE prefix == SubSeq(Command(p).candidates, 1, n)
    <2> HIDE DEF prefix
    <2>5. disk' = [disk EXCEPT !.snapshot = prefix] /\ Listed(prefix)
        BY <2>3, <2>4 DEF prefix
    <2>6. DOMAIN disk' = {"runs", "snapshot"} /\ Listed(disk'.snapshot)
        BY <1>0, <2>5 DEF CommandsInv
    <2>7. "writing" \in Places
        BY DEF Places
    <2>8. CommandsInv'
        BY <1>0, <2>1, <2>6, <2>7, GotoKeepsCommands
    <2> QED BY <1>0, <2>1, <2>8, RowsStay DEF HistoryInv
<1>3. ASSUME NEW p \in Processes, FinishSnapshot(p)
      PROVE  HistoryInv' /\ Grows(tables, tables')
    <2>1. /\ todo[p] # <<>> /\ pc[p] = "writing" /\ EndCommand(p, "written")
          /\ UNCHANGED <<unit, tables, recorded>>
          /\ disk' = [disk EXCEPT !.snapshot = Command(p).candidates]
        BY <1>3 DEF FinishSnapshot, At
    <2>2. Command(p).op = "snapshot"
        BY <1>0, <2>1 DEF CommandsInv, Current
    <2>3. Listed(Command(p).candidates)
        BY <1>0, <2>1, <2>2, CommandKnown, ScriptsAssumption
    <2>4. DOMAIN disk' = {"runs", "snapshot"} /\ disk'.snapshot = Command(p).candidates
        BY <1>0, <2>1 DEF CommandsInv
    <2>5. Listed(disk'.snapshot)
        BY <2>3, <2>4
    <2> QED BY <1>0, <2>1, <2>4, <2>5, EndKeepsCommands, RowsStay DEF HistoryInv
<1>4. ASSUME NEW p \in Processes, UNCHANGED <<tables, disk, unit, recorded>>, todo[p] # <<>>,
             \/ \E result : EndCommand(p, result)
             \/ /\ UNCHANGED todo
                /\ Command(p).op \in Recordings
                /\ \E place \in Places \ {"writing", "run", "hash", "legacy"} : Goto(p, place)
      PROVE  HistoryInv' /\ Grows(tables, tables')
    <2>1. DOMAIN disk' = {"runs", "snapshot"} /\ (disk'.snapshot # None => Listed(disk'.snapshot))
        BY <1>0, <1>4 DEF CommandsInv
    <2>2. CommandsInv'
        <3>1. CASE \E result : EndCommand(p, result)
            BY <1>0, <1>4, <2>1, <3>1, EndKeepsCommands
        <3>2. ASSUME UNCHANGED todo, Command(p).op \in Recordings,
                     NEW place \in Places \ {"writing", "run", "hash", "legacy"}, Goto(p, place)
              PROVE  CommandsInv'
            BY <1>0, <1>4, <2>1, <3>2, GotoKeepsCommands
        <3> QED BY <1>4, <3>1, <3>2
    <2> QED BY <1>0, <1>4, <2>2, RowsStay DEF HistoryInv
<1>5. ASSUME NEW p \in Processes, Connect(p)
      PROVE  HistoryInv' /\ Grows(tables, tables')
    BY <1>4, <1>5 DEF Connect, At, Places
<1>6. ASSUME NEW p \in Processes, Claim(p)
      PROVE  HistoryInv' /\ Grows(tables, tables')
    <2>1. Command(p).op \in Recordings
        BY <1>0, <1>6 DEF Claim, At, CommandsInv, Current
    <2> QED BY <1>4, <1>6, <2>1 DEF Claim, At, Refuse, Places
<1>7. ASSUME NEW p \in Processes, ReadVersion(p)
      PROVE  HistoryInv' /\ Grows(tables, tables')
    <2>1. Command(p).op \in Recordings
        BY <1>0, <1>7 DEF ReadVersion, At, CommandsInv, Current
    <2> QED BY <1>4, <1>7, <2>1 DEF ReadVersion, At, Places
<1>8. ASSUME NEW p \in Processes, ReadLedger(p)
      PROVE  HistoryInv' /\ Grows(tables, tables')
    <2>1. Command(p).op \in Recordings
        BY <1>0, <1>8 DEF ReadLedger, At, CommandsInv, Current
    <2> QED BY <1>4, <1>8, <2>1 DEF ReadLedger, At, Refuse, Places
<1>9. ASSUME NEW p \in Processes, Migrate(p)
      PROVE  HistoryInv' /\ Grows(tables, tables')
    <2>1. Command(p).op \in Recordings
        BY <1>0, <1>9 DEF Migrate, At, CommandsInv, Current
    <2> QED BY <1>4, <1>9, <2>1 DEF Migrate, At, Refuse, Places
<1>10. ASSUME NEW p \in Processes, Record(p)
       PROVE  HistoryInv' /\ Grows(tables, tables')
    <2>1. /\ todo[p] # <<>> /\ pc[p] = "ready" /\ Command(p).op # "import"
          /\ Transaction(Command(p)) /\ UNCHANGED <<disk, unit>>
          /\ \E result : EndCommand(p, result)
        BY <1>10 DEF Record, At
    <2>2. Command(p).op \in Recordings /\ Command(p) \in Commands
        BY <1>0, <2>1, CommandKnown DEF CommandsInv, Current
    <2>3. Unit(Command(p))
        BY <2>1, <2>2, ScriptsAssumption DEF Unit, Recordings
    <2>4. RowsInv' /\ Grows(tables, tables')
        BY <1>0, <2>1, <2>3, TransactionKeeps
    <2>5. CommandsInv'
        BY <1>0, <2>1, EndKeepsCommands DEF CommandsInv
    <2> QED BY <2>4, <2>5 DEF HistoryInv
<1>11. ASSUME NEW p \in Processes, StartImport(p)
       PROVE  HistoryInv' /\ Grows(tables, tables')
    BY <1>4, <1>11 DEF StartImport, At, Places, Recordings
<1>12. ASSUME NEW p \in Processes, ReadRun(p)
       PROVE  HistoryInv' /\ Grows(tables, tables')
    <2> DEFINE held == [op |-> "run", run |-> Head(scan[p]),
                        content |-> disk.runs[Head(scan[p])]]
    <2>1. /\ unit' = [unit EXCEPT ![p] = held] /\ Goto(p, "run")
          /\ UNCHANGED <<disk, todo, tables, recorded>>
        BY <1>12 DEF ReadRun
    <2>2. Unit(held)
        BY DEF Unit
    <2> HIDE DEF held
    <2>3. Unit(unit'[p])
        BY <1>0, <2>1, <2>2 DEF CommandsInv
    <2>4. CommandsInv'
        BY <1>0, <2>1, <2>3, GotoKeepsCommands DEF CommandsInv, Places
    <2> QED BY <1>0, <2>1, <2>4, RowsStay DEF HistoryInv
<1>13. ASSUME NEW p \in Processes, ImportRun(p)
       PROVE  HistoryInv' /\ Grows(tables, tables')
    <2>1. /\ Unit(unit[p]) /\ Transaction(unit[p])
          /\ unit' = [unit EXCEPT ![p] = None] /\ Goto(p, "scan") /\ UNCHANGED <<disk, todo>>
        BY <1>0, <1>13 DEF ImportRun, At, CommandsInv, Current
    <2>2. RowsInv' /\ Grows(tables, tables')
        BY <1>0, <2>1, TransactionKeeps
    <2>3. CommandsInv'
        BY <1>0, <2>1, GotoKeepsCommands DEF CommandsInv, Places
    <2> QED BY <2>2, <2>3 DEF HistoryInv
<1>14. ASSUME NEW p \in Processes, ReadSnapshot(p)
       PROVE  HistoryInv' /\ Grows(tables, tables')
    <2> DEFINE held == [op |-> "legacy", candidates |-> disk.snapshot, hashed |-> None]
    <2>1. todo[p] # <<>> /\ UNCHANGED <<disk, tables, recorded>>
        BY <1>14 DEF ReadSnapshot, At
    <2>2. CASE disk.snapshot \in {None, <<>>}
        <3>1. EndCommand(p, "recorded") /\ UNCHANGED unit
            BY <1>14, <2>2 DEF ReadSnapshot
        <3>2. CommandsInv'
            BY <1>0, <2>1, <3>1, EndKeepsCommands DEF CommandsInv
        <3> QED BY <1>0, <2>1, <3>2, RowsStay DEF HistoryInv
    <2>3. CASE disk.snapshot \notin {None, <<>>}
        <3>1. unit' = [unit EXCEPT ![p] = held] /\ Goto(p, "hash") /\ UNCHANGED todo
            BY <1>14, <2>3 DEF ReadSnapshot
        <3>2. HeldSnapshot(held)
            BY <1>0, <2>3 DEF HeldSnapshot, CommandsInv
        <3> HIDE DEF held
        <3>3. HeldSnapshot(unit'[p])
            BY <1>0, <3>1, <3>2 DEF CommandsInv
        <3>4. CommandsInv'
            BY <1>0, <2>1, <3>1, <3>3, GotoKeepsCommands DEF CommandsInv, Places
        <3> QED BY <1>0, <2>1, <3>4, RowsStay DEF HistoryInv
    <2> QED BY <2>2, <2>3
<1>15. ASSUME NEW p \in Processes, HashSnapshot(p)
       PROVE  HistoryInv' /\ Grows(tables, tables')
    <2> DEFINE held == [unit[p] EXCEPT !.hashed = disk.snapshot]
    <2>1. /\ HeldSnapshot(unit[p])
          /\ unit' = [unit EXCEPT ![p] = held] /\ Goto(p, "legacy")
          /\ UNCHANGED <<disk, todo, tables, recorded>>
        BY <1>0, <1>15 DEF HashSnapshot, At, CommandsInv, Current
    <2>2. HeldSnapshot(held)
        BY <2>1 DEF HeldSnapshot
    <2> HIDE DEF held
    <2>3. HeldSnapshot(unit'[p])
        BY <1>0, <2>1, <2>2 DEF CommandsInv
    <2>4. CommandsInv'
        BY <1>0, <2>1, <2>3, GotoKeepsCommands DEF CommandsInv, Places
    <2> QED BY <1>0, <2>1, <2>4, RowsStay DEF HistoryInv
<1>16. ASSUME NEW p \in Processes, ImportSnapshot(p)
       PROVE  HistoryInv' /\ Grows(tables, tables')
    <2>1. /\ todo[p] # <<>> /\ HeldSnapshot(unit[p]) /\ Transaction(unit[p])
          /\ unit' = [unit EXCEPT ![p] = None] /\ EndCommand(p, "recorded") /\ UNCHANGED disk
        BY <1>0, <1>16 DEF ImportSnapshot, At, CommandsInv, Current
    <2>2. unit[p].op = "legacy" /\ Listed(unit[p].candidates)
        BY <2>1 DEF HeldSnapshot
    <2>3. Unit(unit[p])
        BY <2>2 DEF Unit
    <2>4. RowsInv' /\ Grows(tables, tables')
        BY <1>0, <2>1, <2>3, TransactionKeeps
    <2>5. CommandsInv'
        BY <1>0, <2>1, EndKeepsCommands DEF CommandsInv
    <2> QED BY <2>4, <2>5 DEF HistoryInv
<1>17. ASSUME NEW p \in Processes, Crash(p)
       PROVE  HistoryInv' /\ Grows(tables, tables')
    <2>1. /\ todo' = [todo EXCEPT ![p] = <<>>]
          /\ UNCHANGED <<tables, disk, pc, unit, recorded>>
        BY <1>17 DEF Crash
    <2>2. <<>> \in Seq(Commands)
        OBVIOUS
    <2>3. todo' \in [Processes -> Seq(Commands)]
        BY <1>0, <2>1, <2>2 DEF CommandsInv
    <2>4. ASSUME NEW q \in Processes  PROVE Current(q)'
        <3>1. todo'[q] = <<>> \/ todo'[q] = todo[q]
            BY <1>0, <2>1 DEF CommandsInv
        <3> QED BY <1>0, <2>1, <3>1 DEF CommandsInv, Current, Command
    <2>5. CommandsInv'
        BY <1>0, <2>1, <2>3, <2>4 DEF CommandsInv
    <2> QED BY <1>0, <2>1, <2>5, RowsStay DEF HistoryInv
<1>18. CASE UNCHANGED vars
    <2>1. UNCHANGED <<tables, recorded, disk, todo, pc, unit>>
        BY <1>18 DEF vars
    <2>2. CommandsInv'
        BY <1>0, <2>1 DEF CommandsInv, Current, Command
    <2> QED BY <1>0, <2>1, <2>2, RowsStay DEF HistoryInv
<1> QED
    BY <1>1, <1>2, <1>3, <1>5, <1>6, <1>7, <1>8, <1>9, <1>10, <1>11, <1>12, <1>13, <1>14,
       <1>15, <1>16, <1>17, <1>18
    DEF Next

\* The rows are complete and keyed, and each recording that succeeded left its
\* mark in them, whatever was recorded since.
THEOREM HistoryTheorem == Spec => []HistoryInv
<1>1. HistoryInv /\ [Next]_vars => HistoryInv'
    BY HistoryStep
<1> QED BY <1>1, HistoryStart, PTL DEF Spec

\* Whatever was recorded may be recorded again at any later time, after any
\* recordings of others, and changes nothing (repository.record_*,
\* import_legacy_*): a retry after a lost answer is safe.
THEOREM RecordedTheorem == Spec => []RecordedIsNoOp
<1>1. HistoryInv => RecordedIsNoOp
    BY DoneIsNoOp DEF HistoryInv, RowsInv, RecordedIsNoOp
<1> QED BY <1>1, HistoryTheorem, PTL

\* An evaluation never disappears, never changes what it is evidence of, and
\* stays with the candidate it belongs to (repository, insert_evaluation_graph
\* and the UPDATEs of its link).
THEOREM EvidenceTheorem == Spec => EvidenceImmutable
<1>1. ASSUME HistoryInv, [Next]_vars
      PROVE  [\A e \in DOMAIN tables.evals :
                /\ e \in DOMAIN tables'.evals
                /\ LET old == tables.evals[e]
                       new == tables'.evals[e] IN
                   /\ new = [old EXCEPT !.link = new.link]
                   /\ old.link \in {None, new.link}]_vars
    BY <1>1, HistoryStep DEF Grows, SameLater
<1> QED BY <1>1, HistoryTheorem, PTL DEF Spec, EvidenceImmutable
=============================================================================
