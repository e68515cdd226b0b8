----------------------------- MODULE QoRHistory -----------------------------
(***************************************************************************)
(* Processes that share one QoR history database: flow runs, optimizer     *)
(* commands and imports, each a list of recordings.  Every recording opens *)
(* the database, brings its schema up to date and then runs one write      *)
(* transaction (an import one per run directory).  Transactions exclude    *)
(* each other and are all or nothing; what a recording reads before its    *)
(* transaction, and the files on disk, are not protected by anything.      *)
(***************************************************************************)
EXTENDS QoRRecords

CONSTANTS
    Processes,
    Scripts,        \* the plays: process -> its recordings in order
    Versions,       \* schema versions the database may start at
    RunOrder,       \* the run directories in the order of their names
    MaxCrashes      \* bound on processes killed

SchemaVersion == 2

\* Everything some process of some play records.
Commands == UNION {UNION {Range(script[p]) : p \in Processes} : script \in Scripts}

\* Each process has a list of recordings.
ASSUME ScriptsAssumption ==
    /\ \A script \in Scripts : script \in [Processes -> Seq(Commands)]
    /\ \A c \in Commands :
          /\ c.op \in {"write", "snapshot", "index", "session", "aggregate", "import"}
          /\ c.op \in {"session", "snapshot"} => Listed(c.candidates)
          /\ c.op = "aggregate" => Len(c.candidate.mcmm) \in Nat
ASSUME VersionsAssumption == Versions \subseteq Nat
ASSUME MaxCrashesAssumption == MaxCrashes \in Nat

VARIABLES
    schema,     \* [claimed, version, ledger]: application id and both versions
    tables,     \* the rows
    disk,       \* [runs: run -> artifacts, snapshot: candidates.jsonl]
    todo,       \* process -> recordings left, the current one first
    pc,         \* process -> where it is in the current one
    seen,       \* process -> schema version it has read
    scan,       \* process -> run directories an import has still to read
    unit,       \* process -> what an import has read and not yet written
    outcome,    \* process -> how its last recording ended
    crashes,
    recorded,   \* history: recordings that succeeded
    began       \* history: the version when the recording connected

vars == <<schema, tables, disk, todo, pc, seen, scan, unit, outcome,
          crashes, recorded, began>>

Init ==
    /\ todo \in Scripts
    /\ \E v \in Versions : schema = [claimed |-> v > 0, version |-> v, ledger |-> v]
    /\ tables = EmptyTables
    /\ disk = [runs |-> [r \in {} |-> None], snapshot |-> None]
    /\ pc = [p \in Processes |-> "start"]
    /\ seen = [p \in Processes |-> 0]
    /\ scan = [p \in Processes |-> <<>>]
    /\ unit = [p \in Processes |-> None]
    /\ outcome = [p \in Processes |-> "none"]
    /\ began = [p \in Processes |-> 0]
    /\ crashes = 0
    /\ recorded = {}

At(p, place) == todo[p] # <<>> /\ pc[p] = place
Command(p) == Head(todo[p])
Goto(p, place) == pc' = [pc EXCEPT ![p] = place]

\* A failed recording is reported and the process goes on to the next one.
EndCommand(p, result) ==
    /\ todo' = [todo EXCEPT ![p] = Tail(@)]
    /\ Goto(p, "start")
    /\ outcome' = [outcome EXCEPT ![p] = result]

(***************************************************************************)
(* Files are written before anything is indexed.                           *)
(***************************************************************************)
WriteArtifacts(p) ==
    /\ At(p, "start") /\ Command(p).op = "write"
    /\ disk' = [disk EXCEPT !.runs = With(@, Command(p).run, Command(p).content)]
    /\ EndCommand(p, "written")
    /\ UNCHANGED <<schema, tables, seen, scan, unit, began, crashes, recorded>>

\* candidates.jsonl is opened for writing and filled line by line: until it is
\* closed any number of its first lines may be there.
StartSnapshot(p) ==
    /\ At(p, "start") /\ Command(p).op = "snapshot"
    /\ \E n \in 0..(Len(Command(p).candidates) - 1) :
         disk' = [disk EXCEPT !.snapshot = SubSeq(Command(p).candidates, 1, n)]
    /\ Goto(p, "writing")
    /\ UNCHANGED <<schema, tables, todo, seen, scan, unit, outcome, began, crashes,
                   recorded>>

FinishSnapshot(p) ==
    /\ At(p, "writing")
    /\ disk' = [disk EXCEPT !.snapshot = Command(p).candidates]
    /\ EndCommand(p, "written")
    /\ UNCHANGED <<schema, tables, seen, scan, unit, began, crashes, recorded>>

(***************************************************************************)
(* initialize(): connect, then migrate.                                    *)
(***************************************************************************)
Recordings == {"index", "session", "aggregate", "import"}

\* The application id is read; only a connection that read none looks for
\* tables and claims the file.
Connect(p) ==
    /\ At(p, "start") /\ Command(p).op \in Recordings
    /\ Goto(p, IF schema.claimed THEN "version" ELSE "claim")
    /\ began' = [began EXCEPT ![p] = schema.version]
    /\ outcome' = [outcome EXCEPT ![p] = "none"]
    /\ UNCHANGED <<schema, tables, disk, todo, seen, scan, unit, crashes, recorded>>

Refuse(p) ==
    /\ EndCommand(p, "refused")
    /\ UNCHANGED <<schema, seen>>

Claim(p) ==
    /\ At(p, "claim")
    /\ IF schema.version > 0    \* tables exist
       THEN Refuse(p)
       ELSE /\ schema' = [schema EXCEPT !.claimed = TRUE]
            /\ Goto(p, "version")
            /\ UNCHANGED <<todo, seen, outcome>>
    /\ UNCHANGED <<tables, disk, scan, unit, began, crashes, recorded>>

ReadVersion(p) ==
    /\ At(p, "version")
    /\ seen' = [seen EXCEPT ![p] = schema.version]
    /\ Goto(p, "ledger")
    /\ UNCHANGED <<schema, tables, disk, todo, scan, unit, outcome, began, crashes,
                   recorded>>

\* Mutant: only an older schema is consistent.
ConsistentIfOlder(version, ledger) == version = ledger /\ version < SchemaVersion
Consistent(version, ledger) == version = ledger /\ version <= SchemaVersion

ReadLedger(p) ==
    /\ At(p, "ledger")
    /\ IF Consistent(seen[p], schema.ledger)
       THEN /\ Goto(p, IF seen[p] = SchemaVersion THEN "ready" ELSE "migrate")
            /\ UNCHANGED <<schema, todo, seen, outcome>>
       ELSE Refuse(p)
    /\ UNCHANGED <<tables, disk, scan, unit, began, crashes, recorded>>

\* A version's statements create what they add, so they fail, and the whole
\* transaction with them, when another process has been there.
Applicable(version) == schema.version = version - 1
Migrated(version) == [schema EXCEPT !.version = version, !.ledger = version]

Migrate(p) ==
    LET version == seen[p] + 1 IN
    /\ At(p, "migrate")
    /\ IF Applicable(version)
       THEN /\ schema' = Migrated(version)
            /\ seen' = [seen EXCEPT ![p] = version]
            /\ Goto(p, IF version = SchemaVersion THEN "ready" ELSE "migrate")
            /\ UNCHANGED <<todo, outcome>>
       ELSE Refuse(p)
    /\ UNCHANGED <<tables, disk, scan, unit, began, crashes, recorded>>

(***************************************************************************)
(* The transactions.                                                       *)
(***************************************************************************)
Effect(rows, command) ==
    CASE command.op = "index"     -> RecordFlowEvaluation(rows, command.flow)
      [] command.op = "session"   ->
            RecordOptimizerSession(rows, command.session, command.candidates)
      [] command.op = "aggregate" ->
            RecordMcmmAggregate(rows, command.session, command.candidate)
      [] command.op = "run"       -> ImportLegacyRun(rows, command.run, command.content)
      [] command.op = "legacy"    ->
            ImportLegacySnapshot(rows, command.candidates, command.hashed)

\* Commit or roll back.
Transaction(command) ==
    LET result == Effect(tables, command) IN
    /\ tables' = IF result = Conflict THEN tables ELSE result
    /\ recorded' = IF result = Conflict THEN recorded ELSE recorded \cup {command}

Record(p) ==
    /\ At(p, "ready") /\ Command(p).op # "import"
    /\ Transaction(Command(p))
    /\ EndCommand(p, IF Effect(tables, Command(p)) = Conflict THEN "conflict" ELSE "recorded")
    /\ UNCHANGED <<schema, disk, seen, scan, unit, began, crashes>>

StartImport(p) ==
    /\ At(p, "ready") /\ Command(p).op = "import"
    /\ scan' = [scan EXCEPT ![p] = SelectSeq(RunOrder, LAMBDA r : r \in DOMAIN disk.runs)]
    /\ Goto(p, "scan")
    /\ UNCHANGED <<schema, tables, disk, todo, seen, unit, outcome, began, crashes,
                   recorded>>

\* A run's artifacts are read before the transaction that enters them.
ReadRun(p) ==
    LET run == Head(scan[p]) IN
    /\ At(p, "scan") /\ scan[p] # <<>>
    /\ unit' = [unit EXCEPT ![p] =
                   [op |-> "run", run |-> run, content |-> disk.runs[run]]]
    /\ scan' = [scan EXCEPT ![p] = Tail(@)]
    /\ Goto(p, "run")
    /\ UNCHANGED <<schema, tables, disk, todo, seen, outcome, began, crashes,
                   recorded>>

ImportRun(p) ==
    /\ At(p, "run")
    /\ Transaction(unit[p])
    /\ unit' = [unit EXCEPT ![p] = None]
    /\ Goto(p, "scan")
    /\ UNCHANGED <<schema, disk, todo, seen, scan, outcome, began, crashes>>

\* A missing or empty snapshot is skipped.  What is not empty is read, then
\* hashed by opening it again, then written.
ReadSnapshot(p) ==
    /\ At(p, "scan") /\ scan[p] = <<>>
    /\ IF disk.snapshot \in {None, <<>>}
       THEN EndCommand(p, "recorded") /\ UNCHANGED unit
       ELSE /\ unit' = [unit EXCEPT ![p] =
                          [op |-> "legacy", candidates |-> disk.snapshot, hashed |-> None]]
            /\ Goto(p, "hash")
            /\ UNCHANGED <<todo, outcome>>
    /\ UNCHANGED <<schema, tables, disk, seen, scan, began, crashes, recorded>>

HashSnapshot(p) ==
    /\ At(p, "hash")
    /\ unit' = [unit EXCEPT ![p].hashed = disk.snapshot]
    /\ Goto(p, "legacy")
    /\ UNCHANGED <<schema, tables, disk, todo, seen, scan, outcome, began, crashes,
                   recorded>>

ImportSnapshot(p) ==
    /\ At(p, "legacy")
    /\ Transaction(unit[p])
    /\ unit' = [unit EXCEPT ![p] = None]
    /\ EndCommand(p, "recorded")
    /\ UNCHANGED <<schema, disk, seen, scan, began, crashes>>

\* A kill ends the process; SQLite rolls an open transaction back.
Crash(p) ==
    /\ todo[p] # <<>>
    /\ crashes < MaxCrashes
    /\ crashes' = crashes + 1
    /\ todo' = [todo EXCEPT ![p] = <<>>]
    /\ UNCHANGED <<schema, tables, disk, pc, seen, scan, unit, outcome, began,
                   recorded>>

Next == \E p \in Processes :
    \/ WriteArtifacts(p) \/ StartSnapshot(p) \/ FinishSnapshot(p)
    \/ Connect(p) \/ Claim(p) \/ ReadVersion(p) \/ ReadLedger(p) \/ Migrate(p)
    \/ Record(p) \/ StartImport(p) \/ ReadRun(p) \/ ImportRun(p)
    \/ ReadSnapshot(p) \/ HashSnapshot(p) \/ ImportSnapshot(p)
    \/ Crash(p)

Spec == Init /\ [][Next]_vars

(***************************************************************************)
(* Properties.                                                             *)
(***************************************************************************)
\* A process whose initialization is refused lost to one that got further
\* since it connected: initializers never all fail, and none fails on a
\* database nobody touched (only a schema newer than this program is refused).
RefusalMeansProgress ==
    \A p \in Processes : outcome[p] = "refused" =>
        schema.version > began[p] \/ began[p] > SchemaVersion

\* Whatever was recorded once may be recorded again at any later time, after
\* any recordings of others, and changes nothing.
RecordedIsNoOp ==
    \A command \in recorded : Effect(tables, command) = tables

\* Evidence of run "run" is found under evaluation e: the run itself, or a
\* projection that names it and the run beside it.
Reaches(e, run) ==
    run # None =>
        \/ e = Physical(run)
        \/ tables.evals[e].ref = run /\ Physical(run) \in DOMAIN tables.evals

MemberKept(aggregate, key, member) ==
    /\ member.sid \in DOMAIN tables.aggregates[aggregate]
    /\ member.qor # None =>
         LET e == tables.aggregates[aggregate][member.sid] IN
         /\ e \in ListRuns(tables, key)
         /\ Reaches(e, member.qor.run)

CandidateKept(key, candidate, aggregate) ==
    /\ key \in DOMAIN tables.candidates
    /\ candidate.qor # None =>
         \E e \in ListRuns(tables, key) : Reaches(e, candidate.qor.run)
    /\ candidate.mcmm # None =>
         /\ aggregate \in DOMAIN tables.aggregates
         /\ \A i \in DOMAIN candidate.mcmm :
              MemberKept(aggregate, key, candidate.mcmm[i])
    /\ LET line == CandidateLineage(tables, key) IN
         /\ line # Conflict
         /\ tables.candidates[Head(line)] = None

IsLegacy(s) == s = LegacySession(tables.sessions[s])

\* The lists a session may have been recorded from: its own, or what an import
\* that hashed the session's snapshot had read of it.
SourcesOf(s) ==
    IF IsLegacy(s)
    THEN {c.candidates : c \in {d \in recorded : d.op = "legacy" /\ LegacySession(d.hashed) = s}}
    ELSE {tables.sessions[s]}

\* A session is recorded with everything that was given or read for it, or not
\* at all: its candidates are in no session but a recorded one, and those of
\* one list it came from, each leads back to a root of its session, and from
\* each its evidence is found, whether the run was indexed before, belongs to
\* a candidate of another session, or was never indexed.
SessionWhole ==
    /\ \A key \in DOMAIN tables.candidates : key[1] \in DOMAIN tables.sessions
    /\ \A s \in DOMAIN tables.sessions :
         \E candidates \in SourcesOf(s) :
            /\ {key \in DOMAIN tables.candidates : key[1] = s}
                 = {CandidateKey(s, c.id) : c \in Range(candidates)}
            /\ \A c \in Range(candidates) :
                  LET key == CandidateKey(s, c.id) IN
                  CandidateKept(key, c,
                      IF IsLegacy(s) THEN <<"legacy", key, c.mcmm>>
                      ELSE AggregateId(key, c.mcmm))

\* History is only added to: an evaluation never disappears, never changes
\* what it is evidence of, and once it belongs to a candidate it stays with it.
EvidenceImmutable ==
    [][\A e \in DOMAIN tables.evals :
        /\ e \in DOMAIN tables'.evals
        /\ LET old == tables.evals[e]
               new == tables'.evals[e] IN
           /\ new = [old EXCEPT !.link = new.link]
           /\ old.link \in {None, new.link}]_vars
=============================================================================
