------------------------- MODULE IntentApplication -------------------------
(***************************************************************************)
(* inference/application.py and the commands around it: several sessions   *)
(* (an "rca apply" command, or a program that keeps a set in memory and    *)
(* calls accept_candidate) infer candidates, keep them while the set, the  *)
(* design and the configuration move on, decide them, and write the set to *)
(* a file the others load.                                                 *)
(***************************************************************************)
EXTENDS IntentInference

CONSTANTS
    Sessions,
    Worlds,          \* the versions design and configuration go through
    Scenarios,       \* scenarios a fresh set declares
    Packages,        \* template sequences callers build candidates from
    UserIntent,      \* constraints a user or an importer adds by hand
    MaxConstraints,  \* bound on the size of a set
    MaxEdges,        \* bound on the dependency edges drawn by hand
    Torn             \* a file whose plain write has begun and not ended

\* What the rules read, field by field.
IsWorld(w) ==
    w = [clocks |-> w.clocks, user |-> w.user, ports |-> w.ports, async |-> w.async, cdc |-> w.cdc,
         derived |-> w.derived, hints |-> w.hints, active |-> w.active, defined |-> w.defined]
ASSUME WorldsAssumption == \A w \in Worlds : IsWorld(w)

Fields == {"scope", "value", "scenarios", "disabled", "unsupported", "high", "source", "status",
           "pinned", "deps", "downs", "assumptions"}
IsConstraint(c) == c = [f \in Fields |-> c[f]]
IsId(id) == id = <<id[1], id[2], id[3]>> /\ id[3] \in Nat

\* An id a caller chooses: not C0001, C0002, ..., which the set hands out.
GivenId(id) == IsId(id) /\ (id[1] = "C" /\ id[2] = "" => id[3] = 0)

\* Whoever builds a package chooses its ids, lets no template depend on itself
\* and writes a reverse edge only where the edge is.  Packages of which one is
\* not inferred or cannot be compared, or which repeat themselves, are refused
\* before the set is looked at, and left out.
IsPackage(ts) ==
    /\ ts \in Seq(Range(ts)) /\ ts # <<>>
    /\ \A i \in DOMAIN ts :
          /\ ts[i] = [id |-> ts[i].id, con |-> ts[i].con]
          /\ GivenId(ts[i].id)
          /\ IsConstraint(ts[i].con) /\ ts[i].con.source = Inferred /\ ~ts[i].con.unsupported
          /\ ts[i].id \notin ts[i].con.deps
          /\ \A x \in ts[i].con.downs :
                \E j \in DOMAIN ts : x = ts[j].id /\ ts[i].id \in ts[j].con.deps
    /\ \A i, j \in DOMAIN ts : Normal(ts[i].con) = Normal(ts[j].con) => i = j

ASSUME PackagesAssumption == \A ts \in Packages : IsPackage(ts)

\* The factories and the importer fill in no reverse edge.
ASSUME UserIntentAssumption == \A c \in UserIntent : IsConstraint(c) /\ c.downs = {}

VARIABLES
    world,           \* what design and configuration say now
    ucm,             \* ucm[s]: the set session s holds, None before it loads
    held,            \* held[s]: the candidate s keeps, None if it keeps none
    file,            \* the snapshot on disk, None or Torn
    writing          \* writing[s]: is s inside a plain write

vars == <<world, ucm, held, file, writing>>

Decisions == {"ACCEPT", "CONFIRM", "REJECT", "DEFER", "ALREADY_SATISFIED", "INVALID"}

\* ------------------------------------------------------ one application

Constraints(cand) == {t.con : t \in Range(cand.templates)}
TemplateIds(cand) == {t.id : t \in Range(cand.templates)}

\* candidate_semantic_identity: there is one when there are templates and all
\* of them have options that can be compared.
Identifiable(cand) ==
    cand.templates # <<>> /\ \A c \in Constraints(cand) : ~c.unsupported

\* _semantic_matches, over what can be compared.
Duplicates(u, cand) == UNION {Exact(u, c) : c \in Constraints(cand)}
Conflicts(u, cand) == UNION {Conflicting(u, c) : c \in Constraints(cand)}
AllDuplicate(u, cand) ==
    /\ Cardinality(Duplicates(u, cand)) = Len(cand.templates)
    /\ Conflicts(u, cand) = {}
\* One template says what another says.
Repetitive(cand) ==
    \E i, j \in DOMAIN cand.templates :
        i # j /\ Normal(cand.templates[i].con) = Normal(cand.templates[j].con)

MutantWorldStale(cand, w, legacy) ==
    ~legacy /\ cand.source.config # SourceIdentity(w, EmptySet({})).config

\* The staleness of design, timing graph and configuration; the set's own is
\* tested later, after duplicates.  The legacy adapter passes no config.
WorldStale(cand, w, legacy) ==
    LET now == SourceIdentity(w, EmptySet({}))
    IN \/ cand.source.design # now.design
       \/ ~legacy /\ cand.source.config # now.config

\* The decision must fit what inference made of the candidate.
Decidable(cand, decision) ==
    \/ decision = "ACCEPT" /\ cand.status = "INFERRED" /\ cand.decision = "ACCEPTABLE"
    \/ /\ decision = "CONFIRM"
       /\ cand.status \in {"INFERRED", "CONFIRMATION_REQUIRED"}
       /\ cand.decision \in {"ACCEPTABLE", "REQUIRES_CONFIRMATION"}
    \/ decision = "ALREADY_SATISFIED"

\* build_scenario_matrix: the scenarios of the set and of the project, or a
\* default one, with which MCMM is off.
Defined(w, u) == u.scenarios \cup w.defined
McmmOn(w, u) == w.active # {} /\ Defined(w, u) # {}
Known(w, u, legacy) ==
    IF legacy THEN u.scenarios ELSE IF Defined(w, u) = {} THEN {"S000"} ELSE Defined(w, u)

\* _scenario_block: the requested scope is exactly the candidate's, every
\* scenario of it known and, with MCMM on, active; never mixed with global.
Scope(cand) == UNION {c.scenarios : c \in Constraints(cand)}
ScenarioBlocked(cand, requested, w, u, legacy) ==
    LET mcmm == ~legacy /\ McmmOn(w, u)
    IN \/ mcmm /\ ~(Scope(cand) # {} /\ Scope(cand) \subseteq w.active)
       \/ requested # Scope(cand)
       \/ ~(Scope(cand) \subseteq Known(w, u, legacy))
       \/ Scope(cand) # {} /\ \E c \in Constraints(cand) : c.scenarios = {}

\* _missing_links.
MissingLinks(u, cand) ==
    \/ \E c \in Constraints(cand) : ~(c.deps \subseteq Ids(u) \cup TemplateIds(cand))
    \/ \E c \in Constraints(cand) : ~(c.assumptions \subseteq DOMAIN u.ledger)

\* _prepare_trial_constraints: the ids are free, and differ from each other.
Placeable(u, cand) ==
    /\ TemplateIds(cand) \cap Ids(u) = {}
    /\ \A i, j \in DOMAIN cand.templates :
          cand.templates[i].id = cand.templates[j].id => i = j

\* Adding the templates one by one, then restoring the edges between them: a
\* template may depend on one that is added after it.
AddAll(u, templates) ==
    LET added[n \in 0 .. Len(templates)] ==
            IF n = 0 THEN u ELSE Add(added[n - 1], templates[n].id, templates[n].con)
    IN added[Len(templates)]
EdgesOf(templates) ==
    UNION {{<<up, t.id>> : up \in t.con.deps} : t \in Range(templates)}
AddTemplates(u, templates) == DrawEdges(AddAll(u, templates), EdgesOf(templates))

MutantCommitted(u, cand) ==
    [AddAll(u, [i \in DOMAIN cand.templates |->
                    [cand.templates[i] EXCEPT !.con.status = "CONFIRMED"]])
      EXCEPT !.receipts = @ \cup {TemplateIds(cand)}]

\* Everything committed is CONFIRMED, and a receipt names what was applied.
Confirmed(templates) ==
    [i \in DOMAIN templates |-> [templates[i] EXCEPT !.con.status = "CONFIRMED"]]
Committed(u, cand) ==
    [AddTemplates(u, Confirmed(cand.templates)) EXCEPT !.receipts = @ \cup {TemplateIds(cand)}]

MutantResolve(cand, decision, requested, dryRun, legacy, u, w, checks) ==
    IF decision \in {"REJECT", "DEFER", "INVALID"} THEN "REJECTED"
    ELSE IF ~Identifiable(cand) THEN "BLOCKED"
    ELSE IF WorldStale(cand, w, legacy) \/ cand.source.ucm # Hash(u) THEN "STALE"
    ELSE IF cand.missing # {} \/ ~Decidable(cand, decision) THEN "BLOCKED"
    ELSE IF AllDuplicate(u, cand) THEN "ALREADY_PRESENT"
    ELSE IF dryRun THEN "NOT_APPLIED" ELSE "APPLIED"

\* The early returns of apply_intent_decision, in their order.  checks is what
\* run_validation says of the trial set, of which it reads everything but the
\* dependency edges.
Resolve(cand, decision, requested, dryRun, legacy, u, w, checks) ==
    IF decision = "REJECT" THEN "REJECTED"
    ELSE IF decision = "DEFER" THEN "DEFERRED"
    ELSE IF decision = "INVALID" THEN "REJECTED"
    ELSE IF ~Identifiable(cand) THEN "BLOCKED"
    ELSE IF WorldStale(cand, w, legacy) THEN "STALE"
    ELSE IF cand.missing # {} \/ ~Decidable(cand, decision) THEN "BLOCKED"
    ELSE IF \E c \in Constraints(cand) : c.source # Inferred THEN "BLOCKED"
    ELSE IF Repetitive(cand) THEN "BLOCKED"
    ELSE IF decision = "ALREADY_SATISFIED"
         THEN IF AllDuplicate(u, cand) THEN "ALREADY_PRESENT" ELSE "BLOCKED"
    ELSE IF AllDuplicate(u, cand) /\ ~legacy THEN "ALREADY_PRESENT"
    ELSE IF cand.source.ucm # Hash(u) THEN "STALE"
    ELSE IF AllDuplicate(u, cand) THEN "ALREADY_PRESENT"
    ELSE IF Duplicates(u, cand) \cup Conflicts(u, cand) # {} THEN "BLOCKED"
    ELSE IF \E id \in Ids(u) : u.cons[id].unsupported THEN "BLOCKED"
    ELSE IF ScenarioBlocked(cand, requested, w, u, legacy) THEN "BLOCKED"
    ELSE IF MissingLinks(u, cand) \/ ~Placeable(u, cand) THEN "BLOCKED"
    ELSE IF checks = "failed" THEN "FAILED_VALIDATION"
    ELSE IF checks = "unresolved" THEN "BLOCKED"
    ELSE IF dryRun THEN "NOT_APPLIED" ELSE "APPLIED"

\* Some decision applies it, a session's or that of the legacy adapter
\* accept_candidate.
Checks == {"passed", "failed", "unresolved"}
Applicable(cand, u, w) ==
    \/ \E d \in Decisions, requested \in SUBSET Known(w, u, FALSE), dryRun \in BOOLEAN, checks \in Checks :
          Resolve(cand, d, requested, dryRun, FALSE, u, w, checks) = "APPLIED"
    \/ \E checks \in Checks :
          Resolve(cand, "ACCEPT", {}, FALSE, TRUE, u, w, checks) = "APPLIED"

\* ------------------------------------------------------------- sessions

\* What a session can be offered: what inference says of its set now, and the
\* coordinated candidates a caller builds from templates of its own.
Package(templates, w, u) ==
    [subject |-> <<"package", templates[1].con.scope[2]>>, status |-> "INFERRED",
     decision |-> "ACCEPTABLE", missing |-> {}, templates |-> templates,
     source |-> SourceIdentity(w, u)]
Offers(w, u) == InferCandidates(w, u) \cup {Package(t, w, u) : t \in Packages}

Init ==
    /\ world \in Worlds
    /\ ucm = [s \in Sessions |-> None]
    /\ held = [s \in Sessions |-> None]
    /\ file = None
    /\ writing = [s \in Sessions |-> FALSE]

\* _load_canonical_ucm: an empty set without a file; a torn or inconsistent
\* file ends the command.
Loaded == IF file = None THEN EmptySet(Scenarios) ELSE FromSnapshot(file, FALSE, TRUE)
\* Bound: a full set is not loaded again.  It would be restored as it was
\* saved (SavedSetRestores), but for the counter, which only additions read.
Load(s) ==
    /\ ucm[s] = None /\ file # Torn
    /\ Loaded # Refused
    /\ Cardinality(Ids(Loaded)) < MaxConstraints
    /\ ucm' = [ucm EXCEPT ![s] = Loaded]
    /\ UNCHANGED <<world, held, file, writing>>

Open(s) == ucm[s] # None /\ ~writing[s]

Infer(s) ==
    /\ Open(s)
    /\ \E c \in Offers(world, ucm[s]) : held' = [held EXCEPT ![s] = c]
    /\ UNCHANGED <<world, ucm, file, writing>>

\* An explicit decision on the candidate kept; every other result than
\* APPLIED leaves the caller's set as it was.
Decide(s) ==
    /\ Open(s) /\ held[s] # None
    /\ Cardinality(Ids(ucm[s])) + Len(held[s].templates) <= MaxConstraints
    /\ Applicable(held[s], ucm[s], world)
    /\ ucm' = [ucm EXCEPT ![s] = Committed(@, held[s])]
    /\ UNCHANGED <<world, held, file, writing>>

\* Intent added by hand or by an importer: the factories take a fresh id.
Edit(s) ==
    /\ Open(s) /\ Cardinality(Ids(ucm[s])) < MaxConstraints
    /\ \E c \in UserIntent :
         /\ c.assumptions \subseteq DOMAIN ucm[s].ledger /\ c.deps \subseteq Ids(ucm[s])
         /\ ucm' = [ucm EXCEPT ![s] = Create(@, "CLK", c)]
    /\ UNCHANGED <<world, held, file, writing>>

Assume(s) ==
    /\ Open(s) /\ ucm[s].nextAssumption = 0
    /\ ucm' = [ucm EXCEPT ![s] = MakeAssumption(@)]
    /\ UNCHANGED <<world, held, file, writing>>

Depend(s) ==
    /\ Open(s) /\ Cardinality(Forward(ucm[s])) < MaxEdges
    /\ \E up, down \in Ids(ucm[s]) :
         ucm' = [ucm EXCEPT ![s] = AddDependencyEdge(@, up, down)]
    /\ UNCHANGED <<world, held, file, writing>>

\* A command ends, by itself or killed, with whatever it had not written.
Ended(s) ==
    /\ ucm' = [ucm EXCEPT ![s] = None] /\ held' = [held EXCEPT ![s] = None]
    /\ writing' = [writing EXCEPT ![s] = FALSE]

\* _write_canonical_ucm is the last thing a command does: a temporary file
\* renamed, or with --output a plain write that another session can see begun
\* and not ended.
SaveAtomic(s) ==
    /\ Open(s) /\ Ended(s)
    /\ file' = ToSnapshot(ucm[s])
    /\ UNCHANGED world
BeginWrite(s) ==
    /\ Open(s)
    /\ file' = Torn /\ writing' = [writing EXCEPT ![s] = TRUE]
    /\ held' = [held EXCEPT ![s] = None]      \* nothing reads it any more
    /\ UNCHANGED <<world, ucm>>
EndWrite(s) ==
    /\ writing[s] /\ Ended(s)
    /\ file' = ToSnapshot(ucm[s])
    /\ UNCHANGED world
Exit(s) ==
    /\ ucm[s] # None /\ Ended(s)
    /\ UNCHANGED <<world, file>>

\* Someone edits the design or the project file.  Bound: while a candidate is
\* kept; without one nobody knows the world until the next inference.
Reconfigure ==
    /\ \E s \in Sessions : held[s] # None
    /\ world' \in Worlds \ {world}
    /\ UNCHANGED <<ucm, held, file, writing>>

Next ==
    \/ \E s \in Sessions :
         \/ Load(s) \/ Infer(s) \/ Decide(s) \/ Edit(s) \/ Assume(s) \/ Depend(s)
         \/ SaveAtomic(s) \/ BeginWrite(s) \/ EndWrite(s) \/ Exit(s)
    \/ Reconfigure

Spec == Init /\ [][Next]_vars

\* ----------------------------------------------------------- properties

\* Whatever sequence of edits, edges and applications made it, a set restores
\* from its own snapshot exactly, without repair, on disk as in memory: the
\* two edge directions never drift apart (from_snapshot_dict refuses a set
\* whose directions disagree).
RoundTrips(u) ==
    FromSnapshot(ToSnapshot(u), FALSE, TRUE) = [u EXCEPT !.counter = NumericMax(Ids(u))]
SavedSetRestores ==
    /\ \A s \in Sessions : ucm[s] # None => RoundTrips(ucm[s])
    /\ file \notin {None, Torn} => RoundTrips(file)

\* What is applied is what inference would still offer at that moment: every
\* identity a kept candidate carries, taken together, catches any change of
\* design, configuration or set that would alter or withdraw it, by the
\* legacy adapter too, which passes no configuration.
Applies(s) ==
    /\ ucm[s] # None /\ ucm'[s] # None
    /\ ucm'[s].receipts # ucm[s].receipts
AppliedIsFresh ==
    [][\A s \in Sessions : Applies(s) =>
         \E c \in Offers(world, ucm[s]) :
            /\ c.templates = held[s].templates
            /\ c.decision = "ACCEPTABLE"]_vars

\* A retry of an application is recognised whatever was added since: as long
\* as design and configuration are the same and each constraint is there once,
\* deciding the same candidate again reports it present, and never calls it
\* stale or in conflict.
PresentOnce(u, cand) ==
    \A c \in Constraints(cand) :
        Cardinality(Exact(u, c)) = 1 /\ Conflicting(u, c) = {}
RetryRecognised ==
    \A s \in Sessions :
        (ucm[s] # None /\ held[s] # None) =>
        ((/\ held[s].decision = "ACCEPTABLE"
          /\ TemplateIds(held[s]) \in ucm[s].receipts
          /\ ~WorldStale(held[s], world, FALSE)
          /\ PresentOnce(ucm[s], held[s])) =>
         Resolve(held[s], "ACCEPT", {}, FALSE, FALSE, ucm[s], world, "passed")
           = "ALREADY_PRESENT")

\* When an assumption changes, everything that rests on it is reported stale,
\* directly or through any chain of dependencies, although the report walks
\* the reverse edges and the ledger and not the dependencies themselves.
RestsOn(u, aids) ==
    Reached(Forward(u), {id \in Ids(u) : u.cons[id].assumptions \cap aids # {}},
            Cardinality(Ids(u)))
StaleReachesDependents ==
    \A s \in Sessions : ucm[s] # None =>
        \A a \in DOMAIN ucm[s].ledger :
            RestsOn(ucm[s], {a}) \subseteq StaleConstraints(ucm[s], {}, {a})
=============================================================================
