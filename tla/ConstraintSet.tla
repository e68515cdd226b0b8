--------------------------- MODULE ConstraintSet ---------------------------
(***************************************************************************)
(* The unified constraint model (UCM) of constraint_model/: a set of       *)
(* constraints under ids, the dependency edges kept in both directions,    *)
(* the counter fresh ids come from, the assumption ledger, and the         *)
(* snapshot a set is written to and restored from.                         *)
(*                                                                         *)
(* An id is <<prefix, object, number>>: CLK0001 is <<"CLK", "", 1>>, and   *)
(* CLK__clk, which has no digits, is <<"CLK", "clk", 0>>.  A constraint    *)
(* keeps what normalisation tells apart: "scope" is the match key (type,   *)
(* identity fields, targets, clocks), "value" everything else; "pinned" is *)
(* opt_status FIXED, which the optimizer may not touch.                    *)
(***************************************************************************)
EXTENDS Integers, FiniteSets, FiniteSetsExt, Functions

CONSTANT Refused      \* a restore that raised SnapshotFormatError

Inferred == "INFERENCE"

\* ------------------------------------------------------------ constraints

NonEmittable == {"REJECTED", "DEPRECATED", "MISSING"}

Fixed(c) == c.status = "FIXED" \/ c.pinned

\* Constraint.is_safe_to_emit in its three modes.
SafeToEmit(c, mode) ==
    /\ ~c.disabled
    /\ c.status \notin NonEmittable
    /\ \/ Fixed(c)
       \/ mode = "strict" /\ c.high /\ c.status = "CONFIRMED"
       \/ mode = "balanced" /\ (c.status = "REQUIRES_CONFIRMATION" => c.high)
       \/ mode = "exploratory"

\* Semantic identity as normalize_constraint sees it: ids, status, source and
\* provenance play no part.
Normal(c) == <<c.scope, c.scenarios, c.disabled, c.value>>
\* What semantic_match_key groups by: the same thing is constrained.
MatchKey(c) == <<c.scope, c.scenarios>>

\* -------------------------------------------------------------- the ledger

\* AssumptionLedger.make: the next id, bound to nothing yet.
MakeAssumption(u) ==
    LET new == u.nextAssumption + 1
    IN [u EXCEPT !.ledger = [a \in DOMAIN u.ledger \cup {new} |->
                                IF a \in DOMAIN u.ledger THEN u.ledger[a] ELSE {}],
                 !.nextAssumption = new]

\* bind_constraint skips an id the ledger does not hold.
BindConstraint(ledger, aids, id) ==
    [a \in DOMAIN ledger |-> IF a \in aids THEN ledger[a] \cup {id} ELSE ledger[a]]

StaleConsumers(ledger, aids) == UNION {ledger[a] : a \in aids \cap DOMAIN ledger}

\* ----------------------------------------------------------------- the set

EmptySet(scenarios) ==
    [cons |-> <<>>, counter |-> 0, ledger |-> <<>>, nextAssumption |-> 0,
     scenarios |-> scenarios, receipts |-> {}]

Ids(u) == DOMAIN u.cons
\* _id_numeric_max, taken when a set is built or restored.
NumericMax(ids) == Max({id[3] : id \in ids} \cup {0})

NextId(u, prefix) == <<prefix, "", u.counter + 1>>
Bumped(u) == [u EXCEPT !.counter = @ + 1]

\* ConstraintSet.add: a missing or taken id is replaced by the counter's next
\* one, upstream constraints already present learn of the new dependent, and
\* the assumptions it rests on are bound to it.
AddAs(u, id, c) ==
    LET upstream(x) == IF x \in c.deps
                       THEN [u.cons[x] EXCEPT !.downs = @ \cup {id}] ELSE u.cons[x]
    IN [u EXCEPT !.cons = [x \in Ids(u) \cup {id} |-> IF x = id THEN c ELSE upstream(x)],
                 !.ledger = BindConstraint(@, c.assumptions, id)]

AssignedId(u, id) == IF id \in Ids(u) THEN NextId(u, "C") ELSE id

Add(u, id, c) ==
    AddAs(IF id \in Ids(u) THEN Bumped(u) ELSE u, AssignedId(u, id), c)

\* The create_* factories: the counter's next id under their own prefix.
Create(u, prefix, c) == Add(Bumped(u), NextId(u, prefix), c)

\* add_dependency_edge, for a set of edges <<up, down>>: it keeps both
\* directions, and ignores an edge that has a missing end or runs from a
\* constraint to itself.
DrawEdges(u, edges) ==
    LET drawn == {e \in edges : {e[1], e[2]} \subseteq Ids(u) /\ e[1] # e[2]}
    IN [u EXCEPT !.cons = [x \in Ids(u) |->
            [u.cons[x] EXCEPT !.downs = @ \cup {e[2] : e \in {d \in drawn : d[1] = x}},
                              !.deps = @ \cup {e[1] : e \in {d \in drawn : d[2] = x}}]]]

AddDependencyEdge(u, up, down) == DrawEdges(u, {<<up, down>>})

\* The edges of a set, as its forward lists and as its reverse lists have them.
Forward(u)  == {e \in Ids(u) \X Ids(u) : e[1] \in u.cons[e[2]].deps}
Backward(u) == {e \in Ids(u) \X Ids(u) : e[2] \in u.cons[e[1]].downs}
ReverseMismatches(u) == (Forward(u) \ Backward(u)) \cup (Backward(u) \ Forward(u))

\* What edges reach from a set of ids, which it contains.
Reached(edges, from, bound) ==
    LET step[n \in 0 .. bound] ==
            IF n = 0 THEN from
            ELSE LET before == step[n - 1]
                 IN before \cup {e[2] : e \in {d \in edges : d[1] \in before}}
    IN step[bound]

DownstreamClosure(u, id) == Reached(Backward(u), {id}, Cardinality(Ids(u)))

MutantStaleConstraints(u, changed, aids) ==
    LET touched == changed \cup StaleConsumers(u.ledger, aids)
                     \cup {id \in Ids(u) : u.cons[id].assumptions \cap aids # {}}
    IN touched \cup UNION {u.cons[id].downs : id \in touched \cap Ids(u)}

\* stale_set for changed assumptions: their consumers by either record, and
\* everything downstream of those.
StaleConstraints(u, changed, aids) ==
    LET touched == changed \cup StaleConsumers(u.ledger, aids)
                     \cup {id \in Ids(u) : u.cons[id].assumptions \cap aids # {}}
    IN UNION {DownstreamClosure(u, id) : id \in touched}

\* The strongly connected components of more than one constraint.
DependencyCycles(u) ==
    LET reach(id) == Reached({<<e[2], e[1]>> : e \in Forward(u)}, {id}, Cardinality(Ids(u)))
        component(id) == {x \in reach(id) : id \in reach(x)}
    IN {s \in {component(id) : id \in Ids(u)} : Cardinality(s) > 1}

\* stable_hash_cset: the sorted keys of the constraints, each with its id, its
\* content and both its statuses, and without links, provenance or ledger.
HashKey(c) == <<Normal(c), c.status, c.pinned>>
Hash(u) == {<<id, HashKey(u.cons[id])>> : id \in Ids(u)}

\* --------------------------------------------------------------- snapshots

\* to_snapshot_dict writes everything but the counter.  It sorts the lists that
\* are sets here, and restores no extension fields, which nothing here reads.
ToSnapshot(u) == [u EXCEPT !.counter = 0]

\* No end of an edge is missing, and none is the constraint itself.
EdgesSound(u) ==
    \A id \in Ids(u) : u.cons[id].deps \cup u.cons[id].downs \subseteq Ids(u) \ {id}

\* Reverse lists rebuilt from the forward ones.
Repaired(u) ==
    [u EXCEPT !.cons = [id \in Ids(u) |->
        [u.cons[id] EXCEPT !.downs = {e[2] : e \in {d \in Forward(u) : d[1] = id}}]]]

\* from_snapshot_dict: a structural fault is refused even under repair, a
\* mismatch of the two directions unless repair is asked for, a cycle when
\* cycles are not allowed.  The counter restarts from the highest number.
FromSnapshot(snap, repair, allowCycles) ==
    LET u == [snap EXCEPT !.counter = NumericMax(Ids(snap))]
    IN IF \/ ~EdgesSound(u)
          \/ ~allowCycles /\ DependencyCycles(u) # {}
          \/ ReverseMismatches(u) # {} /\ ~repair
       THEN Refused
       ELSE IF ReverseMismatches(u) # {} THEN Repaired(u) ELSE u

\* clone(): the same constraints, counter and ledger under other identities.
Clone(u) == u
=============================================================================
