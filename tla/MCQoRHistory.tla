---------------------------- MODULE MCQoRHistory ----------------------------
(***************************************************************************)
(* Small plays for the QoR history database.                               *)
(***************************************************************************)
EXTENDS QoRHistory

CONSTANTS r1, r2, c0, c1, S1, S2, a, b, setup, hold, u, p1, p2, p3

MCRunOrder == <<r1, r2>>

Qor(run) == [run |-> run, content |-> a]
Candidate(id, parent, qor, mcmm) ==
    [id |-> id, parent |-> parent, cset |-> u, qor |-> qor, mcmm |-> mcmm]
Member(sid, qor) == [sid |-> sid, qor |-> qor]

Write(run, content) == [op |-> "write", run |-> run, content |-> content]
Index(run, memory) ==
    [op |-> "index", flow |-> [run |-> run, memory |-> memory, cset |-> u]]
Session(s, candidates) == [op |-> "session", session |-> s, candidates |-> candidates]
Aggregate(s, candidate) == [op |-> "aggregate", session |-> s, candidate |-> candidate]
Snapshot(candidates) == [op |-> "snapshot", candidates |-> candidates]
Import == [op |-> "import"]

Play(x, y, z) == (p1 :> x) @@ (p2 :> y) @@ (p3 :> z)

\* A baseline and its child that reuse one run; a candidate elsewhere that
\* reuses it too.
Reusing == <<Candidate(c0, None, Qor(r1), None), Candidate(c1, c0, Qor(r1), None)>>
Other   == <<Candidate(c0, None, Qor(r1), None)>>
TwoRuns == <<Candidate(c0, None, Qor(r1), None), Candidate(c1, c0, Qor(r2), None)>>
Mocked  == <<Candidate(c0, None, Qor(None), None)>>
Doubled == <<Candidate(c0, None, Qor(r1), None), Candidate(c0, None, Qor(r2), None)>>

Corners == <<Member(setup, Qor(r1)), Member(hold, Qor(r2))>>
Missing == <<Member(setup, Qor(r1)), Member(hold, None)>>
Cornered == <<Candidate(c0, None, None, Corners)>>
Bare == Candidate(c0, None, None, None)

\* Two optimizer commands sharing a run, and an import.
SharedRun == Play(
    <<Write(r1, a), Snapshot(Reusing), Index(r1, a), Session(S1, Reusing)>>,
    <<Session(S2, Other)>>,
    <<Import>>)

\* The same session recorded twice, beside an import done twice.
Repeated == Play(
    <<Write(r1, a), Write(r2, a), Index(r1, a), Session(S1, TwoRuns)>>,
    <<Snapshot(TwoRuns), Session(S1, TwoRuns)>>,
    <<Import, Import>>)

\* MCMM evidence, indexed late and from a QoR touched after it was written.
CornerRuns == Play(
    <<Write(r1, a), Write(r2, a), Index(r1, b), Session(S1, Cornered)>>,
    <<Session(S2, <<Candidate(c0, None, None, Missing)>>)>>,
    <<Import>>)

\* An aggregate added to a recorded candidate; a session with colliding ids.
Added == Play(
    <<Write(r1, a), Session(S1, <<Bare>>), Aggregate(S1, Cornered[1])>>,
    <<Aggregate(S1, [Bare EXCEPT !.mcmm = Missing]), Index(r1, a)>>,
    <<Session(S2, Doubled), Session(S2, Mocked)>>)

\* Two default runs of one second share a directory.
SameDirectory == Play(
    <<Write(r1, a), Index(r1, a)>>, <<Write(r1, b), Index(r1, b)>>,
    <<Snapshot(Cornered), Import>>)

MCScripts == {SharedRun, Repeated, CornerRuns, Added, SameDirectory}
=============================================================================
