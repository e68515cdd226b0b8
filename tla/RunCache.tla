------------------------------ MODULE RunCache ------------------------------
(***************************************************************************)
(* Calls of run_flow (src/src/rca/eda/flow.py, real backend) and the cache *)
(* of finished experiments they share: the run directories under           *)
(* <output_dir>/runs and the manifest in each.  Processes are optimizer    *)
(* workers or separate invocations; the file system survives their         *)
(* crashes.  A file's content is what it was computed from, so that equal  *)
(* hashes mean equal content and a QoR tells which inputs it measured.     *)
(*                                                                         *)
(* Environment: run ids of concurrent calls differ and are new             *)
(* (_parallel_task_flow_id, or the second in the default id); a directory  *)
(* is used again only while no other call runs; inputs are not edited      *)
(* while a call runs; files may be damaged at any time, but not under the  *)
(* call that writes them.                                                  *)
(***************************************************************************)
EXTENDS Naturals, FiniteSets, Sequences

CONSTANTS
    Procs,      \* processes that call run_flow
    Dirs,       \* run ids, numbered from the last name to the first
    Worlds,     \* contents of sources, includes, Liberty, power report, config
    Sdcs,       \* constraint texts
    Missing,    \* no such file, no such manifest, no QoR
    Torn,       \* a file that is not what its writer wrote: truncated JSON, say
    Unread,     \* the hash of a file that could not be read ("")
    Unhashable, \* artifacts that may be unreadable when they are to be hashed
    MaxCalls,   \* bound: calls made
    MaxFaults   \* bound: files damaged, overwritten, or not readable when hashed

ASSUME CacheAssumption ==
    /\ Dirs \subseteq Nat
    /\ Missing # Torn /\ Unread \notin {Missing, Torn}
    /\ Unhashable \subseteq {"netlist"}
    /\ {Missing, Torn, Unread} \cap (Worlds \cup Sdcs \cup [synth : Worlds, sta : Worlds, sdc : Sdcs]) = {}

VARIABLES
    world,      \* the inputs as they are on disk now
    files,      \* run directory -> artifact -> content
    manifest,   \* run directory -> run_manifest.json
    made,       \* run directories created
    pc,         \* where each process is in run_flow; "idle" outside
    dir,        \* its run_dir
    force,      \* its force argument
    key,        \* its cache_key
    todo,       \* directories _find_cached_run has still to look at
    hit,        \* the entry it is verifying, or has verified
    owed,       \* of that entry's manifest: artifacts still to verify -> hash
    qor,        \* the QoR STA gave it
    status,     \* the status of its run
    intact,     \* history, for the lookup: entries nobody else uses, reusable as it began
    result,     \* what its last call returned
    calls, faults

disk   == <<files, manifest, made>>
lookup == <<todo, hit, owed, intact>>
flow   == <<qor, status>>
args   == <<dir, force, key>>
bounds == <<calls, faults>>
vars == <<world, disk, pc, args, lookup, flow, result, bounds>>

-----------------------------------------------------------------------------
Artifacts == {"sdc", "netlist", "log", "qor"}
Hashed    == Artifacts \ {"log"}
Required  == {"sdc", "netlist", "qor"}
Reusable  == {"SUCCESS", "TIMING_FAIL"}
Statuses  == Reusable \cup {"BLOCKED", "SYNTHESIS_FAILED", "STA_FAILED"}

\* What STA may end with.
StaOutcomes == Statuses \ {"SYNTHESIS_FAILED"}

Keys == [world : Worlds, sdc : Sdcs]

\* What the tools report: synthesis and STA each read the inputs they find.
QoRs == [synth : Worlds, sta : Worlds, sdc : Sdcs]
Measured(k) == [synth |-> k.world, sta |-> k.world, sdc |-> k.sdc]

\* A manifest records the artifacts that were there, with their hashes; a file
\* that cannot be read has none.
Recorded(d, names, unread) ==
    [a \in {n \in names : files[d][n] # Missing} |->
        IF a \in unread THEN Unread ELSE files[d][a]]

Entry(d, names, unread, k, s) ==
    [key |-> k, status |-> s, hashes |-> Recorded(d, names, unread)]

\* The manifest of a run with these inputs that can be reused.
Usable(m, k) ==
    /\ m # Missing
    /\ m.key = k /\ m.status \in Reusable /\ Required \subseteq DOMAIN m.hashes

\* Mutant: only asks whether the artifact is there.
FitsUnhashed(d, a, hash) == files[d][a] # Missing

\* The file is there and, if that was recorded of it, has the hash.
Fits(d, a, hash) ==
    /\ files[d][a] # Missing
    /\ a \in Hashed /\ hash # Unread => files[d][a] = hash

\* What the integrity check of _find_cached_run asks of an entry, at one moment.
Valid(d, k) ==
    /\ Usable(manifest[d], k)
    /\ \A a \in DOMAIN manifest[d].hashes : Fits(d, a, manifest[d].hashes[a])

Busy == {p \in Procs : pc[p] # "idle"}
InUse(d, p) == \E q \in Busy \ {p} : dir[q] = d

Init ==
    /\ world \in Worlds
    /\ files = [d \in Dirs |-> [a \in Artifacts |-> Missing]]
    /\ manifest = [d \in Dirs |-> Missing]
    /\ made = {}
    /\ pc = [p \in Procs |-> "idle"]
    /\ dir = [p \in Procs |-> Missing]
    /\ force = [p \in Procs |-> FALSE]
    /\ key = [p \in Procs |-> Missing]
    /\ todo = [p \in Procs |-> {}]
    /\ hit = [p \in Procs |-> Missing]
    /\ owed = [p \in Procs |-> <<>>]
    /\ intact = [p \in Procs |-> {}]
    /\ qor = [p \in Procs |-> Missing]
    /\ status = [p \in Procs |-> "BLOCKED"]
    /\ result = [p \in Procs |-> Missing]
    /\ calls = 0 /\ faults = 0

-----------------------------------------------------------------------------
(* One call.                                                               *)

\* mkdir and generated.sdc.
Call(p, d, s, f) ==
    /\ pc[p] = "idle" /\ calls < MaxCalls
    /\ d \notin made \/ Busy = {}
    /\ made' = made \cup {d}
    /\ files' = [files EXCEPT ![d].sdc = s]
    /\ pc' = [pc EXCEPT ![p] = "hash"]
    /\ dir' = [dir EXCEPT ![p] = d]
    /\ force' = [force EXCEPT ![p] = f]
    /\ result' = [result EXCEPT ![p] = Missing]
    /\ calls' = calls + 1
    /\ UNCHANGED <<world, manifest, key, lookup, flow, faults>>

\* Mutant: the sources are named in the key, not hashed.
HashInputsByName(p) ==
    LET k == [world |-> CHOOSE w \in Worlds : TRUE, sdc |-> files[dir[p]].sdc] IN
    /\ pc[p] = "hash"
    /\ key' = [key EXCEPT ![p] = k]
    /\ \/ /\ force[p]
          /\ pc' = [pc EXCEPT ![p] = "preflight"]
          /\ UNCHANGED <<todo, intact>>
       \/ /\ ~force[p]
          /\ pc' = [pc EXCEPT ![p] = "lookup"]
          /\ todo' = [todo EXCEPT ![p] = made]
          /\ intact' = [intact EXCEPT ![p] = {d \in made : Valid(d, k) /\ ~InUse(d, p)}]
    /\ UNCHANGED <<world, disk, dir, force, hit, owed, flow, result, bounds>>

\* Hash the inputs; unless forced, list the run directories for the lookup.
HashInputs(p) ==
    LET k == [world |-> world, sdc |-> files[dir[p]].sdc] IN
    /\ pc[p] = "hash"
    /\ key' = [key EXCEPT ![p] = k]
    /\ \/ /\ force[p]
          /\ pc' = [pc EXCEPT ![p] = "preflight"]
          /\ UNCHANGED <<todo, intact>>
       \/ /\ ~force[p]
          /\ pc' = [pc EXCEPT ![p] = "lookup"]
          /\ todo' = [todo EXCEPT ![p] = made]
          /\ intact' = [intact EXCEPT ![p] = {d \in made : Valid(d, k) /\ ~InUse(d, p)}]
    /\ UNCHANGED <<world, disk, dir, force, hit, owed, flow, result, bounds>>

Newest(p) == CHOOSE d \in todo[p] : \A e \in todo[p] : d <= e

\* Mutant: the first entry with the right key decides.
LookupFirst(p) ==
    /\ pc[p] = "lookup" /\ todo[p] # {}
    /\ LET d == Newest(p) IN
          /\ todo' = [todo EXCEPT ![p] = IF manifest[d] # Missing /\ manifest[d].key = key[p]
                                         THEN {} ELSE @ \ {d}]
          /\ \/ /\ Usable(manifest[d], key[p])
                /\ hit' = [hit EXCEPT ![p] = d]
                /\ owed' = [owed EXCEPT ![p] = manifest[d].hashes]
                /\ pc' = [pc EXCEPT ![p] = "verify"]
             \/ /\ ~Usable(manifest[d], key[p])
                /\ UNCHANGED <<hit, owed, pc>>
    /\ UNCHANGED <<world, disk, args, intact, flow, result, bounds>>

\* Read the manifest of the next entry, the last name first.
Lookup(p) ==
    /\ pc[p] = "lookup" /\ todo[p] # {}
    /\ LET d == Newest(p) IN
          /\ todo' = [todo EXCEPT ![p] = @ \ {d}]
          /\ \/ /\ Usable(manifest[d], key[p])
                /\ hit' = [hit EXCEPT ![p] = d]
                /\ owed' = [owed EXCEPT ![p] = manifest[d].hashes]
                /\ pc' = [pc EXCEPT ![p] = "verify"]
             \/ /\ ~Usable(manifest[d], key[p])
                /\ UNCHANGED <<hit, owed, pc>>
    /\ UNCHANGED <<world, disk, args, intact, flow, result, bounds>>

\* The manifest lists artifacts in this order; each is looked at in turn.
Listing == <<"sdc", "netlist", "log", "qor">>
Due(p, a) ==
    /\ a \in DOMAIN owed[p]
    /\ \A i, j \in DOMAIN Listing :
          Listing[i] \in DOMAIN owed[p] /\ Listing[j] = a => j <= i

\* Compare one artifact with the manifest read before; others write meanwhile.
VerifyFile(p, a) ==
    /\ pc[p] = "verify" /\ Due(p, a)
    /\ \/ /\ Fits(hit[p], a, owed[p][a])
          /\ owed' = [owed EXCEPT ![p] = [b \in DOMAIN @ \ {a} |-> @[b]]]
          /\ pc' = [pc EXCEPT ![p] = IF DOMAIN owed[p] = {a} THEN "read" ELSE "verify"]
          /\ UNCHANGED hit
       \/ /\ ~Fits(hit[p], a, owed[p][a])
          /\ owed' = [owed EXCEPT ![p] = <<>>]
          /\ hit' = [hit EXCEPT ![p] = Missing]
          /\ pc' = [pc EXCEPT ![p] = "lookup"]
    /\ UNCHANGED <<world, disk, args, todo, intact, flow, result, bounds>>

\* The locals of the call are gone.
Leave(p) ==
    /\ pc' = [pc EXCEPT ![p] = "idle"]
    /\ dir' = [dir EXCEPT ![p] = Missing]
    /\ force' = [force EXCEPT ![p] = FALSE]
    /\ key' = [key EXCEPT ![p] = Missing]
    /\ todo' = [todo EXCEPT ![p] = {}]
    /\ hit' = [hit EXCEPT ![p] = Missing]
    /\ owed' = [owed EXCEPT ![p] = <<>>]
    /\ intact' = [intact EXCEPT ![p] = {}]
    /\ qor' = [qor EXCEPT ![p] = Missing]
    /\ status' = [status EXCEPT ![p] = "BLOCKED"]

Return(p, s, q) ==
    /\ result' = [result EXCEPT ![p] = [status |-> s, key |-> key[p], qor |-> q]]
    /\ Leave(p)

\* Read the verified entry's qor.json: gone since, the hit has no QoR;
\* unreadable, the lookup goes on.
ReadHit(p) ==
    LET q == files[hit[p]].qor IN
    /\ pc[p] = "read"
    /\ \/ q # Torn /\ Return(p, "CACHE_HIT", q)
       \/ /\ q = Torn
          /\ pc' = [pc EXCEPT ![p] = "lookup"]
          /\ hit' = [hit EXCEPT ![p] = Missing]
          /\ UNCHANGED <<args, todo, owed, intact, flow, result>>
    /\ UNCHANGED <<world, disk, bounds>>

Miss(p) ==
    /\ pc[p] = "lookup" /\ todo[p] = {}
    /\ pc' = [pc EXCEPT ![p] = "preflight"]
    /\ UNCHANGED <<world, disk, args, lookup, flow, result, bounds>>

\* _blocked: a manifest without netlist and QoR; storing it may fail.
Blocked(p, s, names) ==
    /\ \/ manifest' = [manifest EXCEPT ![dir[p]] = Entry(dir[p], names, {}, key[p], s)]
       \/ UNCHANGED manifest
    /\ Return(p, s, Missing)

NotReady(p) ==
    /\ pc[p] = "preflight"
    /\ Blocked(p, "BLOCKED", {"sdc"})
    /\ UNCHANGED <<world, files, made, bounds>>

Outputs == {"netlist", "qor", "log"}
Without(d, names) ==
    [files EXCEPT ![d] = [a \in Artifacts |-> IF a \in names THEN Missing ELSE @[a]]]

\* _clear_stale_execution_outputs.
ClearStale(p) ==
    /\ pc[p] = "preflight"
    /\ files' = Without(dir[p], Outputs)
    /\ pc' = [pc EXCEPT ![p] = "synthesize"]
    /\ intact' = [intact EXCEPT ![p] = {}]
    /\ UNCHANGED <<world, manifest, made, args, todo, hit, owed, flow, result, bounds>>

\* It gets so far in the order of its list and cannot remove the next one.
ClearFails(p) ==
    /\ pc[p] = "preflight"
    /\ \E gone \in {{}, {"netlist"}, {"netlist", "qor"}} :
          /\ \E a \in Outputs \ gone : files[dir[p]][a] # Missing
          /\ files' = Without(dir[p], gone)
    /\ Blocked(p, "BLOCKED", {"sdc"})
    /\ UNCHANGED <<world, made, bounds>>

\* Yosys reads the inputs and writes the netlist and its log.
Synthesize(p) ==
    /\ pc[p] = "synthesize"
    /\ files' = [files EXCEPT ![dir[p]] = [@ EXCEPT !.netlist = world, !.log = world]]
    /\ pc' = [pc EXCEPT ![p] = "sta"]
    /\ UNCHANGED <<world, manifest, made, args, lookup, flow, result, bounds>>

\* Mutant: the exit code of yosys is not looked at.
SynthesisFailureIgnored(p) ==
    /\ pc[p] = "synthesize"
    /\ \E n \in {Missing, Torn}, l \in {Missing, world} :
          files' = [files EXCEPT ![dir[p]] = [@ EXCEPT !.netlist = n, !.log = l]]
    /\ pc' = [pc EXCEPT ![p] = "sta"]
    /\ UNCHANGED <<world, manifest, made, args, lookup, flow, result, bounds>>

\* Yosys fails, times out or cannot be started, perhaps after writing some of
\* the netlist; its log is there if it ran.
SynthesisFails(p) ==
    /\ pc[p] = "synthesize"
    /\ \E n \in {Missing, Torn}, l \in {Missing, world} :
          files' = [files EXCEPT ![dir[p]] = [@ EXCEPT !.netlist = n, !.log = l]]
    /\ pc' = [pc EXCEPT ![p] = "failed"]
    /\ UNCHANGED <<world, manifest, made, args, lookup, flow, result, bounds>>

RecordFailure(p) ==
    /\ pc[p] = "failed"
    /\ Blocked(p, "SYNTHESIS_FAILED", {"sdc", "log"})
    /\ UNCHANGED <<world, files, made, bounds>>

\* OpenSTA reads netlist, constraints and Liberty; anything but a success or a
\* timing violation gives no QoR.
Sta(p, s) ==
    /\ pc[p] = "sta"
    /\ s \in StaOutcomes
    /\ status' = [status EXCEPT ![p] = s]
    /\ qor' = [qor EXCEPT ![p] =
                  IF s \in Reusable
                  THEN [synth |-> files[dir[p]].netlist, sta |-> world,
                        sdc |-> files[dir[p]].sdc]
                  ELSE Missing]
    /\ pc' = [pc EXCEPT ![p] = IF s \in Reusable THEN "write" ELSE "commit"]
    /\ UNCHANGED <<world, disk, args, lookup, result, bounds>>

\* qor.json is written in place, not atomically.
BeginWriteQor(p) ==
    /\ pc[p] = "write"
    /\ files' = [files EXCEPT ![dir[p]].qor = Torn]
    /\ pc' = [pc EXCEPT ![p] = "writing"]
    /\ UNCHANGED <<world, manifest, made, args, lookup, flow, result, bounds>>

EndWriteQor(p) ==
    /\ pc[p] = "writing"
    /\ files' = [files EXCEPT ![dir[p]].qor = qor[p]]
    /\ pc' = [pc EXCEPT ![p] = "commit"]
    /\ UNCHANGED <<world, manifest, made, args, lookup, flow, result, bounds>>

\* Hash the artifacts that are there and can be read, and replace the manifest
\* atomically.
Commit(p) ==
    /\ pc[p] = "commit"
    /\ \E unread \in SUBSET Unhashable :
          /\ manifest' = [manifest EXCEPT ![dir[p]] =
                             Entry(dir[p], Artifacts, unread, key[p], status[p])]
          /\ faults' = faults + (IF unread = {} THEN 0 ELSE 1)
    /\ faults' <= MaxFaults
    /\ Return(p, status[p], qor[p])
    /\ UNCHANGED <<world, files, made, calls>>

\* The process dies, or run_flow raises: the success path does not catch an
\* error in writing its artifacts or its manifest.
Crash(p) ==
    /\ pc[p] # "idle"
    /\ Leave(p)
    /\ UNCHANGED <<world, disk, result, bounds>>

-----------------------------------------------------------------------------
(* The environment.                                                        *)

\* (After the last call nothing would read them.)
Edit ==
    /\ Busy = {} /\ calls < MaxCalls
    /\ world' \in Worlds \ {world}
    /\ UNCHANGED <<disk, pc, args, lookup, flow, result, bounds>>

\* A file of a directory nobody is writing is removed or truncated.
Damage(d, a) ==
    /\ faults < MaxFaults /\ faults' = faults + 1
    /\ files[d][a] # Missing
    /\ \A p \in Busy : dir[p] # d
    /\ \E x \in {Missing, Torn} \ {files[d][a]} : files' = [files EXCEPT ![d][a] = x]
    /\ UNCHANGED <<world, manifest, made, pc, args, lookup, flow, result, calls>>

\* Between calls, a file is overwritten with that of another run.
Overwrite(d, e, a) ==
    /\ faults < MaxFaults /\ faults' = faults + 1
    /\ Busy = {}
    /\ files[d][a] # Missing /\ files[e][a] \notin {Missing, files[d][a]}
    /\ files' = [files EXCEPT ![d][a] = files[e][a]]
    /\ UNCHANGED <<world, manifest, made, pc, args, lookup, flow, result, calls>>

\* Nobody calls again.
Finished == calls = MaxCalls /\ Busy = {} /\ UNCHANGED vars

Step(p) ==
    \/ HashInputs(p) \/ Lookup(p) \/ ReadHit(p) \/ Miss(p)
    \/ \E a \in Artifacts : VerifyFile(p, a)
    \/ NotReady(p) \/ ClearStale(p) \/ ClearFails(p)
    \/ Synthesize(p) \/ SynthesisFails(p) \/ RecordFailure(p)
    \/ \E s \in Statuses : Sta(p, s)
    \/ BeginWriteQor(p) \/ EndWriteQor(p) \/ Commit(p)

Next ==
    \/ \E p \in Procs, d \in Dirs, s \in Sdcs, f \in BOOLEAN : Call(p, d, s, f)
    \/ \E p \in Procs : Step(p) \/ Crash(p)
    \/ Edit
    \/ \E d \in Dirs, a \in Artifacts : Damage(d, a)
    \/ \E d, e \in Dirs, a \in Artifacts : Overwrite(d, e, a)
    \/ Finished

Spec == Init /\ [][Next]_vars

-----------------------------------------------------------------------------
FileType(a) ==
    {Missing, Torn} \cup
        (IF a = "sdc" THEN Sdcs ELSE IF a = "qor" THEN QoRs ELSE Worlds)
Steps == {"idle", "hash", "lookup", "verify", "read", "preflight", "synthesize", "failed", "sta",
          "write", "writing", "commit"}
Results == [status : Statuses \cup {"CACHE_HIT"}, key : Keys, qor : QoRs \cup {Missing}]

FilesTyped ==
    /\ DOMAIN files = Dirs
    /\ \A d \in Dirs : DOMAIN files[d] = Artifacts
    /\ \A d \in Dirs, a \in Artifacts : files[d][a] \in FileType(a)

HashesTyped(hashes) ==
    /\ DOMAIN hashes \subseteq Artifacts
    /\ \A a \in DOMAIN hashes : hashes[a] \in (FileType(a) \cup {Unread}) \ {Missing}

ManifestTyped(m) ==
    /\ m.key \in Keys /\ m.status \in Statuses
    /\ HashesTyped(m.hashes)

DiskTyped ==
    /\ world \in Worlds
    /\ FilesTyped
    /\ DOMAIN manifest = Dirs
    /\ \A d \in Dirs : manifest[d] # Missing => ManifestTyped(manifest[d])
    /\ made \subseteq Dirs

LocalsTyped ==
    /\ pc \in [Procs -> Steps]
    /\ dir \in [Procs -> Dirs \cup {Missing}]
    /\ \A p \in Procs : pc[p] # "idle" => dir[p] \in made
    /\ force \in [Procs -> BOOLEAN]
    /\ key \in [Procs -> Keys \cup {Missing}]
    /\ \A p \in Procs : pc[p] \notin {"idle", "hash"} => key[p] \in Keys
    /\ todo \in [Procs -> SUBSET Dirs] /\ intact \in [Procs -> SUBSET Dirs]
    /\ hit \in [Procs -> Dirs \cup {Missing}]
    /\ DOMAIN owed = Procs /\ \A p \in Procs : HashesTyped(owed[p])
    /\ qor \in [Procs -> QoRs \cup {Missing}] /\ status \in [Procs -> Statuses]
    /\ result \in [Procs -> Results \cup {Missing}]
    /\ calls \in Nat /\ faults \in Nat

\* Files, manifests and the locals of run_flow have the types of the code's; a
\* call that is running has made its directory.
TypeOK == DiskTyped /\ LocalsTyped

\* Whatever crashed, failed or was damaged: an entry the integrity check accepts
\* holds the QoR that the tools give for the inputs its key names.
EntriesTruthful ==
    \A d \in Dirs, k \in Keys : Valid(d, k) => files[d].qor = Measured(k)

\* A call that returns a QoR, its own or a cached one, returns the QoR of the
\* inputs it hashed.
ResultFaithful ==
    \A p \in Procs :
        result[p] # Missing =>
            /\ result[p].qor \in {Missing, Measured(result[p].key)}
            /\ result[p].qor # Missing => result[p].status \in Reusable \cup {"CACHE_HIT"}

\* Tools are started only when no entry could have been reused: a damaged,
\* failed or unfinished entry does not hide an intact one (test_eda, STEP 25).
MissJustified ==
    \A p \in Procs :
        pc[p] = "preflight" /\ ~force[p] => \A d \in intact[p] : ~Valid(d, key[p])

-----------------------------------------------------------------------------
(* Why entries and results are right: the inductive invariant.             *)

\* No two calls work in one run directory.
Exclusive == \A p, q \in Busy : p # q => dir[p] # dir[q]

\* What a call relies on between its steps: its files are its own, and the
\* inputs are still the ones it hashed.
Working(p) ==
    /\ pc[p] # "idle" => files[dir[p]].sdc \in Sdcs
    /\ pc[p] \notin {"idle", "hash"} => key[p] = [world |-> world, sdc |-> files[dir[p]].sdc]
    /\ pc[p] \in {"synthesize", "failed", "sta", "write"} => files[dir[p]].qor = Missing
    /\ pc[p] = "sta" => files[dir[p]].netlist = world
    /\ pc[p] \in {"write", "writing"} => status[p] \in Reusable /\ qor[p] = Measured(key[p])
    /\ pc[p] = "commit" =>
          /\ files[dir[p]].qor = qor[p]
          /\ qor[p] = IF status[p] \in Reusable THEN Measured(key[p]) ELSE Missing

\* Once the constraints of an entry have been compared, they can only get damaged.
SdcVerified(p) ==
    /\ hit[p] \in made
    /\ files[hit[p]].sdc \in {Missing, Torn, key[p].sdc}

\* The manifest an entry was taken for names the inputs of the call.
Verifying(p) ==
    pc[p] = "verify" =>
        /\ hit[p] \in made
        /\ "qor" \in DOMAIN owed[p] /\ owed[p]["qor"] = Measured(key[p])
        /\ IF "sdc" \in DOMAIN owed[p] THEN owed[p]["sdc"] = key[p].sdc ELSE SdcVerified(p)

\* Between verifying an entry and reading it, it can only get damaged, or be
\* rewritten by a call with the same inputs.
Reading(p) ==
    /\ todo[p] \subseteq made
    /\ pc[p] = "read" =>
          /\ SdcVerified(p)
          /\ files[hit[p]].qor \in {Missing, Torn, Measured(key[p])}

\* A manifest of a completed run records the constraints and the QoR of its key.
RecordsTruthful ==
    \A d \in Dirs :
        manifest[d] # Missing /\ manifest[d].status \in Reusable =>
            /\ "sdc" \in DOMAIN manifest[d].hashes =>
                  manifest[d].hashes["sdc"] = manifest[d].key.sdc
            /\ "qor" \in DOMAIN manifest[d].hashes =>
                  manifest[d].hashes["qor"] = Measured(manifest[d].key)

CacheInv ==
    /\ TypeOK /\ Exclusive /\ RecordsTruthful /\ ResultFaithful
    /\ \A p \in Procs : Working(p) /\ Verifying(p) /\ Reading(p)
=============================================================================
