--------------------------- MODULE RunCacheProofs ---------------------------
(***************************************************************************)
(* For every set of processes, run directories, inputs and constraints,    *)
(* and any number of calls, crashes and damaged files: what the run cache  *)
(* returns for a key is what the tools give for the inputs of that key.    *)
(***************************************************************************)
EXTENDS RunCache, WellFoundedInduction, TLAPS

\* The least of a non-empty set of run ids exists, as the lookup chooses it.
LEMMA NewestListed ==
    ASSUME NEW p \in Procs, todo[p] \subseteq Dirs, todo[p] # {}
    PROVE  Newest(p) \in todo[p]
  <1>1. todo[p] \in SUBSET Nat
    BY CacheAssumption
  <1>2. PICK n \in todo[p] : \A m \in todo[p] : <<m, n>> \notin OpToRel(<, Nat)
    BY <1>1, NatLessThanWellFounded, WFMin
  <1>3. \A m \in todo[p] : ~(m < n)
    BY <1>1, <1>2 DEF OpToRel
  <1>4. \A m \in todo[p] : n <= m
    BY <1>1, <1>3
  <1> QED
    BY <1>4 DEF Newest

-----------------------------------------------------------------------------
(* Typing.                                                                 *)

\* A manifest built from the files that are there is well typed.
LEMMA EntryTyped ==
    ASSUME FilesTyped, NEW d \in Dirs, NEW names \in SUBSET Artifacts, NEW unread,
           NEW k \in Keys, NEW s \in Statuses
    PROVE  ManifestTyped(Entry(d, names, unread, k, s))
  BY CacheAssumption DEF Entry, Recorded, FilesTyped, ManifestTyped, HashesTyped

\* What is still to be verified stays typed when an artifact is done.
LEMMA NoneOwed == HashesTyped(<<>>)
  <1>1. DOMAIN <<>> = {}
    OBVIOUS
  <1> QED
    BY <1>1 DEF HashesTyped

LEMMA OwedTyped ==
    ASSUME NEW hashes, HashesTyped(hashes), NEW a
    PROVE  HashesTyped([b \in DOMAIN hashes \ {a} |-> hashes[b]])
  BY DEF HashesTyped

\* The locals keep their types.
LEMMA LocalsStep ==
    ASSUME CacheInv, [Next]_vars
    PROVE  LocalsTyped'
  <1>0. LocalsTyped /\ DiskTyped
    BY DEF CacheInv, TypeOK
  <1> USE DEF LocalsTyped, Steps
  <1>1. ASSUME NEW p \in Procs, NEW d \in Dirs, NEW s \in Sdcs, NEW f \in BOOLEAN,
               Call(p, d, s, f)
        PROVE  LocalsTyped'
    BY <1>0, <1>1 DEF Call, DiskTyped, lookup, flow
  <1>2. ASSUME NEW p \in Procs, HashInputs(p)  PROVE LocalsTyped'
    <2>1. files[dir[p]].sdc \in Sdcs /\ world \in Worlds
      BY <1>0, <1>2 DEF HashInputs, CacheInv, Working, DiskTyped
    <2>2. key' \in [Procs -> Keys \cup {Missing}] /\ key'[p] \in Keys
      BY <1>0, <1>2, <2>1 DEF HashInputs, Keys
    <2> QED
      BY <1>0, <1>2, <2>2 DEF HashInputs, DiskTyped, disk, flow, bounds
  <1>3. ASSUME NEW p \in Procs, Lookup(p)  PROVE LocalsTyped'
    <2>1. Newest(p) \in Dirs
      BY <1>0, <1>3, NewestListed DEF Lookup
    <2>2. CASE Usable(manifest[Newest(p)], key[p])
      <3>1. HashesTyped(manifest[Newest(p)].hashes)
        BY <1>0, <2>1, <2>2 DEF DiskTyped, ManifestTyped, Usable
      <3> QED
        BY <1>0, <1>3, <2>1, <2>2, <3>1 DEF Lookup, disk, args, flow, bounds
    <2>3. CASE ~Usable(manifest[Newest(p)], key[p])
      BY <1>0, <1>3, <2>1, <2>3 DEF Lookup, disk, args, flow, bounds
    <2> QED
      BY <2>2, <2>3
  <1>v. ASSUME NEW p \in Procs, NEW a \in Artifacts, VerifyFile(p, a)  PROVE LocalsTyped'
    <2>1. PICK h : owed' = [owed EXCEPT ![p] = h] /\ HashesTyped(h)
      <3>1. HashesTyped([b \in DOMAIN owed[p] \ {a} |-> owed[p][b]])
        BY <1>0, OwedTyped
      <3> QED
        BY <1>v, <3>1, NoneOwed DEF VerifyFile
    <2>2. HashesTyped(h)
      BY <2>1
    <2>3. DOMAIN owed' = Procs /\ \A q \in Procs : HashesTyped(owed'[q])
      BY <1>0, <2>1, <2>2
    <2> QED
      BY <1>0, <1>v, <2>3 DEF VerifyFile, disk, args, flow, bounds
  <1>4. ASSUME NEW p \in Procs, NEW s \in Statuses \cup {"CACHE_HIT"},
               NEW q \in QoRs \cup {Missing}, key[p] \in Keys, Return(p, s, q),
               made' = made, calls' = calls, faults' \in Nat
        PROVE  LocalsTyped'
    <2>1. [status |-> s, key |-> key[p], qor |-> q] \in Results
      BY <1>4 DEF Results
    <2>2. DOMAIN owed' = Procs /\ \A r \in Procs : HashesTyped(owed'[r])
      BY <1>0, <1>4, NoneOwed DEF Return, Leave
    <2>3. /\ pc' = [pc EXCEPT ![p] = "idle"] /\ hit' = [hit EXCEPT ![p] = Missing]
          /\ result' = [result EXCEPT ![p] = [status |-> s, key |-> key[p], qor |-> q]]
          /\ dir' = [dir EXCEPT ![p] = Missing] /\ force' = [force EXCEPT ![p] = FALSE]
          /\ key' = [key EXCEPT ![p] = Missing] /\ todo' = [todo EXCEPT ![p] = {}]
          /\ intact' = [intact EXCEPT ![p] = {}] /\ qor' = [qor EXCEPT ![p] = Missing]
          /\ status' = [status EXCEPT ![p] = "BLOCKED"]
      BY <1>4 DEF Return, Leave
    <2>4. /\ pc' \in [Procs -> Steps] /\ dir' \in [Procs -> Dirs \cup {Missing}]
          /\ \A r \in Procs : pc'[r] # "idle" => dir'[r] \in made'
          /\ \A r \in Procs : pc'[r] \notin {"idle", "hash"} => key'[r] \in Keys
      BY <1>0, <1>4, <2>3
    <2>5. /\ hit' \in [Procs -> Dirs \cup {Missing}] /\ force' \in [Procs -> BOOLEAN]
          /\ key' \in [Procs -> Keys \cup {Missing}]
          /\ todo' \in [Procs -> SUBSET Dirs] /\ intact' \in [Procs -> SUBSET Dirs]
      BY <1>0, <1>4, <2>3
    <2>6. /\ qor' \in [Procs -> QoRs \cup {Missing}] /\ status' \in [Procs -> Statuses]
          /\ result' \in [Procs -> Results \cup {Missing}]
      BY <1>0, <2>1, <2>3 DEF Statuses
    <2> QED
      BY <1>0, <1>4, <2>2, <2>4, <2>5, <2>6
  <1>5. ASSUME NEW p \in Procs, ReadHit(p)  PROVE LocalsTyped'
    <2>1. files[hit[p]].qor \in QoRs \cup {Missing, Torn}
      BY <1>0, <1>5 DEF ReadHit, CacheInv, Reading, SdcVerified, DiskTyped, FilesTyped,
                        FileType, Artifacts
    <2>2. CASE files[hit[p]].qor # Torn
      BY <1>0, <1>4, <1>5, <2>1, <2>2 DEF ReadHit, disk, bounds
    <2>3. CASE files[hit[p]].qor = Torn
      BY <1>0, <1>5, <2>3 DEF ReadHit, disk, args, flow, bounds
    <2> QED
      BY <2>2, <2>3
  <1>6. ASSUME NEW p \in Procs, Miss(p) \/ ClearStale(p) \/ Synthesize(p)
                                 \/ SynthesisFails(p) \/ BeginWriteQor(p) \/ EndWriteQor(p)
        PROVE  LocalsTyped'
    BY <1>0, <1>6 DEF Miss, ClearStale, Synthesize, SynthesisFails, BeginWriteQor,
                      EndWriteQor, disk, args, lookup, flow, bounds
  <1>7. ASSUME NEW p \in Procs, NotReady(p) \/ ClearFails(p) \/ RecordFailure(p)
        PROVE  LocalsTyped'
    BY <1>0, <1>4, <1>7 DEF NotReady, ClearFails, RecordFailure, Blocked, Statuses, bounds
  <1>8. ASSUME NEW p \in Procs, NEW s \in Statuses, Sta(p, s)  PROVE LocalsTyped'
    <2>1. /\ files[dir[p]].netlist \in Worlds /\ files[dir[p]].sdc \in Sdcs
          /\ world \in Worlds
      BY <1>0, <1>8 DEF Sta, CacheInv, Working, DiskTyped
    <2>2. qor' \in [Procs -> QoRs \cup {Missing}]
      BY <1>0, <1>8, <2>1 DEF Sta, QoRs
    <2> QED
      BY <1>0, <1>8, <2>2 DEF Sta, disk, args, lookup, bounds
  <1>9. ASSUME NEW p \in Procs, Commit(p)  PROVE LocalsTyped'
    BY <1>0, <1>4, <1>9 DEF Commit
  <1>10. ASSUME NEW p \in Procs, Crash(p)  PROVE LocalsTyped'
    BY <1>0, <1>10, NoneOwed DEF Crash, Leave, Statuses, disk, bounds
  <1>11. ASSUME NEW d \in Dirs, NEW e \in Dirs, NEW a \in Artifacts,
                Damage(d, a) \/ Overwrite(d, e, a)
         PROVE  LocalsTyped'
    BY <1>0, <1>11 DEF Damage, Overwrite, args, lookup, flow
  <1>12. CASE Edit \/ UNCHANGED vars
    BY <1>0, <1>12 DEF Edit, vars, disk, args, lookup, flow, bounds
  <1> HIDE DEF LocalsTyped
  <1> QED
    BY <1>1, <1>2, <1>3, <1>v, <1>5, <1>6, <1>7, <1>8, <1>9, <1>10, <1>11, <1>12
    DEF Next, Step, Finished

\* Every step leaves the files of each directory typed.
LEMMA FilesStep ==
    ASSUME CacheInv, [Next]_vars
    PROVE  FilesTyped'
  <1>0. LocalsTyped /\ FilesTyped /\ world \in Worlds /\ made \subseteq Dirs
    BY DEF CacheInv, TypeOK, DiskTyped
  <1> USE DEF FilesTyped, FileType, Artifacts
  <1>1. ASSUME NEW p \in Procs, NEW d \in Dirs, NEW s \in Sdcs, NEW f \in BOOLEAN,
               Call(p, d, s, f)
        PROVE  FilesTyped'
    BY <1>0, <1>1 DEF Call
  <1>2. ASSUME files' = files  PROVE FilesTyped'
    BY <1>0, <1>2
  <1>3. ASSUME NEW p \in Procs, pc[p] # "idle"  PROVE dir[p] \in Dirs
    BY <1>0, <1>3 DEF LocalsTyped
  <1>4. ASSUME NEW d \in Dirs, NEW names, files' = Without(d, names)  PROVE FilesTyped'
    BY <1>0, <1>4 DEF Without
  <1>5. ASSUME NEW p \in Procs, ClearStale(p) \/ ClearFails(p)  PROVE FilesTyped'
    BY <1>3, <1>4, <1>5 DEF ClearStale, ClearFails
  <1>6. ASSUME NEW p \in Procs, Synthesize(p)  PROVE FilesTyped'
    BY <1>0, <1>3, <1>6 DEF Synthesize
  <1>7. ASSUME NEW p \in Procs, SynthesisFails(p)  PROVE FilesTyped'
    BY <1>0, <1>3, <1>7 DEF SynthesisFails
  <1>8. ASSUME NEW p \in Procs, BeginWriteQor(p)  PROVE FilesTyped'
    BY <1>0, <1>3, <1>8 DEF BeginWriteQor
  <1>9. ASSUME NEW p \in Procs, EndWriteQor(p)  PROVE FilesTyped'
    <2>1. qor[p] \in QoRs
      BY <1>0, <1>9 DEF EndWriteQor, CacheInv, Working, LocalsTyped, Measured, Keys, QoRs
    <2> QED
      BY <1>0, <1>3, <1>9, <2>1 DEF EndWriteQor
  <1>10. ASSUME NEW d \in Dirs, NEW e \in Dirs, NEW a \in Artifacts,
                Damage(d, a) \/ Overwrite(d, e, a)
         PROVE  FilesTyped'
    BY <1>0, <1>10 DEF Damage, Overwrite
  <1> HIDE DEF FilesTyped
  <1> QED
    BY <1>1, <1>2, <1>5, <1>6, <1>7, <1>8, <1>9, <1>10
    DEF Next, Step, Finished, HashInputs, Lookup, VerifyFile, ReadHit, Miss, NotReady, RecordFailure,
        Sta, Commit, Crash, Edit, vars, disk

\* What p writes to the manifest of d; of a reusable run only when it commits.
WritesManifest(p, d, s) ==
    /\ pc[p] \notin {"idle", "hash"} /\ dir[p] = d
    /\ \E names \in SUBSET Artifacts, unread \in SUBSET Unhashable :
          manifest'[d] = Entry(d, names, unread, key[p], s)
    /\ s \in Reusable => pc[p] = "commit" /\ s = status[p] /\ files' = files

\* Every step leaves each manifest as it was, or is the one its owner writes.
LEMMA ManifestStep ==
    ASSUME CacheInv, [Next]_vars, NEW d \in Dirs, manifest'[d] # manifest[d]
    PROVE  \E p \in Procs, s \in Statuses : WritesManifest(p, d, s)
  <1>0. LocalsTyped /\ DiskTyped
    BY DEF CacheInv, TypeOK
  <1>1. ASSUME NEW p \in Procs, NEW names \in SUBSET Artifacts, NEW s \in Statuses \ Reusable,
               pc[p] \notin {"idle", "hash"}, Blocked(p, s, names)
        PROVE  WritesManifest(p, d, s)
    <2>1. dir[p] = d /\ manifest'[d] = Entry(d, names, {}, key[p], s)
      BY <1>0, <1>1 DEF Blocked, DiskTyped
    <2> QED
      BY <1>1, <2>1 DEF WritesManifest
  <1>2. ASSUME NEW p \in Procs, NotReady(p) \/ ClearFails(p) \/ RecordFailure(p)
        PROVE  \E s \in Statuses : WritesManifest(p, d, s)
    <2>1. PICK names \in SUBSET Artifacts, s \in Statuses \ Reusable : Blocked(p, s, names)
      BY <1>2 DEF NotReady, ClearFails, RecordFailure, Statuses, Reusable, Artifacts
    <2>2. pc[p] \notin {"idle", "hash"}
      BY <1>2 DEF NotReady, ClearFails, RecordFailure
    <2> QED
      BY <1>1, <2>1, <2>2
  <1>3. ASSUME NEW p \in Procs, Commit(p)
        PROVE  WritesManifest(p, d, status[p]) /\ status[p] \in Statuses
    <2>1. PICK unread \in SUBSET Unhashable :
             manifest' = [manifest EXCEPT ![dir[p]] =
                             Entry(dir[p], Artifacts, unread, key[p], status[p])]
      BY <1>3 DEF Commit
    <2>2. dir[p] = d /\ manifest'[d] = Entry(d, Artifacts, unread, key[p], status[p])
      BY <1>0, <2>1 DEF DiskTyped
    <2> QED
      BY <1>0, <1>3, <2>2 DEF Commit, WritesManifest, LocalsTyped
  <1>4. \E p \in Procs : NotReady(p) \/ ClearFails(p) \/ RecordFailure(p) \/ Commit(p)
    BY DEF Next, Step, Call, HashInputs, Lookup, VerifyFile, ReadHit, Miss, ClearStale,
           Synthesize, SynthesisFails, Sta, BeginWriteQor, EndWriteQor, Crash, Edit, Damage,
           Overwrite, Finished, vars, disk
  <1> QED
    BY <1>2, <1>3, <1>4

\* The disk keeps its types.
LEMMA DiskStep ==
    ASSUME CacheInv, [Next]_vars
    PROVE  DiskTyped'
  <1>0. LocalsTyped /\ DiskTyped /\ FilesTyped
    BY DEF CacheInv, TypeOK, DiskTyped
  <1>1. world' \in Worlds
    BY <1>0 DEF DiskTyped, Next, Step, Call, HashInputs, Lookup, VerifyFile, ReadHit, Miss, NotReady,
                ClearStale, ClearFails, Synthesize, SynthesisFails, RecordFailure, Sta,
                BeginWriteQor, EndWriteQor, Commit, Crash, Edit, Damage, Overwrite, Finished,
                vars
  <1>2. made' \subseteq Dirs
    BY <1>0 DEF DiskTyped, Next, Step, Call, HashInputs, Lookup, VerifyFile, ReadHit, Miss, NotReady,
                ClearStale, ClearFails, Synthesize, SynthesisFails, RecordFailure, Sta,
                BeginWriteQor, EndWriteQor, Commit, Crash, Edit, Damage, Overwrite, Finished,
                vars, disk
  <1>3. DOMAIN manifest' = Dirs
    BY <1>0 DEF DiskTyped, Next, Step, Call, HashInputs, Lookup, VerifyFile, ReadHit, Miss, NotReady,
                Blocked, ClearStale, ClearFails, Synthesize, SynthesisFails, RecordFailure,
                Sta, BeginWriteQor, EndWriteQor, Commit, Crash, Edit, Damage, Overwrite,
                Finished, vars, disk
  <1>4. ASSUME NEW d \in Dirs, manifest'[d] # Missing
        PROVE  ManifestTyped(manifest'[d])
    <2>1. CASE manifest'[d] = manifest[d]
      BY <1>0, <1>4, <2>1 DEF DiskTyped
    <2>2. ASSUME NEW p \in Procs, NEW s \in Statuses, WritesManifest(p, d, s)
          PROVE  ManifestTyped(manifest'[d])
      <3>1. key[p] \in Keys
        BY <1>0, <2>2 DEF LocalsTyped, WritesManifest
      <3>2. PICK names \in SUBSET Artifacts, unread \in SUBSET Unhashable :
               manifest'[d] = Entry(d, names, unread, key[p], s)
        BY <2>2 DEF WritesManifest
      <3> QED
        BY <1>0, <3>1, <3>2, EntryTyped
    <2> QED
      BY <2>1, <2>2, ManifestStep
  <1> QED
    BY <1>1, <1>2, <1>3, <1>4, FilesStep DEF DiskTyped, ManifestTyped

-----------------------------------------------------------------------------
(* What the steps of one call leave alone.                                 *)

Turn(p) ==
    \/ \E d \in Dirs, s \in Sdcs, f \in BOOLEAN : Call(p, d, s, f)
    \/ Step(p) \/ Crash(p)

\* A new call takes a directory that no running call works in.
LEMMA FreshDirectory ==
    ASSUME CacheInv, NEW p \in Procs, NEW d \in Dirs, NEW s, NEW f, Call(p, d, s, f)
    PROVE  \A q \in Procs : pc[q] # "idle" => dir[q] # d
  BY DEF Call, CacheInv, TypeOK, LocalsTyped, Busy

\* The locals of the other calls, and the inputs.
LEMMA OthersKept ==
    ASSUME CacheInv, NEW p \in Procs, Turn(p), NEW q \in Procs \ {p}
    PROVE  /\ pc'[q] = pc[q] /\ dir'[q] = dir[q] /\ key'[q] = key[q]
           /\ todo'[q] = todo[q] /\ hit'[q] = hit[q] /\ qor'[q] = qor[q]
           /\ status'[q] = status[q] /\ result'[q] = result[q]
           /\ force'[q] = force[q] /\ intact'[q] = intact[q] /\ owed'[q] = owed[q]
           /\ world' = world /\ made \subseteq made'
  <1>0. LocalsTyped
    BY DEF CacheInv, TypeOK
  <1>1. CASE \E d \in Dirs, s \in Sdcs, f \in BOOLEAN : Call(p, d, s, f)
    BY <1>0, <1>1 DEF LocalsTyped, Call, lookup, flow
  <1>2. CASE NotReady(p) \/ ClearFails(p) \/ RecordFailure(p)
    BY <1>0, <1>2 DEF LocalsTyped, NotReady, ClearFails, RecordFailure, Blocked, Return, Leave
  <1>3. CASE Commit(p) \/ Crash(p) \/ ReadHit(p)
    BY <1>0, <1>3 DEF LocalsTyped, Commit, Crash, ReadHit, Return, Leave, disk, lookup, flow,
                      args
  <1>4. CASE \/ HashInputs(p) \/ Lookup(p) \/ \E a \in Artifacts : VerifyFile(p, a)
             \/ Miss(p) \/ ClearStale(p) \/ Synthesize(p) \/ SynthesisFails(p) \/ BeginWriteQor(p) \/ EndWriteQor(p)
             \/ \E s \in Statuses : Sta(p, s)
    BY <1>0, <1>4
    DEF LocalsTyped, HashInputs, Lookup, VerifyFile, Miss, ClearStale, Synthesize, SynthesisFails, Sta,
        BeginWriteQor, EndWriteQor, lookup, flow, args, disk
  <1> QED
    BY <1>1, <1>2, <1>3, <1>4 DEF Turn, Step

\* A running call writes in its own directory only, leaves the constraints
\* there, and a QoR there ends as nothing, half a file or the one STA gave it.
LEMMA FilesKept ==
    ASSUME CacheInv, NEW p \in Procs, Step(p) \/ Crash(p), NEW d \in Dirs
    PROVE  /\ files'[d] # files[d] => pc[p] # "idle" /\ dir[p] = d
           /\ files'[d].sdc = files[d].sdc
           /\ \/ files'[d].qor \in {files[d].qor, Missing, Torn}
              \/ pc[p] = "writing" /\ files'[d].qor = qor[p]
  <1>0. LocalsTyped /\ FilesTyped /\ made \subseteq Dirs
    BY DEF CacheInv, TypeOK, DiskTyped
  <1>d. pc[p] # "idle" => dir[p] \in Dirs
    BY <1>0 DEF LocalsTyped
  <1> USE DEF FilesTyped, Artifacts
  <1>1. CASE files' = files
    BY <1>0, <1>1
  <1>2. ASSUME NEW names \in SUBSET Outputs, files' = Without(dir[p], names), pc[p] # "idle"
        PROVE  /\ files'[d] # files[d] => dir[p] = d
               /\ files'[d].sdc = files[d].sdc
               /\ files'[d].qor \in {files[d].qor, Missing}
    BY <1>0, <1>d, <1>2 DEF Without, Outputs
  <1>3. CASE ClearStale(p) \/ ClearFails(p)
    <2>1. PICK names \in SUBSET Outputs : files' = Without(dir[p], names)
      BY <1>3 DEF ClearStale, ClearFails, Outputs
    <2> QED
      BY <1>2, <1>3, <2>1 DEF ClearStale, ClearFails
  <1>4. CASE Synthesize(p)
    BY <1>0, <1>d, <1>4 DEF Synthesize
  <1>5. CASE SynthesisFails(p)
    BY <1>0, <1>d, <1>5 DEF SynthesisFails
  <1>6. CASE BeginWriteQor(p)
    BY <1>0, <1>d, <1>6 DEF BeginWriteQor
  <1>7. CASE EndWriteQor(p)
    BY <1>0, <1>d, <1>7 DEF EndWriteQor
  <1> QED
    BY <1>1, <1>3, <1>4, <1>5, <1>6, <1>7
    DEF Step, HashInputs, Lookup, VerifyFile, ReadHit, Miss, NotReady, RecordFailure, Sta, Commit, Crash,
        disk

\* So a running call finds its own directory as it left it.
LEMMA OwnDirectoryKept ==
    ASSUME CacheInv, NEW p \in Procs, Turn(p), NEW q \in Procs \ {p}, pc[q] # "idle"
    PROVE  files'[dir[q]] = files[dir[q]]
  <1>0. LocalsTyped /\ FilesTyped /\ Exclusive /\ made \subseteq Dirs
    BY DEF CacheInv, TypeOK, DiskTyped
  <1>1. dir[q] \in Dirs
    BY <1>0 DEF LocalsTyped
  <1>2. ASSUME NEW d \in Dirs, NEW s \in Sdcs, NEW f \in BOOLEAN, Call(p, d, s, f)
        PROVE  files'[dir[q]] = files[dir[q]]
    BY <1>0, <1>1, <1>2, FreshDirectory DEF Call, FilesTyped
  <1>3. CASE Step(p) \/ Crash(p)
    BY <1>0, <1>1, <1>3, FilesKept DEF Exclusive, Busy
  <1> QED
    BY <1>2, <1>3 DEF Turn

-----------------------------------------------------------------------------
(* The inductive invariant.                                                *)

\* Calls keep to different directories.
LEMMA ExclusiveStep ==
    ASSUME CacheInv, [Next]_vars
    PROVE  Exclusive'
  <1>0. LocalsTyped /\ Exclusive
    BY DEF CacheInv, TypeOK
  <1>1. ASSUME NEW p \in Procs, Step(p) \/ Crash(p)
        PROVE  pc'[p] # "idle" => pc[p] # "idle" /\ dir'[p] = dir[p]
    BY <1>0, <1>1
    DEF LocalsTyped, Step, HashInputs, Lookup, VerifyFile, ReadHit, Miss, NotReady, ClearStale,
        ClearFails, Synthesize, SynthesisFails, RecordFailure, Sta, BeginWriteQor,
        EndWriteQor, Commit, Crash, Blocked, Return, Leave, args
  <1>2. ASSUME NEW p \in Procs, Step(p) \/ Crash(p)  PROVE Exclusive'
    BY <1>0, <1>1, <1>2, OthersKept DEF Exclusive, Busy, Turn
  <1>3. ASSUME NEW p \in Procs, NEW d \in Dirs, NEW s \in Sdcs, NEW f \in BOOLEAN,
               Call(p, d, s, f)
        PROVE  Exclusive'
    <2>1. dir'[p] = d
      BY <1>0, <1>3 DEF LocalsTyped, Call
    <2> QED
      BY <1>0, <1>3, <2>1, FreshDirectory, OthersKept DEF Exclusive, Busy, Turn
  <1>4. CASE UNCHANGED <<pc, args>>
    BY <1>0, <1>4 DEF Exclusive, Busy, args
  <1> QED
    BY <1>2, <1>3, <1>4 DEF Next, Edit, Damage, Overwrite, Finished, vars

\* A call can rely on its directory and on the inputs at each of its steps.
LEMMA WorkingStep ==
    ASSUME CacheInv, [Next]_vars, NEW q \in Procs
    PROVE  Working(q)'
  <1>0. LocalsTyped /\ DiskTyped /\ FilesTyped /\ Working(q)
    BY DEF CacheInv, TypeOK, DiskTyped
  <1>1. ASSUME NEW p \in Procs \ {q}, Turn(p)  PROVE Working(q)'
    BY <1>0, <1>1, OthersKept, OwnDirectoryKept DEF Working
  <1>2. ASSUME NEW d \in Dirs, NEW s \in Sdcs, NEW f \in BOOLEAN, Call(q, d, s, f)
        PROVE  Working(q)'
    BY <1>0, <1>2 DEF LocalsTyped, FilesTyped, Artifacts, Call, Working
  <1>3. pc[q] # "idle" => dir[q] \in Dirs
    BY <1>0 DEF LocalsTyped, DiskTyped
  <1>4. ASSUME pc'[q] = "idle"  PROVE Working(q)'
    BY <1>4 DEF Working
  <1>5. CASE NotReady(q) \/ ClearFails(q) \/ RecordFailure(q) \/ Commit(q) \/ Crash(q)
    BY <1>0, <1>4, <1>5
    DEF LocalsTyped, NotReady, ClearFails, RecordFailure, Commit, Crash, Blocked, Return, Leave
  <1>6. CASE HashInputs(q)
    BY <1>0, <1>3, <1>6 DEF LocalsTyped, HashInputs, Working, disk, flow
  <1>7. CASE Lookup(q) \/ \E a \in Artifacts : VerifyFile(q, a)
    BY <1>0, <1>3, <1>7 DEF LocalsTyped, Lookup, VerifyFile, Working, disk, args, flow
  <1>8. CASE ReadHit(q)
    BY <1>0, <1>3, <1>4, <1>8
    DEF LocalsTyped, ReadHit, Return, Leave, Working, disk, args, flow
  <1>9. CASE Miss(q)
    BY <1>0, <1>3, <1>9 DEF LocalsTyped, Miss, Working, disk, args, flow
  <1>10. CASE ClearStale(q)
    BY <1>0, <1>3, <1>10
    DEF LocalsTyped, FilesTyped, Artifacts, ClearStale, Without, Outputs, Working, args, flow
  <1>11. CASE Synthesize(q)
    BY <1>0, <1>3, <1>11
    DEF LocalsTyped, FilesTyped, Artifacts, Synthesize, Working, args, flow
  <1>12. CASE SynthesisFails(q)
    BY <1>0, <1>3, <1>12
    DEF LocalsTyped, FilesTyped, Artifacts, SynthesisFails, Working, args, flow
  <1>13. ASSUME NEW s \in Statuses, Sta(q, s)  PROVE Working(q)'
    BY <1>0, <1>3, <1>13
    DEF LocalsTyped, Sta, Measured, Working, disk, args
  <1>14. CASE BeginWriteQor(q)
    BY <1>0, <1>3, <1>14
    DEF LocalsTyped, FilesTyped, Artifacts, BeginWriteQor, Working, args, flow
  <1>15. CASE EndWriteQor(q)
    BY <1>0, <1>3, <1>15
    DEF LocalsTyped, FilesTyped, Artifacts, EndWriteQor, Working, args, flow
  <1>16. ASSUME NEW d \in Dirs, NEW e \in Dirs, NEW a \in Artifacts,
                Damage(d, a) \/ Overwrite(d, e, a)
         PROVE  Working(q)'
    <2>1. UNCHANGED <<pc, args, flow, world>>
      BY <1>16 DEF Damage, Overwrite
    <2>2. pc[q] # "idle" => files'[dir[q]] = files[dir[q]]
      BY <1>0, <1>3, <1>16 DEF Damage, Overwrite, Busy, FilesTyped
    <2> QED
      BY <1>0, <2>1, <2>2 DEF Working, args, flow
  <1>17. CASE Edit
    BY <1>0, <1>17 DEF Edit, Busy, Working
  <1>18. CASE UNCHANGED vars
    BY <1>0, <1>18 DEF vars, disk, args, flow, Working
  <1> QED
    BY <1>1, <1>2, <1>5, <1>6, <1>7, <1>8, <1>9, <1>10, <1>11, <1>12, <1>13, <1>14, <1>15,
       <1>16, <1>17, <1>18
    DEF Next, Turn, Step, Finished

\* The manifests list the QoR last.
LEMMA QorLast ==
    ASSUME NEW p \in Procs, HashesTyped(owed[p]), Due(p, "qor")
    PROVE  DOMAIN owed[p] = {"qor"}
  <1>1. /\ DOMAIN Listing = 1..4
        /\ Listing[1] = "sdc" /\ Listing[2] = "netlist" /\ Listing[3] = "log" /\ Listing[4] = "qor"
    BY DEF Listing
  <1>2. \A i \in 1..4 : Listing[i] \in DOMAIN owed[p] => 4 <= i
    BY <1>1 DEF Due
  <1> QED
    BY <1>1, <1>2 DEF Due, HashesTyped, Artifacts

\* The entry a lookup is verifying, or has verified, is damaged, or rewritten by a
\* call with the same inputs, but is not given another QoR behind its back.
LEMMA ReadingStep ==
    ASSUME CacheInv, [Next]_vars, NEW q \in Procs
    PROVE  Verifying(q)' /\ Reading(q)'
  <1>0. LocalsTyped /\ DiskTyped /\ FilesTyped /\ Verifying(q) /\ Reading(q) /\ Working(q)
    BY DEF CacheInv, TypeOK, DiskTyped
  <1>h. hit[q] \in made => hit[q] \in Dirs
    BY <1>0 DEF DiskTyped
  <1>1. ASSUME NEW p \in Procs \ {q}, Step(p) \/ Crash(p), pc[q] \in {"verify", "read"},
               SdcVerified(q)
        PROVE  /\ files'[hit[q]].sdc \in {Missing, Torn, key[q].sdc}
               /\ files[hit[q]].qor \in {Missing, Torn, Measured(key[q])} =>
                     files'[hit[q]].qor \in {Missing, Torn, Measured(key[q])}
    <2>1. hit[q] \in Dirs
      BY <1>0, <1>1, <1>h DEF SdcVerified
    <2>2. CASE files'[hit[q]].qor \in {files[hit[q]].qor, Missing, Torn}
      BY <1>0, <1>1, <2>1, <2>2, FilesKept DEF SdcVerified
    <2>3. CASE pc[p] = "writing" /\ files'[hit[q]].qor = qor[p] /\ files'[hit[q]] # files[hit[q]]
      <3>1. dir[p] = hit[q] /\ files'[hit[q]].sdc = files[hit[q]].sdc
        BY <1>1, <2>1, <2>3, FilesKept
      <3>2. Working(p)
        BY DEF CacheInv
      <3>3. /\ files[hit[q]].sdc \in Sdcs
            /\ key[p] = [world |-> world, sdc |-> files[hit[q]].sdc]
            /\ qor[p] = Measured(key[p])
        BY <2>3, <3>1, <3>2 DEF Working
      <3>4. key[q].world = world
        BY <1>0, <1>1 DEF Working
      <3>5. files[hit[q]].sdc = key[q].sdc
        BY <1>0, <1>1, <3>3, CacheAssumption DEF SdcVerified
      <3>6. Measured(key[p]) = Measured(key[q])
        BY <3>3, <3>4, <3>5 DEF Measured
      <3> QED
        BY <2>3, <3>1, <3>3, <3>5, <3>6
    <2> QED
      BY <1>0, <1>1, <2>1, <2>2, <2>3, FilesKept DEF SdcVerified
  <1>2. ASSUME NEW p \in Procs \ {q}, NEW d \in Dirs, NEW s \in Sdcs, NEW f \in BOOLEAN,
               Call(p, d, s, f), pc[q] \in {"verify", "read"}, SdcVerified(q)
        PROVE  files'[hit[q]] = files[hit[q]]
    <2>1. hit[q] \in made /\ hit[q] # d
      BY <1>0, <1>2 DEF SdcVerified, Call, Busy
    <2> QED
      BY <1>0, <1>h, <1>2, <2>1 DEF Call, FilesTyped
  <1>3. ASSUME NEW p \in Procs \ {q}, Turn(p)  PROVE Verifying(q)' /\ Reading(q)'
    <2>1. /\ pc'[q] = pc[q] /\ key'[q] = key[q] /\ hit'[q] = hit[q] /\ owed'[q] = owed[q]
          /\ todo'[q] = todo[q] /\ made \subseteq made'
      BY <1>3, OthersKept
    <2>2. ASSUME pc[q] \in {"verify", "read"}, SdcVerified(q)
          PROVE  /\ SdcVerified(q)'
                 /\ files[hit[q]].qor \in {Missing, Torn, Measured(key[q])} =>
                       files'[hit[q]].qor \in {Missing, Torn, Measured(key[q])}
      BY <1>1, <1>2, <1>3, <2>1, <2>2 DEF Turn, SdcVerified
    <2>3. Verifying(q)'
      BY <1>0, <2>1, <2>2 DEF Verifying, Measured
    <2> QED
      BY <1>0, <2>1, <2>2, <2>3 DEF Reading, Measured
  <1>4. ASSUME pc'[q] \notin {"verify", "read"}, todo'[q] \subseteq made'
        PROVE  Verifying(q)' /\ Reading(q)'
    BY <1>4 DEF Verifying, Reading
  <1>5. ASSUME NEW d \in Dirs, NEW s \in Sdcs, NEW f \in BOOLEAN, Call(q, d, s, f)
        PROVE  Verifying(q)' /\ Reading(q)'
    BY <1>0, <1>4, <1>5 DEF LocalsTyped, Call, Reading, lookup
  <1>6. CASE HashInputs(q)
    BY <1>0, <1>4, <1>6 DEF LocalsTyped, HashInputs, Reading, disk
  <1>7. CASE Lookup(q)
    <2>1. Newest(q) \in todo[q] /\ todo[q] \subseteq made /\ todo[q] \in SUBSET Dirs
      BY <1>0, <1>7, NewestListed DEF Lookup, LocalsTyped, Reading
    <2>2. /\ pc[q] = "lookup" /\ todo'[q] = todo[q] \ {Newest(q)}
          /\ UNCHANGED <<disk, key>>
      BY <1>0, <1>7 DEF Lookup, LocalsTyped, args
    <2>3. CASE ~Usable(manifest[Newest(q)], key[q])
      <3>1. pc' = pc
        BY <1>7, <2>3 DEF Lookup
      <3> QED
        BY <1>0, <1>4, <2>1, <2>2, <3>1 DEF disk
    <2>4. CASE Usable(manifest[Newest(q)], key[q])
      <3>1. /\ hit'[q] = Newest(q) /\ pc'[q] = "verify" /\ key'[q] = key[q]
            /\ owed'[q] = manifest[Newest(q)].hashes
            /\ todo'[q] \subseteq made' /\ files' = files /\ made' = made
        BY <1>0, <1>7, <2>1, <2>2, <2>4 DEF Lookup, LocalsTyped, disk
      <3>2. /\ {"sdc", "qor"} \subseteq DOMAIN owed'[q]
            /\ owed'[q]["sdc"] = key[q].sdc /\ owed'[q]["qor"] = Measured(key[q])
        BY <2>1, <2>4, <3>1 DEF CacheInv, RecordsTruthful, Usable, Required
      <3> QED
        BY <2>1, <3>1, <3>2 DEF Verifying, Reading, Measured
    <2> QED
      BY <2>3, <2>4
  <1>v. ASSUME NEW a \in Artifacts, VerifyFile(q, a)  PROVE Verifying(q)' /\ Reading(q)'
    <2>1. /\ pc[q] = "verify" /\ Due(q, a) /\ a \in DOMAIN owed[q]
          /\ todo'[q] \subseteq made' /\ UNCHANGED <<files, made, key>>
      BY <1>0, <1>v DEF VerifyFile, Due, Reading, disk, args
    <2>2. CASE ~Fits(hit[q], a, owed[q][a])
      <3>1. pc'[q] = "lookup"
        BY <1>0, <1>v, <2>2 DEF VerifyFile, LocalsTyped
      <3> QED
        BY <1>4, <2>1, <3>1
    <2>3. CASE Fits(hit[q], a, owed[q][a])
      <3>1. /\ owed'[q] = [b \in DOMAIN owed[q] \ {a} |-> owed[q][b]]
            /\ pc'[q] = IF DOMAIN owed[q] = {a} THEN "read" ELSE "verify"
            /\ hit' = hit
        BY <1>0, <1>v, <2>3 DEF VerifyFile, LocalsTyped
      <3>2. /\ hit[q] \in made /\ key[q] \in Keys
            /\ "qor" \in DOMAIN owed[q] /\ owed[q]["qor"] = Measured(key[q])
            /\ "sdc" \in DOMAIN owed[q] => owed[q]["sdc"] = key[q].sdc
            /\ "sdc" \notin DOMAIN owed[q] => SdcVerified(q)
        BY <1>0, <2>1 DEF Verifying, LocalsTyped
      <3>3. CASE a = "qor"
        <4>1. DOMAIN owed[q] = {"qor"}
          BY <1>0, <2>1, <3>3, QorLast DEF LocalsTyped
        <4>2. Measured(key[q]) # Unread
          BY <3>2, CacheAssumption DEF Measured, Keys
        <4>3. files[hit[q]]["qor"] = Measured(key[q])
          BY <2>3, <3>2, <3>3, <4>2 DEF Fits, Hashed, Artifacts
        <4>4. pc'[q] = "read" /\ SdcVerified(q)'
          BY <2>1, <3>1, <3>2, <3>3, <4>1 DEF SdcVerified
        <4> QED
          BY <2>1, <3>1, <4>3, <4>4 DEF Verifying, Reading, Measured
      <3>4. CASE a # "qor"
        <4>1. pc'[q] = "verify"
          BY <3>1, <3>2, <3>4
        <4>2. a = "sdc" => files[hit[q]]["sdc"] = key[q].sdc
          <5>1. key[q].sdc # Unread
            BY <3>2, CacheAssumption DEF Keys
          <5> QED
            BY <2>1, <2>3, <3>2, <5>1 DEF Fits, Hashed, Artifacts
        <4>3. /\ "qor" \in DOMAIN owed'[q] /\ owed'[q]["qor"] = Measured(key[q])
              /\ "sdc" \in DOMAIN owed'[q] => owed'[q]["sdc"] = key[q].sdc
              /\ "sdc" \notin DOMAIN owed'[q] => SdcVerified(q)'
          BY <2>1, <3>1, <3>2, <3>4, <4>2 DEF SdcVerified
        <4> QED
          BY <2>1, <3>1, <3>2, <4>1, <4>3 DEF Verifying, Reading, Measured
      <3> QED
        BY <3>3, <3>4
    <2> QED
      BY <2>2, <2>3
  <1>8. CASE \/ NotReady(q) \/ ClearFails(q) \/ RecordFailure(q) \/ Commit(q) \/ Crash(q)
    BY <1>0, <1>4, <1>8
    DEF LocalsTyped, NotReady, ClearFails, RecordFailure, Commit, Crash, Blocked, Return, Leave
  <1>9. CASE ReadHit(q)
    BY <1>0, <1>4, <1>9
    DEF LocalsTyped, ReadHit, Return, Leave, Reading, disk
  <1>10. CASE \/ Miss(q) \/ ClearStale(q) \/ Synthesize(q) \/ SynthesisFails(q)
              \/ BeginWriteQor(q) \/ EndWriteQor(q) \/ \E s \in Statuses : Sta(q, s)
    BY <1>0, <1>4, <1>10
    DEF LocalsTyped, Miss, ClearStale, Synthesize, SynthesisFails, BeginWriteQor,
        EndWriteQor, Sta, Reading, disk, lookup
  <1>11. ASSUME NEW d \in Dirs, NEW e \in Dirs, NEW a \in Artifacts, Damage(d, a)
         PROVE  Verifying(q)' /\ Reading(q)'
    <2>1. /\ UNCHANGED <<made, pc, args, lookup>>
          /\ \A g \in Dirs, b \in Artifacts : files'[g][b] \in {Missing, Torn, files[g][b]}
      BY <1>0, <1>11 DEF Damage, FilesTyped
    <2>2. UNCHANGED <<pc, made, key, todo, hit, owed>>
      BY <2>1 DEF args, lookup
    <2>3. SdcVerified(q) => SdcVerified(q)'
      BY <1>h, <2>1, <2>2 DEF SdcVerified, Artifacts
    <2>4. Verifying(q)'
      BY <1>0, <2>2, <2>3 DEF Verifying, Measured
    <2> QED
      BY <1>0, <1>h, <2>1, <2>2, <2>3, <2>4 DEF Reading, SdcVerified, Measured, Artifacts
  <1>12. ASSUME NEW d \in Dirs, NEW e \in Dirs, NEW a \in Artifacts, Overwrite(d, e, a)
         PROVE  Verifying(q)' /\ Reading(q)'
    BY <1>0, <1>4, <1>12 DEF Overwrite, Busy, Reading, lookup
  <1>13. CASE Edit \/ UNCHANGED vars
    BY <1>0, <1>13 DEF Edit, vars, disk, args, lookup, Verifying, Reading, SdcVerified, Measured
  <1> QED
    BY <1>3, <1>5, <1>6, <1>7, <1>v, <1>8, <1>9, <1>10, <1>11, <1>12, <1>13
    DEF Next, Turn, Step, Finished

\* The manifest of a completed run is built from what that run measured.
LEMMA RecordsStep ==
    ASSUME CacheInv, [Next]_vars
    PROVE  RecordsTruthful'
  <1>0. LocalsTyped /\ DiskTyped /\ FilesTyped /\ RecordsTruthful
    BY DEF CacheInv, TypeOK, DiskTyped
  <1> SUFFICES ASSUME NEW d \in Dirs, manifest'[d] # Missing, manifest'[d].status \in Reusable
               PROVE  /\ "sdc" \in DOMAIN manifest'[d].hashes =>
                            manifest'[d].hashes["sdc"] = manifest'[d].key.sdc
                      /\ "qor" \in DOMAIN manifest'[d].hashes =>
                            manifest'[d].hashes["qor"] = Measured(manifest'[d].key)
    BY DEF RecordsTruthful, Measured
  <1>1. CASE manifest'[d] = manifest[d]
    BY <1>0, <1>1 DEF RecordsTruthful
  <1>2. ASSUME NEW p \in Procs, NEW s \in Statuses, WritesManifest(p, d, s)
        PROVE  /\ "sdc" \in DOMAIN manifest'[d].hashes =>
                     manifest'[d].hashes["sdc"] = manifest'[d].key.sdc
               /\ "qor" \in DOMAIN manifest'[d].hashes =>
                     manifest'[d].hashes["qor"] = Measured(manifest'[d].key)
    <2>0. PICK names \in SUBSET Artifacts, unread \in SUBSET Unhashable :
             manifest'[d] = Entry(d, names, unread, key[p], s)
      BY <1>2 DEF WritesManifest
    <2>1. /\ manifest'[d].key = key[p] /\ manifest'[d].status = s
          /\ manifest'[d].hashes = Recorded(d, names, unread)
      BY <2>0 DEF Entry
    <2>2. Working(p) /\ pc[p] = "commit" /\ dir[p] = d /\ status[p] \in Reusable
      BY <1>2, <2>1 DEF CacheInv, WritesManifest
    <2>3. /\ files[d].sdc = key[p].sdc
          /\ files[d].qor = Measured(key[p])
      BY <2>2 DEF Working
    <2> QED
      BY <2>1, <2>3, CacheAssumption DEF Recorded
  <1> QED
    BY <1>1, <1>2, ManifestStep

\* Results are what the call measured, or what it read in a verified entry.
LEMMA ResultStep ==
    ASSUME CacheInv, [Next]_vars
    PROVE  ResultFaithful'
  <1>0. LocalsTyped /\ ResultFaithful
    BY DEF CacheInv, TypeOK
  <1>1. ASSUME NEW p \in Procs, NEW s, NEW x, Return(p, s, x),
               x \in {Missing, Measured(key[p])},
               x # Missing => s \in Reusable \cup {"CACHE_HIT"}
        PROVE  ResultFaithful'
    <2>1. result' = [result EXCEPT ![p] = [status |-> s, key |-> key[p], qor |-> x]]
      BY <1>1 DEF Return
    <2>2. ASSUME NEW q \in Procs, q # p  PROVE result'[q] = result[q]
      BY <1>0, <2>1, <2>2 DEF LocalsTyped
    <2>3. result'[p] = [status |-> s, key |-> key[p], qor |-> x]
      BY <1>0, <2>1 DEF LocalsTyped
    <2> QED
      BY <1>0, <1>1, <2>2, <2>3 DEF ResultFaithful, Measured
  <1>2. ASSUME NEW p \in Procs, NotReady(p) \/ ClearFails(p) \/ RecordFailure(p)
        PROVE  ResultFaithful'
    BY <1>1, <1>2 DEF NotReady, ClearFails, RecordFailure, Blocked
  <1>3. ASSUME NEW p \in Procs, Commit(p)  PROVE ResultFaithful'
    <2>1. Working(p) /\ pc[p] = "commit"
      BY <1>3 DEF CacheInv, Commit
    <2>2. /\ qor[p] \in {Missing, Measured(key[p])}
          /\ qor[p] # Missing => status[p] \in Reusable
      BY <2>1 DEF Working
    <2> QED
      BY <1>1, <1>3, <2>2 DEF Commit
  <1>4. ASSUME NEW p \in Procs, ReadHit(p)  PROVE ResultFaithful'
    <2>1. files[hit[p]].qor \in {Missing, Torn, Measured(key[p])}
      BY <1>4 DEF ReadHit, CacheInv, Reading
    <2>2. CASE files[hit[p]].qor # Torn
      BY <1>1, <1>4, <2>1, <2>2 DEF ReadHit
    <2>3. CASE files[hit[p]].qor = Torn
      BY <1>0, <1>4, <2>3 DEF ReadHit, ResultFaithful, Measured
    <2> QED
      BY <2>2, <2>3
  <1>5. ASSUME NEW p \in Procs, NEW d \in Dirs, NEW s \in Sdcs, NEW f \in BOOLEAN,
               Call(p, d, s, f)
        PROVE  ResultFaithful'
    BY <1>0, <1>5 DEF LocalsTyped, Call, ResultFaithful, Measured
  <1>6. CASE UNCHANGED result
    BY <1>0, <1>6 DEF ResultFaithful, Measured
  <1>7. ASSUME NEW p \in Procs,
               \/ HashInputs(p) \/ Lookup(p) \/ Miss(p) \/ ClearStale(p) \/ Synthesize(p)
               \/ SynthesisFails(p) \/ BeginWriteQor(p) \/ EndWriteQor(p) \/ Crash(p)
               \/ \E a \in Artifacts : VerifyFile(p, a)
               \/ \E s \in Statuses : Sta(p, s)
        PROVE  UNCHANGED result
    BY <1>7
    DEF HashInputs, Lookup, VerifyFile, Miss, ClearStale, Synthesize, SynthesisFails, Sta,
        BeginWriteQor, EndWriteQor, Crash
  <1> QED
    BY <1>2, <1>3, <1>4, <1>5, <1>6, <1>7 DEF Next, Step, Edit, Damage, Overwrite, Finished, vars

\* The invariant holds before the first call.
LEMMA CacheInit ==
    Init => CacheInv
  <1> SUFFICES ASSUME Init PROVE CacheInv
    OBVIOUS
  <1>1. DiskTyped
    BY DEF Init, DiskTyped, FilesTyped, FileType
  <1>2. LocalsTyped
    BY NoneOwed DEF Init, LocalsTyped, Steps, Statuses
  <1> QED
    BY <1>1, <1>2
    DEF Init, CacheInv, TypeOK, Exclusive, Busy, RecordsTruthful, ResultFaithful, Working,
       Verifying, Reading

\* CacheInv is inductive and holds of every state the program reaches.
THEOREM CacheInvariant ==
    Spec => []CacheInv
  <1>1. CacheInv /\ [Next]_vars => CacheInv'
    BY LocalsStep, DiskStep, ExclusiveStep, RecordsStep, ResultStep, WorkingStep, ReadingStep
    DEF CacheInv, TypeOK
  <1> QED
    BY CacheInit, <1>1, PTL DEF Spec

\* Files, manifests and the locals of run_flow keep their types, and a running
\* call has made its directory.
THEOREM TypeCorrect ==
    Spec => []TypeOK
  <1>1. CacheInv => TypeOK
    BY DEF CacheInv
  <1> QED
    BY CacheInvariant, <1>1, PTL

\* An entry that _find_cached_run accepts holds the QoR of the inputs its key
\* names, after any crashes, failed runs, reused directories and damaged files.
THEOREM EntriesSound ==
    Spec => []EntriesTruthful
  <1>1. CacheInv => EntriesTruthful
    <2> SUFFICES ASSUME CacheInv, NEW d \in Dirs, NEW k \in Keys, Valid(d, k)
                 PROVE  files[d].qor = Measured(k)
      BY DEF EntriesTruthful
    <2>1. /\ manifest[d] # Missing /\ manifest[d].key = k /\ manifest[d].status \in Reusable
          /\ "qor" \in DOMAIN manifest[d].hashes
          /\ files[d]["qor"] = manifest[d].hashes["qor"]
      <3>1. Measured(k) # Unread
        BY CacheAssumption DEF Keys, Measured
      <3>2. /\ manifest[d] # Missing /\ manifest[d].key = k
            /\ manifest[d].status \in Reusable /\ "qor" \in DOMAIN manifest[d].hashes
            /\ Fits(d, "qor", manifest[d].hashes["qor"])
        BY DEF Valid, Usable, Required
      <3>3. manifest[d].hashes["qor"] = Measured(k)
        BY <3>2 DEF CacheInv, RecordsTruthful
      <3> QED
        BY <3>1, <3>2, <3>3 DEF Fits, Hashed, Artifacts
    <2> QED
      BY <2>1 DEF CacheInv, RecordsTruthful
  <1> QED
    BY CacheInvariant, <1>1, PTL

\* What run_flow returns as the QoR of a call, measured or cached, is the QoR of
\* the inputs that call hashed.
THEOREM ResultsSound ==
    Spec => []ResultFaithful
  <1>1. CacheInv => ResultFaithful
    BY DEF CacheInv
  <1> QED
    BY CacheInvariant, <1>1, PTL

-----------------------------------------------------------------------------
(* Tools are started only when nothing could be reused.  A lookup looks at *)
(* each entry once and never again, so an entry it has passed over must    *)
(* not become reusable behind its back while the lookup goes on.           *)

\* What the integrity check asks of one manifest and one directory.
Accepts(m, f, k) ==
    /\ Usable(m, k)
    /\ \A a \in DOMAIN m.hashes :
          f[a] # Missing /\ (a \in Hashed /\ m.hashes[a] # Unread => f[a] = m.hashes[a])

\* A completed run wrote its netlist whole, and its manifest records that.
NetlistWritten(p) ==
    \/ pc[p] \in {"sta", "write", "writing"}
    \/ pc[p] = "commit" /\ status[p] \in Reusable

NetlistsWhole ==
    /\ \A p \in Procs : NetlistWritten(p) => files[dir[p]].netlist # Torn
    /\ \A d \in Dirs :
          /\ manifest[d] # Missing /\ manifest[d].status \in Reusable
          /\ "netlist" \in DOMAIN manifest[d].hashes
          => manifest[d].hashes["netlist"] # Torn

\* Nobody else works in the entries that counted as reusable for p.
Undisturbed(p) ==
    /\ intact[p] \subseteq made
    /\ pc[p] \in {"idle", "hash"} => intact[p] = {}
    /\ \A q \in Busy \ {p} : dir[q] \notin intact[p]

\* What p has still to compare of such an entry is what its manifest says.
OwedByEntry(p) ==
    pc[p] = "verify" /\ hit[p] \in intact[p] =>
        \A a \in DOMAIN owed[p] :
            /\ a \in DOMAIN manifest[hit[p]].hashes
            /\ owed[p][a] = manifest[hit[p]].hashes[a]

Searching(p) == pc[p] \in {"lookup", "verify", "read"} \/ (pc[p] = "preflight" /\ ~force[p])

\* What the lookup of p can still find.
Pending(p) ==
    CASE pc[p] = "lookup" -> todo[p]
      [] pc[p] \in {"verify", "read"} -> todo[p] \cup {hit[p]}
      [] OTHER            -> {}

Searched(p) ==
    Searching(p) => \A d \in intact[p] : Accepts(manifest[d], files[d], key[p]) => d \in Pending(p)

SearchInv ==
    /\ CacheInv /\ NetlistsWhole
    /\ \A p \in Procs : Undisturbed(p) /\ OwedByEntry(p) /\ Searched(p)

\* No file that a manifest of a completed run has hashed was torn then.
LEMMA HashedWhole ==
    ASSUME CacheInv, NetlistsWhole, NEW d \in Dirs, NEW a \in Hashed,
           manifest[d] # Missing, manifest[d].status \in Reusable,
           a \in DOMAIN manifest[d].hashes
    PROVE  manifest[d].hashes[a] # Torn
  <1>1. manifest[d].key \in Keys
    BY DEF CacheInv, TypeOK, DiskTyped, ManifestTyped
  <1>2. CASE a = "netlist"
    BY <1>2 DEF NetlistsWhole
  <1>3. CASE a = "sdc"
    <2>1. manifest[d].hashes[a] = manifest[d].key.sdc
      BY <1>3 DEF CacheInv, RecordsTruthful
    <2> QED
      BY <1>1, <2>1, CacheAssumption DEF Keys
  <1>4. CASE a = "qor"
    <2>1. manifest[d].hashes[a] = Measured(manifest[d].key)
      BY <1>4 DEF CacheInv, RecordsTruthful
    <2> QED
      BY <1>1, <2>1, CacheAssumption DEF Keys, Measured
  <1> QED
    BY <1>2, <1>3, <1>4 DEF Hashed, Artifacts

\* Netlists of completed runs stay whole where a call still works on them, and
\* in every manifest.
LEMMA NetlistsStep ==
    ASSUME CacheInv, NetlistsWhole, [Next]_vars
    PROVE  NetlistsWhole'
  <1>0. LocalsTyped /\ DiskTyped /\ FilesTyped
    BY DEF CacheInv, TypeOK, DiskTyped
  <1>d. ASSUME NEW q \in Procs, pc[q] # "idle"  PROVE dir[q] \in Dirs
    BY <1>0, <1>d DEF LocalsTyped, DiskTyped
  <1>1. ASSUME NEW q \in Procs, NetlistWritten(q)'  PROVE (files'[dir'[q]]).netlist # Torn
    <2>1. ASSUME NEW p \in Procs \ {q}, Turn(p)  PROVE (files'[dir'[q]]).netlist # Torn
      <3>1. pc[q] # "idle" /\ NetlistWritten(q)
        BY <1>1, <2>1, OthersKept DEF NetlistWritten
      <3> QED
        BY <2>1, <3>1, OthersKept, OwnDirectoryKept DEF NetlistsWhole
    <2>2. ASSUME Turn(q)  PROVE (files'[dir'[q]]).netlist # Torn
      <3>1. CASE Synthesize(q)
        <4>1. (files'[dir'[q]]).netlist = world
          BY <1>0, <1>d, <3>1 DEF Synthesize, FilesTyped, Artifacts, args
        <4> QED
          BY <1>0, <4>1, CacheAssumption DEF DiskTyped
      <3>2. CASE \/ BeginWriteQor(q) \/ EndWriteQor(q) \/ \E s \in Statuses : Sta(q, s)
        <4>1. /\ NetlistWritten(q) /\ dir' = dir /\ pc[q] # "idle"
              /\ (files'[dir[q]]).netlist = files[dir[q]].netlist
          <5>1. CASE BeginWriteQor(q)
            BY <1>0, <1>d, <5>1 DEF BeginWriteQor, FilesTyped, Artifacts, NetlistWritten, args
          <5>2. CASE EndWriteQor(q)
            BY <1>0, <1>d, <5>2 DEF EndWriteQor, FilesTyped, Artifacts, NetlistWritten, args
          <5>3. ASSUME NEW s \in Statuses, Sta(q, s)
                PROVE  NetlistWritten(q) /\ dir' = dir /\ pc[q] # "idle" /\ files' = files
            BY <5>3 DEF Sta, NetlistWritten, args, disk
          <5> QED
            BY <3>2, <5>1, <5>2, <5>3
        <4> QED
          BY <4>1 DEF NetlistsWhole
      <3>3. ASSUME pc'[q] \in {"idle", "hash", "lookup", "verify", "read", "preflight", "synthesize", "failed"}
            PROVE  FALSE
        BY <1>1, <3>3 DEF NetlistWritten
      <3>4. CASE \E d \in Dirs, s \in Sdcs, f \in BOOLEAN : Call(q, d, s, f)
        BY <1>0, <3>3, <3>4 DEF LocalsTyped, Call
      <3>5. CASE \/ NotReady(q) \/ ClearFails(q) \/ RecordFailure(q) \/ Commit(q) \/ Crash(q)
        BY <1>0, <3>3, <3>5
        DEF LocalsTyped, NotReady, ClearFails, RecordFailure, Commit, Crash, Blocked, Return,
            Leave
      <3>6. CASE HashInputs(q) \/ Lookup(q) \/ ReadHit(q) \/ Miss(q) \/ ClearStale(q)
                 \/ SynthesisFails(q) \/ \E a \in Artifacts : VerifyFile(q, a)
        BY <1>0, <3>3, <3>6
        DEF LocalsTyped, HashInputs, Lookup, VerifyFile, ReadHit, Miss, ClearStale, SynthesisFails, Return,
            Leave
      <3> QED
        BY <2>2, <3>1, <3>2, <3>4, <3>5, <3>6 DEF Turn, Step
    <2>3. ASSUME NEW d \in Dirs, NEW e \in Dirs, NEW a \in Artifacts,
                 Damage(d, a) \/ Overwrite(d, e, a)
          PROVE  (files'[dir'[q]]).netlist # Torn
      <3>1. pc' = pc /\ dir' = dir /\ status' = status
        BY <2>3 DEF Damage, Overwrite, args, flow
      <3>2. pc[q] # "idle" /\ NetlistWritten(q)
        BY <1>1, <3>1 DEF NetlistWritten
      <3>3. files'[dir[q]] = files[dir[q]]
        BY <1>0, <1>d, <2>3, <3>2 DEF Damage, Overwrite, Busy, FilesTyped
      <3> QED
        BY <3>1, <3>2, <3>3 DEF NetlistsWhole
    <2>4. CASE Edit \/ UNCHANGED vars
      BY <1>1, <2>4 DEF Edit, vars, disk, args, flow, NetlistWritten, NetlistsWhole
    <2> QED
      BY <2>1, <2>2, <2>3, <2>4 DEF Next, Turn, Finished
  <1>2. ASSUME NEW d \in Dirs, manifest'[d] # Missing, manifest'[d].status \in Reusable,
               "netlist" \in DOMAIN manifest'[d].hashes
        PROVE  manifest'[d].hashes["netlist"] # Torn
    <2>1. CASE manifest'[d] = manifest[d]
      BY <1>2, <2>1 DEF NetlistsWhole
    <2>2. ASSUME NEW p \in Procs, NEW s \in Statuses, WritesManifest(p, d, s)
          PROVE  manifest'[d].hashes["netlist"] # Torn
      <3>0. PICK names \in SUBSET Artifacts, unread \in SUBSET Unhashable :
               manifest'[d] = Entry(d, names, unread, key[p], s)
        BY <2>2 DEF WritesManifest
      <3>1. /\ manifest'[d].status = s
            /\ manifest'[d].hashes = Recorded(d, names, unread)
        BY <3>0 DEF Entry
      <3>2. NetlistWritten(p) /\ dir[p] = d
        BY <1>2, <2>2, <3>1 DEF NetlistWritten, WritesManifest
      <3>3. files[d].netlist # Torn
        BY <3>2 DEF NetlistsWhole
      <3> QED
        BY <1>2, <3>1, <3>3, CacheAssumption DEF Recorded
    <2> QED
      BY <2>1, <2>2, ManifestStep
  <1> QED
    BY <1>1, <1>2 DEF NetlistsWhole

\* No other call moves into an entry that p can still reuse: new calls take a
\* new directory while p is running.
LEMMA UndisturbedStep ==
    ASSUME CacheInv, [Next]_vars, NEW p \in Procs, Undisturbed(p)
    PROVE  Undisturbed(p)'
  <1>0. LocalsTyped
    BY DEF CacheInv, TypeOK
  <1>1. ASSUME NEW q \in Procs \ {p}, Step(q) \/ Crash(q)  PROVE Undisturbed(p)'
    <2>1. pc'[q] # "idle" => pc[q] # "idle" /\ dir'[q] = dir[q]
      BY <1>0, <1>1
      DEF LocalsTyped, Step, HashInputs, Lookup, VerifyFile, ReadHit, Miss, NotReady, ClearStale,
          ClearFails, Synthesize, SynthesisFails, RecordFailure, Sta, BeginWriteQor,
          EndWriteQor, Commit, Crash, Blocked, Return, Leave, args
    <2>2. /\ intact'[p] = intact[p] /\ pc'[p] = pc[p] /\ made \subseteq made'
      BY <1>1, OthersKept DEF Turn
    <2>3. \A r \in Procs \ {q} : pc'[r] = pc[r] /\ dir'[r] = dir[r]
      BY <1>1, OthersKept DEF Turn
    <2>4. ASSUME NEW r \in Procs \ {p}, pc'[r] # "idle"
          PROVE  pc[r] # "idle" /\ dir'[r] = dir[r]
      BY <2>1, <2>3, <2>4
    <2> QED
      BY <2>2, <2>4 DEF Undisturbed, Busy
  <1>2. ASSUME NEW q \in Procs \ {p}, NEW d \in Dirs, NEW s \in Sdcs, NEW f \in BOOLEAN,
               Call(q, d, s, f)
        PROVE  Undisturbed(p)'
    <2>1. /\ dir'[q] = d /\ pc'[p] = pc[p] /\ intact' = intact /\ made' = made \cup {d}
          /\ \A r \in Procs \ {q} : pc'[r] = pc[r] /\ dir'[r] = dir[r]
      BY <1>0, <1>2 DEF LocalsTyped, Call, lookup
    <2>2. d \notin intact[p]
      BY <1>2 DEF Undisturbed, Call, Busy
    <2> QED
      BY <1>0, <2>1, <2>2 DEF Undisturbed, Busy
  <1>3. ASSUME Turn(p)  PROVE \A r \in Procs \ {p} : pc'[r] = pc[r] /\ dir'[r] = dir[r]
    BY <1>3, OthersKept
  <1>4. CASE HashInputs(p) /\ ~force[p]
    <2>1. PICK k : intact' = [intact EXCEPT ![p] = {d \in made : Valid(d, k) /\ ~InUse(d, p)}]
      BY <1>4 DEF HashInputs
    <2>2. \A d \in intact'[p] : d \in made /\ ~InUse(d, p)
      BY <1>0, <2>1 DEF LocalsTyped
    <2>3. pc'[p] \notin {"idle", "hash"} /\ made' = made
      BY <1>0, <1>4 DEF LocalsTyped, HashInputs, disk
    <2>4. ASSUME NEW r \in Busy' \ {p}  PROVE dir'[r] \notin intact'[p]
      <3>1. r \in Busy \ {p} /\ dir'[r] = dir[r]
        BY <1>3, <1>4, <2>4 DEF Busy, Turn, Step
      <3> QED
        BY <2>2, <3>1 DEF InUse
    <2> QED
      BY <2>2, <2>3, <2>4 DEF Undisturbed
  <1>5. ASSUME Turn(p), intact'[p] = {}  PROVE Undisturbed(p)'
    BY <1>5 DEF Undisturbed
  <1>6. ASSUME NEW d \in Dirs, NEW s \in Sdcs, NEW f \in BOOLEAN, Call(p, d, s, f)
        PROVE  intact'[p] = {}
    BY <1>6 DEF Call, Undisturbed, lookup
  <1>7. CASE \/ NotReady(p) \/ ClearFails(p) \/ RecordFailure(p) \/ Commit(p) \/ Crash(p)
    <2>1. intact'[p] = {}
      BY <1>0, <1>7
      DEF LocalsTyped, NotReady, ClearFails, RecordFailure, Commit, Crash, Blocked, Return,
          Leave
    <2> QED
      BY <1>5, <1>7, <2>1 DEF Turn, Step
  <1>f. CASE HashInputs(p) /\ force[p]
    <2>1. intact'[p] = {}
      BY <1>f DEF HashInputs, Undisturbed
    <2> QED
      BY <1>5, <1>f, <2>1 DEF Turn, Step
  <1>c. CASE ClearStale(p)
    <2>1. intact'[p] = {}
      BY <1>0, <1>c DEF ClearStale, LocalsTyped
    <2> QED
      BY <1>5, <1>c, <2>1 DEF Turn, Step
  <1>8. CASE ReadHit(p) /\ intact' # intact
    <2>1. intact'[p] = {}
      BY <1>0, <1>8 DEF LocalsTyped, ReadHit, Return, Leave
    <2> QED
      BY <1>5, <1>8, <2>1 DEF Turn, Step
  <1>9. ASSUME Turn(p), intact' = intact, made' = made, pc'[p] \notin {"idle", "hash"}
        PROVE  Undisturbed(p)'
    BY <1>3, <1>9 DEF Undisturbed, Busy
  <1>10. CASE ReadHit(p) /\ intact' = intact
    <2>1. CASE pc'[p] = "lookup"
      BY <1>9, <1>10, <2>1 DEF ReadHit, disk, Turn, Step
    <2>2. CASE pc'[p] # "lookup"
      <3>1. intact'[p] = {}
        BY <1>0, <1>10, <2>2 DEF LocalsTyped, ReadHit, Return, Leave
      <3> QED
        BY <1>5, <1>10, <3>1 DEF Turn, Step
    <2> QED
      BY <2>1, <2>2
  <1>11. CASE \/ Lookup(p) \/ Miss(p) \/ Synthesize(p) \/ SynthesisFails(p)
              \/ BeginWriteQor(p) \/ EndWriteQor(p) \/ \E s \in Statuses : Sta(p, s)
              \/ \E a \in Artifacts : VerifyFile(p, a)
    <2>1. intact' = intact /\ made' = made /\ pc'[p] \notin {"idle", "hash"}
      BY <1>0, <1>11
      DEF LocalsTyped, Lookup, VerifyFile, Miss, Synthesize, SynthesisFails, BeginWriteQor,
          EndWriteQor, Sta, disk, lookup
    <2> QED
      BY <1>9, <1>11, <2>1 DEF Turn, Step
  <1>12. CASE UNCHANGED <<made, pc, args, lookup>>
    BY <1>12 DEF Undisturbed, Busy, args, lookup
  <1>13. ASSUME NEW d \in Dirs, NEW e \in Dirs, NEW a \in Artifacts,
                Damage(d, a) \/ Overwrite(d, e, a)
         PROVE  UNCHANGED <<made, pc, args, lookup>>
    BY <1>13 DEF Damage, Overwrite
  <1>14. Edit \/ UNCHANGED vars => UNCHANGED <<made, pc, args, lookup>>
    BY DEF Edit, vars, disk
  <1> QED
    BY <1>1, <1>2, <1>4, <1>5, <1>6, <1>7, <1>f, <1>c, <1>8, <1>10, <1>11, <1>12, <1>13, <1>14
    DEF Next, Step, Turn, Finished

\* The other calls leave alone what the lookup of p can still use.
LEMMA IntactKept ==
    ASSUME CacheInv, NEW p \in Procs, Undisturbed(p), pc[p] \notin {"idle", "hash"},
           NEW e \in intact[p], NEW q \in Procs \ {p}, Turn(q)
    PROVE  manifest'[e] = manifest[e] /\ files'[e] = files[e]
  <1>0. LocalsTyped /\ DiskTyped /\ FilesTyped /\ e \in made /\ e \in Dirs
    BY DEF CacheInv, TypeOK, DiskTyped, Undisturbed
  <1>1. pc[q] # "idle" => dir[q] # e
    BY DEF Undisturbed, Busy
  <1>2. CASE Step(q) \/ Crash(q)
    <2>1. files'[e] = files[e]
      BY <1>0, <1>1, <1>2, FilesKept
    <2>2. CASE NotReady(q) \/ ClearFails(q) \/ RecordFailure(q) \/ Commit(q)
      BY <1>0, <1>1, <2>1, <2>2
      DEF DiskTyped, NotReady, ClearFails, RecordFailure, Commit, Blocked
    <2>3. CASE ~(NotReady(q) \/ ClearFails(q) \/ RecordFailure(q) \/ Commit(q))
      BY <1>2, <2>1, <2>3
      DEF Step, HashInputs, Lookup, VerifyFile, ReadHit, Miss, ClearStale, Synthesize,
          SynthesisFails, Sta, BeginWriteQor, EndWriteQor, Crash, disk
    <2> QED
      BY <2>2, <2>3
  <1>3. ASSUME NEW d \in Dirs, NEW s \in Sdcs, NEW f \in BOOLEAN, Call(q, d, s, f)
        PROVE  manifest'[e] = manifest[e] /\ files'[e] = files[e]
    <2>1. e # d
      BY <1>0, <1>3 DEF Call, Busy
    <2> QED
      BY <1>0, <1>3, <2>1 DEF Call, FilesTyped
  <1> QED
    BY <1>2, <1>3 DEF Turn

\* What another step does, and damage too, never makes an entry reusable that p
\* has passed over.
LEMMA StaysRefused ==
    ASSUME CacheInv, NetlistsWhole, [Next]_vars, NEW p \in Procs, Undisturbed(p),
           \/ \E q \in Procs \ {p} : Turn(q)
           \/ \E d \in Dirs, a \in Artifacts : Damage(d, a),
           pc[p] \notin {"idle", "hash"}, NEW e \in intact[p], NEW k \in Keys,
           Accepts(manifest'[e], files'[e], k)
    PROVE  Accepts(manifest[e], files[e], k)
  <1>0. LocalsTyped /\ DiskTyped /\ FilesTyped /\ e \in made /\ e \in Dirs
    BY DEF CacheInv, TypeOK, DiskTyped, Undisturbed
  <1>1. ASSUME NEW q \in Procs \ {p}, Turn(q)
        PROVE  manifest'[e] = manifest[e] /\ files'[e] = files[e]
    BY <1>1, IntactKept
  <1>2. ASSUME NEW d \in Dirs, NEW b \in Artifacts, Damage(d, b)
        PROVE  Accepts(manifest[e], files[e], k)
    <2>1. /\ manifest' = manifest
          /\ \A a \in Artifacts : files[e][a] = Missing => files'[e][a] = Missing
          /\ \A a \in Artifacts : files'[e][a] \in {Missing, Torn, files[e][a]}
      BY <1>0, <1>2 DEF Damage, FilesTyped
    <2>2. /\ Usable(manifest[e], k)
          /\ \A a \in DOMAIN manifest[e].hashes :
                /\ files'[e][a] # Missing
                /\ a \in Hashed /\ manifest[e].hashes[a] # Unread
                       => files'[e][a] = manifest[e].hashes[a]
      BY <2>1 DEF Accepts
    <2>3. DOMAIN manifest[e].hashes \subseteq Artifacts
      BY <1>0, <2>2 DEF DiskTyped, ManifestTyped, HashesTyped, Usable
    <2>4. ASSUME NEW a \in DOMAIN manifest[e].hashes
          PROVE  /\ files[e][a] # Missing
                 /\ a \in Hashed /\ manifest[e].hashes[a] # Unread
                        => files[e][a] = manifest[e].hashes[a]
      <3>1. files[e][a] # Missing
        BY <2>1, <2>2, <2>3
      <3>2. CASE a \in Hashed /\ manifest[e].hashes[a] # Unread
        <4>1. files'[e][a] # Torn /\ files'[e][a] # Missing
          BY <1>0, <2>2, <3>2, HashedWhole DEF Usable
        <4> QED
          BY <2>1, <2>2, <2>3, <3>1, <4>1
      <3> QED
        BY <3>1, <3>2
    <2> QED
      BY <2>2, <2>4 DEF Accepts
  <1> QED
    BY <1>1, <1>2

\* Looking at an entry, reading it and giving up on it keep every reusable entry
\* pending; with none pending the call misses.
LEMMA SearchedStep ==
    ASSUME SearchInv, [Next]_vars, NEW p \in Procs
    PROVE  Searched(p)'
  <1>0. /\ LocalsTyped /\ DiskTyped /\ CacheInv /\ NetlistsWhole
        /\ Undisturbed(p) /\ OwedByEntry(p) /\ Searched(p)
    BY DEF SearchInv, CacheInv, TypeOK
  <1>1. ASSUME \/ \E q \in Procs \ {p} : Turn(q)
               \/ \E d \in Dirs, a \in Artifacts : Damage(d, a)
        PROVE  Searched(p)'
    <2>1. /\ pc'[p] = pc[p] /\ force'[p] = force[p] /\ key'[p] = key[p]
          /\ todo'[p] = todo[p] /\ hit'[p] = hit[p] /\ intact'[p] = intact[p]
      <3>1. CASE \E q \in Procs \ {p} : Turn(q)
        BY <1>0, <3>1, OthersKept
      <3>2. CASE \E d \in Dirs, a \in Artifacts : Damage(d, a)
        BY <3>2 DEF Damage, args, lookup
      <3> QED
        BY <1>1, <3>1, <3>2
    <2>2. Searching(p)' = Searching(p) /\ Pending(p)' = Pending(p)
      BY <2>1 DEF Searching, Pending
    <2>3. ASSUME Searching(p), NEW e \in intact[p], Accepts(manifest'[e], files'[e], key[p])
          PROVE  e \in Pending(p)
      <3>1. pc[p] \notin {"idle", "hash"} /\ key[p] \in Keys
        BY <1>0, <2>3 DEF Searching, LocalsTyped
      <3>2. Accepts(manifest[e], files[e], key[p])
        BY <1>0, <1>1, <2>3, <3>1, StaysRefused
      <3> QED
        BY <1>0, <2>3, <3>2 DEF Searched
    <2> QED
      BY <2>1, <2>2, <2>3 DEF Searched
  <1>2. CASE HashInputs(p)
    <2>1. CASE force[p]
      BY <1>0, <1>2, <2>1 DEF HashInputs, LocalsTyped, Searched, Searching
    <2>2. CASE ~force[p]
      <3>1. PICK k : /\ intact' = [intact EXCEPT ![p] = {d \in made : Valid(d, k) /\ ~InUse(d, p)}]
                     /\ todo' = [todo EXCEPT ![p] = made]
                     /\ pc' = [pc EXCEPT ![p] = "lookup"]
        BY <1>2, <2>2 DEF HashInputs
      <3>2. intact'[p] \subseteq todo'[p] /\ pc'[p] = "lookup"
        BY <1>0, <3>1 DEF LocalsTyped
      <3> QED
        BY <3>2 DEF Searched, Pending
    <2> QED
      BY <2>1, <2>2
  <1>3. CASE Lookup(p)
    <2>1. /\ pc[p] = "lookup" /\ todo'[p] = todo[p] \ {Newest(p)}
          /\ Usable(manifest[Newest(p)], key[p]) => pc'[p] = "verify" /\ hit'[p] = Newest(p)
          /\ ~Usable(manifest[Newest(p)], key[p]) => pc'[p] = "lookup"
          /\ UNCHANGED <<files, manifest, key, intact>>
      BY <1>0, <1>3 DEF Lookup, LocalsTyped, disk, args
    <2>2. ASSUME NEW d \in intact[p], Accepts(manifest[d], files[d], key[p])
          PROVE  d \in Pending(p)'
      <3>1. d \in todo[p]
        BY <1>0, <2>1, <2>2 DEF Searched, Searching, Pending
      <3>2. CASE d = Newest(p)
        BY <2>1, <2>2, <3>2 DEF Accepts, Pending
      <3>3. CASE d # Newest(p)
        BY <2>1, <3>1, <3>3 DEF Pending
      <3> QED
        BY <3>2, <3>3
    <2> QED
      BY <2>1, <2>2 DEF Searched
  <1>v. ASSUME NEW a \in Artifacts, VerifyFile(p, a)  PROVE Searched(p)'
    <2>1. /\ pc[p] = "verify" /\ a \in DOMAIN owed[p]
          /\ UNCHANGED <<files, manifest, key, intact, todo>>
      BY <1>v DEF VerifyFile, Due, disk, args
    <2>2. CASE Fits(hit[p], a, owed[p][a])
      <3>1. pc'[p] \in {"verify", "read"} /\ hit' = hit
        BY <1>0, <1>v, <2>2 DEF VerifyFile, LocalsTyped
      <3>2. Pending(p)' = Pending(p)
        BY <2>1, <3>1 DEF Pending
      <3> QED
        BY <1>0, <2>1, <3>2 DEF Searched, Searching
    <2>3. CASE ~Fits(hit[p], a, owed[p][a])
      <3>1. pc'[p] = "lookup"
        BY <1>0, <1>v, <2>3 DEF VerifyFile, LocalsTyped
      <3>2. ASSUME NEW d \in intact[p], Accepts(manifest[d], files[d], key[p])
            PROVE  d \in todo[p]
        <4>1. d \in todo[p] \cup {hit[p]}
          BY <1>0, <2>1, <3>2 DEF Searched, Searching, Pending
        <4>2. ASSUME d = hit[p]  PROVE FALSE
          <5>1. a \in DOMAIN manifest[d].hashes /\ owed[p][a] = manifest[d].hashes[a]
            BY <1>0, <2>1, <4>2 DEF OwedByEntry
          <5> QED
            BY <2>3, <3>2, <4>2, <5>1 DEF Accepts, Fits
        <4> QED
          BY <4>1, <4>2
      <3> QED
        BY <2>1, <3>1, <3>2 DEF Searched, Pending
    <2> QED
      BY <2>2, <2>3
  <1>4. CASE ReadHit(p)
    <2>1. CASE files[hit[p]].qor # Torn
      <3>1. pc'[p] = "idle"
        BY <1>0, <1>4, <2>1 DEF ReadHit, LocalsTyped, Return, Leave
      <3> QED
        BY <3>1 DEF Searched, Searching
    <2>2. CASE files[hit[p]].qor = Torn
      <3>1. /\ pc[p] = "read" /\ pc'[p] = "lookup"
            /\ UNCHANGED <<files, manifest, key, intact, todo>>
        BY <1>0, <1>4, <2>2 DEF ReadHit, LocalsTyped, Return, Leave, disk, args
      <3>2. ASSUME NEW d \in intact[p], Accepts(manifest[d], files[d], key[p])
            PROVE  d \in todo[p]
        <4>1. d \in todo[p] \cup {hit[p]} /\ d \in Dirs
          BY <1>0, <3>1, <3>2 DEF Searched, Searching, Pending, Undisturbed, DiskTyped
        <4>2. /\ "qor" \in Hashed /\ "qor" \in DOMAIN manifest[d].hashes
              /\ manifest[d] # Missing /\ manifest[d].status \in Reusable
              /\ files[d]["qor"] = manifest[d].hashes["qor"]
          <5>1. /\ manifest[d] # Missing /\ manifest[d].status \in Reusable
                /\ manifest[d].key = key[p] /\ "qor" \in DOMAIN manifest[d].hashes
            BY <3>2 DEF Accepts, Usable, Required
          <5>2. manifest[d].hashes["qor"] = Measured(key[p])
            BY <1>0, <4>1, <5>1 DEF CacheInv, RecordsTruthful
          <5>3. Measured(key[p]) # Unread
            BY <1>0, <3>1, CacheAssumption DEF LocalsTyped, Keys, Measured
          <5> QED
            BY <3>2, <5>1, <5>2, <5>3 DEF Accepts, Hashed, Artifacts
        <4>3. files[d]["qor"] # Torn
          BY <1>0, <4>1, <4>2, HashedWhole
        <4> QED
          BY <2>2, <4>1, <4>3
      <3> QED
        BY <3>1, <3>2 DEF Searched, Pending
    <2> QED
      BY <2>1, <2>2
  <1>5. CASE Miss(p)
    <2>1. /\ pc[p] = "lookup" /\ todo[p] = {}
          /\ UNCHANGED <<files, manifest, key, intact>>
      BY <1>5 DEF Miss, disk, args, lookup
    <2>2. \A d \in intact[p] : ~Accepts(manifest[d], files[d], key[p])
      BY <1>0, <2>1 DEF Searched, Searching, Pending
    <2> QED
      BY <2>1, <2>2 DEF Searched
  <1>6. ASSUME pc'[p] \notin {"lookup", "verify", "read", "preflight"}  PROVE Searched(p)'
    BY <1>6 DEF Searched, Searching
  <1>7. CASE \E d \in Dirs, s \in Sdcs, f \in BOOLEAN : Call(p, d, s, f)
    BY <1>0, <1>6, <1>7 DEF LocalsTyped, Call
  <1>8. CASE \/ NotReady(p) \/ ClearFails(p) \/ RecordFailure(p) \/ Commit(p) \/ Crash(p)
    BY <1>0, <1>6, <1>8
    DEF LocalsTyped, NotReady, ClearFails, RecordFailure, Commit, Crash, Blocked, Return, Leave
  <1>9. CASE \/ ClearStale(p) \/ Synthesize(p) \/ SynthesisFails(p)
             \/ BeginWriteQor(p) \/ EndWriteQor(p) \/ \E s \in Statuses : Sta(p, s)
    BY <1>0, <1>6, <1>9
    DEF LocalsTyped, ClearStale, Synthesize, SynthesisFails, BeginWriteQor, EndWriteQor, Sta
  <1>10. ASSUME NEW d \in Dirs, NEW e \in Dirs, NEW a \in Artifacts, Overwrite(d, e, a)
         PROVE  Searched(p)'
    BY <1>0, <1>6, <1>10 DEF Overwrite, Busy
  <1>11. CASE Edit
    BY <1>0, <1>6, <1>11 DEF Edit, Busy
  <1>12. CASE UNCHANGED vars
    BY <1>0, <1>12 DEF vars, disk, args, lookup, Searched, Searching, Pending
  <1> QED
    BY <1>1, <1>2, <1>3, <1>v, <1>4, <1>5, <1>7, <1>8, <1>9, <1>10, <1>11, <1>12
    DEF Next, Step, Turn, Finished

\* An entry others leave alone keeps the manifest it was taken for.
LEMMA OwedStep ==
    ASSUME SearchInv, [Next]_vars, NEW p \in Procs
    PROVE  OwedByEntry(p)'
  <1>0. LocalsTyped /\ DiskTyped /\ CacheInv /\ Undisturbed(p) /\ OwedByEntry(p)
    BY DEF SearchInv, CacheInv, TypeOK
  <1>1. ASSUME NEW q \in Procs \ {p}, Turn(q)  PROVE OwedByEntry(p)'
    <2>1. /\ pc'[p] = pc[p] /\ hit'[p] = hit[p] /\ owed'[p] = owed[p]
          /\ intact'[p] = intact[p]
      BY <1>0, <1>1, OthersKept
    <2>2. ASSUME pc[p] = "verify", hit[p] \in intact[p]
          PROVE  manifest'[hit[p]] = manifest[hit[p]]
      BY <1>0, <1>1, <2>2, IntactKept
    <2> QED
      BY <1>0, <2>1, <2>2 DEF OwedByEntry
  <1>2. ASSUME pc'[p] # "verify"  PROVE OwedByEntry(p)'
    BY <1>2 DEF OwedByEntry
  <1>3. CASE Lookup(p)
    <2>1. CASE Usable(manifest[Newest(p)], key[p])
      <3>1. /\ hit'[p] = Newest(p) /\ owed'[p] = manifest[Newest(p)].hashes
            /\ manifest' = manifest
        BY <1>0, <1>3, <2>1 DEF Lookup, LocalsTyped, disk
      <3> QED
        BY <3>1 DEF OwedByEntry
    <2>2. CASE ~Usable(manifest[Newest(p)], key[p])
      BY <1>2, <1>3, <2>2 DEF Lookup
    <2> QED
      BY <2>1, <2>2
  <1>4. ASSUME NEW a \in Artifacts, VerifyFile(p, a)  PROVE OwedByEntry(p)'
    <2>1. CASE Fits(hit[p], a, owed[p][a])
      <3>1. /\ owed'[p] = [b \in DOMAIN owed[p] \ {a} |-> owed[p][b]]
            /\ UNCHANGED <<manifest, hit, intact>> /\ pc[p] = "verify"
        BY <1>0, <1>4, <2>1 DEF VerifyFile, LocalsTyped, disk
      <3> QED
        BY <1>0, <3>1 DEF OwedByEntry
    <2>2. CASE ~Fits(hit[p], a, owed[p][a])
      BY <1>0, <1>2, <1>4, <2>2 DEF VerifyFile, LocalsTyped
    <2> QED
      BY <2>1, <2>2
  <1>5. CASE \/ \E d \in Dirs, s \in Sdcs, f \in BOOLEAN : Call(p, d, s, f)
             \/ NotReady(p) \/ ClearFails(p) \/ RecordFailure(p) \/ Commit(p) \/ Crash(p)
    BY <1>0, <1>2, <1>5
    DEF LocalsTyped, Call, NotReady, ClearFails, RecordFailure, Commit, Crash, Blocked, Return,
        Leave
  <1>6. CASE \/ HashInputs(p) \/ ReadHit(p) \/ Miss(p) \/ ClearStale(p) \/ Synthesize(p)
             \/ SynthesisFails(p) \/ BeginWriteQor(p) \/ EndWriteQor(p)
             \/ \E s \in Statuses : Sta(p, s)
    BY <1>0, <1>2, <1>6
    DEF LocalsTyped, HashInputs, ReadHit, Miss, ClearStale, Synthesize, SynthesisFails,
        BeginWriteQor, EndWriteQor, Sta, Return, Leave
  <1>7. ASSUME UNCHANGED <<manifest, pc, lookup>>  PROVE OwedByEntry(p)'
    BY <1>0, <1>7 DEF lookup, OwedByEntry
  <1>8. ASSUME NEW d \in Dirs, NEW e \in Dirs, NEW a \in Artifacts,
               Damage(d, a) \/ Overwrite(d, e, a)
        PROVE  UNCHANGED <<manifest, pc, lookup>>
    BY <1>8 DEF Damage, Overwrite
  <1>9. Edit \/ UNCHANGED vars => UNCHANGED <<manifest, pc, lookup>>
    BY DEF Edit, vars, disk
  <1> QED
    BY <1>1, <1>3, <1>4, <1>5, <1>6, <1>7, <1>8, <1>9 DEF Next, Step, Turn, Finished

\* SearchInv is inductive.
THEOREM SearchInvariant ==
    Spec => []SearchInv
  <1>1. Init => SearchInv
    <2> SUFFICES ASSUME Init PROVE SearchInv
      OBVIOUS
    <2>1. CacheInv
      BY CacheInit
    <2> QED
      BY <2>1 DEF Init, SearchInv, NetlistsWhole, NetlistWritten, Undisturbed, OwedByEntry,
                  Searched, Searching, Busy
  <1>2. SearchInv /\ [Next]_vars => SearchInv'
    <2> SUFFICES ASSUME SearchInv, [Next]_vars PROVE SearchInv'
      OBVIOUS
    <2>1. CacheInv /\ NetlistsWhole /\ \A p \in Procs : Undisturbed(p)
      BY DEF SearchInv
    <2>2. CacheInv'
      BY <2>1, LocalsStep, DiskStep, ExclusiveStep, RecordsStep, ResultStep, WorkingStep,
         ReadingStep
      DEF CacheInv, TypeOK
    <2> QED
      BY <2>1, <2>2, NetlistsStep, UndisturbedStep, OwedStep, SearchedStep DEF SearchInv
  <1> QED
    BY <1>1, <1>2, PTL DEF Spec

\* run_flow starts the tools, unless it was forced to, only when none of the
\* entries that were whole as its lookup began, and that no other call works in,
\* could still be reused: damaged, failed, half written or unreadable entries
\* that come first in the listing do not hide a good one.
THEOREM MissesJustified ==
    Spec => []MissJustified
  <1>1. SearchInv => MissJustified
    <2> SUFFICES ASSUME SearchInv, NEW p \in Procs, pc[p] = "preflight", ~force[p],
                        NEW d \in intact[p], Valid(d, key[p])
                 PROVE  FALSE
      BY DEF MissJustified
    <2>1. Accepts(manifest[d], files[d], key[p])
      BY DEF Valid, Fits, Accepts
    <2>2. Searched(p) /\ Searching(p)
      BY DEF SearchInv, Searching
    <2> QED
      BY <2>1, <2>2 DEF Searched, Pending
  <1> QED
    BY SearchInvariant, <1>1, PTL

=============================================================================
