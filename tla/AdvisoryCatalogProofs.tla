----------------------- MODULE AdvisoryCatalogProofs -----------------------
(***************************************************************************)
(* Theorems about the catalog, for every feed and for any number of        *)
(* processes whose checks and transactions interleave.                     *)
(*                                                                         *)
(* Recorded is the shape of the tables and of the running commands.  The   *)
(* index needs in addition that whatever counts as present, and whatever a *)
(* manifest brought, is a record of the catalog (Held).  The delta chain   *)
(* needs that a chain that is not empty has a latest delta (Topped), that  *)
(* a delta is of the ecosystem of its base, and that it was acquired after *)
(* the one it follows (Chained).  What no transaction relies on, such as   *)
(* how far a command has come, is left open: any process may be killed and *)
(* any two may hold the same manifest.                                     *)
(*                                                                         *)
(* The last section is about one process at a time (Alone) and manifests   *)
(* dated alike (WellFed), without which its two theorems are false.  It    *)
(* adds to the invariant what each manifest has brought (Accounts) and     *)
(* what the running command has put into the catalog so far (Told).        *)
(***************************************************************************)
EXTENDS AdvisoryCatalog, TLAPS

(***************************************************************************)
(* The inductive invariant.                                                *)
(***************************************************************************)

Manifests == Snapshots \cup Deltas \cup Loose \cup {NoFeed}
Origins == {SourceOf[k] : k \in Keys} \cup {"none"}
Pcs == {"idle", "register-check", "register", "batch-check", "batch", "source", "complete",
        "index-check", "index", "backup-check", "copy", "verify"}
Commands == {"none", "snapshot", "delta", "osv", "index", "backup"}
Running == [pc : Pcs, command : Commands, feed : Manifests, left : SUBSET Keys,
            source : Origins, copy : SUBSET Deltas]
Entry == [status : {"preparing", "complete"}, seen : SUBSET Keys, done : SUBSET Origins]

\* A command holds a manifest of its kind, and the keys left are of that manifest.
Holding(r) ==
  /\ r.command = "snapshot" => r.feed \in Snapshots
  /\ r.command = "delta" => r.feed \in Deltas
  /\ r.command = "osv" => r.feed \in Loose
  /\ r.left # {} => r.feed # NoFeed /\ r.left \subseteq DOMAIN Records(r.feed)

Tables ==
  /\ DOMAIN snaps \subseteq Snapshots /\ snaps \in [DOMAIN snaps -> Entry]
  /\ DOMAIN deltas \subseteq Deltas /\ deltas \in [DOMAIN deltas -> Entry]
  /\ DOMAIN current \subseteq Keys
  /\ current = [k \in DOMAIN current |-> current[k]]
  /\ active \subseteq Keys
  /\ index \in {"ready", "dirty"}

Commanded == proc \in [Procs -> Running] /\ \A p \in Procs : Holding(proc[p])

Recorded == Tables /\ Commanded

Applying == {"batch-check", "batch", "source", "complete"}

\* What a command applies is registered.
Registered ==
  \A p \in Procs : proc[p].pc \in Applying =>
    /\ proc[p].command = "snapshot" => proc[p].feed \in DOMAIN snaps
    /\ proc[p].command = "delta" => proc[p].feed \in DOMAIN deltas

\* Whatever counts as present and whatever a manifest brought is a record.
Held ==
  /\ active \subseteq DOMAIN current
  /\ \A s \in DOMAIN snaps : snaps[s].seen \subseteq DOMAIN current

\* The complete deltas of an ecosystem.
Chain(ecosystem) == {d \in Complete(deltas) : Feed[d].ecosystem = ecosystem}

\* A chain that is not empty has a latest delta.
Topped ==
  \A ecosystem \in {Feed[d].ecosystem : d \in Deltas} :
    Chain(ecosystem) # {} => Latest(Chain(ecosystem)) # {}

\* A complete delta is of the ecosystem of its base and later than the one it follows,
\* which is complete.
Chained ==
  \A d \in Complete(deltas) :
    /\ Feed[d].ecosystem = Feed[Feed[d].base].ecosystem
    /\ Feed[d].previous # NoDelta =>
         /\ Feed[d].previous \in Complete(deltas)
         /\ Feed[d].after = Feed[Feed[d].previous].through
         /\ Feed[d].acquired.at > Feed[Feed[d].previous].acquired.at

Inv ==
  /\ Recorded /\ Registered /\ Held
  /\ IndexAgrees /\ BackupsAreClean
  /\ Topped /\ Chained /\ NoForks

(***************************************************************************)
(* The running commands.                                                   *)
(***************************************************************************)

\* A process that gets a well-formed command leaves all of them well formed.
LEMMA SetCommand ==
  ASSUME Commanded, NEW p \in Procs, NEW r \in Running, Holding(r),
         proc' = [proc EXCEPT ![p] = r]
  PROVE  Commanded'
BY DEF Commanded

\* The next source is one of the sources of the keys that are left.
LEMMA NextSourceIsOrigin ==
  ASSUME NEW left \in SUBSET Keys, left # {}
  PROVE  NextSource(left) \in Origins
BY DEF NextSource, Origins

\* A manifest names known keys only.
LEMMA RecordsAreKnown ==
  ASSUME NEW m \in Snapshots \cup Deltas \cup Loose
  PROVE  DOMAIN Records(m) \subseteq Keys /\ m # NoFeed /\ m \in Manifests
BY FeedAssumption DEF Manifests

\* An idle process is a well-formed command.
LEMMA IdleIsRunning == Idle \in Running /\ Holding(Idle)
BY DEF Idle, Running, Holding, Pcs, Commands, Manifests, Origins

\* A command that starts holds a manifest of its kind, all keys of which are left.
LEMMA StartCommands ==
  ASSUME Commanded, NEW p \in Procs, Command(p)
  PROVE  Commanded'
<1> DEFINE begun(command, m, pc) ==
      LET left == IF m = NoFeed THEN {} ELSE DOMAIN Records(m) IN
      [pc |-> pc, command |-> command, feed |-> m, left |-> left,
       source |-> IF left = {} THEN "none" ELSE NextSource(left), copy |-> {}]
<1>1. ASSUME NEW command \in Commands, NEW m \in Manifests, NEW pc \in Pcs,
             Start(p, command, m, pc), Holding(begun(command, m, pc))
      PROVE  Commanded'
  <2> DEFINE left == IF m = NoFeed THEN {} ELSE DOMAIN Records(m)
  <2>1. left \in SUBSET Keys
    BY RecordsAreKnown DEF Manifests
  <2>2. (IF left = {} THEN "none" ELSE NextSource(left)) \in Origins
    BY <2>1, NextSourceIsOrigin DEF Origins
  <2>3. begun(command, m, pc) \in Running
    BY <2>1, <2>2 DEF Running
  <2> HIDE DEF left
  <2>4. proc' = [proc EXCEPT ![p] = begun(command, m, pc)]
    BY <1>1 DEF Start
  <2> QED
    BY <1>1, <2>3, <2>4, SetCommand
<1>2. ASSUME NEW s \in Snapshots, Start(p, "snapshot", s, "register-check") PROVE Commanded'
  <2>1. Holding(begun("snapshot", s, "register-check"))
    BY RecordsAreKnown DEF Holding
  <2> QED
    BY <1>1, <1>2, <2>1, RecordsAreKnown DEF Commands, Pcs
<1>3. ASSUME NEW d \in Deltas, Start(p, "delta", d, "register") PROVE Commanded'
  <2>1. Holding(begun("delta", d, "register"))
    BY RecordsAreKnown DEF Holding
  <2> QED
    BY <1>1, <1>3, <2>1, RecordsAreKnown DEF Commands, Pcs
<1>4. ASSUME NEW l \in Loose, Start(p, "osv", l, "batch-check") PROVE Commanded'
  <2>1. Holding(begun("osv", l, "batch-check"))
    BY RecordsAreKnown DEF Holding
  <2> QED
    BY <1>1, <1>4, <2>1, RecordsAreKnown DEF Commands, Pcs
<1>5. CASE Start(p, "index", NoFeed, "index-check")
  <2>1. Holding(begun("index", NoFeed, "index-check"))
    BY DEF Holding
  <2> QED
    BY <1>1, <1>5, <2>1 DEF Commands, Pcs, Manifests
<1>6. CASE Start(p, "backup", NoFeed, "backup-check")
  <2>1. Holding(begun("backup", NoFeed, "backup-check"))
    BY DEF Holding
  <2> QED
    BY <1>1, <1>6, <2>1 DEF Commands, Pcs, Manifests
<1> HIDE DEF begun
<1> QED
  BY <1>2, <1>3, <1>4, <1>5, <1>6 DEF Command

\* A command that goes on has the same manifest and no more keys left.
LEMMA GoingOn ==
  ASSUME Commanded, NEW p \in Procs, NEW pc \in Pcs, NEW left \in SUBSET proc[p].left,
         NEW source \in Origins, NEW copy \in SUBSET Deltas,
         proc' = [proc EXCEPT ![p] = [proc[p] EXCEPT !.pc = pc, !.left = left,
                                                     !.source = source, !.copy = copy]]
  PROVE  Commanded'
<1> DEFINE r == [proc[p] EXCEPT !.pc = pc, !.left = left, !.source = source, !.copy = copy]
<1>1. proc[p] \in Running /\ Holding(proc[p])
  BY DEF Commanded
<1>2. r \in Running
  BY <1>1 DEF Running
<1>3. r.command = proc[p].command /\ r.feed = proc[p].feed /\ r.left = left
  BY <1>1 DEF Running
<1>4. Holding(r)
  BY <1>1, <1>3 DEF Holding
<1> HIDE DEF r
<1>5. proc' = [proc EXCEPT ![p] = r]
  BY DEF r
<1> QED
  BY <1>2, <1>4, <1>5, SetCommand

\* The ways a step moves its command on.
LEMMA MovesKeep ==
  ASSUME Tables, Commanded, NEW p \in Procs
  PROVE  /\ \A pc \in Pcs : Goto(p, pc) => Commanded'
         /\ End(p) => Commanded'
         /\ \A batch : Advance(p, batch) => Commanded'
         /\ AfterSource(p) => Commanded'
         /\ CopyBackup(p) => Commanded'
<1>1. /\ proc[p] \in Running /\ Holding(proc[p])
      /\ proc[p].left \in SUBSET Keys /\ proc[p].left \in SUBSET proc[p].left
      /\ proc[p].source \in Origins /\ proc[p].copy \in SUBSET Deltas
      /\ proc[p].pc \in Pcs
  BY DEF Commanded, Running
<1>2. ASSUME NEW pc \in Pcs, Goto(p, pc) PROVE Commanded'
  <2>1. proc' = [proc EXCEPT ![p] = [proc[p] EXCEPT !.pc = pc, !.left = proc[p].left,
                                       !.source = proc[p].source, !.copy = proc[p].copy]]
    BY <1>1, <1>2 DEF Goto, Commanded, Running
  <2> QED
    BY <1>1, <2>1, GoingOn
<1>3. End(p) => Commanded'
  BY IdleIsRunning, SetCommand DEF End
<1>4. ASSUME NEW batch, Advance(p, batch) PROVE Commanded'
  <2> DEFINE left == proc[p].left \ batch
             pc == IF OfSource(left, proc[p].source) # {} THEN "batch-check"
                   ELSE IF proc[p].command # "osv" THEN "source"
                   ELSE IF left # {} THEN "batch-check" ELSE "index-check"
             source == IF pc = "batch-check" THEN NextSource(left) ELSE proc[p].source
  <2>1. pc \in Pcs
    BY DEF Pcs
  <2>2. left \in SUBSET proc[p].left /\ left \in SUBSET Keys
    BY <1>1
  <2>3. pc = "batch-check" => left # {}
    BY DEF OfSource
  <2>4. source \in Origins
    BY <1>1, <2>2, <2>3, NextSourceIsOrigin
  <2>5. proc' = [proc EXCEPT ![p].left = left, ![p].pc = pc, ![p].source = source]
    BY <1>4 DEF Advance
  <2> HIDE DEF left, pc, source
  <2>6. proc' = [proc EXCEPT ![p] = [proc[p] EXCEPT !.pc = pc, !.left = left,
                                       !.source = source, !.copy = proc[p].copy]]
    BY <1>1, <2>5 DEF Commanded, Running
  <2> QED
    BY <1>1, <2>1, <2>2, <2>4, <2>6, GoingOn
<1>5. ASSUME AfterSource(p) PROVE Commanded'
  <2> DEFINE pc == IF proc[p].left = {} THEN "complete" ELSE "batch-check"
             source == IF proc[p].left = {} THEN proc[p].source ELSE NextSource(proc[p].left)
  <2>1. pc \in Pcs
    BY DEF Pcs
  <2>2. source \in Origins
    BY <1>1, NextSourceIsOrigin
  <2>3. proc' = [proc EXCEPT ![p].pc = pc, ![p].source = source]
    BY <1>5 DEF AfterSource
  <2> HIDE DEF pc, source
  <2>4. proc' = [proc EXCEPT ![p] = [proc[p] EXCEPT !.pc = pc, !.left = proc[p].left,
                                       !.source = source, !.copy = proc[p].copy]]
    BY <1>1, <2>3 DEF Commanded, Running
  <2> QED
    BY <1>1, <2>1, <2>2, <2>4, GoingOn
<1>6. ASSUME CopyBackup(p) PROVE Commanded'
  <2>1. Preparing \in SUBSET Deltas
    BY DEF Preparing, Tables
  <2>2. proc' = [proc EXCEPT ![p] = [proc[p] EXCEPT !.pc = "verify", !.left = proc[p].left,
                                       !.source = proc[p].source, !.copy = Preparing]]
    BY <1>1, <1>6 DEF CopyBackup, Commanded, Running
  <2>3. "verify" \in Pcs
    BY DEF Pcs
  <2> QED
    BY <1>1, <2>1, <2>2, <2>3, GoingOn
<1> QED
  BY <1>2, <1>3, <1>4, <1>5, <1>6

\* Whatever a process does, the commands stay well formed.
LEMMA CommandedInductive == Recorded /\ [Next]_vars => Commanded'
<1> SUFFICES ASSUME Recorded, [Next]_vars PROVE Commanded'
  OBVIOUS
<1>1. Tables /\ Commanded
  BY DEF Recorded
<1>2. CASE UNCHANGED vars
  BY <1>1, <1>2 DEF Commanded, vars
<1>3. ASSUME NEW p \in Procs, Command(p) \/ Step(p) \/ Abort(p) PROVE Commanded'
  <2>1. {"register", "batch", "batch-check", "index-check", "index", "copy"} \subseteq Pcs
    BY DEF Pcs
  <2>2. CASE Command(p)
    BY <1>1, <2>2, StartCommands
  <2>3. CASE Abort(p)
    BY <1>1, <2>3, MovesKeep DEF Abort
  <2>4. CASE Check(p)
    BY <1>1, <2>1, <2>4, MovesKeep DEF Check, Checked, CheckBatch
  <2>5. CASE RegisterSnapshot(p) \/ RegisterDelta(p) \/ CompleteSnapshot(p)
    BY <1>1, <2>1, <2>5, MovesKeep DEF RegisterSnapshot, RegisterDelta, CompleteSnapshot
  <2>6. CASE SnapshotBatch(p) \/ LooseBatch(p) \/ DeltaBatch(p) \/ ReplayBatch(p)
    BY <1>1, <2>6, MovesKeep DEF SnapshotBatch, LooseBatch, DeltaBatch, ReplayBatch
  <2>7. CASE CompleteSnapshotSource(p) \/ CompleteDeltaSource(p)
    BY <1>1, <2>7, MovesKeep DEF CompleteSnapshotSource, CompleteDeltaSource
  <2>8. CASE CompleteDelta(p) \/ RebuildIndex(p) \/ PublishBackup(p)
    BY <1>1, <2>8, MovesKeep DEF CompleteDelta, RebuildIndex, PublishBackup
  <2>9. CASE CopyBackup(p)
    BY <1>1, <2>9, MovesKeep
  <2> QED
    BY <1>3, <2>2, <2>3, <2>4, <2>5, <2>6, <2>7, <2>8, <2>9 DEF Step
<1> QED
  BY <1>2, <1>3 DEF Next

(***************************************************************************)
(* The tables.                                                             *)
(***************************************************************************)

database == <<snaps, deltas, current, active, fts, index, backups>>

Writes(p) ==
  \/ RegisterSnapshot(p) \/ SnapshotBatch(p) \/ CompleteSnapshotSource(p) \/ CompleteSnapshot(p)
  \/ RegisterDelta(p) \/ DeltaBatch(p) \/ CompleteDeltaSource(p) \/ CompleteDelta(p)
  \/ LooseBatch(p) \/ RebuildIndex(p) \/ PublishBackup(p)

\* The other steps leave the database alone.
LEMMA DatabaseChanges == [Next]_vars => UNCHANGED database \/ \E p \in Procs : Writes(p)
<1> SUFFICES ASSUME [Next]_vars PROVE UNCHANGED database \/ \E p \in Procs : Writes(p)
  OBVIOUS
<1>1. CASE UNCHANGED vars
  BY <1>1 DEF vars, database
<1>2. ASSUME NEW p \in Procs, Command(p) \/ Step(p) \/ Abort(p)
      PROVE  UNCHANGED database \/ Writes(p)
  <2>1. Command(p) => UNCHANGED database
    BY DEF Command, Start, database
  <2>2. Check(p) \/ ReplayBatch(p) \/ CopyBackup(p) \/ Abort(p) => UNCHANGED database
    BY DEF Check, Checked, CheckBatch, ReplayBatch, CopyBackup, Abort, database
  <2> QED
    BY <1>2, <2>1, <2>2 DEF Step, Writes
<1> QED
  BY <1>1, <1>2 DEF Next

\* A batch holds records of the manifest of its command.
LEMMA BatchIsOfManifest ==
  ASSUME Commanded, NEW p \in Procs, NEW batch \in Batches(p)
  PROVE  batch \subseteq DOMAIN Records(proc[p].feed) /\ batch \subseteq Keys
<1>1. proc[p] \in Running /\ Holding(proc[p])
  BY DEF Commanded
<1>2. batch \subseteq proc[p].left
  BY DEF Batches, OfSource
<1> QED
  BY <1>1, <1>2 DEF Running, Holding

\* The records of a batch are current and present, and none is lost.
Stored(m, batch) ==
  /\ DOMAIN current' = DOMAIN current \cup batch
  /\ current' = [k \in DOMAIN current' |-> current'[k]]
  /\ DOMAIN current' \subseteq Keys
  /\ active' = active \cup batch /\ active' \subseteq DOMAIN current'
  /\ \A k \in DOMAIN current \cup batch :
       current'[k] = IF k \in batch THEN Records(m)[k] ELSE current[k]

\* A batch makes its records current and present and loses none.
LEMMA BatchStores ==
  ASSUME Tables, Held, NEW m, NEW batch \in SUBSET Keys, Store(m, batch)
  PROVE  Stored(m, batch)
BY DEF Store, Tables, Held, Stored

\* One field of one entry is updated.
WithSeen(table, m, keys) == [table EXCEPT ![m].seen = @ \cup keys]
WithDone(table, m, sources) == [table EXCEPT ![m].done = @ \cup sources]
WithStatus(table, m) == [table EXCEPT ![m].status = "complete"]

\* That keeps a table and the other fields.
LEMMA SeenUpdate ==
  ASSUME NEW table, table \in [DOMAIN table -> Entry], NEW m, NEW keys, keys \in SUBSET Keys
  PROVE  /\ WithSeen(table, m, keys) \in [DOMAIN table -> Entry]
         /\ DOMAIN WithSeen(table, m, keys) = DOMAIN table
         /\ \A x \in DOMAIN table : WithSeen(table, m, keys)[x].status = table[x].status
         /\ \A x \in DOMAIN table : WithSeen(table, m, keys)[x].seen \subseteq table[x].seen \cup keys
BY DEF WithSeen, Entry

\* The sources that are done are a field of their own.
LEMMA DoneUpdate ==
  ASSUME NEW table, table \in [DOMAIN table -> Entry], NEW m, NEW sources, sources \in SUBSET Origins
  PROVE  /\ WithDone(table, m, sources) \in [DOMAIN table -> Entry] /\ DOMAIN WithDone(table, m, sources) = DOMAIN table
         /\ \A x \in DOMAIN table : /\ WithDone(table, m, sources)[x].seen = table[x].seen
                        /\ WithDone(table, m, sources)[x].status = table[x].status
BY DEF WithDone, Entry

\* The status as well.
LEMMA StatusUpdate ==
  ASSUME NEW table, table \in [DOMAIN table -> Entry], NEW m
  PROVE  /\ WithStatus(table, m) \in [DOMAIN table -> Entry] /\ DOMAIN WithStatus(table, m) = DOMAIN table
         /\ \A x \in DOMAIN table :
              /\ WithStatus(table, m)[x].seen = table[x].seen
              /\ WithStatus(table, m)[x].status = IF x = m THEN "complete" ELSE table[x].status
BY DEF WithStatus, Entry

\* A registration adds an entry that is preparing and has seen nothing.
LEMMA Registration ==
  ASSUME NEW table, table \in [DOMAIN table -> Entry], NEW m
  PROVE  /\ Register(table, m) \in [DOMAIN table \cup {m} -> Entry]
         /\ DOMAIN Register(table, m) = DOMAIN table \cup {m}
         /\ \A x \in DOMAIN table \cup {m} :
              Register(table, m)[x] = IF x \in DOMAIN table THEN table[x] ELSE New
<1>1. New \in Entry
  BY DEF New, Entry
<1> QED
  BY <1>1 DEF Register

(***************************************************************************)
(* What a command applies was registered.                                  *)
(***************************************************************************)

\* A command comes to its batches through the registration of its manifest.
LEMMA ApplyingIsReached ==
  ASSUME Commanded, NEW p \in Procs, Command(p) \/ Step(p) \/ Abort(p)
  PROVE  /\ \A q \in Procs \ {p} : proc'[q] = proc[q]
         /\ proc'[p].pc \in Applying /\ proc'[p].command # "osv" =>
              /\ proc'[p].feed = proc[p].feed /\ proc'[p].command = proc[p].command
              /\ proc[p].pc \in Applying \/ RegisterSnapshot(p) \/ RegisterDelta(p)
<1> USE DEF Commanded, Applying
<1>1. ASSUME NEW pc, Goto(p, pc)
      PROVE  /\ \A q \in Procs \ {p} : proc'[q] = proc[q]
             /\ proc'[p].feed = proc[p].feed /\ proc'[p].command = proc[p].command
             /\ proc'[p].pc = pc
  BY <1>1 DEF Goto, Running
<1>2. ASSUME End(p)
      PROVE  (\A q \in Procs \ {p} : proc'[q] = proc[q]) /\ proc'[p].pc \notin Applying
  BY <1>2 DEF End, Idle
<1>3. ASSUME NEW batch, Advance(p, batch)
      PROVE  /\ \A q \in Procs \ {p} : proc'[q] = proc[q]
             /\ proc'[p].feed = proc[p].feed /\ proc'[p].command = proc[p].command
  BY <1>3 DEF Advance, Running
<1>4. ASSUME AfterSource(p)
      PROVE  /\ \A q \in Procs \ {p} : proc'[q] = proc[q]
             /\ proc'[p].feed = proc[p].feed /\ proc'[p].command = proc[p].command
  BY <1>4 DEF AfterSource, Running
<1>5. ASSUME NEW command, NEW m, NEW pc, Start(p, command, m, pc)
      PROVE  /\ \A q \in Procs \ {p} : proc'[q] = proc[q]
             /\ proc'[p].pc = pc /\ proc'[p].command = command
  BY <1>5 DEF Start
<1>6. CASE Command(p)
  <2>1. \/ \E s \in Snapshots : Start(p, "snapshot", s, "register-check")
        \/ \E d \in Deltas : Start(p, "delta", d, "register")
        \/ \E l \in Loose : Start(p, "osv", l, "batch-check")
        \/ Start(p, "index", NoFeed, "index-check")
        \/ Start(p, "backup", NoFeed, "backup-check")
    BY <1>6 DEF Command
  <2> QED
    BY <2>1, <1>5
<1>7. CASE Abort(p)
  BY <1>7, <1>2 DEF Abort
<1>8. CASE Check(p)
  BY <1>8, <1>1 DEF Check, Checked, CheckBatch
<1>9. CASE RegisterSnapshot(p) \/ RegisterDelta(p) \/ CompleteSnapshot(p)
  BY <1>9, <1>1 DEF RegisterSnapshot, RegisterDelta, CompleteSnapshot
<1>10. CASE SnapshotBatch(p) \/ LooseBatch(p) \/ DeltaBatch(p) \/ ReplayBatch(p)
  BY <1>10, <1>3 DEF SnapshotBatch, LooseBatch, DeltaBatch, ReplayBatch
<1>11. CASE CompleteSnapshotSource(p) \/ CompleteDeltaSource(p)
  BY <1>11, <1>4 DEF CompleteSnapshotSource, CompleteDeltaSource
<1>12. CASE CompleteDelta(p) \/ RebuildIndex(p) \/ PublishBackup(p)
  BY <1>12, <1>2 DEF CompleteDelta, RebuildIndex, PublishBackup
<1>13. CASE CopyBackup(p)
  <2>1. (\A q \in Procs \ {p} : proc'[q] = proc[q]) /\ proc'[p].pc = "verify"
    BY <1>13 DEF CopyBackup, Running
  <2> QED
    BY <2>1
<1> QED
  BY <1>6, <1>7, <1>8, <1>9, <1>10, <1>11, <1>12, <1>13 DEF Step

\* No manifest is ever unregistered.
LEMMA TablesGrow ==
  Recorded /\ [Next]_vars => DOMAIN snaps \subseteq DOMAIN snaps' /\ DOMAIN deltas \subseteq DOMAIN deltas'
<1> SUFFICES ASSUME Recorded, [Next]_vars
             PROVE  DOMAIN snaps \subseteq DOMAIN snaps' /\ DOMAIN deltas \subseteq DOMAIN deltas'
  OBVIOUS
<1>1. CASE UNCHANGED database
  BY <1>1 DEF database
<1>2. ASSUME NEW p \in Procs, Writes(p)
      PROVE  DOMAIN snaps \subseteq DOMAIN snaps' /\ DOMAIN deltas \subseteq DOMAIN deltas'
  <2>1. CASE RegisterSnapshot(p) \/ SnapshotBatch(p) \/ CompleteSnapshotSource(p) \/ CompleteSnapshot(p)
    BY <2>1 DEF RegisterSnapshot, Register, SnapshotBatch, CompleteSnapshotSource, CompleteSnapshot
  <2>2. CASE RegisterDelta(p) \/ DeltaBatch(p) \/ CompleteDeltaSource(p) \/ CompleteDelta(p)
    BY <2>2 DEF RegisterDelta, Register, DeltaBatch, CompleteDeltaSource, CompleteDelta
  <2>3. CASE LooseBatch(p) \/ RebuildIndex(p) \/ PublishBackup(p)
    BY <2>3 DEF LooseBatch, RebuildIndex, PublishBackup
  <2> QED
    BY <1>2, <2>1, <2>2, <2>3 DEF Writes
<1> QED
  BY <1>1, <1>2, DatabaseChanges

\* What a command applies stays registered.
LEMMA RegisteredInductive == Recorded /\ Registered /\ [Next]_vars => Registered'
<1> SUFFICES ASSUME Recorded, Registered, [Next]_vars PROVE Registered'
  OBVIOUS
<1>1. DOMAIN snaps \subseteq DOMAIN snaps' /\ DOMAIN deltas \subseteq DOMAIN deltas'
  BY TablesGrow
<1>2. CASE UNCHANGED vars
  BY <1>2 DEF vars, Registered
<1>3. ASSUME NEW p \in Procs, Command(p) \/ Step(p) \/ Abort(p) PROVE Registered'
  <2>1. /\ \A q \in Procs \ {p} : proc'[q] = proc[q]
        /\ proc'[p].pc \in Applying /\ proc'[p].command # "osv" =>
             /\ proc'[p].feed = proc[p].feed /\ proc'[p].command = proc[p].command
             /\ proc[p].pc \in Applying \/ RegisterSnapshot(p) \/ RegisterDelta(p)
    BY <1>3, ApplyingIsReached DEF Recorded
  <2>2. RegisterSnapshot(p) => proc[p].command = "snapshot" /\ proc[p].feed \in DOMAIN snaps'
    BY DEF RegisterSnapshot, Register
  <2>3. RegisterDelta(p) => proc[p].command = "delta" /\ proc[p].feed \in DOMAIN deltas'
    BY DEF RegisterDelta, Register
  <2>4. ASSUME NEW q \in Procs, proc'[q].pc \in Applying
        PROVE  /\ proc'[q].command = "snapshot" => proc'[q].feed \in DOMAIN snaps'
               /\ proc'[q].command = "delta" => proc'[q].feed \in DOMAIN deltas'
    <3>1. CASE q # p
      BY <3>1, <2>1, <2>4, <1>1 DEF Registered
    <3>2. CASE q = p
      BY <3>2, <2>1, <2>2, <2>3, <2>4, <1>1 DEF Registered
    <3> QED
      BY <3>1, <3>2
  <2> QED
    BY <2>4 DEF Registered
<1> QED
  BY <1>2, <1>3 DEF Next

(***************************************************************************)
(* Tables and presence.                                                    *)
(***************************************************************************)

\* The transactions of a snapshot keep the tables well formed and what it brought held,
\* and none of them leaves an index that was not ready ready.
LEMMA SnapshotTables ==
  ASSUME Recorded, Registered, Held, NEW p \in Procs,
         RegisterSnapshot(p) \/ SnapshotBatch(p) \/ CompleteSnapshotSource(p) \/ CompleteSnapshot(p)
  PROVE  /\ Tables' /\ Held'
         /\ index' = "dirty" \/ UNCHANGED <<current, active, fts, index>>
<1> DEFINE s == proc[p].feed
<1>1. proc[p] \in Running /\ Holding(proc[p])
  BY DEF Recorded, Commanded
<1>2. /\ Tables /\ Commanded /\ proc[p].source \in Origins /\ {proc[p].source} \in SUBSET Origins
      /\ snaps \in [DOMAIN snaps -> Entry]
  BY <1>1 DEF Recorded, Running, Tables
<1>3. CASE RegisterSnapshot(p)
  <2>1. s \in Snapshots
    BY <1>1, <1>3 DEF RegisterSnapshot, Holding
  <2>2. snaps' = Register(snaps, s) /\ UNCHANGED <<deltas, current, active, fts, index, backups>>
    BY <1>3 DEF RegisterSnapshot
  <2>3. /\ snaps' \in [DOMAIN snaps \cup {s} -> Entry] /\ DOMAIN snaps' = DOMAIN snaps \cup {s}
        /\ \A x \in DOMAIN snaps \cup {s} : snaps'[x] = IF x \in DOMAIN snaps THEN snaps[x] ELSE New
    <3>1. snaps \in [DOMAIN snaps -> Entry]
      BY <1>2
    <3> HIDE DEF s
    <3> QED
      BY <2>2, <3>1, Registration
  <2>4. New.seen = {}
    BY DEF New
  <2> HIDE DEF s
  <2>5. Tables'
    BY <1>2, <2>1, <2>2, <2>3, <2>4 DEF Tables
  <2>6. Held'
    BY <2>2, <2>3, <2>4 DEF Held
  <2> QED
    BY <2>2, <2>5, <2>6
<1>4. CASE SnapshotBatch(p)
  <2>1. PICK batch \in Batches(p) :
          snaps' = WithSeen(snaps, s, batch) /\ Store(s, batch)
    BY <1>4 DEF SnapshotBatch, WithSeen
  <2>2. batch \in SUBSET Keys
    BY <1>2, BatchIsOfManifest
  <2>3. UNCHANGED <<deltas, fts, backups>> /\ index' = "dirty"
    BY <1>4 DEF SnapshotBatch
  <2>4. snaps' \in [DOMAIN snaps -> Entry] /\ DOMAIN snaps' = DOMAIN snaps
    BY <1>2, <2>1, <2>2, SeenUpdate
  <2>5. \A x \in DOMAIN snaps : snaps'[x].seen \subseteq snaps[x].seen \cup batch
    BY <1>2, <2>1, <2>2, SeenUpdate
  <2>6. Stored(s, batch)
    BY <1>2, <2>1, <2>2, BatchStores
  <2> HIDE DEF s
  <2>7. Tables'
    BY <1>2, <2>2, <2>3, <2>4, <2>5, <2>6 DEF Tables, Stored
  <2>8. Held'
    BY <2>4, <2>5, <2>6 DEF Held, Stored
  <2> QED
    BY <2>3, <2>7, <2>8
<1>5. CASE CompleteSnapshotSource(p)
  <2>1. /\ active' = Presence(s, proc[p].source)
        /\ snaps' = WithDone(snaps, s, {proc[p].source})
        /\ index' = "dirty" /\ UNCHANGED <<deltas, current, fts, backups>>
    BY <1>5 DEF CompleteSnapshotSource, IndexAfterPresence, WithDone
  <2>2. snaps' \in [DOMAIN snaps -> Entry] /\ \A x \in DOMAIN snaps : snaps'[x].seen = snaps[x].seen
    BY <1>2, <2>1, DoneUpdate
  <2>3. DOMAIN snaps' = DOMAIN snaps
    BY <2>2
  <2>4. s \in DOMAIN snaps
    BY <1>5 DEF CompleteSnapshotSource, Registered, Applying
  <2>5. active' \subseteq active \cup snaps[s].seen
    BY <2>1 DEF Presence, OfSource
  <2>6. active' \subseteq DOMAIN current
    BY <2>4, <2>5 DEF Held
  <2> HIDE DEF s
  <2>7. Tables'
    BY <1>2, <2>1, <2>2, <2>3, <2>6 DEF Tables
  <2>8. Held'
    BY <2>1, <2>2, <2>3, <2>6 DEF Held
  <2> QED
    BY <2>1, <2>7, <2>8
<1>6. CASE CompleteSnapshot(p)
  <2>1. /\ snaps' = WithStatus(snaps, s)
        /\ UNCHANGED <<deltas, current, active, fts, index, backups>>
    BY <1>6 DEF CompleteSnapshot, WithStatus
  <2>2. snaps' \in [DOMAIN snaps -> Entry] /\ \A x \in DOMAIN snaps : snaps'[x].seen = snaps[x].seen
    BY <1>2, <2>1, StatusUpdate
  <2>3. DOMAIN snaps' = DOMAIN snaps
    BY <2>2
  <2> HIDE DEF s
  <2>4. Tables' /\ Held'
    BY <1>2, <2>1, <2>2, <2>3 DEF Tables, Held
  <2> QED
    BY <2>1, <2>4
<1> QED
  BY <1>3, <1>4, <1>5, <1>6

\* The rows that a delta writes again are the ones it makes stale: an index that held the
\* active records in their current versions does so after the batch.
LEMMA RowsFollow ==
  ASSUME Tables, Held, NEW m, NEW batch \in SUBSET Keys, Store(m, batch), Reindex(m, batch),
         fts = [k \in active |-> current[k]]
  PROVE  fts' = [k \in active' |-> current'[k]]
<1> DEFINE rows == Changed(m, batch) \cup (batch \ active)
<1>1. /\ active' = active \cup batch
      /\ \A k \in DOMAIN current \cup batch :
           current'[k] = IF k \in batch THEN Records(m)[k] ELSE current[k]
  BY BatchStores DEF Stored
<1>2. rows \subseteq batch
  BY DEF Changed
<1>3. fts' = [k \in active \cup rows |-> IF k \in rows THEN Records(m)[k] ELSE current[k]]
  BY DEF Reindex
<1>4. active \cup rows = active'
  BY <1>1, <1>2
<1>5. ASSUME NEW k \in active' PROVE current'[k] = IF k \in rows THEN Records(m)[k] ELSE current[k]
  <2>1. k \in DOMAIN current \cup batch
    BY <1>1, <1>5 DEF Held
  <2>2. k \in batch \ rows => current[k] = Records(m)[k]
    BY DEF Changed
  <2> QED
    BY <1>1, <1>2, <2>1, <2>2
<1> HIDE DEF rows
<1> QED
  BY <1>3, <1>4, <1>5

\* The transactions of a delta keep the tables well formed, and their rows follow.
LEMMA DeltaTables ==
  ASSUME Recorded, Held, NEW p \in Procs,
         RegisterDelta(p) \/ DeltaBatch(p) \/ CompleteDeltaSource(p) \/ CompleteDelta(p)
  PROVE  /\ Tables' /\ Held'
         /\ IndexAgrees => IndexAgrees'
<1> DEFINE d == proc[p].feed
<1>1. proc[p] \in Running /\ Holding(proc[p])
  BY DEF Recorded, Commanded
<1>2. /\ Tables /\ Commanded /\ proc[p].source \in Origins /\ {proc[p].source} \in SUBSET Origins
      /\ deltas \in [DOMAIN deltas -> Entry]
  BY <1>1 DEF Recorded, Running, Tables
<1>3. ASSUME UNCHANGED <<snaps, current, active, fts, index>>,
             DOMAIN deltas' \subseteq Deltas, deltas' \in [DOMAIN deltas' -> Entry]
      PROVE  Tables' /\ Held' /\ (IndexAgrees => IndexAgrees')
  BY <1>2, <1>3 DEF Tables, Held, IndexAgrees
<1>4. CASE RegisterDelta(p)
  <2>1. d \in Deltas
    BY <1>1, <1>4 DEF RegisterDelta, Holding
  <2>2. deltas' = Register(deltas, d) /\ UNCHANGED <<snaps, current, active, fts, index>>
    BY <1>4 DEF RegisterDelta
  <2>3. deltas' \in [DOMAIN deltas \cup {d} -> Entry]
    BY <1>2, <2>2, Registration
  <2>4. DOMAIN deltas' = DOMAIN deltas \cup {d} /\ DOMAIN deltas' \subseteq Deltas
    BY <1>2, <2>1, <2>3 DEF Tables
  <2> QED
    BY <1>3, <2>2, <2>3, <2>4
<1>5. CASE DeltaBatch(p)
  <2>1. PICK batch \in Batches(p) :
          /\ deltas' = WithSeen(deltas, d, batch)
          /\ Store(d, batch) /\ Reindex(d, batch)
    BY <1>5 DEF DeltaBatch, WithSeen
  <2>2. batch \in SUBSET Keys
    BY <1>2, BatchIsOfManifest
  <2>3. UNCHANGED <<snaps, index>>
    BY <1>5 DEF DeltaBatch
  <2>4. deltas' \in [DOMAIN deltas -> Entry]
    BY <1>2, <2>1, <2>2, SeenUpdate
  <2>5. DOMAIN deltas' = DOMAIN deltas
    BY <2>4
  <2>6. Stored(d, batch)
    BY <1>2, <2>1, <2>2, BatchStores
  <2>7. fts = [k \in active |-> current[k]] => fts' = [k \in active' |-> current'[k]]
    BY <1>2, <2>1, <2>2, RowsFollow
  <2> HIDE DEF d
  <2>8. Tables' /\ Held'
    BY <1>2, <2>2, <2>3, <2>4, <2>5, <2>6 DEF Tables, Held, Stored
  <2> QED
    BY <2>3, <2>7, <2>8 DEF IndexAgrees
<1>6. CASE CompleteDeltaSource(p)
  <2>1. /\ deltas' = deltas \/ deltas' = WithDone(deltas, d, {proc[p].source})
        /\ UNCHANGED <<snaps, current, active, fts, index>>
    BY <1>6 DEF CompleteDeltaSource, WithDone
  <2>2. deltas' \in [DOMAIN deltas -> Entry]
    BY <1>2, <2>1, DoneUpdate
  <2>3. DOMAIN deltas' = DOMAIN deltas /\ DOMAIN deltas' \subseteq Deltas
    BY <1>2, <2>2 DEF Tables
  <2> QED
    BY <1>3, <2>1, <2>2, <2>3
<1>7. CASE CompleteDelta(p)
  <2>1. /\ deltas' = WithStatus(deltas, d)
        /\ UNCHANGED <<snaps, current, active, fts, index>>
    BY <1>7 DEF CompleteDelta, WithStatus
  <2>2. deltas' \in [DOMAIN deltas -> Entry]
    BY <1>2, <2>1, StatusUpdate
  <2>3. DOMAIN deltas' = DOMAIN deltas /\ DOMAIN deltas' \subseteq Deltas
    BY <1>2, <2>2 DEF Tables
  <2> QED
    BY <1>3, <2>1, <2>2, <2>3
<1> QED
  BY <1>4, <1>5, <1>6, <1>7

\* Loose batches, rebuilds and backups keep the tables well formed; a rebuild is right.
LEMMA OtherTables ==
  ASSUME Recorded, Held, NEW p \in Procs, LooseBatch(p) \/ RebuildIndex(p) \/ PublishBackup(p)
  PROVE  /\ Tables' /\ Held'
         /\ IndexAgrees => IndexAgrees'
<1>1. Tables /\ Commanded
  BY DEF Recorded
<1>2. CASE LooseBatch(p)
  <2>1. PICK batch \in Batches(p) : Store(proc[p].feed, batch)
    BY <1>2 DEF LooseBatch
  <2>2. batch \in SUBSET Keys
    BY <1>1, BatchIsOfManifest
  <2>3. UNCHANGED <<snaps, deltas>> /\ index' = "dirty"
    BY <1>2 DEF LooseBatch
  <2>4. Stored(proc[p].feed, batch)
    BY <1>1, <2>1, <2>2, BatchStores
  <2>5. Tables' /\ Held'
    BY <1>1, <2>2, <2>3, <2>4 DEF Tables, Held, Stored
  <2> QED
    BY <2>3, <2>5 DEF IndexAgrees
<1>3. CASE RebuildIndex(p)
  BY <1>1, <1>3 DEF RebuildIndex, IndexAfterRebuild, Tables, Held, IndexAgrees
<1>4. CASE PublishBackup(p)
  BY <1>1, <1>4 DEF PublishBackup, Tables, Held, IndexAgrees
<1> QED
  BY <1>2, <1>3, <1>4

\* A step keeps the tables, what is held and the index.
LEMMA IndexInductive ==
  Recorded /\ Registered /\ Held /\ IndexAgrees /\ [Next]_vars => Tables' /\ Held' /\ IndexAgrees'
<1> SUFFICES ASSUME Recorded, Registered, Held, IndexAgrees, [Next]_vars
             PROVE  Tables' /\ Held' /\ IndexAgrees'
  OBVIOUS
<1>1. CASE UNCHANGED database
  BY <1>1 DEF database, Recorded, Tables, Held, IndexAgrees
<1>2. ASSUME NEW p \in Procs, Writes(p) PROVE Tables' /\ Held' /\ IndexAgrees'
  <2>1. CASE RegisterSnapshot(p) \/ SnapshotBatch(p) \/ CompleteSnapshotSource(p) \/ CompleteSnapshot(p)
    BY <2>1, SnapshotTables DEF IndexAgrees
  <2>2. CASE RegisterDelta(p) \/ DeltaBatch(p) \/ CompleteDeltaSource(p) \/ CompleteDelta(p)
    BY <2>2, DeltaTables
  <2>3. CASE LooseBatch(p) \/ RebuildIndex(p) \/ PublishBackup(p)
    BY <2>3, OtherTables
  <2> QED
    BY <1>2, <2>1, <2>2, <2>3 DEF Writes
<1> QED
  BY <1>1, <1>2, DatabaseChanges

(***************************************************************************)
(* The chain of complete deltas.                                           *)
(***************************************************************************)

\* A delta becomes complete in a transaction that checks its order.
Completes(d) ==
  /\ d \in Deltas \ Complete(deltas) /\ DeltaOrder(d)
  /\ Complete(deltas') = Complete(deltas) \cup {d}

\* No other step changes which deltas are complete.
LEMMA CompleteChanges ==
  ASSUME Recorded, [Next]_vars
  PROVE  Complete(deltas') = Complete(deltas) \/ \E d \in Deltas : Completes(d)
<1>1. Tables /\ deltas \in [DOMAIN deltas -> Entry]
  BY DEF Recorded, Tables
<1>2. CASE UNCHANGED deltas
  BY <1>2
<1>3. ASSUME NEW p \in Procs, Writes(p)
      PROVE  Complete(deltas') = Complete(deltas) \/ \E d \in Deltas : Completes(d)
  <2> DEFINE m == proc[p].feed
  <2>1. proc[p] \in Running /\ Holding(proc[p])
    BY DEF Recorded, Commanded
  <2>2. CASE RegisterDelta(p)
    <3>1. deltas' = Register(deltas, m)
      BY <2>2 DEF RegisterDelta
    <3> HIDE DEF m
    <3>2. /\ DOMAIN deltas' = DOMAIN deltas \cup {m}
          /\ \A x \in DOMAIN deltas \cup {m} :
               deltas'[x] = IF x \in DOMAIN deltas THEN deltas[x] ELSE New
      BY <1>1, <3>1, Registration
    <3>3. New.status # "complete"
      BY DEF New
    <3> QED
      BY <3>2, <3>3 DEF Complete
  <2>3. CASE DeltaBatch(p)
    <3>1. PICK batch \in Batches(p) : deltas' = WithSeen(deltas, m, batch)
      BY <2>3 DEF DeltaBatch, WithSeen
    <3>2. batch \in SUBSET Keys
      BY BatchIsOfManifest DEF Recorded
    <3> HIDE DEF m
    <3>3. \A keys \in SUBSET Keys :
            /\ WithSeen(deltas, m, keys) \in [DOMAIN deltas -> Entry]
            /\ DOMAIN WithSeen(deltas, m, keys) = DOMAIN deltas
            /\ \A x \in DOMAIN deltas : WithSeen(deltas, m, keys)[x].status = deltas[x].status
      BY <1>1, SeenUpdate
    <3> QED
      BY <3>1, <3>2, <3>3 DEF Complete
  <2>4. CASE CompleteDeltaSource(p)
    <3>1. deltas' = deltas \/ deltas' = WithDone(deltas, m, {proc[p].source})
      BY <2>4 DEF CompleteDeltaSource, WithDone
    <3>2. {proc[p].source} \in SUBSET Origins
      BY <2>1 DEF Running
    <3> HIDE DEF m
    <3>3. /\ DOMAIN deltas' = DOMAIN deltas
          /\ \A x \in DOMAIN deltas : deltas'[x].status = deltas[x].status
      BY <1>1, <3>1, <3>2, DoneUpdate
    <3> QED
      BY <3>3 DEF Complete
  <2>5. CASE CompleteDelta(p)
    <3>1. deltas' = WithStatus(deltas, m) /\ DeltaOrder(m) /\ m \in Deltas
      BY <2>1, <2>5 DEF CompleteDelta, WithStatus, Holding
    <3> HIDE DEF m
    <3>2. /\ DOMAIN deltas' = DOMAIN deltas
          /\ \A x \in DOMAIN deltas :
               deltas'[x].status = IF x = m THEN "complete" ELSE deltas[x].status
      BY <1>1, <3>1, StatusUpdate
    <3>3. Complete(deltas') = Complete(deltas) \/ Complete(deltas') = Complete(deltas) \cup {m}
      BY <3>2 DEF Complete
    <3> QED
      BY <3>1, <3>3 DEF Completes
  <2>6. CASE RegisterSnapshot(p) \/ SnapshotBatch(p) \/ CompleteSnapshotSource(p) \/ CompleteSnapshot(p)
    BY <1>2, <2>6 DEF RegisterSnapshot, SnapshotBatch, CompleteSnapshotSource, CompleteSnapshot
  <2>7. CASE LooseBatch(p) \/ RebuildIndex(p) \/ PublishBackup(p)
    BY <1>2, <2>7 DEF LooseBatch, RebuildIndex, PublishBackup
  <2> QED
    BY <1>3, <2>2, <2>3, <2>4, <2>5, <2>6, <2>7 DEF Writes
<1>4. CASE UNCHANGED database
  BY <1>2, <1>4 DEF database
<1> QED
  BY <1>3, <1>4, DatabaseChanges

\* Latest picks from what it is given.
LEMMA LatestOf ==
  ASSUME NEW ms, NEW l \in Latest(ms)
  PROVE  l \in ms /\ \A n \in ms : Feed[n].acquired.text <= Feed[l].acquired.text
BY DEF Latest

\* A chain that gets one more delta has a latest one: the new one or the one it had.
LEMMA ToppedStays ==
  ASSUME Recorded, Topped, NEW d \in Deltas, Completes(d)
  PROVE  Topped'
<1> DEFINE eco == Feed[d].ecosystem
<1>1. Complete(deltas) \subseteq Deltas
  BY DEF Recorded, Tables, Complete
<1>2. \A m \in Deltas : Feed[m].acquired.text \in Int
  BY FeedAssumption
<1>3. ASSUME NEW ecosystem \in {Feed[x].ecosystem : x \in Deltas}, Chain(ecosystem)' # {}
      PROVE  Latest(Chain(ecosystem)') # {}
  <2>1. CASE ecosystem # eco
    <3>1. Chain(ecosystem)' = Chain(ecosystem)
      BY <2>1 DEF Chain, Completes
    <3> QED
      BY <1>3, <3>1 DEF Topped
  <2>2. CASE ecosystem = eco /\ Chain(eco) = {}
    <3>1. Chain(eco)' = {d}
      BY <2>2 DEF Chain, Completes
    <3>2. d \in Latest({d})
      BY <1>2 DEF Latest
    <3> QED
      BY <2>2, <3>1, <3>2
  <2>3. CASE ecosystem = eco /\ Chain(eco) # {}
    <3>1. PICK l : l \in Latest(Chain(eco))
      BY <2>3 DEF Topped
    <3>2. l \in Chain(eco) /\ \A n \in Chain(eco) : Feed[n].acquired.text <= Feed[l].acquired.text
      BY <3>1, LatestOf
    <3>3. Chain(eco)' = Chain(eco) \cup {d} /\ Chain(eco) \subseteq Deltas
      BY <1>1 DEF Chain, Completes
    <3>4. CASE Feed[d].acquired.text <= Feed[l].acquired.text
      <4>1. l \in Latest(Chain(eco) \cup {d})
        BY <3>2, <3>4 DEF Latest
      <4> QED
        BY <2>3, <3>3, <4>1
    <3>5. CASE ~(Feed[d].acquired.text <= Feed[l].acquired.text)
      <4>1. \A n \in Chain(eco) \cup {d} : Feed[n].acquired.text <= Feed[d].acquired.text
        BY <1>2, <3>2, <3>3, <3>5
      <4>2. d \in Latest(Chain(eco) \cup {d})
        BY <4>1 DEF Latest
      <4> QED
        BY <2>3, <3>3, <4>2
    <3> QED
      BY <3>4, <3>5
  <2> QED
    BY <2>1, <2>2, <2>3
<1>4. Topped' <=> \A ecosystem \in {Feed[x].ecosystem : x \in Deltas} :
                    Chain(ecosystem)' # {} => Latest(Chain(ecosystem)') # {}
  BY DEF Topped, Latest
<1> QED
  BY <1>3, <1>4

\* A delta that becomes complete is of its base's ecosystem and later than the one it
\* follows.
LEMMA ChainedStays ==
  ASSUME Recorded, Topped, Chained, NEW d \in Deltas, Completes(d)
  PROVE  Chained'
<1>1. Complete(deltas) \subseteq Deltas /\ d \notin Complete(deltas)
  BY DEF Recorded, Tables, Complete, Completes
<1>2. BaseIsNewest(d) /\ Continues(d)
  BY DEF Completes, DeltaOrder
<1>3. Feed[d].ecosystem = Feed[Feed[d].base].ecosystem
  BY <1>2 DEF BaseIsNewest, OfEcosystem
<1>4. Feed[d].previous # NoDelta =>
        /\ Feed[d].previous \in Complete(deltas)
        /\ Feed[d].after = Feed[Feed[d].previous].through
        /\ Feed[d].acquired.at > Feed[Feed[d].previous].acquired.at
  <2> SUFFICES ASSUME Feed[d].previous # NoDelta
               PROVE  /\ Feed[d].previous \in Complete(deltas)
                      /\ Feed[d].after = Feed[Feed[d].previous].through
                      /\ Feed[d].acquired.at > Feed[Feed[d].previous].acquired.at
    OBVIOUS
  <2> DEFINE last == Latest(OfEcosystem(Complete(deltas) \ {d}, d))
  <2>1. PICK e \in last : TRUE
    BY <1>2 DEF Continues
  <2>2. e \in Complete(deltas)
    BY <2>1 DEF Latest, OfEcosystem
  <2>3. /\ Feed[d].previous = e /\ Feed[d].after = Feed[e].through
        /\ Feed[d].acquired.at > Feed[e].acquired.at
    BY <1>2, <2>1 DEF Continues
  <2> QED
    BY <2>2, <2>3
<1> QED
  BY <1>3, <1>4 DEF Chained, Completes

\* Over the same base as another complete delta, a delta that becomes complete follows a
\* different one: it follows the latest delta, which the other does not, or the base is
\* newer than the latest delta and no delta over it can be complete.
LEMMA NoForkAppears ==
  ASSUME Recorded, Topped, Chained, NEW d \in Deltas, Completes(d),
         WellDated(Complete(deltas)), NEW e \in Complete(deltas), Feed[d].base = Feed[e].base
  PROVE  Feed[d].previous # Feed[e].previous
<1>1. Complete(deltas) \subseteq Deltas /\ d \notin Complete(deltas)
  BY DEF Recorded, Tables, Complete, Completes
<1>2. BaseIsNewest(d) /\ Continues(d)
  BY DEF Completes, DeltaOrder
<1>3. Feed[e].ecosystem = Feed[d].ecosystem
  BY <1>2 DEF BaseIsNewest, OfEcosystem, Chained
<1> DEFINE eco == Feed[d].ecosystem
<1>4. OfEcosystem(Complete(deltas) \ {d}, d) = Chain(eco) /\ e \in Chain(eco)
  BY <1>1, <1>3 DEF OfEcosystem, Chain
<1>5. PICK l : l \in Latest(Chain(eco))
  BY <1>4 DEF Topped
<1>6. l \in Complete(deltas) /\ Feed[e].acquired.text <= Feed[l].acquired.text
  BY <1>4, <1>5, LatestOf DEF Chain
<1>7. /\ Feed[l].acquired.at \in Int /\ Feed[e].acquired.at \in Int
      /\ Feed[Feed[d].base].acquired.at \in Int
  BY <1>1, <1>6, FeedAssumption
<1>8. /\ Feed[e].acquired.at <= Feed[l].acquired.at
      /\ Feed[e].acquired.at >= Feed[Feed[d].base].acquired.at
  BY <1>6 DEF WellDated
<1>9. CASE Feed[l].base = Feed[d].base
  <2>1. Feed[d].previous = l
    BY <1>2, <1>4, <1>5, <1>9 DEF Continues
  <2>2. l # NoDelta
    BY <1>1, <1>6, FeedAssumption
  <2>3. Feed[e].previous = l => Feed[e].acquired.at > Feed[l].acquired.at
    BY <2>2 DEF Chained
  <2> QED
    BY <1>7, <1>8, <2>1, <2>3
<1>10. CASE Feed[l].base # Feed[d].base
  <2>1. Feed[Feed[d].base].acquired.at > Feed[l].acquired.at
    BY <1>2, <1>4, <1>5, <1>10 DEF Continues
  <2> QED
    BY <1>7, <1>8, <2>1
<1> QED
  BY <1>9, <1>10

\* A step keeps the chain.
LEMMA ChainInductive ==
  Recorded /\ Topped /\ Chained /\ NoForks /\ [Next]_vars => Topped' /\ Chained' /\ NoForks'
<1> SUFFICES ASSUME Recorded, Topped, Chained, NoForks, [Next]_vars
             PROVE  Topped' /\ Chained' /\ NoForks'
  OBVIOUS
<1>1. CASE Complete(deltas') = Complete(deltas)
  <2>1. \A ecosystem : Chain(ecosystem)' = Chain(ecosystem)
    BY <1>1 DEF Chain
  <2>2. Topped'
    BY <2>1 DEF Topped, Latest
  <2>3. Chained' /\ NoForks'
    BY <1>1 DEF Chained, NoForks, WellDated
  <2> QED
    BY <2>2, <2>3
<1>2. ASSUME NEW d \in Deltas, Completes(d) PROVE Topped' /\ Chained' /\ NoForks'
  <2>1. Topped'
    BY <1>2, ToppedStays
  <2>2. Chained'
    BY <1>2, ChainedStays
  <2>3. ASSUME WellDated(Complete(deltas')), NEW x \in Complete(deltas'), NEW y \in Complete(deltas'),
               x # y, Feed[x].base = Feed[y].base
        PROVE  Feed[x].previous # Feed[y].previous
    <3>1. Complete(deltas') = Complete(deltas) \cup {d}
      BY <1>2 DEF Completes
    <3>2. WellDated(Complete(deltas))
      BY <2>3, <3>1 DEF WellDated
    <3>3. CASE x \in Complete(deltas) /\ y \in Complete(deltas)
      BY <2>3, <3>2, <3>3 DEF NoForks
    <3>4. CASE x = d /\ y \in Complete(deltas)
      BY <1>2, <2>3, <3>2, <3>4, NoForkAppears
    <3>5. CASE y = d /\ x \in Complete(deltas)
      BY <1>2, <2>3, <3>2, <3>5, NoForkAppears
    <3> QED
      BY <2>3, <3>1, <3>3, <3>4, <3>5
  <2>4. NoForks'
    BY <2>2, <2>3 DEF NoForks, Chained, Complete
  <2> QED
    BY <2>1, <2>2, <2>4
<1> QED
  BY <1>1, <1>2, CompleteChanges

(***************************************************************************)
(* The theorems.                                                           *)
(***************************************************************************)

\* A backup is published only after the copy itself was found clean.
LEMMA BackupsInductive == BackupsAreClean /\ [Next]_vars => BackupsAreClean'
<1> SUFFICES ASSUME BackupsAreClean, [Next]_vars PROVE BackupsAreClean'
  OBVIOUS
<1>1. CASE UNCHANGED backups
  BY <1>1 DEF BackupsAreClean
<1>2. ASSUME NEW p \in Procs, PublishBackup(p) PROVE BackupsAreClean'
  BY <1>2 DEF PublishBackup, CopyVerified, BackupsAreClean
<1>3. ASSUME NEW p \in Procs, Writes(p) PROVE UNCHANGED backups \/ PublishBackup(p)
  BY <1>3 DEF Writes, RegisterSnapshot, SnapshotBatch, CompleteSnapshotSource, CompleteSnapshot,
              RegisterDelta, DeltaBatch, CompleteDeltaSource, CompleteDelta, LooseBatch, RebuildIndex
<1> QED
  BY <1>1, <1>2, <1>3, DatabaseChanges DEF database

\* An empty catalog satisfies the invariant.
LEMMA InitInv == Init => Inv
<1> SUFFICES ASSUME Init PROVE Inv
  OBVIOUS
<1>1. Commanded
  BY IdleIsRunning DEF Init, Commanded
<1>2. Tables
  BY DEF Init, Tables
<1>3. Registered
  BY DEF Init, Registered, Applying, Idle
<1>4. Complete(deltas) = {}
  BY DEF Init, Complete
<1>5. Topped /\ Chained /\ NoForks
  BY <1>4 DEF Topped, Chained, NoForks, Chain
<1>6. Held /\ IndexAgrees /\ BackupsAreClean
  BY DEF Init, Held, IndexAgrees, BackupsAreClean
<1> QED
  BY <1>1, <1>2, <1>3, <1>5, <1>6 DEF Inv, Recorded

\* Every step of every process keeps it.
LEMMA InvInductive == Inv /\ [Next]_vars => Inv'
<1> SUFFICES ASSUME Inv, [Next]_vars PROVE Inv'
  OBVIOUS
<1>1. /\ Recorded /\ Registered /\ Held /\ IndexAgrees /\ BackupsAreClean
      /\ Topped /\ Chained /\ NoForks
  BY DEF Inv
<1>2. Tables' /\ Held' /\ IndexAgrees'
  BY <1>1, IndexInductive
<1>3. Commanded' /\ Registered'
  BY <1>1, CommandedInductive, RegisteredInductive
<1>4. BackupsAreClean'
  BY <1>1, BackupsInductive
<1>5. Topped' /\ Chained' /\ NoForks'
  BY <1>1, ChainInductive
<1> QED
  BY <1>2, <1>3, <1>4, <1>5 DEF Inv, Recorded

\* The inductive invariant holds in every reachable state of the catalog.
THEOREM InvHolds == Spec => []Inv
BY InitInv, InvInductive, PTL DEF Spec

\* For any feed and any number of processes, an index that calls itself ready holds
\* exactly the active records in their current versions.
THEOREM IndexStaysRight == Spec => []IndexAgrees
<1>1. Inv => IndexAgrees
  BY DEF Inv
<1> QED
  BY <1>1, InvHolds, PTL

\* Whatever processes interleave, a delta continues the cursor of a complete one, and
\* well-dated complete deltas never fork.
THEOREM ChainStaysLinear == Spec => []NoForks
<1>1. Inv => NoForks
  BY DEF Inv
<1> QED
  BY <1>1, InvHolds, PTL

\* Whatever happens between the check of the origin, the copy and its publication, no
\* backup holds a delta in preparation.
THEOREM BackupsStayClean == Spec => []BackupsAreClean
<1>1. Inv => BackupsAreClean
  BY DEF Inv
<1> QED
  BY <1>1, InvHolds, PTL

(***************************************************************************)
(* One process, and manifests dated alike.                                 *)
(*                                                                         *)
(* With two processes an older snapshot can come in between the batches of *)
(* a delta and its completion (MCCatalogStale finds it).  One process      *)
(* applies all records of a manifest again in the run that completes it,   *)
(* so at its completion the catalog holds what it says; and a manifest     *)
(* that is applied later was acquired no earlier.                          *)
(***************************************************************************)

\* One command runs at a time.
Alone == \A p, q \in Procs : p = q

\* All times are written alike, so that their texts are in the order of the instants.
DatedAlike ==
  \A m, n \in Snapshots \cup Deltas :
    Feed[m].acquired.text <= Feed[n].acquired.text <=> Acquired(m) <= Acquired(n)

\* A delta is acquired when its base is there.
BasesComeFirst == \A d \in Deltas : Acquired(Feed[d].base) <= Acquired(d)

\* The name of a source holds its ecosystem.
SourcesAreSeparate ==
  \A m, n \in Snapshots \cup Deltas :
    Sources(m) \cap Sources(n) # {} => Feed[m].ecosystem = Feed[n].ecosystem

\* Two manifests of one archive have the same records of a source that both have.
ArchivesAgree ==
  \A s, t \in Snapshots : Feed[s].ecosystem = Feed[t].ecosystem /\ Feed[s].artifact = Feed[t].artifact =>
    \A source \in Sources(s) \cap Sources(t) :
      OfSource(DOMAIN Records(s), source) = OfSource(DOMAIN Records(t), source)

WellFed == DatedAlike /\ BasesComeFirst /\ SourcesAreSeparate /\ ArchivesAgree

\* What is complete was seen in full, source by source.
Accounts(table) ==
  \A m \in DOMAIN table :
    /\ table[m].seen \subseteq DOMAIN Records(m) /\ table[m].done \subseteq Sources(m)
    /\ table[m].status = "complete" => table[m].seen = DOMAIN Records(m) /\ table[m].done = Sources(m)

\* Of some registered manifests there is a latest one.
Datable(table) == \A ms \in SUBSET DOMAIN table : ms # {} => Latest(ms) # {}

\* The sources whose end a run has reached.
Finished(r) ==
  {source \in Sources(r.feed) :
     OfSource(r.left, source) = {} /\ ~(r.pc = "source" /\ r.source = source)}

\* What a manifest brought is in the catalog as the manifest says.
Says(m, keys, seen) ==
  \A k \in keys : k \in seen /\ k \in DOMAIN current /\ current[k] = Records(m)[k]

\* A run that has begun has everything left; what it no longer has left is in the catalog;
\* and in the sources it has finished the records of its snapshot are present and no others.
Told(r) ==
  /\ r.pc \in {"register-check", "register"} =>
       r.left = DOMAIN Records(r.feed) /\ r.source \in Sources(r.feed)
  /\ r.pc \in Applying /\ r.command # "osv" => r.source \in Sources(r.feed)
  /\ r.pc = "complete" => r.left = {}
  /\ r.pc \in Applying /\ r.command = "snapshot" =>
       /\ Says(r.feed, DOMAIN Records(r.feed) \ r.left, snaps[r.feed].seen)
       /\ \A source \in Finished(r) :
            OfSource(active, source) = OfSource(DOMAIN Records(r.feed), source)
  /\ r.pc \in Applying /\ r.command = "delta" /\ r.feed \in Preparing =>
       Says(r.feed, DOMAIN Records(r.feed) \ r.left, deltas[r.feed].seen)

Reconciled ==
  /\ Accounts(snaps) /\ Accounts(deltas) /\ Datable(snaps) /\ Datable(deltas)
  /\ \A p \in Procs : Told(proc[p])

NewestInv == Inv /\ Reconciled /\ NewestWins /\ PresenceFollows

\* A table that gets one more manifest has a latest one among any of them.
LEMMA DatableStays ==
  ASSUME NEW table, Datable(table), NEW table2, NEW m \in Snapshots \cup Deltas,
         DOMAIN table \subseteq Snapshots \cup Deltas, DOMAIN table2 \subseteq DOMAIN table \cup {m}
  PROVE  Datable(table2)
<1> SUFFICES ASSUME NEW ms \in SUBSET DOMAIN table2, ms # {} PROVE Latest(ms) # {}
  BY DEF Datable
<1>1. \A n \in Snapshots \cup Deltas : Feed[n].acquired.text \in Int
  BY FeedAssumption
<1>2. CASE m \notin ms
  BY <1>2 DEF Datable
<1>3. CASE ms = {m}
  <2>1. m \in Latest(ms)
    BY <1>1, <1>3 DEF Latest
  <2> QED
    BY <2>1
<1>4. CASE m \in ms /\ ms # {m}
  <2> DEFINE rest == ms \ {m}
  <2>1. rest \in SUBSET DOMAIN table /\ rest # {}
    BY <1>4
  <2>2. PICK l : l \in Latest(rest)
    BY <2>1 DEF Datable
  <2>3. l \in rest /\ \A n \in rest : Feed[n].acquired.text <= Feed[l].acquired.text
    BY <2>2, LatestOf
  <2>4. CASE Feed[m].acquired.text <= Feed[l].acquired.text
    <3>1. l \in Latest(ms)
      BY <2>3, <2>4 DEF Latest
    <3> QED
      BY <3>1
  <2>5. CASE ~(Feed[m].acquired.text <= Feed[l].acquired.text)
    <3>1. \A n \in rest : n \in Snapshots \cup Deltas
      OBVIOUS
    <3>2. \A n \in ms : Feed[n].acquired.text <= Feed[m].acquired.text
      BY <1>1, <2>3, <2>5, <3>1
    <3>3. m \in Latest(ms)
      BY <1>4, <3>2 DEF Latest
    <3> QED
      BY <3>3
  <2> QED
    BY <2>4, <2>5
<1> QED
  BY <1>2, <1>3, <1>4

\* A snapshot that SnapshotOrder lets in was acquired no earlier than what its source has
\* completed, and than any complete manifest of the source.
LEMMA SnapshotIsNewest ==
  ASSUME WellFed, Recorded, Reconciled, NEW s \in Snapshots, NEW source, SnapshotOrder(s, source)
  PROVE  /\ \A x \in DOMAIN snaps : source \in snaps[x].done => Acquired(x) <= Acquired(s)
         /\ \A m \in Complete(snaps) \cup Complete(deltas) :
              source \in Sources(m) => Acquired(m) <= Acquired(s)
<1>1. \A m \in Snapshots \cup Deltas : Acquired(m) \in Int
  BY FeedAssumption DEF Acquired
<1>2. DOMAIN snaps \subseteq Snapshots /\ DOMAIN deltas \subseteq Deltas
  BY DEF Recorded, Tables
<1>3. ASSUME NEW x \in DOMAIN snaps, source \in snaps[x].done PROVE Acquired(x) <= Acquired(s)
  <2> DEFINE ms == {y \in DOMAIN snaps \ {s} : source \in snaps[y].done}
  <2>1. CASE x = s
    BY <1>1, <1>2, <2>1
  <2>2. CASE x # s
    <3>1. x \in ms /\ ms \in SUBSET DOMAIN snaps
      BY <1>3, <2>2
    <3>2. PICK l \in Latest(ms) : TRUE
      BY <3>1 DEF Reconciled, Datable
    <3>3. l \in DOMAIN snaps /\ Feed[x].acquired.text <= Feed[l].acquired.text
      BY <3>1, <3>2, LatestOf
    <3>4. Acquired(x) <= Acquired(l)
      BY <1>2, <3>3 DEF WellFed, DatedAlike
    <3>5. Acquired(s) >= Acquired(l)
      BY <3>2 DEF SnapshotOrder, Acquired
    <3> QED
      BY <1>1, <1>2, <3>3, <3>4, <3>5
  <2> QED
    BY <2>1, <2>2
<1>4. ASSUME NEW d \in Complete(deltas), source \in Sources(d) PROVE Acquired(d) <= Acquired(s)
  <2> DEFINE ms == {y \in Complete(deltas) : source \in deltas[y].done}
  <2>1. d \in DOMAIN deltas /\ deltas[d].done = Sources(d)
    BY DEF Complete, Reconciled, Accounts
  <2>2. d \in ms /\ ms \in SUBSET DOMAIN deltas
    BY <1>4, <2>1 DEF Complete
  <2>3. PICK l \in Latest(ms) : TRUE
    BY <2>2 DEF Reconciled, Datable
  <2>4. l \in DOMAIN deltas /\ Feed[d].acquired.text <= Feed[l].acquired.text
    BY <2>2, <2>3, LatestOf
  <2>5. Acquired(d) <= Acquired(l)
    BY <1>2, <2>1, <2>4 DEF WellFed, DatedAlike
  <2>6. Acquired(s) > Acquired(l)
    BY <2>3 DEF SnapshotOrder, Acquired
  <2> QED
    BY <1>1, <1>2, <2>1, <2>4, <2>5, <2>6
<1>5. ASSUME NEW x \in Complete(snaps), source \in Sources(x) PROVE Acquired(x) <= Acquired(s)
  BY <1>3, <1>5 DEF Complete, Reconciled, Accounts
<1> QED
  BY <1>3, <1>4, <1>5

\* A delta that DeltaOrder lets in was acquired no earlier than any complete manifest of its
\* ecosystem.
LEMMA DeltaIsNewest ==
  ASSUME WellFed, Recorded, Reconciled, NEW d \in Deltas, d \notin Complete(deltas), DeltaOrder(d),
         NEW m \in Complete(snaps) \cup Complete(deltas), Feed[m].ecosystem = Feed[d].ecosystem
  PROVE  Acquired(m) <= Acquired(d)
<1>1. \A n \in Snapshots \cup Deltas : Acquired(n) \in Int
  BY FeedAssumption DEF Acquired
<1>2. DOMAIN snaps \subseteq Snapshots /\ DOMAIN deltas \subseteq Deltas
  BY DEF Recorded, Tables
<1>3. BaseIsNewest(d) /\ Continues(d)
  BY DEF DeltaOrder
<1>4. Acquired(Feed[d].base) <= Acquired(d) /\ Feed[d].base \in Snapshots
  BY FeedAssumption DEF WellFed, BasesComeFirst
<1>5. CASE m \in Complete(snaps)
  <2> DEFINE ms == OfEcosystem(Complete(snaps), d)
  <2>1. m \in ms /\ ms \in SUBSET DOMAIN snaps
    BY <1>5 DEF OfEcosystem, Complete
  <2>2. PICK l \in Latest(ms) : TRUE
    BY <2>1 DEF Reconciled, Datable
  <2>3. l \in DOMAIN snaps /\ Feed[m].acquired.text <= Feed[l].acquired.text
    BY <2>1, <2>2, LatestOf
  <2>4. Acquired(m) <= Acquired(l)
    BY <1>2, <2>1, <2>3 DEF WellFed, DatedAlike
  <2>5. Acquired(l) = Acquired(Feed[d].base)
    BY <1>3, <2>2 DEF BaseIsNewest, Acquired
  <2>6. Acquired(m) \in Int /\ Acquired(l) \in Int /\ Acquired(d) \in Int
    BY <1>1, <1>2, <2>1, <2>3
  <2> QED
    BY <1>4, <2>4, <2>5, <2>6
<1>6. CASE m \in Complete(deltas)
  <2> DEFINE ms == OfEcosystem(Complete(deltas) \ {d}, d)
  <2>1. m \in ms /\ ms \in SUBSET DOMAIN deltas
    BY <1>6 DEF OfEcosystem, Complete
  <2>2. PICK l \in Latest(ms) : TRUE
    BY <2>1 DEF Reconciled, Datable
  <2>3. l \in DOMAIN deltas /\ Feed[m].acquired.text <= Feed[l].acquired.text
    BY <2>1, <2>2, LatestOf
  <2>4. Acquired(m) <= Acquired(l)
    BY <1>2, <2>1, <2>3 DEF WellFed, DatedAlike
  <2>5. Acquired(l) < Acquired(d) \/ Acquired(l) < Acquired(Feed[d].base)
    BY <1>1, <1>2, <1>3, <1>4, <2>2, <2>3 DEF Continues, Acquired
  <2>6. m \in Deltas /\ l \in Deltas
    BY <1>2, <2>1, <2>3
  <2>7. /\ Acquired(m) \in Int /\ Acquired(l) \in Int /\ Acquired(d) \in Int
        /\ Acquired(Feed[d].base) \in Int
    BY <1>1, <1>4, <2>6
  <2> QED
    BY <1>4, <2>4, <2>5, <2>7
<1> QED
  BY <1>5, <1>6

\* What the properties need of a step that completes nothing: what one manifest writes of a
\* record is acquired no earlier than what any complete manifest of the record says.
LEMMA NewestStays ==
  ASSUME NewestWins, NEW n, NEW batch,
         \A k : Carriers(k) \subseteq Carriers(k)',
         Complete(snaps)' = Complete(snaps), Complete(deltas)' = Complete(deltas),
         \A k \in DOMAIN current' \ LooseKeys :
           k \in batch \/ (k \in DOMAIN current /\ current'[k] = current[k]),
         \A k \in batch \ LooseKeys :
           /\ n \in Carriers(k)' /\ current'[k] = Records(n)[k]
           /\ \A m \in Complete(snaps) \cup Complete(deltas) :
                k \in DOMAIN Records(m) => Acquired(m) <= Acquired(n)
  PROVE  NewestWins'
<1> SUFFICES ASSUME NEW k \in DOMAIN current' \ LooseKeys,
                    NEW m \in Complete(snaps) \cup Complete(deltas), k \in DOMAIN Records(m)
             PROVE  \E x \in Carriers(k)' : Acquired(x) >= Acquired(m) /\ current'[k] = Records(x)[k]
  BY DEF NewestWins
<1>1. CASE k \in batch
  BY <1>1
<1>2. CASE k \notin batch
  <2>1. k \in DOMAIN current \ LooseKeys /\ current'[k] = current[k]
    BY <1>2
  <2>2. PICK x \in Carriers(k) : Acquired(x) >= Acquired(m) /\ current[k] = Records(x)[k]
    BY <2>1 DEF NewestWins
  <2> QED
    BY <2>1, <2>2
<1> QED
  BY <1>1, <1>2

\* A manifest that becomes complete is what the catalog says of its records.
LEMMA NewestCompletes ==
  ASSUME NewestWins, NEW n, Acquired(n) \in Int,
         \A k : Carriers(k) \subseteq Carriers(k)',
         Complete(snaps)' \cup Complete(deltas)' \subseteq Complete(snaps) \cup Complete(deltas) \cup {n},
         current' = current,
         \A k \in DOMAIN Records(n) : n \in Carriers(k)' /\ current[k] = Records(n)[k]
  PROVE  NewestWins'
<1> SUFFICES ASSUME NEW k \in DOMAIN current \ LooseKeys,
                    NEW m \in Complete(snaps) \cup Complete(deltas) \cup {n}, k \in DOMAIN Records(m)
             PROVE  \E x \in Carriers(k)' : Acquired(x) >= Acquired(m) /\ current[k] = Records(x)[k]
  BY DEF NewestWins
<1>1. CASE m = n
  BY <1>1
<1>2. CASE m # n
  <2>1. PICK x \in Carriers(k) : Acquired(x) >= Acquired(m) /\ current[k] = Records(x)[k]
    BY <1>2 DEF NewestWins
  <2> QED
    BY <2>1
<1> QED
  BY <1>1, <1>2

\* Presence stays what the complete snapshots decided when records only come in, from a
\* manifest acquired no earlier.
LEMMA PresenceStays ==
  ASSUME PresenceFollows, NEW n,
         \A k : Carriers(k) \subseteq Carriers(k)',
         DOMAIN snaps \subseteq DOMAIN snaps', Complete(snaps)' = Complete(snaps),
         \A x \in DOMAIN snaps : snaps[x].done \subseteq snaps'[x].done,
         \A s \in Complete(snaps) : snaps'[s].done = snaps[s].done,
         active \subseteq active',
         \A k \in active' \ (active \cup LooseKeys) :
           n \in Carriers(k)' /\ \A s \in Complete(snaps) :
                                   SourceOf[k] \in snaps[s].done => Acquired(s) <= Acquired(n)
  PROVE  PresenceFollows'
<1> SUFFICES ASSUME NEW s \in Complete(snaps), NEW source \in snaps[s].done,
                    \A x \in DOMAIN snaps' : source \in snaps'[x].done => Acquired(x) <= Acquired(s)
             PROVE  /\ OfSource(DOMAIN Records(s), source) \subseteq active'
                    /\ \A k \in OfSource(active' \ LooseKeys, source) :
                         \E x \in Carriers(k)' : Acquired(x) >= Acquired(s)
  BY DEF PresenceFollows
<1>1. \A x \in DOMAIN snaps : source \in snaps[x].done => Acquired(x) <= Acquired(s)
  OBVIOUS
<1>2. /\ OfSource(DOMAIN Records(s), source) \subseteq active
      /\ \A k \in OfSource(active \ LooseKeys, source) :
           \E x \in Carriers(k) : Acquired(x) >= Acquired(s)
  BY <1>1 DEF PresenceFollows
<1>3. ASSUME NEW k \in OfSource(active' \ LooseKeys, source)
      PROVE  \E x \in Carriers(k)' : Acquired(x) >= Acquired(s)
  <2>1. k \in active' \ LooseKeys /\ SourceOf[k] = source
    BY DEF OfSource
  <2>2. CASE k \in active
    <3>1. k \in OfSource(active \ LooseKeys, source)
      BY <2>1, <2>2 DEF OfSource
    <3> QED
      BY <1>2, <3>1
  <2>3. CASE k \notin active
    BY <2>1, <2>3
  <2> QED
    BY <2>2, <2>3
<1> QED
  BY <1>2, <1>3

\* What changes of a table when a manifest has seen more.
LEMMA SeenField ==
  ASSUME NEW table, table \in [DOMAIN table -> Entry], NEW m \in DOMAIN table, NEW keys
  PROVE  /\ \A x \in DOMAIN table \ {m} : WithSeen(table, m, keys)[x] = table[x]
         /\ WithSeen(table, m, keys)[m].seen = table[m].seen \cup keys
         /\ WithSeen(table, m, keys)[m].done = table[m].done
         /\ WithSeen(table, m, keys)[m].status = table[m].status
<1> DEFINE value == table[m].seen \cup keys
<1>1. table[m] \in Entry
  OBVIOUS
<1>2. \A x \in DOMAIN table \ {m} : WithSeen(table, m, keys)[x] = table[x]
  BY DEF WithSeen
<1>3. WithSeen(table, m, keys)[m] = [table[m] EXCEPT !.seen = value]
  BY DEF WithSeen
<1> HIDE DEF value
<1>4. /\ [table[m] EXCEPT !.seen = value].seen = value
      /\ [table[m] EXCEPT !.seen = value].done = table[m].done
      /\ [table[m] EXCEPT !.seen = value].status = table[m].status
  BY <1>1 DEF Entry
<1> QED
  BY <1>2, <1>3, <1>4 DEF value

\* What changes when it has a source done.
LEMMA DoneField ==
  ASSUME NEW table, table \in [DOMAIN table -> Entry], NEW m \in DOMAIN table, NEW sources
  PROVE  /\ \A x \in DOMAIN table \ {m} : WithDone(table, m, sources)[x] = table[x]
         /\ WithDone(table, m, sources)[m].done = table[m].done \cup sources
         /\ WithDone(table, m, sources)[m].seen = table[m].seen
         /\ WithDone(table, m, sources)[m].status = table[m].status
<1> DEFINE value == table[m].done \cup sources
<1>1. table[m] \in Entry
  OBVIOUS
<1>2. \A x \in DOMAIN table \ {m} : WithDone(table, m, sources)[x] = table[x]
  BY DEF WithDone
<1>3. WithDone(table, m, sources)[m] = [table[m] EXCEPT !.done = value]
  BY DEF WithDone
<1> HIDE DEF value
<1>4. /\ [table[m] EXCEPT !.done = value].done = value
      /\ [table[m] EXCEPT !.done = value].seen = table[m].seen
      /\ [table[m] EXCEPT !.done = value].status = table[m].status
  BY <1>1 DEF Entry
<1> QED
  BY <1>2, <1>3, <1>4 DEF value

\* What changes when it is complete.
LEMMA StatusField ==
  ASSUME NEW table, table \in [DOMAIN table -> Entry], NEW m \in DOMAIN table
  PROVE  /\ \A x \in DOMAIN table \ {m} : WithStatus(table, m)[x] = table[x]
         /\ WithStatus(table, m)[m].status = "complete"
         /\ WithStatus(table, m)[m].seen = table[m].seen
         /\ WithStatus(table, m)[m].done = table[m].done
<1> DEFINE value == "complete"
<1>1. table[m] \in Entry
  OBVIOUS
<1>2. \A x \in DOMAIN table \ {m} : WithStatus(table, m)[x] = table[x]
  BY DEF WithStatus
<1>3. WithStatus(table, m)[m] = [table[m] EXCEPT !.status = value]
  BY DEF WithStatus
<1> HIDE DEF value
<1>4. /\ [table[m] EXCEPT !.status = value].status = value
      /\ [table[m] EXCEPT !.status = value].seen = table[m].seen
      /\ [table[m] EXCEPT !.status = value].done = table[m].done
  BY <1>1 DEF Entry
<1> QED
  BY <1>2, <1>3, <1>4 DEF value

\* No manifest comes or goes by that.
LEMMA SameManifests ==
  ASSUME NEW table, NEW m, NEW keys, NEW sources
  PROVE  /\ DOMAIN WithSeen(table, m, keys) = DOMAIN table
         /\ DOMAIN WithDone(table, m, sources) = DOMAIN table
         /\ DOMAIN WithStatus(table, m) = DOMAIN table
BY DEF WithSeen, WithDone, WithStatus

AccountOf(entry, m) ==
  /\ entry.seen \subseteq DOMAIN Records(m) /\ entry.done \subseteq Sources(m)
  /\ entry.status = "complete" => entry.seen = DOMAIN Records(m) /\ entry.done = Sources(m)

\* Accounts are kept entry by entry.
LEMMA AccountsAre ==
  ASSUME NEW table
  PROVE  Accounts(table) <=> \A m \in DOMAIN table : AccountOf(table[m], m)
BY DEF Accounts, AccountOf

\* Accounts stay when a manifest has seen more of its records.
LEMMA SeenAccounts ==
  ASSUME NEW table, table \in [DOMAIN table -> Entry], NEW m \in DOMAIN table,
         NEW keys \in SUBSET DOMAIN Records(m), Accounts(table)
  PROVE  Accounts(WithSeen(table, m, keys))
<1>1. ASSUME NEW x \in DOMAIN table PROVE AccountOf(WithSeen(table, m, keys)[x], x)
  <2> DEFINE new == WithSeen(table, m, keys)
  <2>1. AccountOf(table[x], x)
    BY AccountsAre
  <2>2. x # m => new[x] = table[x]
    BY SeenField
  <2>3. new[m].seen = table[m].seen \cup keys /\ new[m].done = table[m].done /\ new[m].status = table[m].status
    BY SeenField
  <2> HIDE DEF new
  <2>4. AccountOf(new[x], x)
    BY <2>1, <2>2, <2>3 DEF AccountOf
  <2> QED
    BY <2>4 DEF new
<1> QED
  BY <1>1, SameManifests, AccountsAre

\* And when a source of it is done.
LEMMA DoneAccounts ==
  ASSUME NEW table, table \in [DOMAIN table -> Entry], NEW m \in DOMAIN table,
         NEW sources \in SUBSET Sources(m), Accounts(table)
  PROVE  Accounts(WithDone(table, m, sources))
<1>1. ASSUME NEW x \in DOMAIN table PROVE AccountOf(WithDone(table, m, sources)[x], x)
  <2> DEFINE new == WithDone(table, m, sources)
  <2>1. AccountOf(table[x], x)
    BY AccountsAre
  <2>2. x # m => new[x] = table[x]
    BY DoneField
  <2>3. new[m].done = table[m].done \cup sources /\ new[m].seen = table[m].seen /\ new[m].status = table[m].status
    BY DoneField
  <2> HIDE DEF new
  <2>4. AccountOf(new[x], x)
    BY <2>1, <2>2, <2>3 DEF AccountOf
  <2> QED
    BY <2>4 DEF new
<1> QED
  BY <1>1, SameManifests, AccountsAre

\* And when it is complete, its records accounted for.
LEMMA StatusAccounts ==
  ASSUME NEW table, table \in [DOMAIN table -> Entry], NEW m \in DOMAIN table,
         Accounts(table), Accounted(table, m)
  PROVE  Accounts(WithStatus(table, m))
<1>1. table[m].seen = DOMAIN Records(m) /\ Sources(m) \subseteq table[m].done
  BY DEF Accounted, Sources
<1>2. table[m].done = Sources(m)
  <2>1. AccountOf(table[m], m)
    BY AccountsAre
  <2> QED
    BY <1>1, <2>1 DEF AccountOf
<1>3. ASSUME NEW x \in DOMAIN table PROVE AccountOf(WithStatus(table, m)[x], x)
  <2> DEFINE new == WithStatus(table, m)
  <2>1. AccountOf(table[x], x)
    BY AccountsAre
  <2>2. x # m => new[x] = table[x]
    BY StatusField
  <2>3. new[m].status = "complete" /\ new[m].seen = table[m].seen /\ new[m].done = table[m].done
    BY StatusField
  <2> HIDE DEF new
  <2>4. AccountOf(new[x], x)
    BY <1>1, <1>2, <2>1, <2>2, <2>3 DEF AccountOf
  <2> QED
    BY <2>4 DEF new
<1> QED
  BY <1>3, SameManifests, AccountsAre

\* A new manifest has nothing to account for.
LEMMA NewAccounts ==
  ASSUME NEW table, table \in [DOMAIN table -> Entry], NEW m, Accounts(table)
  PROVE  Accounts(Register(table, m))
<1>1. AccountOf(New, m) /\ \A x \in DOMAIN table : AccountOf(table[x], x)
  BY AccountsAre DEF New, AccountOf
<1>2. /\ DOMAIN Register(table, m) = DOMAIN table \cup {m}
      /\ \A x \in DOMAIN table \cup {m} :
           Register(table, m)[x] = IF x \in DOMAIN table THEN table[x] ELSE New
  BY Registration
<1>3. \A x \in DOMAIN Register(table, m) : AccountOf(Register(table, m)[x], x)
  BY <1>1, <1>2
<1> QED
  BY <1>3, AccountsAre

\* A source of what is left is a source of the manifest.
LEMMA NextSourceIsLeft ==
  ASSUME NEW m, NEW left \in SUBSET DOMAIN Records(m), left # {}
  PROVE  NextSource(left) \in Sources(m)
BY DEF NextSource, Sources

\* After a batch a run has less left, and stops at the end of a source.
LEMMA AdvanceDoes ==
  ASSUME Commanded, NEW p \in Procs, NEW batch, Advance(p, batch),
         proc[p].command # "osv", proc[p].source \in Sources(proc[p].feed)
  PROVE  /\ proc'[p] \in Running
         /\ proc'[p].left = proc[p].left \ batch
         /\ proc'[p].feed = proc[p].feed /\ proc'[p].command = proc[p].command
         /\ proc'[p].pc \in {"batch-check", "source"} /\ proc'[p].source \in Sources(proc[p].feed)
         /\ proc'[p].pc = "source" => proc'[p].source = proc[p].source
         /\ OfSource(proc[p].left \ batch, proc[p].source) = {} => proc'[p].pc = "source"
<1> DEFINE left == proc[p].left \ batch
           pc == IF OfSource(left, proc[p].source) # {} THEN "batch-check" ELSE "source"
           source == IF pc = "batch-check" THEN NextSource(left) ELSE proc[p].source
<1>1. proc[p] \in Running /\ Holding(proc[p]) /\ proc[p].left \in SUBSET Keys
  BY DEF Commanded, Running
<1>2. proc[p].left \in SUBSET DOMAIN Records(proc[p].feed)
  BY <1>1 DEF Holding
<1>3. pc = "batch-check" => left # {}
  BY DEF OfSource
<1>4. source \in Sources(proc[p].feed)
  BY <1>2, <1>3, NextSourceIsLeft
<1>5. left \in SUBSET Keys
  BY <1>1
<1>6. source \in Origins
  BY <1>1, <1>3, <1>5, NextSourceIsOrigin DEF Running
<1>7. proc' = [proc EXCEPT ![p].left = left, ![p].pc = pc, ![p].source = source]
  BY DEF Advance
<1>8. pc \in {"batch-check", "source"} /\ (pc = "source" => source = proc[p].source)
      /\ (OfSource(left, proc[p].source) = {} => pc = "source")
  OBVIOUS
<1> HIDE DEF pc, source
<1>9. proc'[p] = [proc[p] EXCEPT !.left = left, !.pc = pc, !.source = source]
  BY <1>7 DEF Commanded
<1> HIDE DEF left
<1>10. /\ proc'[p].left = left /\ proc'[p].pc = pc /\ proc'[p].source = source
       /\ proc'[p].feed = proc[p].feed /\ proc'[p].command = proc[p].command
  BY <1>1, <1>9 DEF Running
<1>11. proc'[p] \in Running
  BY <1>1, <1>5, <1>6, <1>8, <1>9 DEF Running, Pcs
<1> QED
  BY <1>4, <1>8, <1>10, <1>11 DEF left

\* After a source a run goes on with what is left, or to the completion.
LEMMA AfterSourceDoes ==
  ASSUME Commanded, NEW p \in Procs, AfterSource(p), proc[p].source \in Sources(proc[p].feed)
  PROVE  /\ proc'[p] \in Running
         /\ proc'[p].left = proc[p].left
         /\ proc'[p].feed = proc[p].feed /\ proc'[p].command = proc[p].command
         /\ proc'[p].pc \in {"batch-check", "complete"} /\ proc'[p].source \in Sources(proc[p].feed)
         /\ proc'[p].pc = "complete" => proc'[p].left = {}
<1> DEFINE pc == IF proc[p].left = {} THEN "complete" ELSE "batch-check"
           source == IF proc[p].left = {} THEN proc[p].source ELSE NextSource(proc[p].left)
<1>1. proc[p] \in Running /\ Holding(proc[p]) /\ proc[p].left \in SUBSET Keys
  BY DEF Commanded, Running
<1>2. proc[p].left \in SUBSET DOMAIN Records(proc[p].feed)
  BY <1>1 DEF Holding
<1>3. source \in Sources(proc[p].feed)
  BY <1>2, NextSourceIsLeft
<1>4. source \in Origins
  BY <1>1, NextSourceIsOrigin DEF Running
<1>5. proc' = [proc EXCEPT ![p].pc = pc, ![p].source = source]
  BY DEF AfterSource
<1>6. pc \in {"complete", "batch-check"} /\ (pc = "complete" => proc[p].left = {})
  OBVIOUS
<1> HIDE DEF pc, source
<1>7. proc'[p] = [proc[p] EXCEPT !.pc = pc, !.source = source]
  BY <1>5 DEF Commanded
<1>8. /\ proc'[p].left = proc[p].left /\ proc'[p].pc = pc /\ proc'[p].source = source
      /\ proc'[p].feed = proc[p].feed /\ proc'[p].command = proc[p].command
  BY <1>1, <1>7 DEF Running
<1>9. proc'[p] \in Running
  BY <1>1, <1>4, <1>6, <1>7 DEF Running, Pcs
<1> QED
  BY <1>3, <1>6, <1>8, <1>9

\* A step that only moves its run to another place.
LEMMA GotoDoes ==
  ASSUME Commanded, NEW p \in Procs, NEW pc, Goto(p, pc)
  PROVE  /\ proc'[p].pc = pc /\ proc'[p].left = proc[p].left /\ proc'[p].source = proc[p].source
         /\ proc'[p].feed = proc[p].feed /\ proc'[p].command = proc[p].command
BY DEF Goto, Commanded, Running

\* A batch finishes no source by itself, and leaves the finished ones alone.
LEMMA BatchFinishesNone ==
  ASSUME NEW r, NEW n, NEW batch, r.pc = "batch", n.feed = r.feed, n.left = r.left \ batch,
         batch \subseteq OfSource(r.left, r.source),
         n.pc = "source" => n.source = r.source,
         OfSource(r.left \ batch, r.source) = {} => n.pc = "source"
  PROVE  \A source \in Finished(n) : source \in Finished(r) /\ source # r.source
<1> SUFFICES ASSUME NEW source \in Finished(n) PROVE source \in Finished(r) /\ source # r.source
  OBVIOUS
<1>1. source \in Sources(r.feed) /\ OfSource(r.left \ batch, source) = {}
      /\ ~(n.pc = "source" /\ n.source = source)
  BY DEF Finished
<1>2. source # r.source
  BY <1>1
<1>3. OfSource(r.left, source) = {}
  BY <1>1, <1>2 DEF OfSource
<1> QED
  BY <1>1, <1>2, <1>3 DEF Finished

\* There is one run to tell of.
LEMMA OneRun ==
  ASSUME Alone, NEW p \in Procs, Told(proc[p])'
  PROVE  \A q \in Procs : Told(proc[q])'
BY DEF Alone

\* What a step that leaves the records and the manifests alone has to show.
LEMMA SameRecords ==
  ASSUME Alone, NewestInv, NEW p \in Procs, UNCHANGED <<snaps, deltas, current, active>>, Told(proc[p])'
  PROVE  Reconciled' /\ NewestWins' /\ PresenceFollows'
<1>1. Reconciled'
  BY OneRun DEF NewestInv, Reconciled
<1>2. NewestWins'
  BY DEF NewestInv, NewestWins, Carriers
<1>3. PresenceFollows'
  BY DEF NewestInv, PresenceFollows, Carriers
<1> QED
  BY <1>1, <1>2, <1>3

\* Nothing is told of a run that has not read its manifest or is over.
LEMMA NothingToTell ==
  ASSUME NEW p, proc'[p].pc \notin Applying \cup {"register-check", "register"}
  PROVE  Told(proc[p])'
BY DEF Told, Applying

\* A command that begins has everything left.
LEMMA CommandTells ==
  ASSUME Commanded, NEW p \in Procs, Command(p)
  PROVE  Told(proc[p])'
<1>1. ASSUME NEW command, NEW m \in Snapshots \cup Deltas \cup Loose, NEW pc,
             Start(p, command, m, pc)
      PROVE  /\ proc'[p].pc = pc /\ proc'[p].command = command /\ proc'[p].feed = m
             /\ proc'[p].left = DOMAIN Records(m) /\ proc'[p].source \in Sources(m)
  <2>1. m # NoFeed /\ DOMAIN Records(m) # {}
    BY RecordsAreKnown, FeedAssumption
  <2>2. NextSource(DOMAIN Records(m)) \in Sources(m)
    BY <2>1, NextSourceIsLeft
  <2>3. proc'[p] = [pc |-> pc, command |-> command, feed |-> m, left |-> DOMAIN Records(m),
                    source |-> NextSource(DOMAIN Records(m)), copy |-> {}]
    BY <1>1, <2>1 DEF Start, Commanded
  <2> QED
    BY <2>2, <2>3
<1>2. ASSUME NEW command, NEW pc, Start(p, command, NoFeed, pc)
      PROVE  proc'[p].pc = pc
  BY <1>2 DEF Start, Commanded
<1>3. CASE \E s \in Snapshots : Start(p, "snapshot", s, "register-check")
  BY <1>1, <1>3 DEF Told, Applying
<1>4. CASE \E d \in Deltas : Start(p, "delta", d, "register")
  BY <1>1, <1>4 DEF Told, Applying
<1>5. CASE \E l \in Loose : Start(p, "osv", l, "batch-check")
  BY <1>1, <1>5 DEF Told, Applying
<1>6. CASE Start(p, "index", NoFeed, "index-check") \/ Start(p, "backup", NoFeed, "backup-check")
  BY <1>2, <1>6, NothingToTell DEF Applying
<1> QED
  BY <1>3, <1>4, <1>5, <1>6 DEF Command

\* Checks, replays, copies and the end of a command change nothing that is told.
LEMMA OtherStepsTell ==
  ASSUME Alone, NewestInv, NEW p \in Procs,
         Command(p) \/ Check(p) \/ ReplayBatch(p) \/ CopyBackup(p) \/ Abort(p)
           \/ RebuildIndex(p) \/ PublishBackup(p)
  PROVE  Reconciled' /\ NewestWins' /\ PresenceFollows'
<1>1. Commanded /\ Told(proc[p])
  BY DEF NewestInv, Inv, Recorded, Reconciled
<1>2. CASE Command(p)
  <2>1. UNCHANGED <<snaps, deltas, current, active>>
    BY <1>2 DEF Command, Start
  <2> QED
    BY <1>1, <1>2, <2>1, CommandTells, SameRecords
<1>3. CASE Check(p)
  <2>1. UNCHANGED <<snaps, deltas, current, active>>
    BY <1>3 DEF Check, Checked, CheckBatch
  <2>2. CASE CheckBatch(p)
    <3>1. proc[p].pc = "batch-check" /\ Goto(p, "batch")
      BY <2>2 DEF CheckBatch
    <3>2. /\ proc'[p].pc = "batch" /\ proc'[p].left = proc[p].left /\ proc'[p].source = proc[p].source
          /\ proc'[p].feed = proc[p].feed /\ proc'[p].command = proc[p].command
      BY <1>1, <3>1, GotoDoes
    <3>3. Finished(proc'[p]) = Finished(proc[p])
      BY <3>1, <3>2 DEF Finished
    <3>4. Told(proc[p])'
      BY <1>1, <2>1, <3>1, <3>2, <3>3 DEF Told, Applying, Says, Preparing
    <3> QED
      BY <2>1, <3>4, SameRecords
  <2>3. CASE Checked(p, "register-check", "register")
    <3>1. proc[p].pc = "register-check" /\ Goto(p, "register")
      BY <2>3 DEF Checked
    <3>2. /\ proc'[p].pc = "register" /\ proc'[p].left = proc[p].left /\ proc'[p].source = proc[p].source
          /\ proc'[p].feed = proc[p].feed /\ proc'[p].command = proc[p].command
      BY <1>1, <3>1, GotoDoes
    <3>3. Told(proc[p])'
      BY <1>1, <3>1, <3>2 DEF Told, Applying
    <3> QED
      BY <2>1, <3>3, SameRecords
  <2>4. CASE Checked(p, "index-check", "index") \/ Checked(p, "backup-check", "copy")
    <3>1. proc'[p].pc \in {"index", "copy"}
      BY <1>1, <2>4, GotoDoes DEF Checked
    <3>2. Told(proc[p])'
      BY <3>1, NothingToTell DEF Applying
    <3> QED
      BY <2>1, <3>2, SameRecords
  <2> QED
    BY <1>3, <2>2, <2>3, <2>4 DEF Check
<1>4. CASE ReplayBatch(p)
  <2>1. PICK batch \in Batches(p) : Advance(p, batch)
    BY <1>4 DEF ReplayBatch
  <2>2. /\ proc[p].pc = "batch" /\ proc[p].command = "delta" /\ proc[p].feed \in Complete(deltas)
        /\ UNCHANGED <<snaps, deltas, current, active>>
    BY <1>4 DEF ReplayBatch
  <2>3. proc[p].source \in Sources(proc[p].feed)
    BY <1>1, <2>2 DEF Told, Applying
  <2>4. /\ proc'[p].feed = proc[p].feed /\ proc'[p].command = "delta"
        /\ proc'[p].pc \in {"batch-check", "source"} /\ proc'[p].source \in Sources(proc[p].feed)
    BY <1>1, <2>1, <2>2, <2>3, AdvanceDoes
  <2>5. proc'[p].feed \notin Preparing'
    BY <2>2, <2>4 DEF Preparing, Complete
  <2>6. Told(proc[p])'
    BY <2>4, <2>5 DEF Told, Applying
  <2> QED
    BY <2>2, <2>6, SameRecords
<1>5. CASE CopyBackup(p) \/ Abort(p) \/ RebuildIndex(p) \/ PublishBackup(p)
  <2>1. UNCHANGED <<snaps, deltas, current, active>>
    BY <1>5 DEF CopyBackup, Abort, RebuildIndex, PublishBackup
  <2>2. proc'[p].pc = "verify" \/ proc'[p].pc = "idle"
    <3>1. End(p) => proc'[p].pc = "idle"
      BY <1>1 DEF End, Idle, Commanded
    <3>2. CopyBackup(p) => proc'[p].pc = "verify"
      BY <1>1 DEF CopyBackup, Commanded, Running
    <3> QED
      BY <1>5, <3>1, <3>2 DEF Abort, RebuildIndex, PublishBackup
  <2>3. Told(proc[p])'
    BY <2>2, NothingToTell DEF Applying
  <2> QED
    BY <2>1, <2>3, SameRecords
<1> QED
  BY <1>2, <1>3, <1>4, <1>5

\* Whatever a run has all of left, it has finished no source.
LEMMA AllIsLeft ==
  ASSUME NEW r, r.left = DOMAIN Records(r.feed)
  PROVE  Finished(r) = {}
BY DEF Finished, Sources, OfSource

\* A registered manifest has brought nothing yet.
LEMMA RegistrationTells ==
  ASSUME Alone, WellFed, NewestInv, NEW p \in Procs, RegisterSnapshot(p) \/ RegisterDelta(p)
  PROVE  Reconciled' /\ NewestWins' /\ PresenceFollows'
<1> DEFINE m == proc[p].feed
<1>1. /\ Commanded /\ Tables /\ Told(proc[p]) /\ proc[p] \in Running /\ Holding(proc[p])
      /\ Accounts(snaps) /\ Accounts(deltas) /\ Datable(snaps) /\ Datable(deltas)
      /\ NewestWins /\ PresenceFollows
  BY DEF NewestInv, Inv, Recorded, Reconciled, Commanded
<1>2. /\ snaps \in [DOMAIN snaps -> Entry] /\ deltas \in [DOMAIN deltas -> Entry]
      /\ DOMAIN snaps \subseteq Snapshots /\ DOMAIN deltas \subseteq Deltas
  BY <1>1 DEF Tables
<1>3. New.seen = {} /\ New.done = {} /\ New.status = "preparing"
  BY DEF New
<1>4. proc[p].pc = "register" /\ Goto(p, "batch-check")
  BY DEF RegisterSnapshot, RegisterDelta
<1>5. /\ proc'[p].pc = "batch-check" /\ proc'[p].left = proc[p].left /\ proc'[p].source = proc[p].source
      /\ proc'[p].feed = m /\ proc'[p].command = proc[p].command
  BY <1>1, <1>4, GotoDoes
<1>6. proc[p].left = DOMAIN Records(m) /\ proc[p].source \in Sources(m)
  BY <1>1, <1>4 DEF Told
<1>7. Finished(proc'[p]) = {} /\ DOMAIN Records(m) \ proc'[p].left = {}
  BY <1>5, <1>6, AllIsLeft
<1>8. Told(proc[p])'
  BY <1>5, <1>6, <1>7 DEF Told, Applying, Says
<1>9. CASE RegisterSnapshot(p)
  <2>1. m \in Snapshots /\ snaps' = Register(snaps, m) /\ UNCHANGED <<deltas, current, active>>
    BY <1>1, <1>9 DEF RegisterSnapshot, Holding
  <2>2. /\ DOMAIN snaps' = DOMAIN snaps \cup {m}
        /\ \A x \in DOMAIN snaps \cup {m} : snaps'[x] = IF x \in DOMAIN snaps THEN snaps[x] ELSE New
    <3> HIDE DEF m
    <3> QED
      BY <1>2, <2>1, Registration
  <2>3. Accounts(snaps')
    <3> HIDE DEF m
    <3> QED
      BY <1>1, <1>2, <2>1, NewAccounts
  <2>4. Datable(snaps')
    <3> HIDE DEF m
    <3> QED
      BY <1>1, <1>2, <2>1, <2>2, DatableStays
  <2> HIDE DEF m
  <2>5. Complete(snaps)' = Complete(snaps) /\ Complete(deltas)' = Complete(deltas)
    BY <1>3, <2>1, <2>2 DEF Complete
  <2>6. \A k : Carriers(k) \subseteq Carriers(k)'
    BY <2>1, <2>2 DEF Carriers
  <2>7. Reconciled'
    BY <1>1, <1>8, <2>1, <2>3, <2>4, OneRun DEF Reconciled
  <2>8. NewestWins'
    <3> DEFINE batch == {}
    <3>1. \A k \in DOMAIN current' \ LooseKeys : k \in DOMAIN current /\ current'[k] = current[k]
      BY <2>1
    <3>2. \A k \in batch \ LooseKeys : FALSE
      OBVIOUS
    <3> HIDE DEF batch
    <3> QED
      BY <1>1, <2>5, <2>6, <3>1, <3>2, NewestStays
  <2>9. \A x \in DOMAIN snaps : snaps'[x] = snaps[x]
    BY <2>2
  <2>10. \A x \in DOMAIN snaps : snaps[x].done \subseteq snaps'[x].done
    BY <2>9
  <2>11. \A s \in Complete(snaps) : snaps'[s].done = snaps[s].done
    BY <2>9 DEF Complete
  <2>12. PresenceFollows'
    BY <1>1, <2>1, <2>2, <2>5, <2>6, <2>10, <2>11, PresenceStays
  <2> QED
    BY <2>7, <2>8, <2>12
<1>10. CASE RegisterDelta(p)
  <2>1. m \in Deltas /\ deltas' = Register(deltas, m) /\ UNCHANGED <<snaps, current, active>>
    BY <1>1, <1>10 DEF RegisterDelta, Holding
  <2>2. /\ DOMAIN deltas' = DOMAIN deltas \cup {m}
        /\ \A x \in DOMAIN deltas \cup {m} : deltas'[x] = IF x \in DOMAIN deltas THEN deltas[x] ELSE New
    <3> HIDE DEF m
    <3> QED
      BY <1>2, <2>1, Registration
  <2>3. Accounts(deltas')
    <3> HIDE DEF m
    <3> QED
      BY <1>1, <1>2, <2>1, NewAccounts
  <2>4. Datable(deltas')
    <3> HIDE DEF m
    <3> QED
      BY <1>1, <1>2, <2>1, <2>2, DatableStays
  <2> HIDE DEF m
  <2>5. Complete(snaps)' = Complete(snaps) /\ Complete(deltas)' = Complete(deltas)
    BY <1>3, <2>1, <2>2 DEF Complete
  <2>6. \A k : Carriers(k) \subseteq Carriers(k)'
    BY <2>1, <2>2 DEF Carriers
  <2>7. Reconciled'
    BY <1>1, <1>8, <2>1, <2>3, <2>4, OneRun DEF Reconciled
  <2>8. NewestWins'
    <3> DEFINE batch == {}
    <3>1. \A k \in DOMAIN current' \ LooseKeys : k \in DOMAIN current /\ current'[k] = current[k]
      BY <2>1
    <3>2. \A k \in batch \ LooseKeys : FALSE
      OBVIOUS
    <3> HIDE DEF batch
    <3> QED
      BY <1>1, <2>5, <2>6, <3>1, <3>2, NewestStays
  <2>9. PresenceFollows'
    BY <1>1, <2>1, <2>5, <2>6, PresenceStays
  <2> QED
    BY <2>7, <2>8, <2>9
<1> QED
  BY <1>9, <1>10

\* A batch is of the source the run is at.
LEMMA BatchIsOfSource ==
  ASSUME Commanded, NEW p \in Procs, NEW batch \in Batches(p)
  PROVE  /\ batch \subseteq OfSource(proc[p].left, proc[p].source)
         /\ batch \subseteq proc[p].left /\ batch \subseteq DOMAIN Records(proc[p].feed)
         /\ \A k \in batch : SourceOf[k] = proc[p].source
         /\ \A k \in batch : \A m : k \in DOMAIN Records(m) => proc[p].source \in Sources(m)
<1>1. batch \subseteq OfSource(proc[p].left, proc[p].source) /\ batch \subseteq DOMAIN Records(proc[p].feed)
  BY BatchIsOfManifest DEF Batches
<1> QED
  BY <1>1 DEF OfSource, Sources

\* What a batch brought is said, and what was said before is.
LEMMA BatchSays ==
  ASSUME NEW m, NEW left, NEW batch, batch \subseteq left, NEW seen,
         Says(m, DOMAIN Records(m) \ left, seen), Stored(m, batch)
  PROVE  \A k \in DOMAIN Records(m) \ (left \ batch) :
           k \in seen \cup batch /\ k \in DOMAIN current' /\ current'[k] = Records(m)[k]
BY DEF Says, Stored

\* A batch of a snapshot is the newest that is said of its records.
LEMMA SnapshotBatchTells ==
  ASSUME Alone, WellFed, NewestInv, NEW p \in Procs, SnapshotBatch(p)
  PROVE  Reconciled' /\ NewestWins' /\ PresenceFollows'
<1> DEFINE s == proc[p].feed
           source == proc[p].source
<1>1. /\ Recorded /\ Registered /\ Held /\ Commanded /\ Tables /\ Told(proc[p]) /\ Reconciled
      /\ proc[p] \in Running /\ Holding(proc[p])
      /\ Accounts(snaps) /\ Accounts(deltas) /\ Datable(snaps) /\ Datable(deltas)
      /\ NewestWins /\ PresenceFollows
  BY DEF NewestInv, Inv, Recorded, Reconciled, Commanded
<1>2. /\ snaps \in [DOMAIN snaps -> Entry] /\ DOMAIN snaps \subseteq Snapshots
  BY <1>1 DEF Tables
<1>3. /\ proc[p].pc = "batch" /\ proc[p].command = "snapshot" /\ SnapshotOrder(s, source)
      /\ UNCHANGED <<deltas, fts, backups>>
  BY DEF SnapshotBatch
<1>4. PICK batch \in Batches(p) :
        snaps' = WithSeen(snaps, s, batch) /\ Store(s, batch) /\ Advance(p, batch)
  BY DEF SnapshotBatch, WithSeen
<1>5. s \in DOMAIN snaps /\ s \in Snapshots
  BY <1>1, <1>2, <1>3 DEF Registered, Applying
<1>6. batch \in SUBSET Keys /\ batch \in SUBSET DOMAIN Records(s)
  BY <1>1, BatchIsOfManifest
<1>7. /\ batch \subseteq OfSource(proc[p].left, source) /\ batch \subseteq proc[p].left
      /\ \A k \in batch : SourceOf[k] = source
      /\ \A k \in batch : \A m : k \in DOMAIN Records(m) => source \in Sources(m)
  BY <1>1, BatchIsOfSource
<1>8. source \in Sources(s)
  BY <1>1, <1>3 DEF Told, Applying
<1>9. /\ \A x \in DOMAIN snaps : source \in snaps[x].done => Acquired(x) <= Acquired(s)
      /\ \A m \in Complete(snaps) \cup Complete(deltas) : source \in Sources(m) => Acquired(m) <= Acquired(s)
  <2> HIDE DEF s, source
  <2> QED
    BY <1>1, <1>3, <1>5, SnapshotIsNewest
<1>10. /\ proc'[p].left = proc[p].left \ batch
       /\ proc'[p].feed = s /\ proc'[p].command = "snapshot"
       /\ proc'[p].pc \in {"batch-check", "source"} /\ proc'[p].source \in Sources(s)
       /\ proc'[p].pc = "source" => proc'[p].source = source
       /\ OfSource(proc[p].left \ batch, source) = {} => proc'[p].pc = "source"
  BY <1>1, <1>3, <1>4, <1>8, AdvanceDoes
<1>11. \A x \in Finished(proc'[p]) : x \in Finished(proc[p]) /\ x # source
  BY <1>3, <1>7, <1>10, BatchFinishesNone
<1> HIDE DEF s, source
<1>12. Stored(s, batch)
  BY <1>1, <1>4, <1>6, BatchStores
<1>13. /\ DOMAIN snaps' = DOMAIN snaps /\ \A x \in DOMAIN snaps \ {s} : snaps'[x] = snaps[x]
       /\ snaps'[s].seen = snaps[s].seen \cup batch
       /\ snaps'[s].done = snaps[s].done /\ snaps'[s].status = snaps[s].status
  <2>1. DOMAIN snaps' = DOMAIN snaps
    BY <1>4 DEF WithSeen
  <2>2. \A x \in DOMAIN snaps \ {s} : snaps'[x] = snaps[x]
    BY <1>4 DEF WithSeen
  <2>3. /\ snaps'[s].seen = snaps[s].seen \cup batch
        /\ snaps'[s].done = snaps[s].done /\ snaps'[s].status = snaps[s].status
    BY <1>2, <1>4, <1>5, SeenField
  <2> QED
    BY <2>1, <2>2, <2>3
<1>14. Accounts(snaps') /\ Datable(snaps')
  <2>1. Accounts(snaps')
    BY <1>1, <1>2, <1>4, <1>5, <1>6, SeenAccounts
  <2>2. Datable(snaps')
    BY <1>1, <1>13 DEF Datable
  <2> QED
    BY <2>1, <2>2
<1>15. Complete(snaps)' = Complete(snaps) /\ Complete(deltas)' = Complete(deltas)
  BY <1>3, <1>13 DEF Complete
<1>16. (\A k : Carriers(k) \subseteq Carriers(k)') /\ \A k \in batch : s \in Carriers(k)'
  BY <1>3, <1>5, <1>13 DEF Carriers
<1>17. NewestWins'
  <2>1. \A k \in DOMAIN current' \ LooseKeys : k \in batch \/ (k \in DOMAIN current /\ current'[k] = current[k])
    BY <1>12 DEF Stored
  <2>2. \A k \in batch : current'[k] = Records(s)[k]
    BY <1>12 DEF Stored
  <2>3. \A k \in batch \ LooseKeys :
          /\ s \in Carriers(k)' /\ current'[k] = Records(s)[k]
          /\ \A m \in Complete(snaps) \cup Complete(deltas) :
               k \in DOMAIN Records(m) => Acquired(m) <= Acquired(s)
    BY <1>7, <1>9, <1>16, <2>2
  <2> QED
    BY <1>1, <1>15, <1>16, <2>1, <2>3, NewestStays
<1>18. PresenceFollows'
  <2>1. active' = active \cup batch
    BY <1>12 DEF Stored
  <2>2. \A k \in active' \ (active \cup LooseKeys) :
          s \in Carriers(k)' /\ \A x \in Complete(snaps) :
                                  SourceOf[k] \in snaps[x].done => Acquired(x) <= Acquired(s)
    BY <1>7, <1>9, <1>16, <2>1 DEF Complete
  <2>3. \A x \in DOMAIN snaps : snaps'[x].done = snaps[x].done
    BY <1>13
  <2>4. \A x \in DOMAIN snaps : snaps[x].done \subseteq snaps'[x].done
    BY <2>3
  <2>5. \A x \in Complete(snaps) : snaps'[x].done = snaps[x].done
    BY <2>3 DEF Complete
  <2> QED
    BY <1>1, <1>13, <1>15, <1>16, <2>1, <2>2, <2>4, <2>5, PresenceStays
<1>19. Told(proc[p])'
  <2>1. /\ Says(s, DOMAIN Records(s) \ proc[p].left, snaps[s].seen)
        /\ \A x \in Finished(proc[p]) : OfSource(active, x) = OfSource(DOMAIN Records(s), x)
    BY <1>1, <1>3 DEF Told, Applying, s
  <2>2. \A k \in DOMAIN Records(s) \ (proc[p].left \ batch) :
          k \in snaps[s].seen \cup batch /\ k \in DOMAIN current' /\ current'[k] = Records(s)[k]
    BY <1>7, <1>12, <2>1, BatchSays
  <2>3. \A k \in DOMAIN Records(s) \ proc'[p].left :
          k \in snaps'[s].seen /\ k \in DOMAIN current' /\ current'[k] = Records(s)[k]
    BY <1>10, <1>13, <2>2
  <2>4. ASSUME NEW x \in Finished(proc'[p]) PROVE OfSource(active', x) = OfSource(DOMAIN Records(s), x)
    <3>1. x \in Finished(proc[p]) /\ x # source
      BY <1>11
    <3>2. active' = active \cup batch
      BY <1>12 DEF Stored
    <3>3. OfSource(active', x) = OfSource(active, x)
      BY <1>7, <3>1, <3>2 DEF OfSource
    <3> QED
      BY <2>1, <3>1, <3>3
  <2> QED
    BY <1>10, <2>3, <2>4 DEF Told, Says
<1>20. Reconciled'
  BY <1>1, <1>3, <1>14, <1>19, OneRun DEF Reconciled
<1> QED
  BY <1>17, <1>18, <1>20

\* A batch of a delta is the newest that is said of its records.
LEMMA DeltaBatchTells ==
  ASSUME Alone, WellFed, NewestInv, NEW p \in Procs, DeltaBatch(p)
  PROVE  Reconciled' /\ NewestWins' /\ PresenceFollows'
<1> DEFINE d == proc[p].feed
           source == proc[p].source
<1>1. /\ Recorded /\ Registered /\ Held /\ Commanded /\ Tables /\ Told(proc[p]) /\ Reconciled
      /\ proc[p] \in Running /\ Holding(proc[p])
      /\ Accounts(snaps) /\ Accounts(deltas) /\ Datable(snaps) /\ Datable(deltas)
      /\ NewestWins /\ PresenceFollows
  BY DEF NewestInv, Inv, Recorded, Reconciled, Commanded
<1>2. /\ deltas \in [DOMAIN deltas -> Entry] /\ DOMAIN deltas \subseteq Deltas
      /\ DOMAIN snaps \subseteq Snapshots
  BY <1>1 DEF Tables
<1>3. /\ proc[p].pc = "batch" /\ proc[p].command = "delta" /\ DeltaOrder(d) /\ d \in Preparing
      /\ UNCHANGED <<snaps, index, backups>>
  BY DEF DeltaBatch
<1>4. PICK batch \in Batches(p) :
        deltas' = WithSeen(deltas, d, batch) /\ Store(d, batch) /\ Advance(p, batch)
  BY DEF DeltaBatch, WithSeen
<1>5. d \in DOMAIN deltas /\ d \in Deltas /\ d \notin Complete(deltas)
  BY <1>2, <1>3 DEF Preparing, Complete
<1>6. batch \in SUBSET Keys /\ batch \in SUBSET DOMAIN Records(d)
  BY <1>1, BatchIsOfManifest
<1>7. /\ batch \subseteq proc[p].left /\ \A k \in batch : SourceOf[k] = source
      /\ \A k \in batch : \A m : k \in DOMAIN Records(m) => source \in Sources(m)
  BY <1>1, BatchIsOfSource
<1>8. source \in Sources(d)
  BY <1>1, <1>3 DEF Told, Applying
<1> HIDE DEF d, source
<1>9. ASSUME NEW m \in Complete(snaps) \cup Complete(deltas), source \in Sources(m)
      PROVE  Acquired(m) <= Acquired(d)
  <2>1. m \in Snapshots \cup Deltas
    BY <1>2 DEF Complete
  <2>2. Feed[m].ecosystem = Feed[d].ecosystem
    BY <1>5, <1>8, <1>9, <2>1 DEF WellFed, SourcesAreSeparate
  <2> QED
    BY <1>1, <1>3, <1>5, <2>2, DeltaIsNewest
<1>10. /\ proc'[p].left = proc[p].left \ batch
       /\ proc'[p].feed = d /\ proc'[p].command = "delta"
       /\ proc'[p].pc \in {"batch-check", "source"} /\ proc'[p].source \in Sources(d)
  BY <1>1, <1>3, <1>4, <1>8, AdvanceDoes DEF d, source
<1>11. Stored(d, batch)
  BY <1>1, <1>4, <1>6, BatchStores
<1>12. /\ DOMAIN deltas' = DOMAIN deltas /\ \A x \in DOMAIN deltas \ {d} : deltas'[x] = deltas[x]
       /\ deltas'[d].seen = deltas[d].seen \cup batch
       /\ deltas'[d].done = deltas[d].done /\ deltas'[d].status = deltas[d].status
  <2>1. DOMAIN deltas' = DOMAIN deltas
    BY <1>4 DEF WithSeen
  <2>2. \A x \in DOMAIN deltas \ {d} : deltas'[x] = deltas[x]
    BY <1>4 DEF WithSeen
  <2>3. /\ deltas'[d].seen = deltas[d].seen \cup batch
        /\ deltas'[d].done = deltas[d].done /\ deltas'[d].status = deltas[d].status
    BY <1>2, <1>4, <1>5, SeenField
  <2> QED
    BY <2>1, <2>2, <2>3
<1>13. Accounts(deltas') /\ Datable(deltas')
  <2>1. Accounts(deltas')
    BY <1>1, <1>2, <1>4, <1>5, <1>6, SeenAccounts
  <2>2. Datable(deltas')
    BY <1>1, <1>12 DEF Datable
  <2> QED
    BY <2>1, <2>2
<1>14. Complete(snaps)' = Complete(snaps) /\ Complete(deltas)' = Complete(deltas)
  BY <1>3, <1>12 DEF Complete
<1>15. (\A k : Carriers(k) \subseteq Carriers(k)') /\ \A k \in batch : d \in Carriers(k)'
  BY <1>3, <1>5, <1>12 DEF Carriers
<1>16. NewestWins'
  <2>1. \A k \in DOMAIN current' \ LooseKeys : k \in batch \/ (k \in DOMAIN current /\ current'[k] = current[k])
    BY <1>11 DEF Stored
  <2>2. \A k \in batch : current'[k] = Records(d)[k]
    BY <1>11 DEF Stored
  <2>3. \A k \in batch \ LooseKeys :
          /\ d \in Carriers(k)' /\ current'[k] = Records(d)[k]
          /\ \A m \in Complete(snaps) \cup Complete(deltas) :
               k \in DOMAIN Records(m) => Acquired(m) <= Acquired(d)
    BY <1>7, <1>9, <1>15, <2>2
  <2> QED
    BY <1>1, <1>14, <1>15, <2>1, <2>3, NewestStays
<1>17. PresenceFollows'
  <2>1. active' = active \cup batch
    BY <1>11 DEF Stored
  <2>2. \A x \in Complete(snaps) : snaps[x].done \subseteq Sources(x)
    BY <1>1 DEF Accounts, Complete
  <2>3. \A k \in active' \ (active \cup LooseKeys) :
          d \in Carriers(k)' /\ \A x \in Complete(snaps) :
                                  SourceOf[k] \in snaps[x].done => Acquired(x) <= Acquired(d)
    BY <1>7, <1>9, <1>15, <2>1, <2>2
  <2> QED
    BY <1>1, <1>3, <1>14, <1>15, <2>1, <2>3, PresenceStays
<1>18. Told(proc[p])'
  <2>1. Says(d, DOMAIN Records(d) \ proc[p].left, deltas[d].seen)
    BY <1>1, <1>3 DEF Told, Applying, d
  <2>2. \A k \in DOMAIN Records(d) \ (proc[p].left \ batch) :
          k \in deltas[d].seen \cup batch /\ k \in DOMAIN current' /\ current'[k] = Records(d)[k]
    BY <1>7, <1>11, <2>1, BatchSays
  <2>3. \A k \in DOMAIN Records(d) \ proc'[p].left :
          k \in deltas'[d].seen /\ k \in DOMAIN current' /\ current'[k] = Records(d)[k]
    BY <1>10, <1>12, <2>2
  <2> QED
    BY <1>10, <2>3 DEF Told, Says
<1>19. Reconciled'
  BY <1>1, <1>3, <1>13, <1>18, OneRun DEF Reconciled
<1> QED
  BY <1>16, <1>17, <1>19

\* A loose batch is left out of what the properties say.
LEMMA LooseBatchTells ==
  ASSUME Alone, WellFed, NewestInv, NEW p \in Procs, LooseBatch(p)
  PROVE  Reconciled' /\ NewestWins' /\ PresenceFollows'
<1> DEFINE l == proc[p].feed
<1>1. /\ Recorded /\ Held /\ Commanded /\ Tables /\ Reconciled
      /\ proc[p] \in Running /\ Holding(proc[p]) /\ NewestWins /\ PresenceFollows
  BY DEF NewestInv, Inv, Recorded, Commanded
<1>2. /\ proc[p].command = "osv" /\ l \in Loose /\ UNCHANGED <<snaps, deltas, fts, backups>>
  BY <1>1 DEF LooseBatch, Holding
<1>3. PICK batch \in Batches(p) : Store(l, batch) /\ Advance(p, batch)
  BY DEF LooseBatch
<1>4. batch \in SUBSET Keys /\ batch \subseteq DOMAIN Records(l)
  BY <1>1, BatchIsOfManifest
<1>5. batch \subseteq LooseKeys
  BY <1>2, <1>4 DEF LooseKeys
<1>6. Stored(l, batch)
  BY <1>1, <1>3, <1>4, BatchStores
<1>7. Told(proc[p])'
  <2>1. proc'[p].pc \in {"batch-check", "index-check"} /\ proc'[p].command = "osv"
    BY <1>1, <1>2, <1>3 DEF Advance, Commanded, Running
  <2> QED
    BY <2>1 DEF Told, Applying
<1>8. NewestWins'
  <2>1. \A k \in DOMAIN current' \ LooseKeys : k \in DOMAIN current /\ current'[k] = current[k]
    BY <1>5, <1>6 DEF Stored
  <2>2. \A k : Carriers(k)' = Carriers(k)
    BY <1>2 DEF Carriers
  <2> QED
    BY <1>1, <1>2, <2>1, <2>2 DEF NewestWins
<1>9. PresenceFollows'
  <2>1. active \subseteq active' /\ active' \ (active \cup LooseKeys) = {}
    BY <1>5, <1>6 DEF Stored
  <2>2. \A k : Carriers(k)' = Carriers(k)
    BY <1>2 DEF Carriers
  <2> QED
    BY <1>1, <1>2, <2>1, <2>2, PresenceStays
<1>10. Reconciled'
  BY <1>1, <1>2, <1>7, OneRun DEF Reconciled
<1> QED
  BY <1>8, <1>9, <1>10

\* A source of a delta that is done adds nothing to the catalog.
LEMMA DeltaSourceTells ==
  ASSUME Alone, WellFed, NewestInv, NEW p \in Procs, CompleteDeltaSource(p)
  PROVE  Reconciled' /\ NewestWins' /\ PresenceFollows'
<1> DEFINE d == proc[p].feed
           source == proc[p].source
<1>1. /\ Recorded /\ Registered /\ Commanded /\ Tables /\ Told(proc[p]) /\ Reconciled
      /\ Accounts(snaps) /\ Accounts(deltas) /\ Datable(snaps) /\ Datable(deltas)
      /\ NewestWins /\ PresenceFollows
  BY DEF NewestInv, Inv, Recorded, Reconciled
<1>2. deltas \in [DOMAIN deltas -> Entry]
  BY <1>1 DEF Tables
<1>3. /\ proc[p].pc = "source" /\ proc[p].command = "delta" /\ AfterSource(p)
      /\ deltas' = IF d \in Preparing THEN WithDone(deltas, d, {source}) ELSE deltas
      /\ UNCHANGED <<snaps, current, active>>
  BY DEF CompleteDeltaSource, WithDone
<1>4. d \in DOMAIN deltas
  BY <1>1, <1>3 DEF Registered, Applying
<1>5. source \in Sources(d)
  BY <1>1, <1>3 DEF Told, Applying
<1>6. /\ proc'[p].left = proc[p].left /\ proc'[p].feed = d /\ proc'[p].command = "delta"
      /\ proc'[p].pc \in {"batch-check", "complete"} /\ proc'[p].source \in Sources(d)
      /\ proc'[p].pc = "complete" => proc'[p].left = {}
  BY <1>1, <1>3, <1>5, AfterSourceDoes
<1>7. d \in Preparing => Says(d, DOMAIN Records(d) \ proc[p].left, deltas[d].seen)
  BY <1>1, <1>3 DEF Told, Applying
<1> HIDE DEF d, source
<1>8. /\ DOMAIN deltas' = DOMAIN deltas
      /\ \A x \in DOMAIN deltas : deltas'[x].seen = deltas[x].seen /\ deltas'[x].status = deltas[x].status
  <2>1. CASE d \in Preparing
    <3>1. DOMAIN deltas' = DOMAIN deltas /\ \A x \in DOMAIN deltas \ {d} : deltas'[x] = deltas[x]
      BY <1>3, <2>1 DEF WithDone
    <3>2. deltas'[d].seen = deltas[d].seen /\ deltas'[d].status = deltas[d].status
      BY <1>2, <1>3, <1>4, <2>1, DoneField
    <3> QED
      BY <3>1, <3>2
  <2>2. CASE d \notin Preparing
    BY <1>3, <2>2
  <2> QED
    BY <2>1, <2>2
<1>9. Accounts(deltas') /\ Datable(deltas')
  <2>1. Accounts(deltas')
    BY <1>1, <1>2, <1>3, <1>4, <1>5, DoneAccounts
  <2>2. Datable(deltas')
    BY <1>1, <1>8 DEF Datable
  <2> QED
    BY <2>1, <2>2
<1>10. /\ Complete(snaps)' = Complete(snaps) /\ Complete(deltas)' = Complete(deltas)
       /\ Preparing' = Preparing /\ \A k : Carriers(k)' = Carriers(k)
  BY <1>3, <1>8 DEF Complete, Preparing, Carriers
<1>11. Told(proc[p])'
  <2>1. deltas'[d].seen = deltas[d].seen
    BY <1>4, <1>8
  <2> QED
    BY <1>3, <1>6, <1>7, <1>10, <2>1 DEF Told, Says
<1>12. NewestWins' /\ PresenceFollows'
  BY <1>1, <1>3, <1>10 DEF NewestWins, PresenceFollows
<1>13. Reconciled'
  BY <1>1, <1>3, <1>9, <1>11, OneRun DEF Reconciled
<1> QED
  BY <1>12, <1>13

\* A table whose manifest is complete has seen and done what it had.
LEMMA CompletedTable ==
  ASSUME NEW table, table \in [DOMAIN table -> Entry], NEW m \in DOMAIN table
  PROVE  /\ DOMAIN WithStatus(table, m) = DOMAIN table
         /\ \A x \in DOMAIN table : /\ WithStatus(table, m)[x].seen = table[x].seen
                                    /\ WithStatus(table, m)[x].done = table[x].done
         /\ Complete(WithStatus(table, m)) = Complete(table) \cup {m}
<1> DEFINE new == WithStatus(table, m)
<1>1. /\ \A x \in DOMAIN table \ {m} : new[x] = table[x]
      /\ new[m].status = "complete" /\ new[m].seen = table[m].seen /\ new[m].done = table[m].done
  BY StatusField
<1>2. DOMAIN new = DOMAIN table
  BY DEF WithStatus
<1> HIDE DEF new
<1>3. \A x \in DOMAIN table : new[x].seen = table[x].seen /\ new[x].done = table[x].done
  BY <1>1
<1>4. Complete(new) = Complete(table) \cup {m}
  BY <1>1, <1>2 DEF Complete
<1> QED
  BY <1>2, <1>3, <1>4 DEF new

\* A snapshot that completes has put all its records into the catalog, and of its sources
\* nothing else is present.
LEMMA SnapshotTells ==
  ASSUME Alone, WellFed, NewestInv, NEW p \in Procs, CompleteSnapshot(p)
  PROVE  Reconciled' /\ NewestWins' /\ PresenceFollows'
<1> DEFINE s == proc[p].feed
<1>1. /\ Recorded /\ Registered /\ Commanded /\ Tables /\ Told(proc[p]) /\ Reconciled
      /\ Accounts(snaps) /\ Accounts(deltas) /\ Datable(snaps) /\ Datable(deltas)
      /\ NewestWins /\ PresenceFollows
  BY DEF NewestInv, Inv, Recorded, Reconciled
<1>2. snaps \in [DOMAIN snaps -> Entry] /\ DOMAIN snaps \subseteq Snapshots
  BY <1>1 DEF Tables
<1>3. /\ proc[p].pc = "complete" /\ proc[p].command = "snapshot" /\ Goto(p, "index-check")
      /\ Accounted(snaps, s) /\ snaps' = WithStatus(snaps, s)
      /\ UNCHANGED <<deltas, current, active>>
  BY DEF CompleteSnapshot, WithStatus
<1>4. s \in DOMAIN snaps
  BY <1>1, <1>3 DEF Registered, Applying
<1>5. proc[p].left = {} /\ Finished(proc[p]) = Sources(s)
  BY <1>1, <1>3 DEF Told, Finished, OfSource
<1>6. /\ Says(s, DOMAIN Records(s), snaps[s].seen)
      /\ \A source \in Sources(s) : OfSource(active, source) = OfSource(DOMAIN Records(s), source)
  BY <1>1, <1>3, <1>5 DEF Told, Applying
<1>7. Told(proc[p])'
  <2>1. proc'[p].pc = "index-check"
    BY <1>1, <1>3, GotoDoes
  <2> QED
    BY <2>1, NothingToTell DEF Applying
<1> HIDE DEF s
<1>8. /\ DOMAIN snaps' = DOMAIN snaps
      /\ \A x \in DOMAIN snaps : snaps'[x].seen = snaps[x].seen /\ snaps'[x].done = snaps[x].done
      /\ Complete(snaps)' = Complete(snaps) \cup {s}
  BY <1>2, <1>3, <1>4, CompletedTable
<1>9. Accounts(snaps') /\ Datable(snaps')
  <2>1. Accounts(snaps')
    BY <1>1, <1>2, <1>3, <1>4, StatusAccounts
  <2>2. Datable(snaps')
    BY <1>1, <1>8 DEF Datable
  <2> QED
    BY <2>1, <2>2
<1>10. /\ Complete(deltas)' = Complete(deltas) /\ \A k : Carriers(k)' = Carriers(k)
       /\ Acquired(s) \in Int
  BY <1>2, <1>3, <1>4, <1>8, FeedAssumption DEF Carriers, Acquired
<1>11. \A k \in DOMAIN Records(s) : s \in Carriers(k) /\ current[k] = Records(s)[k]
  BY <1>4, <1>6 DEF Says, Carriers
<1>12. NewestWins'
  BY <1>1, <1>3, <1>8, <1>10, <1>11, NewestCompletes
<1>13. PresenceFollows'
  <2> SUFFICES ASSUME NEW x \in Complete(snaps) \cup {s}, NEW source \in snaps[x].done,
                      \A y \in DOMAIN snaps : source \in snaps[y].done => Acquired(y) <= Acquired(x)
               PROVE  /\ OfSource(DOMAIN Records(x), source) \subseteq active
                      /\ \A k \in OfSource(active \ LooseKeys, source) :
                           \E n \in Carriers(k) : Acquired(n) >= Acquired(x)
    BY <1>3, <1>4, <1>8, <1>10, ZenonT(30) DEF PresenceFollows, Complete
  <2>1. CASE x = s
    <3>1. source \in Sources(s)
      BY <1>1, <1>4, <2>1 DEF Accounts
    <3>2. OfSource(active, source) = OfSource(DOMAIN Records(s), source)
      BY <1>6, <3>1
    <3>3. ASSUME NEW k \in OfSource(active \ LooseKeys, source)
          PROVE  s \in Carriers(k) /\ Acquired(s) >= Acquired(s)
      BY <1>10, <1>11, <3>2 DEF OfSource
    <3> QED
      BY <2>1, <3>2, <3>3 DEF OfSource
  <2>2. CASE x # s
    BY <1>1, <2>2 DEF PresenceFollows
  <2> QED
    BY <2>1, <2>2
<1>14. Reconciled'
  BY <1>1, <1>3, <1>7, <1>9, OneRun DEF Reconciled
<1> QED
  BY <1>12, <1>13, <1>14

\* So has a delta.
LEMMA DeltaTells ==
  ASSUME Alone, WellFed, NewestInv, NEW p \in Procs, CompleteDelta(p)
  PROVE  Reconciled' /\ NewestWins' /\ PresenceFollows'
<1> DEFINE d == proc[p].feed
<1>1. /\ Recorded /\ Registered /\ Commanded /\ Tables /\ Told(proc[p]) /\ Reconciled
      /\ Accounts(snaps) /\ Accounts(deltas) /\ Datable(snaps) /\ Datable(deltas)
      /\ NewestWins /\ PresenceFollows
  BY DEF NewestInv, Inv, Recorded, Reconciled
<1>2. deltas \in [DOMAIN deltas -> Entry] /\ DOMAIN deltas \subseteq Deltas
  BY <1>1 DEF Tables
<1>3. /\ proc[p].pc = "complete" /\ proc[p].command = "delta" /\ End(p)
      /\ Accounted(deltas, d) /\ deltas' = WithStatus(deltas, d)
      /\ UNCHANGED <<snaps, current, active>>
  BY DEF CompleteDelta, WithStatus
<1>4. d \in DOMAIN deltas
  BY <1>1, <1>3 DEF Registered, Applying
<1>5. d \in Preparing => Says(d, DOMAIN Records(d), deltas[d].seen)
  BY <1>1, <1>3 DEF Told, Applying
<1>6. Told(proc[p])'
  <2>1. proc'[p].pc = "idle"
    BY <1>1, <1>3 DEF End, Idle, Commanded
  <2> QED
    BY <2>1, NothingToTell DEF Applying
<1> HIDE DEF d
<1>7. /\ DOMAIN deltas' = DOMAIN deltas
      /\ \A x \in DOMAIN deltas : deltas'[x].seen = deltas[x].seen /\ deltas'[x].done = deltas[x].done
      /\ Complete(deltas)' = Complete(deltas) \cup {d}
  BY <1>2, <1>3, <1>4, CompletedTable
<1>8. Accounts(deltas') /\ Datable(deltas')
  <2>1. Accounts(deltas')
    BY <1>1, <1>2, <1>3, <1>4, StatusAccounts
  <2>2. Datable(deltas')
    BY <1>1, <1>7 DEF Datable
  <2> QED
    BY <2>1, <2>2
<1>9. /\ Complete(snaps)' = Complete(snaps) /\ \A k : Carriers(k)' = Carriers(k)
      /\ Acquired(d) \in Int
  BY <1>2, <1>3, <1>4, <1>7, FeedAssumption DEF Carriers, Acquired
<1>10. NewestWins'
  <2>1. CASE d \in Preparing
    <3>1. \A k \in DOMAIN Records(d) : d \in Carriers(k) /\ current[k] = Records(d)[k]
      BY <1>4, <1>5, <2>1 DEF Says, Carriers
    <3> QED
      BY <1>1, <1>3, <1>7, <1>9, <3>1, NewestCompletes
  <2>2. CASE d \notin Preparing
    <3>1. d \in Complete(deltas)
      BY <1>2, <1>4, <2>2 DEF Preparing, Complete, Entry
    <3> QED
      BY <1>1, <1>3, <1>7, <1>9, <3>1 DEF NewestWins
  <2> QED
    BY <2>1, <2>2
<1>11. PresenceFollows'
  BY <1>1, <1>3, <1>9 DEF PresenceFollows
<1>12. Reconciled'
  BY <1>1, <1>3, <1>6, <1>8, OneRun DEF Reconciled
<1> QED
  BY <1>10, <1>11, <1>12

\* A snapshot that SnapshotOrder lets in beside one of the same time has its records.
LEMMA SameTimeSameRecords ==
  ASSUME WellFed, Recorded, Reconciled, NEW s \in Snapshots, NEW source \in Sources(s),
         SnapshotOrder(s, source), NEW x \in DOMAIN snaps, source \in snaps[x].done,
         Acquired(s) <= Acquired(x)
  PROVE  OfSource(DOMAIN Records(x), source) = OfSource(DOMAIN Records(s), source)
<1>1. \A m \in Snapshots : Acquired(m) \in Int /\ Feed[m].acquired.text \in Int
  BY FeedAssumption DEF Acquired
<1>2. DOMAIN snaps \subseteq Snapshots
  BY DEF Recorded, Tables
<1>3. \A m \in DOMAIN snaps : source \in snaps[m].done => source \in Sources(m)
  BY DEF Reconciled, Accounts
<1>4. CASE x = s
  BY <1>4
<1>5. CASE x # s
  <2> DEFINE ms == {y \in DOMAIN snaps \ {s} : source \in snaps[y].done}
  <2>1. x \in ms /\ ms \in SUBSET DOMAIN snaps
    BY <1>5
  <2>2. PICK l \in Latest(ms) : TRUE
    BY <2>1 DEF Reconciled, Datable
  <2>3. l \in ms /\ Feed[x].acquired.text <= Feed[l].acquired.text
    BY <2>1, <2>2, LatestOf
  <2>4. Acquired(x) <= Acquired(l)
    BY <1>2, <2>3 DEF WellFed, DatedAlike
  <2>5. Acquired(s) >= Acquired(l) /\ (Acquired(s) = Acquired(l) => Feed[s].artifact = Feed[l].artifact)
    BY <2>2 DEF SnapshotOrder, Acquired
  <2>6. Acquired(s) = Acquired(l) /\ Acquired(l) <= Acquired(x)
    BY <1>1, <1>2, <2>3, <2>4, <2>5
  <2>7. Feed[l].acquired.text <= Feed[x].acquired.text
    BY <1>2, <2>3, <2>6 DEF WellFed, DatedAlike
  <2>8. Feed[l].acquired.text = Feed[x].acquired.text
    BY <1>1, <1>2, <2>3, <2>7
  <2>9. Feed[l].ecosystem = Feed[x].ecosystem /\ Feed[s].ecosystem = Feed[x].ecosystem
    <3>1. source \in Sources(l) \cap Sources(x) /\ source \in Sources(s) \cap Sources(x)
      BY <1>3, <2>3
    <3>2. Sources(l) \cap Sources(x) # {} /\ Sources(s) \cap Sources(x) # {}
      BY <3>1
    <3> QED
      BY <1>2, <2>3, <3>2 DEF WellFed, SourcesAreSeparate
  <2>10. Feed[l].artifact = Feed[x].artifact
    BY <1>2, <2>3, <2>8, <2>9, FeedAssumption
  <2>11. Feed[s].artifact = Feed[x].artifact
    BY <2>5, <2>6, <2>10
  <2>12. source \in Sources(x) \cap Sources(s)
    BY <1>3
  <2> QED
    BY <1>2, <2>9, <2>11, <2>12 DEF WellFed, ArchivesAgree
<1> QED
  BY <1>4, <1>5

\* A source of a snapshot that is done has the records of the snapshot and no others.
LEMMA SourceTells ==
  ASSUME Alone, WellFed, NewestInv, NEW p \in Procs, CompleteSnapshotSource(p)
  PROVE  Reconciled' /\ NewestWins' /\ PresenceFollows'
<1> DEFINE s == proc[p].feed
           source == proc[p].source
<1>1. /\ Recorded /\ Registered /\ Commanded /\ Tables /\ Told(proc[p]) /\ Reconciled
      /\ Accounts(snaps) /\ Accounts(deltas) /\ Datable(snaps) /\ Datable(deltas)
      /\ NewestWins /\ PresenceFollows
  BY DEF NewestInv, Inv, Recorded, Reconciled
<1>2. snaps \in [DOMAIN snaps -> Entry] /\ DOMAIN snaps \subseteq Snapshots
  BY <1>1 DEF Tables
<1>3. /\ proc[p].pc = "source" /\ proc[p].command = "snapshot" /\ AfterSource(p)
      /\ SnapshotOrder(s, source) /\ Whole(snaps, s, source)
      /\ active' = Presence(s, source) /\ snaps' = WithDone(snaps, s, {source})
      /\ UNCHANGED <<deltas, current>>
  BY DEF CompleteSnapshotSource, WithDone
<1>4. s \in DOMAIN snaps
  BY <1>1, <1>3 DEF Registered, Applying
<1>5. source \in Sources(s)
  BY <1>1, <1>3 DEF Told, Applying
<1>6. /\ proc'[p].left = proc[p].left /\ proc'[p].feed = s /\ proc'[p].command = "snapshot"
      /\ proc'[p].pc \in {"batch-check", "complete"} /\ proc'[p].source \in Sources(s)
      /\ proc'[p].pc = "complete" => proc'[p].left = {}
  BY <1>1, <1>3, <1>5, AfterSourceDoes
<1>7. \A other \in Finished(proc'[p]) : other = source \/ other \in Finished(proc[p])
  BY <1>6 DEF Finished
<1>8. /\ Says(s, DOMAIN Records(s) \ proc[p].left, snaps[s].seen)
      /\ \A other \in Finished(proc[p]) : OfSource(active, other) = OfSource(DOMAIN Records(s), other)
  BY <1>1, <1>3 DEF Told, Applying
<1> HIDE DEF s, source
<1>9. /\ DOMAIN snaps' = DOMAIN snaps
      /\ \A x \in DOMAIN snaps \ {s} : snaps'[x] = snaps[x]
      /\ snaps'[s].seen = snaps[s].seen /\ snaps'[s].status = snaps[s].status
      /\ snaps'[s].done = snaps[s].done \cup {source}
  <2>1. DOMAIN snaps' = DOMAIN snaps /\ \A x \in DOMAIN snaps \ {s} : snaps'[x] = snaps[x]
    BY <1>3 DEF WithDone
  <2>2. /\ snaps'[s].seen = snaps[s].seen /\ snaps'[s].status = snaps[s].status
        /\ snaps'[s].done = snaps[s].done \cup {source}
    BY <1>2, <1>3, <1>4, DoneField
  <2> QED
    BY <2>1, <2>2
<1>10. Accounts(snaps') /\ Datable(snaps')
  <2>1. Accounts(snaps')
    BY <1>1, <1>2, <1>3, <1>4, <1>5, DoneAccounts
  <2>2. Datable(snaps')
    BY <1>1, <1>9 DEF Datable
  <2> QED
    BY <2>1, <2>2
<1>11. /\ Complete(snaps)' = Complete(snaps) /\ Complete(deltas)' = Complete(deltas)
       /\ \A k : Carriers(k)' = Carriers(k)
  <2>1. \A x \in DOMAIN snaps : snaps'[x].seen = snaps[x].seen /\ snaps'[x].status = snaps[x].status
    BY <1>9
  <2> QED
    BY <1>3, <1>9, <2>1 DEF Complete, Carriers
<1>12. \A k \in active' : SourceOf[k] = source => k \in DOMAIN Records(s) /\ s \in Carriers(k)
  BY <1>3, <1>4 DEF Presence, Whole, OfSource, Carriers
<1>13. OfSource(active', source) = OfSource(DOMAIN Records(s), source)
  BY <1>3 DEF Presence, Whole, OfSource
<1>14. \A other : other # source => OfSource(active', other) = OfSource(active, other)
  BY <1>3 DEF Presence, OfSource
<1>15. NewestWins'
  BY <1>1, <1>3, <1>11 DEF NewestWins
<1>16. PresenceFollows'
  <2> SUFFICES ASSUME NEW x \in Complete(snaps), NEW other \in snaps'[x].done,
                      \A y \in DOMAIN snaps : other \in snaps'[y].done => Acquired(y) <= Acquired(x)
               PROVE  /\ OfSource(DOMAIN Records(x), other) \subseteq active'
                      /\ \A k \in OfSource(active' \ LooseKeys, other) :
                           \E n \in Carriers(k) : Acquired(n) >= Acquired(x)
    BY <1>9, <1>11 DEF PresenceFollows
  <2>1. x \in DOMAIN snaps /\ other \in snaps[x].done
    <3>1. x \in DOMAIN snaps /\ snaps[x].done = Sources(x)
      BY <1>1 DEF Complete, Accounts
    <3> QED
      BY <1>5, <1>9, <3>1
  <2>2. CASE other = source
    <3>1. Acquired(s) <= Acquired(x)
      BY <1>4, <1>9, <2>2
    <3>2. OfSource(DOMAIN Records(x), source) = OfSource(DOMAIN Records(s), source)
      BY <1>1, <1>2, <1>3, <1>4, <1>5, <2>1, <2>2, <3>1, SameTimeSameRecords
    <3>3. Acquired(x) <= Acquired(s)
      BY <1>1, <1>2, <1>3, <1>4, <2>1, <2>2, SnapshotIsNewest
    <3>4. Acquired(s) >= Acquired(x)
      BY <1>2, <1>4, <2>1, <3>3, FeedAssumption DEF Acquired
    <3>5. \A k \in OfSource(active' \ LooseKeys, source) : s \in Carriers(k)
      BY <1>12 DEF OfSource
    <3>6. OfSource(DOMAIN Records(s), source) \subseteq active'
      BY <1>13 DEF OfSource
    <3> QED
      BY <2>2, <3>2, <3>4, <3>5, <3>6
  <2>3. CASE other # source
    <3>1. \A y \in DOMAIN snaps : other \in snaps[y].done => Acquired(y) <= Acquired(x)
      BY <1>9
    <3>2. /\ OfSource(DOMAIN Records(x), other) \subseteq active
          /\ \A k \in OfSource(active \ LooseKeys, other) :
               \E n \in Carriers(k) : Acquired(n) >= Acquired(x)
      BY <1>1, <2>1, <3>1 DEF PresenceFollows
    <3>3. OfSource(active', other) = OfSource(active, other)
      BY <1>14, <2>3
    <3>4. OfSource(DOMAIN Records(x), other) \subseteq active'
      BY <3>2, <3>3 DEF OfSource
    <3>5. \A k \in OfSource(active' \ LooseKeys, other) : k \in OfSource(active \ LooseKeys, other)
      BY <3>3 DEF OfSource
    <3> QED
      BY <3>2, <3>4, <3>5
  <2> QED
    BY <2>2, <2>3
<1>17. Told(proc[p])'
  <2>1. \A other \in Finished(proc'[p]) : OfSource(active', other) = OfSource(DOMAIN Records(s), other)
    <3> TAKE other \in Finished(proc'[p])
    <3>1. CASE other = source
      BY <1>13, <3>1
    <3>2. CASE other # source
      BY <1>7, <1>8, <1>14, <3>2
    <3> QED
      BY <3>1, <3>2
  <2> QED
    BY <1>3, <1>6, <1>8, <1>9, <2>1 DEF Told, Says
<1>18. Reconciled'
  BY <1>1, <1>3, <1>10, <1>17, OneRun DEF Reconciled
<1> QED
  BY <1>15, <1>16, <1>18

\* An empty catalog has nothing to reconcile.
LEMMA NewestInit ==
  ASSUME Init
  PROVE  NewestInv
<1>1. Inv
  BY InitInv
<1>2. /\ DOMAIN snaps = {} /\ DOMAIN deltas = {} /\ DOMAIN current = {}
      /\ proc = [p \in Procs |-> Idle]
  BY DEF Init
<1>3. Accounts(snaps) /\ Accounts(deltas) /\ Datable(snaps) /\ Datable(deltas)
  BY <1>2 DEF Accounts, Datable
<1>4. \A p \in Procs : Told(proc[p])
  BY <1>2 DEF Told, Idle, Applying
<1>5. NewestWins
  BY <1>2 DEF NewestWins
<1>6. PresenceFollows
  BY <1>2 DEF PresenceFollows, Complete
<1> QED
  BY <1>1, <1>3, <1>4, <1>5, <1>6 DEF NewestInv, Reconciled

\* Every step of the one process keeps what is told.
LEMMA NewestInductive ==
  ASSUME Alone, WellFed, NewestInv, [Next]_vars
  PROVE  NewestInv'
<1>1. Inv'
  BY InvInductive DEF NewestInv
<1>2. CASE UNCHANGED vars
  <2>1. Reconciled'
    BY <1>2 DEF NewestInv, Reconciled, Accounts, Datable, Told, Says, Finished, Preparing, vars
  <2>2. /\ UNCHANGED <<current, active, snaps>> /\ Complete(snaps)' = Complete(snaps)
        /\ Complete(deltas)' = Complete(deltas) /\ \A k : Carriers(k)' = Carriers(k)
    BY <1>2 DEF Complete, Carriers, vars
  <2>3. NewestWins' /\ PresenceFollows'
    BY <2>2 DEF NewestInv, NewestWins, PresenceFollows
  <2> QED
    BY <1>1, <2>1, <2>3 DEF NewestInv
<1>3. ASSUME NEW p \in Procs, Command(p) \/ Step(p) \/ Abort(p)
      PROVE  Reconciled' /\ NewestWins' /\ PresenceFollows'
  <2>1. CASE \/ Command(p) \/ Check(p) \/ ReplayBatch(p) \/ CopyBackup(p) \/ Abort(p)
             \/ RebuildIndex(p) \/ PublishBackup(p)
    BY <2>1, OtherStepsTell
  <2>2. CASE RegisterSnapshot(p) \/ RegisterDelta(p)
    BY <2>2, RegistrationTells
  <2>3. CASE SnapshotBatch(p)
    BY <2>3, SnapshotBatchTells
  <2>4. CASE DeltaBatch(p)
    BY <2>4, DeltaBatchTells
  <2>5. CASE LooseBatch(p)
    BY <2>5, LooseBatchTells
  <2>6. CASE CompleteSnapshotSource(p)
    BY <2>6, SourceTells
  <2>7. CASE CompleteDeltaSource(p)
    BY <2>7, DeltaSourceTells
  <2>8. CASE CompleteSnapshot(p)
    BY <2>8, SnapshotTells
  <2>9. CASE CompleteDelta(p)
    BY <2>9, DeltaTells
  <2> QED
    BY <1>3, <2>1, <2>2, <2>3, <2>4, <2>5, <2>6, <2>7, <2>8, <2>9 DEF Step
<1> QED
  BY <1>1, <1>2, <1>3 DEF NewestInv, Next

\* The invariant that the two properties of one process follow from.
LEMMA NewestHolds == Alone /\ WellFed => (Spec => []NewestInv)
<1>1. Init => NewestInv
  BY NewestInit
<1>2. Alone /\ WellFed /\ NewestInv /\ [Next]_vars => NewestInv'
  BY NewestInductive
<1> SUFFICES ASSUME Alone, WellFed PROVE Spec => []NewestInv
  OBVIOUS
<1>3. NewestInv /\ [Next]_vars => NewestInv'
  BY <1>2
<1> QED
  BY <1>1, <1>3, PTL DEF Spec

\* If one process runs at a time and the manifests are well fed, what a complete manifest
\* says of a record is only replaced by what a manifest acquired no earlier says: the
\* order checks of the batches block every older artifact.
THEOREM NewestRecordsWin == Alone /\ WellFed => (Spec => []NewestWins)
<1>1. NewestInv => NewestWins
  BY DEF NewestInv
<1> SUFFICES ASSUME Alone, WellFed PROVE Spec => []NewestWins
  OBVIOUS
<1>2. Spec => []NewestInv
  BY NewestHolds
<1> QED
  BY <1>1, <1>2, PTL

\* If one process runs at a time and the manifests are well fed, the newest complete
\* snapshot of a source decides which of its records are present, but for those that a
\* manifest acquired no earlier brought (complete_snapshot_source).
THEOREM SnapshotsDecidePresence == Alone /\ WellFed => (Spec => []PresenceFollows)
<1>1. NewestInv => PresenceFollows
  BY DEF NewestInv
<1> SUFFICES ASSUME Alone, WellFed PROVE Spec => []PresenceFollows
  OBVIOUS
<1>2. Spec => []NewestInv
  BY NewestHolds
<1> QED
  BY <1>1, <1>2, PTL
=============================================================================
