-------------------------- MODULE AdvisoryCatalog --------------------------
(***************************************************************************)
(* The local advisory catalog: one SQLite database that command-line       *)
(* processes fill from snapshot manifests, incremental delta manifests and *)
(* loose OSV trees, re-index and back up (knowledge/src/catalog.rs and the *)
(* catalog-* commands of the CLI).                                         *)
(*                                                                         *)
(* One transaction is one step: Immediate transactions are serial, and a   *)
(* process that dies inside one leaves nothing of it.  A command is a      *)
(* sequence of transactions; the checks that precede a transaction         *)
(* (ensure_no_preparing_delta, ensure_search_index_ready) read the         *)
(* database before it is locked and are steps of their own.                *)
(*                                                                         *)
(* Feed describes the manifests, which their identifiers name:             *)
(*   snapshot  ecosystem, acquired, artifact, quarantined, records         *)
(*   delta     ecosystem, acquired, base, previous, after, through,        *)
(*             quarantined, records                                        *)
(*   loose     records                                                     *)
(* (AdvisorySources says how they are prepared).  `records` maps record    *)
(* keys to versions; a time of acquisition is [at, text]: the instant, and *)
(* the rank of its text, which is what the ORDER BY clauses compare.       *)
(***************************************************************************)
EXTENDS Integers, FiniteSets

CONSTANTS
  Procs,      \* command-line processes
  Snapshots,  \* snapshot manifests that may be imported
  Deltas,     \* delta manifests that may be imported
  Loose,      \* OSV trees imported without a manifest
  Feed,       \* manifest -> what it says
  SourceOf,   \* record key -> the source it belongs to
  NoDelta,    \* the previous delta of a first delta
  NoFeed      \* the manifest of a command that has none

Keys == DOMAIN SourceOf
Records(m) == Feed[m].records
Sources(m) == {SourceOf[k] : k \in DOMAIN Records(m)}
OfSource(ks, source) == {k \in ks : SourceOf[k] = source}

\* Manifests name at least one record and only known keys; two artifacts of an
\* ecosystem are not acquired at the same time.  Times are whole numbers.
ASSUME FeedAssumption ==
  /\ \A m \in Snapshots \cup Deltas \cup Loose :
       DOMAIN Records(m) # {} /\ DOMAIN Records(m) \subseteq Keys
  /\ \A d \in Deltas : Feed[d].base \in Snapshots
  /\ \A m \in Snapshots \cup Deltas : Feed[m].acquired.at \in Int /\ Feed[m].acquired.text \in Int
  /\ \A s, t \in Snapshots :
       Feed[s].ecosystem = Feed[t].ecosystem /\ Feed[s].acquired.text = Feed[t].acquired.text
         => Feed[s].artifact = Feed[t].artifact
  /\ NoDelta \notin Deltas /\ NoFeed \notin Snapshots \cup Deltas \cup Loose

VARIABLES
  snaps,    \* registered snapshot -> status, records seen, sources completed
  deltas,   \* registered delta -> the same
  current,  \* record key -> current version
  active,   \* keys that count as present
  fts,      \* record key -> the version the full-text index holds
  index,    \* search_index_status
  backups,  \* deltas still preparing in each published backup
  proc      \* the command each process is running

vars == <<snaps, deltas, current, active, fts, index, backups, proc>>

Idle == [pc |-> "idle", command |-> "none", feed |-> NoFeed, left |-> {},
         source |-> "none", copy |-> {}]

New == [status |-> "preparing", seen |-> {}, done |-> {}]
Register(table, m) ==
  [x \in DOMAIN table \cup {m} |-> IF x \in DOMAIN table THEN table[x] ELSE New]

Preparing == {d \in DOMAIN deltas : deltas[d].status = "preparing"}
Complete(table) == {m \in DOMAIN table : table[m].status = "complete"}

Goto(p, pc) == proc' = [proc EXCEPT ![p].pc = pc]
End(p) == proc' = [proc EXCEPT ![p] = Idle]

\* Sources come in the fixed order of the manifest.
NextSource(left) == CHOOSE s \in {SourceOf[k] : k \in left} : TRUE

Start(p, command, m, pc) ==
  /\ proc[p] = Idle
  /\ LET left == IF m = NoFeed THEN {} ELSE DOMAIN Records(m) IN
     proc' = [proc EXCEPT ![p] = [pc |-> pc, command |-> command, feed |-> m, left |-> left,
                 source |-> IF left = {} THEN "none" ELSE NextSource(left), copy |-> {}]]
  /\ UNCHANGED <<snaps, deltas, current, active, fts, index, backups>>

\* catalog-import-snapshot, catalog-import-delta, catalog-import-osv,
\* catalog-rebuild-index and catalog-backup.
Command(p) ==
  \/ \E s \in Snapshots : Start(p, "snapshot", s, "register-check")
  \/ \E d \in Deltas : Start(p, "delta", d, "register")
  \/ \E l \in Loose : Start(p, "osv", l, "batch-check")
  \/ Start(p, "index", NoFeed, "index-check")
  \/ Start(p, "backup", NoFeed, "backup-check")

Init ==
  /\ snaps = [s \in {} |-> New] /\ deltas = [d \in {} |-> New]
  /\ current = [k \in {} |-> 0] /\ fts = [k \in {} |-> 0]
  /\ active = {} /\ index = "ready" /\ backups = {}
  /\ proc = [p \in Procs |-> Idle]

(***************************************************************************)
(* Order.                                                                  *)
(***************************************************************************)

\* The row that ORDER BY acquired_at DESC LIMIT 1 returns.
Latest(ms) == {m \in ms : \A n \in ms : Feed[n].acquired.text <= Feed[m].acquired.text}

\* Mutant: the deltas applied since the base snapshot are not looked at.
SnapshotsOnly(s, source) ==
  \A x \in Latest({x \in DOMAIN snaps \ {s} : source \in snaps[x].done}) :
    /\ Feed[s].acquired.at >= Feed[x].acquired.at
    /\ Feed[s].acquired.at = Feed[x].acquired.at => Feed[s].artifact = Feed[x].artifact

\* A snapshot is not older than what its source last completed: another artifact of
\* the same time is refused, and so is anything up to the last complete delta.
SnapshotOrder(s, source) ==
  /\ \A x \in Latest({x \in DOMAIN snaps \ {s} : source \in snaps[x].done}) :
       /\ Feed[s].acquired.at >= Feed[x].acquired.at
       /\ Feed[s].acquired.at = Feed[x].acquired.at => Feed[s].artifact = Feed[x].artifact
  /\ \A d \in Latest({d \in Complete(deltas) : source \in deltas[d].done}) :
       Feed[s].acquired.at > Feed[d].acquired.at

OfEcosystem(ms, d) == {m \in ms : Feed[m].ecosystem = Feed[d].ecosystem}

\* The base is complete and still describes the newest complete snapshot.
BaseIsNewest(d) ==
  LET base == Feed[d].base IN
  /\ base \in OfEcosystem(Complete(snaps), d)
  /\ \A s \in Latest(OfEcosystem(Complete(snaps), d)) :
       /\ Feed[s].acquired = Feed[base].acquired
       /\ Feed[s].artifact = Feed[base].artifact

\* No other delta of the ecosystem is being prepared.
NoOtherPreparing(d) == OfEcosystem(Preparing \ {d}, d) = {}

\* Mutant: the delta follows the one it names, whether or not that one is the last.
FollowsNamed(d) ==
  Feed[d].previous # NoDelta =>
    /\ Feed[d].previous \in Complete(deltas)
    /\ Feed[d].after = Feed[Feed[d].previous].through
    /\ Feed[d].acquired.at > Feed[Feed[d].previous].acquired.at

\* The delta continues the last complete one, or starts over on a newer snapshot.
Continues(d) ==
  LET this == Feed[d]
      base == Feed[Feed[d].base]
      last == Latest(OfEcosystem(Complete(deltas) \ {d}, d))
  IN
  /\ last = {} => /\ this.previous = NoDelta
                  /\ this.after <= base.acquired.at
                  /\ this.acquired.at >= base.acquired.at
  /\ \A e \in last :
       IF Feed[e].base = this.base
       THEN /\ this.previous = e
            /\ this.after = Feed[e].through
            /\ this.acquired.at > Feed[e].acquired.at
       ELSE /\ this.previous = NoDelta
            /\ base.acquired.at > Feed[e].acquired.at

DeltaOrder(d) ==
  d \notin Complete(deltas) => BaseIsNewest(d) /\ NoOtherPreparing(d) /\ Continues(d)

\* A delta record is inside the cursor and never older than the current one; the
\* same time means the same content.
RecordOrder(d, k) ==
  LET v == Records(d)[k] IN
  /\ Feed[d].after < v.modified /\ v.modified <= Feed[d].through
  /\ k \in DOMAIN current =>
       /\ v.modified >= current[k].modified
       /\ v.modified = current[k].modified => v = current[k]

\* What a manifest says of itself before it is registered: it has records, and a
\* delta's cursor is an interval that was over when the delta was acquired.
SnapshotIsDescribed(s) == DOMAIN Records(s) # {}
DeltaIsDescribed(d) ==
  /\ DOMAIN Records(d) # {}
  /\ Feed[d].after < Feed[d].through /\ Feed[d].through <= Feed[d].acquired.at

(***************************************************************************)
(* Checks made before a transaction is opened.                             *)
(***************************************************************************)

Checked(p, from, to) ==
  /\ proc[p].pc = from
  /\ Preparing = {}
  /\ Goto(p, to)
  /\ UNCHANGED <<snaps, deltas, current, active, fts, index, backups>>

\* A deferred batch needs that no delta is being prepared, a delta batch that the
\* index is ready.
CheckBatch(p) ==
  /\ proc[p].pc = "batch-check"
  /\ IF proc[p].command = "delta" THEN index = "ready" ELSE Preparing = {}
  /\ Goto(p, "batch")
  /\ UNCHANGED <<snaps, deltas, current, active, fts, index, backups>>

Check(p) ==
  \/ Checked(p, "register-check", "register")
  \/ CheckBatch(p)
  \/ Checked(p, "index-check", "index")
  \/ Checked(p, "backup-check", "copy")

(***************************************************************************)
(* Transactions.                                                           *)
(***************************************************************************)

RegisterSnapshot(p) ==
  /\ proc[p].pc = "register" /\ proc[p].command = "snapshot"
  /\ SnapshotIsDescribed(proc[p].feed)
  /\ snaps' = Register(snaps, proc[p].feed)
  /\ Goto(p, "batch-check")
  /\ UNCHANGED <<deltas, current, active, fts, index, backups>>

\* A delta with quarantined payloads is refused; the order is checked in the
\* transaction that inserts the delta.
RegisterDelta(p) ==
  /\ proc[p].pc = "register" /\ proc[p].command = "delta"
  /\ DeltaIsDescribed(proc[p].feed) /\ Feed[proc[p].feed].quarantined = 0
  /\ DeltaOrder(proc[p].feed)
  /\ deltas' = Register(deltas, proc[p].feed)
  /\ Goto(p, "batch-check")
  /\ UNCHANGED <<snaps, current, active, fts, index, backups>>

\* The records of a batch become current and active.
Store(m, batch) ==
  /\ current' = [k \in DOMAIN current \cup batch |->
                   IF k \in batch THEN Records(m)[k] ELSE current[k]]
  /\ active' = active \cup batch

Changed(m, batch) ==
  {k \in batch : k \notin DOMAIN current \/ current[k] # Records(m)[k]}

\* Row by row, for what changed and for what comes back unchanged.
Reindex(m, batch) ==
  LET rows == Changed(m, batch) \cup (batch \ active) IN
  fts' = [k \in DOMAIN fts \cup rows |-> IF k \in rows THEN Records(m)[k] ELSE fts[k]]

\* After a batch the command goes on with the source, or completes it.
Advance(p, batch) ==
  LET left == proc[p].left \ batch
      pc == IF OfSource(left, proc[p].source) # {} THEN "batch-check"
            ELSE IF proc[p].command # "osv" THEN "source"
            ELSE IF left # {} THEN "batch-check" ELSE "index-check"
  IN proc' = [proc EXCEPT ![p].left = left, ![p].pc = pc,
                          ![p].source = IF pc = "batch-check" THEN NextSource(left) ELSE @]

Batches(p) == SUBSET OfSource(proc[p].left, proc[p].source) \ {{}}

\* Deferred: the full-text rows are left as they are and the index becomes dirty.
SnapshotBatch(p) ==
  /\ proc[p].pc = "batch" /\ proc[p].command = "snapshot"
  /\ SnapshotOrder(proc[p].feed, proc[p].source)
  /\ \E batch \in Batches(p) :
       /\ snaps' = [snaps EXCEPT ![proc[p].feed].seen = @ \cup batch]
       /\ Store(proc[p].feed, batch)
       /\ Advance(p, batch)
  /\ index' = "dirty"
  /\ UNCHANGED <<deltas, fts, backups>>

LooseBatch(p) ==
  /\ proc[p].pc = "batch" /\ proc[p].command = "osv"
  /\ \E batch \in Batches(p) : Store(proc[p].feed, batch) /\ Advance(p, batch)
  /\ index' = "dirty"
  /\ UNCHANGED <<snaps, deltas, fts, backups>>

\* A complete delta is only compared with what it stored.
ReplayBatch(p) ==
  /\ proc[p].pc = "batch" /\ proc[p].command = "delta"
  /\ proc[p].feed \in Complete(deltas)
  /\ \E batch \in Batches(p) : Advance(p, batch)
  /\ UNCHANGED <<snaps, deltas, current, active, fts, index, backups>>

DeltaBatch(p) ==
  /\ proc[p].pc = "batch" /\ proc[p].command = "delta"
  /\ proc[p].feed \in Preparing
  /\ DeltaOrder(proc[p].feed)
  /\ \E batch \in Batches(p) :
       /\ \A k \in batch : RecordOrder(proc[p].feed, k)
       /\ deltas' = [deltas EXCEPT ![proc[p].feed].seen = @ \cup batch]
       /\ Store(proc[p].feed, batch)
       /\ Reindex(proc[p].feed, batch)
       /\ Advance(p, batch)
  /\ UNCHANGED <<snaps, index, backups>>

Whole(table, m, source) ==
  OfSource(table[m].seen, source) = OfSource(DOMAIN Records(m), source)

AfterSource(p) ==
  proc' = [proc EXCEPT ![p].pc = IF proc[p].left = {} THEN "complete" ELSE "batch-check",
                       ![p].source = IF proc[p].left = {} THEN @ ELSE NextSource(proc[p].left)]

\* Mutant: absent records are deactivated without a word to the index.
DeactivateQuietly(index0) == index0

\* Presence changed, so the index is out of date.
IndexAfterPresence(index0) == "dirty"

\* Mutant: a record counts as present once it was seen.
PresenceKept(s, source) == active

\* Of the source, what the snapshot carries is present and nothing else.
Presence(s, source) ==
  (active \ OfSource(active, source)) \cup OfSource(snaps[s].seen, source)

\* A source whose records all arrived: what the snapshot lacks is deactivated.
CompleteSnapshotSource(p) ==
  /\ proc[p].pc = "source" /\ proc[p].command = "snapshot"
  /\ LET s == proc[p].feed
         source == proc[p].source
     IN /\ SnapshotOrder(s, source)
        /\ Whole(snaps, s, source)
        /\ active' = Presence(s, source)
        /\ snaps' = [snaps EXCEPT ![s].done = @ \cup {source}]
  /\ index' = IndexAfterPresence(index)
  /\ AfterSource(p)
  /\ UNCHANGED <<deltas, current, fts, backups>>

CompleteDeltaSource(p) ==
  /\ proc[p].pc = "source" /\ proc[p].command = "delta"
  /\ LET d == proc[p].feed IN
     /\ DeltaOrder(d)
     /\ Whole(deltas, d, proc[p].source)
     /\ deltas' = IF d \in Preparing
                  THEN [deltas EXCEPT ![d].done = @ \cup {proc[p].source}] ELSE deltas
  /\ AfterSource(p)
  /\ UNCHANGED <<snaps, current, active, fts, index, backups>>

Accounted(table, m) ==
  /\ table[m].seen = DOMAIN Records(m)
  /\ {SourceOf[k] : k \in table[m].seen} \subseteq table[m].done

\* Counts are reconciled; the order is not checked again.
CompleteSnapshot(p) ==
  /\ proc[p].pc = "complete" /\ proc[p].command = "snapshot"
  /\ Accounted(snaps, proc[p].feed)
  /\ snaps' = [snaps EXCEPT ![proc[p].feed].status = "complete"]
  /\ Goto(p, "index-check")
  /\ UNCHANGED <<deltas, current, active, fts, index, backups>>

CompleteDelta(p) ==
  /\ proc[p].pc = "complete" /\ proc[p].command = "delta"
  /\ DeltaOrder(proc[p].feed)
  /\ Accounted(deltas, proc[p].feed)
  /\ deltas' = [deltas EXCEPT ![proc[p].feed].status = "complete"]
  /\ End(p)
  /\ UNCHANGED <<snaps, current, active, fts, index, backups>>

\* Mutant: the rebuilt index is not marked.
IndexUnmarked == index

IndexAfterRebuild == "ready"

RebuildIndex(p) ==
  /\ proc[p].pc = "index"
  /\ fts' = [k \in active |-> current[k]]
  /\ index' = IndexAfterRebuild
  /\ End(p)
  /\ UNCHANGED <<snaps, deltas, current, active, backups>>

\* The online backup copies one consistent state of the database.
CopyBackup(p) ==
  /\ proc[p].pc = "copy"
  /\ proc' = [proc EXCEPT ![p].pc = "verify", ![p].copy = Preparing]
  /\ UNCHANGED <<snaps, deltas, current, active, fts, index, backups>>

\* Mutant: the copy is trusted because the origin was checked.
CopyTrusted(copy) == TRUE

\* The copy is checked for itself before it is published.
CopyVerified(copy) == copy = {}

PublishBackup(p) ==
  /\ proc[p].pc = "verify"
  /\ CopyVerified(proc[p].copy)
  /\ backups' = backups \cup {proc[p].copy}
  /\ End(p)
  /\ UNCHANGED <<snaps, deltas, current, active, fts, index>>

\* A refused check, a failed call, a kill: the command ends between transactions.
Abort(p) ==
  /\ proc[p].pc # "idle"
  /\ End(p)
  /\ UNCHANGED <<snaps, deltas, current, active, fts, index, backups>>

Step(p) ==
  \/ Check(p)
  \/ RegisterSnapshot(p) \/ SnapshotBatch(p) \/ CompleteSnapshotSource(p) \/ CompleteSnapshot(p)
  \/ RegisterDelta(p) \/ DeltaBatch(p) \/ ReplayBatch(p)
  \/ CompleteDeltaSource(p) \/ CompleteDelta(p)
  \/ LooseBatch(p) \/ RebuildIndex(p)
  \/ CopyBackup(p) \/ PublishBackup(p)

Next == \E p \in Procs : Command(p) \/ Step(p) \/ Abort(p)

Spec == Init /\ [][Next]_vars

(***************************************************************************)
(* Properties.                                                             *)
(***************************************************************************)

\* While the search index calls itself ready it holds exactly the active records
\* in their current version, whatever mixture of deferred batches, row-by-row
\* deltas, deactivations and rebuilds ran (search_index_status in catalog.rs).
IndexAgrees == index = "ready" => fts = [k \in active |-> current[k]]

\* Nothing compares a delta that starts over on a newer snapshot with the time of that
\* snapshot, and Latest goes by the text.  A complete chain is well dated if no delta was
\* acquired before its base and the texts are in the order of the instants.
WellDated(ds) ==
  \A d, e \in ds :
    /\ Feed[d].acquired.at >= Feed[Feed[d].base].acquired.at
    /\ Feed[d].acquired.text <= Feed[e].acquired.text => Feed[d].acquired.at <= Feed[e].acquired.at

\* A complete delta that names a previous one continues the cursor of a complete delta,
\* and as long as the complete deltas are well dated they never fork: over one base each
\* follows a different delta (ensure_delta_order).
NoForks ==
  /\ \A d \in Complete(deltas) : Feed[d].previous # NoDelta =>
       /\ Feed[d].previous \in Complete(deltas)
       /\ Feed[d].after = Feed[Feed[d].previous].through
  /\ WellDated(Complete(deltas)) =>
       \A d, e \in Complete(deltas) :
         d # e /\ Feed[d].base = Feed[e].base => Feed[d].previous # Feed[e].previous

\* No published backup holds a delta in preparation (backup_to).
BackupsAreClean == \A copy \in backups : copy = {}

Carriers(k) == {m \in DOMAIN snaps : k \in snaps[m].seen} \cup {m \in DOMAIN deltas : k \in deltas[m].seen}
Acquired(m) == Feed[m].acquired.at
LooseKeys == UNION {DOMAIN Records(l) : l \in Loose}

\* What a complete manifest says of a record is only replaced by what a manifest
\* acquired no earlier says (older artifacts are blocked).
NewestWins ==
  \A k \in DOMAIN current \ LooseKeys : \A m \in Complete(snaps) \cup Complete(deltas) :
    k \in DOMAIN Records(m) =>
      \E n \in Carriers(k) : Acquired(n) >= Acquired(m) /\ current[k] = Records(n)[k]

\* A complete snapshot decides which records of a source are present until a newer
\* one completes that source: its own are, and others only if a manifest acquired no
\* earlier brought them (complete_snapshot_source, import_osv_record_tx).
PresenceFollows ==
  \A s \in Complete(snaps) : \A source \in snaps[s].done :
    (\A x \in DOMAIN snaps : source \in snaps[x].done => Acquired(x) <= Acquired(s)) =>
      /\ OfSource(DOMAIN Records(s), source) \subseteq active
      /\ \A k \in OfSource(active \ LooseKeys, source) :
           \E n \in Carriers(k) : Acquired(n) >= Acquired(s)

\* An interrupted delta can be resumed: its order still holds and its batches are
\* not refused by ensure_delta_order or ensure_search_index_ready (the same manifest
\* can resume idempotently).
PreparingCanResume == \A d \in Preparing : DeltaOrder(d) /\ index = "ready"

\* An operator who keeps running catalog-rebuild-index (rebuild_search_index) gets a
\* searchable catalog back, unless a delta is being prepared.
IndexIsRebuilt == index = "dirty" ~> index = "ready" \/ Preparing # {}

FairSpec ==
  /\ Spec
  /\ \A p \in Procs :
       /\ WF_vars(Abort(p))
       /\ SF_vars(Start(p, "index", NoFeed, "index-check"))
       /\ SF_vars(Checked(p, "index-check", "index"))
       /\ SF_vars(RebuildIndex(p))
=============================================================================
