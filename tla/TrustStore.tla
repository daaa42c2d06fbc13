----------------------------- MODULE TrustStore -----------------------------
(***************************************************************************)
(* The local catalog trust store: one directory holding `lock`,            *)
(* `state.json` and `receipts/`, shared by command-line processes that     *)
(* enroll it, import publisher metadata, verify a bundle against it or     *)
(* install a catalog database (catalog_trust/{mod,consumer,install,        *)
(* storage}.rs and the publication half of catalog_bundle.rs).             *)
(*                                                                         *)
(* Each process runs one command, as the command line does: it takes the   *)
(* store lock, loads the state, works on its copy in memory, and replaces  *)
(* the file at every save.  A save renames a new file over state.json and  *)
(* then syncs the directory; between the two, processes see the new state  *)
(* and a power loss may still bring the old one back.                      *)
(***************************************************************************)
EXTENDS TrustMetadata

CONSTANTS
  Procs,         \* processes that may run a command
  Roots,         \* root envelopes a metadata directory may offer
  Timestamps,    \* timestamps it may offer; each carries its whole chain
  Outputs,       \* installation paths
  ForeignBytes,  \* contents other programs may leave at an installation path
  MaxClock,      \* bound on verification times
  MaxFaults      \* bound on crashes and power losses

ASSUME StoreConstantsAssumption ==
  /\ MaxClock \in Nat \ {0}
  /\ MaxFaults \in Nat

Snapshots == {e.child : e \in Timestamps}
Targets == {e.child : e \in Snapshots}
Envelopes == [timestamp |-> Timestamps, snapshot |-> Snapshots, targets |-> Targets]

\* What parsing guarantees of the numbers and digests of an envelope.
ASSUME MetadataAssumption ==
  /\ \A role \in ChainRoles : \A e \in Envelopes[role] : e.version \in Nat
  /\ \A e \in Targets : \A p \in DOMAIN e.entries :
       e.entries[p] \in [sequence : Nat, manifest : Manifests]

VARIABLES
  store,      \* how much of the store directory exists
  disk,       \* state.json as the running processes see it
  synced,     \* state.json as a power loss would leave it at least
  out,        \* what is at each output path: {} or one file
  outSynced,  \* the same, as a power loss would leave it at least
  receipts,   \* receipt files exported so far
  proc,       \* the command each process is running
  faults      \* crashes and power losses so far

vars == <<store, disk, synced, out, outSynced, receipts, proc, faults>>

Receipt == [profile: Profiles, sequence: Nat, manifest: Manifests,
            output: Outputs, clock: 1..MaxClock, generation: Nat]

Commands == {"import", "root-only", "install", "verify"}
Idle == [pc |-> "idle", command |-> "verify", clock |-> 1, st |-> FreshState(1)]

Pcs == {"idle", "enrol", "recover", "export", "roots", "timestamp", "snapshot", "targets",
        "finish", "journal", "publish", "complete", "export-installed"}

Running == {p \in Procs : proc[p].pc \notin {"idle", "enrol"}}
Writes(p) == proc[p].command # "verify"

\* The lock file is held exclusively by a writer or shared by readers.
Writers == {p \in Running : Writes(p)}

\* Mutant: only writers are waited for.
WriterFree(command) == Writers = {}

LockFree(command) ==
  IF command = "verify" THEN Writers = {} ELSE Running = {}

\* A crash, a kill or a failing system call, within the bound.
Fault == faults < MaxFaults /\ faults' = faults + 1

Goto(p, pc) == proc' = [proc EXCEPT ![p].pc = pc]
End(p) == proc' = [proc EXCEPT ![p] = Idle]
Resume(p, st, pc) ==
  IF pc = "idle" THEN End(p) ELSE proc' = [proc EXCEPT ![p].st = st, ![p].pc = pc]

Init ==
  /\ store = "absent"
  /\ disk = FreshState(1) /\ synced = FreshState(1)
  /\ out = [o \in Outputs |-> {}] /\ outSynced = [o \in Outputs |-> {}]
  /\ receipts = {}
  /\ proc = [p \in Procs |-> Idle]
  /\ faults = 0

(***************************************************************************)
(* Enrollment.  The directory is made first and only once; the state file  *)
(* comes last, so a store that is only partly made opens for nobody.       *)
(***************************************************************************)

CreateStore(p) ==
  /\ proc[p].pc = "idle" /\ store = "absent"
  /\ RootProfile(InitialRoot) /\ StrictSigners(InitialRoot, InitialRoot, "root")
  /\ Unexpired(InitialRoot, "root", 1)
  /\ store' = "directory"
  /\ Goto(p, "enrol")
  /\ UNCHANGED <<disk, synced, out, outSynced, receipts, faults>>

FillStore(p) ==
  /\ proc[p].pc = "enrol"
  /\ store' = CASE store = "directory" -> "lock"
                [] store = "lock" -> "receipts"
                [] OTHER -> "ready"
  /\ IF store' = "ready" THEN End(p) ELSE UNCHANGED proc
  /\ UNCHANGED <<disk, synced, out, outSynced, receipts, faults>>

(***************************************************************************)
(* Opening a session: lock or fail at once, load, refuse a clock below the *)
(* retained one, and recover pending work when the command may write.      *)
(***************************************************************************)

\* Mutant: only a new installation looks at the interrupted one.
FirstStepOfInstall(command) ==
  IF command = "verify" THEN "roots"
  ELSE IF command = "install" /\ disk.pending # {} THEN "recover" ELSE "export"

FirstStep(command) ==
  IF command = "verify" THEN "roots"
  ELSE IF disk.pending # {} THEN "recover" ELSE "export"

Open(p, command, clock) ==
  /\ proc[p].pc = "idle" /\ store = "ready"
  /\ LockFree(command)
  /\ ValidState(disk)
  /\ clock >= disk.time
  /\ proc' = [proc EXCEPT ![p] = [pc |-> FirstStep(command), command |-> command,
                                  clock |-> clock, st |-> disk]]
  /\ UNCHANGED <<store, disk, synced, out, outSynced, receipts, faults>>

\* A reader keeps the new state in memory.  A writer replaces state.json and
\* goes on once the directory is synced; cut short after the rename, it is gone.
Save(p, st, pc) ==
  \/ /\ ~Writes(p)
     /\ Resume(p, st, pc)
     /\ UNCHANGED <<disk, synced, faults>>
  \/ /\ Writes(p) /\ CanSave(st)
     /\ disk' = Stamped(st, proc[p].clock)
     /\ \/ /\ synced' = disk'
           /\ Resume(p, disk', pc)
           /\ UNCHANGED faults
        \/ /\ UNCHANGED synced
           /\ End(p)
           /\ Fault

(***************************************************************************)
(* Recovery of an interrupted installation.                                *)
(***************************************************************************)

\* Exactly the bytes the pending descriptor names.
MatchesDescriptor(file, receipt) == file.bytes = receipt.manifest

\* Mutant: the new receipt takes the place of the earlier ones.
SettledAlone(st) == [st EXCEPT !.completed = st.pending, !.pending = {}]

\* The journalled installation has taken place.
Settled(st) == [st EXCEPT !.completed = @ \cup st.pending, !.pending = {}]

\* Mutant: an output found in place is believed to be on disk.
RecoverUnsynced(p) ==
  /\ proc[p].pc = "recover"
  /\ \E r \in proc[p].st.pending : \E f \in out[r.output] : MatchesDescriptor(f, r)
  /\ Save(p, Settled(proc[p].st), "export")
  /\ UNCHANGED <<store, out, outSynced, receipts>>

\* A matching output is synced and completes the recorded decision.
RecoverPublished(p) ==
  /\ proc[p].pc = "recover"
  /\ \E r \in proc[p].st.pending : \E f \in out[r.output] :
       /\ MatchesDescriptor(f, r)
       /\ outSynced' = [outSynced EXCEPT ![r.output] = out[r.output]]
       /\ Save(p, Settled(proc[p].st), "export")
  /\ UNCHANGED <<store, out, receipts>>

\* Mutant: the journal is cleared without a look at the output.
RecoverBlindly(p) ==
  /\ proc[p].pc = "recover"
  /\ Save(p, [proc[p].st EXCEPT !.pending = {}], "export")
  /\ UNCHANGED <<store, out, outSynced, receipts>>

\* An absent output clears the journal and keeps the floors.
RecoverAbsent(p) ==
  /\ proc[p].pc = "recover"
  /\ \E r \in proc[p].st.pending : out[r.output] = {}
  /\ Save(p, [proc[p].st EXCEPT !.pending = {}], "export")
  /\ UNCHANGED <<store, out, outSynced, receipts>>

\* Receipt files still missing are written one by one, never replaced.
ExportReceipt(p) ==
  /\ proc[p].pc \in {"export", "export-installed"}
  /\ \E r \in proc[p].st.completed \ receipts : receipts' = receipts \cup {r}
  /\ UNCHANGED <<store, disk, synced, out, outSynced, proc, faults>>

ExportDone(p) ==
  /\ proc[p].pc \in {"export", "export-installed"}
  /\ proc[p].st.completed \subseteq receipts
  /\ IF proc[p].pc = "export" THEN Goto(p, "roots") ELSE End(p)
  /\ UNCHANGED <<store, disk, synced, out, outSynced, receipts, faults>>

(***************************************************************************)
(* Importing metadata: roots one by one, then timestamp, snapshot and      *)
(* targets, each retained as soon as it is accepted.                       *)
(***************************************************************************)

ImportRoot(p) ==
  /\ proc[p].pc = "roots"
  /\ \E r \in Roots :
       /\ Succeeds(LastRoot(proc[p].st), r)
       /\ Save(p, [proc[p].st EXCEPT !.roots = Append(@, r)], "roots")
  /\ UNCHANGED <<store, out, outSynced, receipts>>

\* Only the last root has to be current.
RootsDone(p) ==
  /\ proc[p].pc = "roots"
  /\ Unexpired(LastRoot(proc[p].st), "root", proc[p].clock)
  /\ Goto(p, IF proc[p].command = "root-only" THEN "finish" ELSE "timestamp")
  /\ UNCHANGED <<store, disk, synced, out, outSynced, receipts, faults>>

Retain(p, role, e, pc) ==
  /\ RoleAccepted(proc[p].st, role, e, proc[p].clock)
  /\ Save(p, [proc[p].st EXCEPT !.roles = RetainedRoles(proc[p].st, role, e)], pc)
  /\ UNCHANGED <<store, out, outSynced, receipts>>

ImportTimestamp(p) ==
  /\ proc[p].pc = "timestamp"
  /\ \E e \in Timestamps : Retain(p, "timestamp", e, "snapshot")

\* The file read must be the one the retained timestamp links to.
ImportSnapshot(p) ==
  /\ proc[p].pc = "snapshot"
  /\ Retain(p, "snapshot", proc[p].st.roles["timestamp"].child, "targets")

AfterTargets(command) ==
  CASE command = "import" -> "finish"
    [] command = "install" -> "journal"
    [] OTHER -> "idle"

\* All floors and the targets role are retained by one save.
ImportTargets(p) ==
  /\ proc[p].pc = "targets"
  /\ LET st == proc[p].st
         e == st.roles["snapshot"].child
     IN /\ RoleAccepted(st, "targets", e, proc[p].clock)
        /\ EntriesAccepted(st, e.entries)
        /\ Save(p, [st EXCEPT !.roles = RetainedRoles(st, "targets", e),
                              !.floors = RaisedFloors(st, e.entries)],
                AfterTargets(proc[p].command))
  /\ UNCHANGED <<store, out, outSynced, receipts>>

\* The import command saves once more before it reports.
FinishImport(p) ==
  /\ proc[p].pc = "finish"
  /\ Save(p, proc[p].st, "idle")
  /\ UNCHANGED <<store, out, outSynced, receipts>>

(***************************************************************************)
(* Installation.                                                           *)
(***************************************************************************)

\* Authenticate the selected profile, prepare a verified private copy beside a
\* new output, reserve room for completion, and journal the receipt.
Journal(p) ==
  /\ proc[p].pc = "journal"
  /\ LET st == proc[p].st
         entries == st.roles["targets"].entries
     IN \E profile \in DOMAIN entries, o \in Outputs :
          LET r == [profile |-> profile, sequence |-> entries[profile].sequence,
                    manifest |-> entries[profile].manifest, output |-> o,
                    clock |-> proc[p].clock, generation |-> st.generation + 1]
          IN /\ out[o] = {}
             /\ CanComplete(st, r)
             /\ Save(p, [st EXCEPT !.pending = {r}], "publish")
  /\ UNCHANGED <<store, out, outSynced, receipts>>

\* Mutant: the verified copy is renamed over whatever is there.
Replaceable(o) == TRUE

\* A hard link never replaces what is there.
Vacant(o) == out[o] = {}

\* Link the verified copy, then sync file and parent.  What was linked stays.
Publish(p) ==
  /\ proc[p].pc = "publish"
  /\ \E r \in proc[p].st.pending :
       /\ Vacant(r.output)
       /\ out' = [out EXCEPT ![r.output] = {[bytes |-> r.manifest, by |-> {r}]}]
       /\ \/ /\ outSynced' = [outSynced EXCEPT ![r.output] = out'[r.output]]
             /\ Goto(p, "complete")
             /\ UNCHANGED faults
          \/ /\ UNCHANGED outSynced
             /\ End(p)
             /\ Fault
  /\ UNCHANGED <<store, disk, synced, receipts>>

Complete(p) ==
  /\ proc[p].pc = "complete"
  /\ Save(p, Settled(proc[p].st), "export-installed")
  /\ UNCHANGED <<store, out, outSynced, receipts>>

(***************************************************************************)
(* What ends a command early, and what the environment may do.             *)
(***************************************************************************)

\* Metadata or a file that is missing or fails a check ends the command; what
\* was saved stays saved.
Reject(p) ==
  /\ proc[p].pc \in {"roots", "timestamp", "snapshot", "targets", "journal", "publish"}
  /\ End(p)
  /\ UNCHANGED <<store, disk, synced, out, outSynced, receipts, faults>>

\* Recovery refuses a conflicting output; every save refuses a state that does not fit.
Refuse(p) ==
  /\ \/ /\ proc[p].pc = "recover"
        /\ \E r \in proc[p].st.pending : \E f \in out[r.output] : ~MatchesDescriptor(f, r)
     \/ /\ proc[p].pc \in {"recover", "complete", "finish"}
        /\ ~CanSave(Settled(proc[p].st))
  /\ End(p)
  /\ UNCHANGED <<store, disk, synced, out, outSynced, receipts, faults>>

Crash(p) ==
  /\ proc[p].pc # "idle"
  /\ End(p)
  /\ Fault
  /\ UNCHANGED <<store, disk, synced, out, outSynced, receipts>>

\* Another program puts a file at a path where there is none.
ForeignFile(o) ==
  /\ out[o] = {}
  /\ \E b \in ForeignBytes : out' = [out EXCEPT ![o] = {[bytes |-> b, by |-> {}]}]
  /\ outSynced' = [outSynced EXCEPT ![o] = out'[o]]
  /\ UNCHANGED <<store, disk, synced, receipts, proc, faults>>

\* Every process is gone; what was not synced may or may not have reached the disk.
PowerLoss ==
  /\ \E st \in {disk, synced} : disk' = st /\ synced' = st
  /\ \E lost \in SUBSET Outputs :
       out' = [o \in Outputs |-> IF o \in lost THEN outSynced[o] ELSE out[o]]
  /\ outSynced' = out'
  /\ proc' = [p \in Procs |-> Idle]
  /\ Fault
  /\ UNCHANGED <<store, receipts>>

Step(p) ==
  \/ FillStore(p)
  \/ RecoverPublished(p) \/ RecoverAbsent(p) \/ ExportReceipt(p) \/ ExportDone(p)
  \/ ImportRoot(p) \/ RootsDone(p)
  \/ ImportTimestamp(p) \/ ImportSnapshot(p) \/ ImportTargets(p) \/ FinishImport(p)
  \/ Journal(p) \/ Publish(p) \/ Complete(p)
  \/ Reject(p) \/ Refuse(p)

Next ==
  \/ \E p \in Procs :
       \/ CreateStore(p)
       \/ \E command \in Commands, clock \in 1..MaxClock : Open(p, command, clock)
       \/ Step(p)
       \/ Crash(p)
  \/ \E o \in Outputs : ForeignFile(o)
  \/ PowerLoss

Spec == Init /\ [][Next]_vars

(***************************************************************************)
(* Properties.                                                             *)
(***************************************************************************)

RoleMaps == {m \in UNION {[S -> UNION {Timestamps, Snapshots, Targets}] : S \in SUBSET ChainRoles} :
               \A role \in DOMAIN m : m[role] \in Envelopes[role]}
Floors == [Profiles -> [sequence : Nat, manifest : Manifests \cup {NoManifest}]]
States == [roots : Seq(Roots \cup {InitialRoot}), roles : RoleMaps, floors : Floors,
           time : 1..MaxClock, generation : 1..MaxGeneration,
           pending : SUBSET Receipt, completed : SUBSET Receipt]
Sessions == [pc : Pcs, command : Commands, clock : 1..MaxClock, st : States]
Files == [bytes : Manifests \cup ForeignBytes, by : SUBSET Receipt]

\* The state file, memory copies and output paths hold well-formed values, and
\* no state, in memory or on disk, numbers itself past the generation limit
\* (the types of State and Receipt, and the limit in save()).
TypeOK ==
  /\ store \in {"absent", "directory", "lock", "receipts", "ready"}
  /\ disk \in States /\ synced \in States
  /\ out \in [Outputs -> SUBSET Files] /\ outSynced \in [Outputs -> SUBSET Files]
  /\ receipts \subseteq Receipt
  /\ proc \in [Procs -> Sessions]
  /\ faults \in 0..MaxFaults

\* Whatever save() leaves behind, now or after a power loss, load_state() accepts at
\* the next session.
SavedStateLoads == store = "ready" => ValidState(disk) /\ ValidState(synced)

\* A writer is alone, and what it works on is what the file holds: between the load
\* in Session::open and its last save no other session gets past StoreLock::open.
WriterIsAlone ==
  \A p \in Writers : Running = {p} /\ proc[p].st = disk

FloorHolds(old, new) ==
  \/ new.sequence > old.sequence
  \/ new.sequence = old.sequence /\ old.manifest \in {NoManifest, new.manifest}

\* Across commands, crashes, power losses and recoveries, the durable floor of a
\* profile never falls, and one sequence never changes its manifest (role of the
\* floors in import_metadata and of the sync in replace_state).
FloorsNeverFall ==
  [][\A p \in Profiles : FloorHolds(synced.floors[p], synced'.floors[p])]_vars

\* Durable role metadata is never replaced by an older version, by other content
\* of the same version, or by a parent that knows only an older child, even when
\* the newer child never arrived (role_floor reads the parent before the role); the
\* root lineage, the verification time and the generation only grow.
VersionsNeverRollBack ==
  [][/\ \A r \in DOMAIN synced.roles :
          /\ r \in DOMAIN synced'.roles
          /\ LET old == synced.roles[r]
                 new == synced'.roles[r]
             IN /\ \/ new.version > old.version
                   \/ new.version = old.version /\ Signed(new) = Signed(old)
                /\ r # "targets" => new.child.version >= old.child.version
     /\ \A i \in 1..Len(synced.roots) :
          i \in 1..Len(synced'.roots) /\ synced'.roots[i] = synced.roots[i]
     /\ synced'.time >= synced.time
     /\ synced' # synced => synced'.generation > synced.generation]_vars

\* What Session::status calls acceptable under current policy is what import_metadata
\* would accept if the retained metadata were read again, for the very same release.
StatusIsReacceptable ==
  \A p \in Profiles, clock \in disk.time..MaxClock :
    LET r == [profile |-> p, sequence |-> disk.floors[p].sequence,
              manifest |-> disk.floors[p].manifest]
        ts == disk.roles["timestamp"]
    IN
    StatusAccepts([disk EXCEPT !.completed = {r}], r, clock) =>
      /\ RoleAccepted(disk, "timestamp", ts, clock)
      /\ RoleAccepted(disk, "snapshot", ts.child, clock)
      /\ RoleAccepted(disk, "targets", ts.child.child, clock)
      /\ EntriesAccepted(disk, ts.child.child.entries)
      /\ Names(ts.child.child, r)

\* While a command verifies against a snapshot of the store under the shared lock of
\* StoreLock::open, nobody replaces state.json.
SnapshotHolds ==
  [][disk' # disk => \A p \in Running : Writes(p) \/ proc'[p] = Idle]_vars

\* An installation is journalled, by this session or an earlier one, only for the
\* release that the retained chain names under the root trusted now: nothing is
\* imported and no key revoked between the decision of install_with_checkpoint and
\* its recovery by the next Session::open.
PendingAuthorised ==
  \A r \in disk.pending :
    /\ StatusAccepts([disk EXCEPT !.pending = {}, !.completed = {r}], r, r.clock)
    /\ disk.time = r.clock

\* Installations journalled or completed never run ahead of the floors, and one
\* sequence of a profile is never installed with two manifests (import_metadata saves
\* the floors before install_with_checkpoint journals).
InstallsMatchFloors ==
  \A st \in {disk, synced} : \A r \in st.completed \cup st.pending :
    /\ r.sequence <= st.floors[r.profile].sequence
    /\ r.sequence = st.floors[r.profile].sequence
         => r.manifest = st.floors[r.profile].manifest

\* A database this store published is accounted for, pending or completed, in the
\* state the processes see and in any state a power loss can restore (the journal is
\* durable before publish() links, and recover() clears it only if nothing is there).
PublishedIsAccounted ==
  \A o \in Outputs : \A f \in out[o] : \A r \in f.by :
    \A st \in {disk, synced} : r \in st.pending \cup st.completed

\* A completed receipt stands for a database that survives a power loss with the
\* authenticated bytes (publish() and recover() sync the output before the save).
CompletedIsDurable ==
  \A r \in disk.completed \cup synced.completed \cup receipts :
    \E f \in outSynced[r.output] : f.bytes = r.manifest

\* Room for completion is reserved before anything is published, so the save that
\* completes or recovers a journalled installation is never refused (the two size and
\* generation checks of install_with_checkpoint against those of save).
CompletionIsReserved ==
  disk.pending # {} => CanSave(Settled(disk))

\* A file written by export_receipts claims what the state records, as completed or as
\* the journal entry that a power loss went back to.  A power loss takes the whole record
\* back only when this store never published the output: recover() took a file with the
\* authenticated bytes for its own, and neither its save nor the journal's was synced.
ReceiptsAreBacked ==
  \A r \in receipts :
    \/ \A st \in {disk, synced} : r \in st.completed \cup st.pending
    \/ \E f \in out[r.output] : f.bytes = r.manifest /\ f.by = {}

\* A file at an output path is never replaced or removed, except that a power loss
\* may undo a link that was not yet synced (PreparedBundleInstall::publish).
OutputsArePreserved ==
  [][\A o \in Outputs : out[o] # {} => out'[o] \in {out[o], outSynced[o]}]_vars

\* The durable state implements the release ledger: whatever import, install, recover
\* and crashes do, a release is accepted, reserved and then installed.
Ledger == INSTANCE ReleaseLedger
  WITH floor <- synced.floors, reserved <- synced.pending, installed <- synced.completed
ImplementsLedger == Ledger!LedgerSpec

Conflict == \E r \in disk.pending : \E f \in out[r.output] : ~MatchesDescriptor(f, r)

Fairness ==
  \A p \in Procs :
    /\ WF_vars(Step(p))
    /\ SF_vars(\E clock \in 1..MaxClock : Open(p, "root-only", clock))

FairSpec == Spec /\ Fairness

\* An operator who keeps opening exclusive sessions sees every journalled
\* installation settled by recover(), unless a conflicting file has to be looked at.
PendingIsSettled == disk.pending # {} ~> disk.pending = {} \/ Conflict
=============================================================================
