-------------------------- MODULE TrustLedgerProofs --------------------------
(***************************************************************************)
(* Theorems about the state file of the trust store and about what the     *)
(* store decides and records: what is saved can be loaded again, what is   *)
(* durable never goes back, an installation is journalled only under the   *)
(* metadata trusted now, the status command agrees with the import,        *)
(* receipts are backed by the record or by the bytes, and the durable      *)
(* state implements the release ledger.                                    *)
(*                                                                         *)
(* They rest on one summary of the specification, FileChanges: a step      *)
(* leaves the file alone, or one writer replaces it by one of the seven    *)
(* successors that Makes lists, or a power loss picks one of two versions. *)
(***************************************************************************)
EXTENDS TrustStoreProofs

(***************************************************************************)
(* What becomes of the file.                                               *)
(***************************************************************************)

\* The state a command hands to save(), by the step it is at.
Makes(p, new) ==
  LET st == proc[p].st
      clock == proc[p].clock
  IN
  \/ /\ proc[p].pc = "roots"
     /\ \E r \in Roots : Succeeds(LastRoot(st), r) /\ new = [st EXCEPT !.roots = Append(@, r)]
  \/ \E role \in {"timestamp", "snapshot"} : \E e \in Envelopes[role] :
       /\ proc[p].pc = role
       /\ RoleAccepted(st, role, e, clock)
       /\ role = "snapshot" => "timestamp" \in DOMAIN st.roles /\ e = st.roles["timestamp"].child
       /\ new = [st EXCEPT !.roles = RetainedRoles(st, role, e)]
  \/ /\ proc[p].pc = "targets"
     /\ \E e \in Targets :
          /\ "snapshot" \in DOMAIN st.roles /\ e = st.roles["snapshot"].child
          /\ RoleAccepted(st, "targets", e, clock) /\ EntriesAccepted(st, e.entries)
          /\ new = [st EXCEPT !.roles = RetainedRoles(st, "targets", e),
                              !.floors = RaisedFloors(st, e.entries)]
  \/ proc[p].pc = "finish" /\ new = st
  \/ /\ proc[p].pc = "journal"
     /\ \E r \in Receipt :
          /\ AtFloor(st, r) /\ CanComplete(st, r) /\ out[r.output] = {}
          /\ r.clock = clock /\ r.generation = st.generation + 1
          /\ "targets" \in DOMAIN st.roles /\ Names(st.roles["targets"], r)
          /\ new = [st EXCEPT !.pending = {r}]
  \/ proc[p].pc \in {"recover", "complete"} /\ new = Settled(st)
  \/ proc[p].pc = "recover" /\ new = [st EXCEPT !.pending = {}]

\* The steps that save.
Saving(p) == Importing(p) \/ RecoverPublished(p) \/ RecoverAbsent(p) \/ Journal(p) \/ Complete(p)

\* Where a command goes on after a save.
After(p) ==
  CASE proc[p].pc = "roots" -> "roots"
    [] proc[p].pc = "timestamp" -> "snapshot"
    [] proc[p].pc = "snapshot" -> "targets"
    [] proc[p].pc = "targets" -> AfterTargets(proc[p].command)
    [] proc[p].pc = "finish" -> "idle"
    [] proc[p].pc = "journal" -> "publish"
    [] proc[p].pc = "recover" -> "export"
    [] OTHER -> "export-installed"

\* What a command journals: the release its retained targets name, at the floor.
LEMMA JournalMakes ==
  ASSUME Typed, NEW p \in Procs, Journal(p)
  PROVE  \E new : Coherent(new) /\ Makes(p, new) /\ Save(p, new, "publish")
<1> DEFINE st == proc[p].st
           entries == st.roles["targets"].entries
           Of(profile, o) == [profile |-> profile, sequence |-> entries[profile].sequence,
                              manifest |-> entries[profile].manifest, output |-> o,
                              clock |-> proc[p].clock, generation |-> st.generation + 1]
<1>1. Coherent(st) /\ proc[p] \in Sessions /\ Reached(proc[p])
  BY DEF Typed, TypeOK, Sessions, Coherent
<1>2. "targets" \in DOMAIN st.roles /\ proc[p].pc = "journal"
  BY <1>1 DEF Journal, Reached
<1>3. st.roles["targets"] \in Targets
  BY <1>1, <1>2 DEF Coherent, States, RoleMaps, Envelopes
<1>4. PICK profile \in DOMAIN entries, o \in Outputs :
        /\ out[o] = {}
        /\ CanComplete(st, Of(profile, o))
        /\ Save(p, [st EXCEPT !.pending = {Of(profile, o)}], "publish")
  BY DEF Journal
<1>5. profile \in Profiles /\ st.floors[profile] = entries[profile]
  BY <1>1, <1>2, <1>4 DEF Coherent, FloorsFollow
<1>6. entries[profile] \in [sequence : Nat, manifest : Manifests]
  BY <1>3, <1>4, MetadataAssumption
<1>7. st.generation + 1 \in Nat /\ proc[p].clock \in 1..MaxClock
  BY <1>1 DEF Coherent, States, Sessions
<1>8. Of(profile, o) \in Receipt
  BY <1>4, <1>5, <1>6, <1>7 DEF Receipt
<1>9. /\ Of(profile, o).output = o /\ Of(profile, o).clock = proc[p].clock
      /\ Of(profile, o).generation = st.generation + 1
      /\ AtFloor(st, Of(profile, o))
      /\ Names(st.roles["targets"], Of(profile, o))
  BY <1>4, <1>5, <1>6 DEF AtFloor, Names
<1> HIDE DEF Of
<1>10. Makes(p, [st EXCEPT !.pending = {Of(profile, o)}])
  BY <1>2, <1>4, <1>8, <1>9 DEF Makes
<1>11. Coherent([st EXCEPT !.pending = {Of(profile, o)}])
  BY <1>1, <1>8, UpdatesAreCoherent
<1> QED
  BY <1>4, <1>10, <1>11

\* What every saving step hands to save().
LEMMA SavingMakes ==
  ASSUME Typed, NEW p \in Procs, Saving(p)
  PROVE  /\ \E new : Coherent(new) /\ Makes(p, new) /\ Save(p, new, After(p))
         /\ After(p) \in Pcs \ {"enrol"} /\ p \in Running
         /\ After(p) \in WriterSteps => proc[p].pc \in WriterSteps \/ Writes(p)
<1> DEFINE st == proc[p].st
<1>1. Coherent(st) /\ proc[p] \in Sessions /\ Reached(proc[p])
  BY DEF Typed, TypeOK, Sessions, Coherent
<1>2. CASE ImportRoot(p)
  <2>1. PICK r \in Roots : /\ Succeeds(LastRoot(st), r)
                           /\ Save(p, [st EXCEPT !.roots = Append(@, r)], "roots")
    BY <1>2 DEF ImportRoot
  <2>2. proc[p].pc = "roots" /\ After(p) = "roots"
    BY <1>2 DEF ImportRoot, After
  <2>3. Coherent([st EXCEPT !.roots = Append(@, r)])
    BY <1>1, UpdatesAreCoherent
  <2>4. Makes(p, [st EXCEPT !.roots = Append(@, r)])
    BY <2>1, <2>2 DEF Makes
  <2> QED
    BY <2>1, <2>2, <2>3, <2>4 DEF Pcs, WriterSteps, Running
<1>3. CASE ImportTimestamp(p)
  <2>1. PICK e \in Timestamps : Retain(p, "timestamp", e, "snapshot")
    BY <1>3 DEF ImportTimestamp
  <2> DEFINE new == [st EXCEPT !.roles = RetainedRoles(st, "timestamp", e)]
  <2>2. proc[p].pc = "timestamp" /\ After(p) = "snapshot"
    BY <1>3 DEF ImportTimestamp, After
  <2>3. e \in Envelopes["timestamp"]
    BY DEF Envelopes
  <2>4. Coherent(new)
    BY <1>1, <2>3, RetainIsCoherent
  <2>5. RoleAccepted(st, "timestamp", e, proc[p].clock) /\ Save(p, new, "snapshot")
    BY <2>1 DEF Retain
  <2>6. Makes(p, new)
    BY <2>2, <2>3, <2>5 DEF Makes
  <2> HIDE DEF new
  <2> QED
    BY <2>2, <2>4, <2>5, <2>6 DEF Pcs, WriterSteps, Running
<1>4. CASE ImportSnapshot(p)
  <2> DEFINE e == st.roles["timestamp"].child
             new == [st EXCEPT !.roles = RetainedRoles(st, "snapshot", e)]
  <2>1. proc[p].pc = "snapshot" /\ After(p) = "targets" /\ "timestamp" \in DOMAIN st.roles
    BY <1>1, <1>4 DEF ImportSnapshot, After, Reached
  <2>2. st.roles["timestamp"] \in Timestamps
    BY <1>1, <2>1 DEF Coherent, States, RoleMaps, Envelopes
  <2>3. e \in Envelopes["snapshot"]
    BY <2>2 DEF Envelopes, Snapshots
  <2>4. Coherent(new)
    BY <1>1, <2>3, RetainIsCoherent
  <2>5. RoleAccepted(st, "snapshot", e, proc[p].clock) /\ Save(p, new, "targets")
    BY <1>4 DEF ImportSnapshot, Retain
  <2>6. Makes(p, new)
    BY <2>1, <2>3, <2>5 DEF Makes
  <2> HIDE DEF new
  <2> QED
    BY <2>1, <2>4, <2>5, <2>6 DEF Pcs, WriterSteps, Running
<1>5. CASE ImportTargets(p)
  <2> DEFINE e == st.roles["snapshot"].child
             new == [st EXCEPT !.roles = RetainedRoles(st, "targets", e),
                               !.floors = RaisedFloors(st, e.entries)]
  <2>1. /\ proc[p].pc = "targets" /\ After(p) = AfterTargets(proc[p].command)
        /\ "snapshot" \in DOMAIN st.roles
    BY <1>1, <1>5 DEF ImportTargets, After, Reached
  <2>2. st.roles["snapshot"] \in Snapshots
    BY <1>1, <2>1 DEF Coherent, States, RoleMaps, Envelopes
  <2>3. e \in Targets
    BY <2>2 DEF Targets
  <2>4. /\ RoleAccepted(st, "targets", e, proc[p].clock) /\ EntriesAccepted(st, e.entries)
        /\ Save(p, new, After(p))
    BY <1>5, <2>1 DEF ImportTargets
  <2>5. Coherent(new)
    BY <1>1, <2>3, <2>4, RaiseIsCoherent
  <2>6. Makes(p, new)
    BY <2>1, <2>3, <2>4 DEF Makes
  <2>7. After(p) \in Pcs \ {"enrol"} /\ (After(p) \in WriterSteps => Writes(p))
    BY <2>1 DEF AfterTargets, Pcs, WriterSteps, Writes
  <2>8. p \in Running
    BY <2>1 DEF Running
  <2> HIDE DEF new
  <2> QED
    BY <2>4, <2>5, <2>6, <2>7, <2>8
<1>6. CASE FinishImport(p)
  BY <1>1, <1>6 DEF FinishImport, After, Makes, Pcs, WriterSteps, Running
<1>7. CASE RecoverPublished(p) \/ Complete(p)
  <2>1. /\ proc[p].pc \in {"recover", "complete"}
        /\ Save(p, Settled(st), After(p))
        /\ After(p) \in {"export", "export-installed"}
    BY <1>7 DEF RecoverPublished, Complete, After
  <2>2. Coherent(Settled(st))
    BY <1>1, UpdatesAreCoherent
  <2>3. Makes(p, Settled(st))
    BY <2>1 DEF Makes
  <2> QED
    BY <2>1, <2>2, <2>3 DEF Pcs, WriterSteps, Running
<1>8. CASE RecoverAbsent(p)
  <2>1. proc[p].pc = "recover" /\ Save(p, [st EXCEPT !.pending = {}], "export") /\ After(p) = "export"
    BY <1>8 DEF RecoverAbsent, After
  <2>2. Coherent([st EXCEPT !.pending = {}])
    BY <1>1, UpdatesAreCoherent
  <2>3. Makes(p, [st EXCEPT !.pending = {}])
    BY <2>1 DEF Makes
  <2> QED
    BY <2>1, <2>2, <2>3 DEF Pcs, WriterSteps, Running
<1>9. CASE Journal(p)
  <2>1. proc[p].pc = "journal" /\ After(p) = "publish"
    BY <1>9 DEF Journal, After
  <2> QED
    BY <1>9, <2>1, JournalMakes DEF Pcs, WriterSteps, Running
<1> QED
  BY <1>2, <1>3, <1>4, <1>5, <1>6, <1>7, <1>8, <1>9 DEF Saving, Importing

\* A writer replaces the file by what it makes of it, and has synced it or is gone.
Rewrites(p, new) ==
  /\ p \in Running /\ Writes(p) /\ proc[p].st = disk
  /\ Coherent(new) /\ CanSave(new) /\ Makes(p, new)
  /\ disk' = Stamped(new, proc[p].clock)
  /\ \/ synced' = disk' /\ Resume(p, disk', After(p))
     \/ synced' = synced /\ End(p)

\* A saving step keeps the file, for a reader, or rewrites it.
LEMMA SavingRewrites ==
  ASSUME Typed, Alone, NEW p \in Procs, Saving(p)
  PROVE  UNCHANGED <<disk, synced>> \/ \E new : Rewrites(p, new)
<1>1. p \in Running
  BY SavingMakes
<1>2. PICK new : Coherent(new) /\ Makes(p, new) /\ Save(p, new, After(p))
  BY SavingMakes
<1>3. CASE ~Writes(p)
  BY <1>2, <1>3 DEF Save
<1>4. CASE Writes(p)
  <2>1. proc[p].st = disk
    BY <1>1, <1>4 DEF Alone, WriterIsAlone, Writers
  <2>2. /\ CanSave(new) /\ disk' = Stamped(new, proc[p].clock)
        /\ \/ synced' = disk' /\ Resume(p, disk', After(p))
           \/ synced' = synced /\ End(p)
    BY <1>2, <1>4 DEF Save
  <2> QED
    BY <1>1, <1>2, <1>4, <2>1, <2>2 DEF Rewrites
<1> QED
  BY <1>3, <1>4

\* Every step leaves state.json alone, or is one save by the one writer, or is a
\* power loss that settles which version the disk keeps.
LEMMA FileChanges ==
  ASSUME Typed, Alone, Next
  PROVE  \/ UNCHANGED <<disk, synced>>
         \/ \E p \in Procs : Saving(p) /\ \E new : Rewrites(p, new)
         \/ PowerLoss /\ synced' \in {disk, synced} /\ disk' = synced'
<1>1. ASSUME NEW p \in Procs, Step(p)
      PROVE  UNCHANGED <<disk, synced>> \/ (Saving(p) /\ \E new : Rewrites(p, new))
  <2>1. CASE Saving(p)
    BY <2>1, SavingRewrites
  <2>2. CASE \/ FillStore(p) \/ ExportReceipt(p) \/ ExportDone(p) \/ RootsDone(p) \/ Publish(p)
             \/ Reject(p) \/ Refuse(p)
    BY <2>2 DEF FillStore, ExportReceipt, ExportDone, RootsDone, Publish, Reject, Refuse
  <2> QED
    BY <1>1, <2>1, <2>2 DEF Step, Saving, Importing
<1>2. ASSUME NEW p \in Procs,
             \/ CreateStore(p) \/ Crash(p)
             \/ \E command \in Commands, clock \in 1..MaxClock : Open(p, command, clock)
      PROVE  UNCHANGED <<disk, synced>>
  BY <1>2 DEF CreateStore, Crash, Open
<1>3. ASSUME NEW o \in Outputs, ForeignFile(o) PROVE UNCHANGED <<disk, synced>>
  BY <1>3 DEF ForeignFile
<1>4. ASSUME PowerLoss PROVE PowerLoss /\ synced' \in {disk, synced} /\ disk' = synced'
  BY <1>4 DEF PowerLoss
<1> QED
  BY <1>1, <1>2, <1>3, <1>4 DEF Next

\* What stays of the file in each kind of save.
LEMMA StampedFields ==
  ASSUME NEW st, st \in States, NEW clock
  PROVE  /\ Stamped(st, clock).roots = st.roots /\ Stamped(st, clock).roles = st.roles
         /\ Stamped(st, clock).floors = st.floors
         /\ Stamped(st, clock).pending = st.pending
         /\ Stamped(st, clock).completed = st.completed
         /\ Stamped(st, clock).generation = st.generation + 1
         /\ Stamped(st, clock).time = clock
BY DEF Stamped, States

\* The fields of the file that a save leaves as they were.
LEMMA MadeFields ==
  ASSUME NEW p \in Procs, NEW new, Makes(p, new), proc[p].st \in States
  PROVE  LET st == proc[p].st IN
         /\ new.time = st.time /\ new.generation = st.generation
         /\ new.roots # st.roots => proc[p].pc = "roots"
         /\ new.roles # st.roles => proc[p].pc \in {"timestamp", "snapshot", "targets"}
         /\ new.floors # st.floors => proc[p].pc = "targets"
         /\ new.pending # st.pending => proc[p].pc \in {"journal", "recover", "complete"}
         /\ new.completed # st.completed => proc[p].pc \in {"recover", "complete"}
BY DEF Makes, States, Settled

(***************************************************************************)
(* What is saved can be loaded.                                            *)
(***************************************************************************)

\* A root lineage that starts at the enrolled root, over floors that enrollment fixed.
Rooted(st) ==
  /\ Len(st.roots) > 0 /\ st.roots[1] = InitialRoot
  /\ \A i \in 1..(Len(st.roots) - 1) : Succeeds(st.roots[i], st.roots[i + 1])
  /\ \A q \in Profiles : st.floors[q].sequence >= MinimumSequence

\* Appending a root that the last one hands over to continues the lineage.
LEMMA RootAppended ==
  ASSUME NEW st, st \in States, Rooted(st), NEW r \in Roots, Succeeds(LastRoot(st), r)
  PROVE  Rooted([st EXCEPT !.roots = Append(@, r)])
<1> DEFINE roots == Append(st.roots, r)
<1>1. st.roots \in Seq(Roots \cup {InitialRoot}) /\ Len(st.roots) \in Nat
  BY DEF States
<1>2. /\ Len(roots) = Len(st.roots) + 1
      /\ \A i \in 1..Len(st.roots) : roots[i] = st.roots[i]
      /\ roots[Len(st.roots) + 1] = r
  BY <1>1
<1> HIDE DEF roots
<1>3. Len(roots) > 0 /\ roots[1] = InitialRoot
  BY <1>1, <1>2 DEF Rooted
<1>4. ASSUME NEW i \in 1..(Len(roots) - 1) PROVE Succeeds(roots[i], roots[i + 1])
  <2>1. CASE i = Len(st.roots)
    <3>1. roots[i] = LastRoot(st) /\ roots[i + 1] = r
      BY <1>1, <1>2, <2>1 DEF LastRoot, Rooted
    <3> QED
      BY <3>1
  <2>2. CASE i # Len(st.roots)
    <3>1. i \in 1..(Len(st.roots) - 1) /\ i \in 1..Len(st.roots) /\ i + 1 \in 1..Len(st.roots)
      BY <1>1, <1>2, <2>2
    <3>2. roots[i] = st.roots[i] /\ roots[i + 1] = st.roots[i + 1]
      BY <1>2, <3>1
    <3> QED
      BY <3>1, <3>2 DEF Rooted
  <2> QED
    BY <2>1, <2>2
<1>5. /\ [st EXCEPT !.roots = Append(@, r)].roots = roots
      /\ [st EXCEPT !.roots = Append(@, r)].floors = st.floors
  BY DEF States, roots
<1> QED
  BY <1>3, <1>4, <1>5 DEF Rooted

\* Floors that only rise stay above the sequence fixed at enrollment.
LEMMA RisenFloorsRooted ==
  ASSUME NEW old, NEW new, Coherent(old), Coherent(new), Rooted(old), FloorsHold(old, new),
         new.roots = old.roots
  PROVE  Rooted(new)
<1>1. ASSUME NEW q \in Profiles PROVE new.floors[q].sequence >= MinimumSequence
  <2>1. /\ old.floors[q].sequence \in Nat /\ new.floors[q].sequence \in Nat
        /\ old.floors[q].sequence >= MinimumSequence
        /\ FloorHolds(old.floors[q], new.floors[q])
    BY DEF Coherent, States, Floors, Rooted, FloorsHold
  <2> QED
    BY <2>1, PolicyAssumption DEF FloorHolds
<1> QED
  BY <1>1 DEF Rooted

\* No save lowers a floor.
LEMMA MadeFloorsHold ==
  ASSUME NEW p \in Procs, NEW new, Makes(p, new), Coherent(proc[p].st)
  PROVE  FloorsHold(proc[p].st, new)
<1>1. CASE proc[p].pc # "targets"
  <2>1. new.floors = proc[p].st.floors
    BY <1>1, MadeFields DEF Coherent
  <2> QED
    BY <2>1, SameFloorsHold
<1>2. CASE proc[p].pc = "targets"
  <2>1. PICK e \in Targets :
          /\ EntriesAccepted(proc[p].st, e.entries)
          /\ new = [proc[p].st EXCEPT !.roles = RetainedRoles(proc[p].st, "targets", e),
                                      !.floors = RaisedFloors(proc[p].st, e.entries)]
    BY <1>2 DEF Makes
  <2>2. new.floors = RaisedFloors(proc[p].st, e.entries)
    BY <2>1 DEF Coherent, States
  <2> QED
    BY <2>1, <2>2, RaisedFloorsHold
<1> QED
  BY <1>1, <1>2

\* The root lineage of what the processes see and of what is durable.
Lineage == Rooted(disk) /\ Rooted(synced)

\* Only import_roots lengthens the chain of roots, and only by a successor; the file takes
\* the longer chain from the session that saved it.
LEMMA LineageInductive == Typed /\ Alone /\ Lineage /\ [Next]_vars => Lineage'
<1> SUFFICES ASSUME Typed, Alone, Lineage, [Next]_vars PROVE Lineage'
  OBVIOUS
<1>1. CASE UNCHANGED <<disk, synced>>
  BY <1>1 DEF Lineage, Rooted
<1>2. ASSUME NEW p \in Procs, NEW new, Rewrites(p, new) PROVE Lineage'
  <2>1. /\ Coherent(disk) /\ Coherent(new) /\ Makes(p, new) /\ proc[p].st = disk
        /\ disk' = Stamped(new, proc[p].clock) /\ synced' \in {synced, disk'}
    BY <1>2 DEF Rewrites, Typed, TypeOK, Coherent
  <2>2. Rooted(new)
    <3>1. CASE new.roots = disk.roots
      BY <2>1, <3>1, MadeFloorsHold, RisenFloorsRooted DEF Lineage
    <3>2. CASE new.roots # disk.roots
      <4>1. proc[p].pc = "roots"
        BY <2>1, <3>2, MadeFields DEF Coherent
      <4>2. PICK r \in Roots : /\ Succeeds(LastRoot(disk), r)
                               /\ new = [disk EXCEPT !.roots = Append(@, r)]
        BY <2>1, <4>1 DEF Makes
      <4> QED
        BY <2>1, <4>2, RootAppended DEF Lineage, Coherent
    <3> QED
      BY <3>1, <3>2
  <2>3. disk'.roots = new.roots /\ disk'.floors = new.floors
    BY <2>1, StampedFields DEF Coherent
  <2>4. Rooted(disk')
    BY <2>2, <2>3 DEF Rooted
  <2> QED
    BY <2>1, <2>4 DEF Lineage
<1>3. CASE synced' \in {disk, synced} /\ disk' = synced'
  BY <1>3 DEF Lineage
<1> QED
  BY <1>1, <1>2, <1>3, FileChanges DEF vars

\* The enrolled root passed its own checks before the store directory was made.
Enrolled ==
  store # "absent" \/ (\E p \in Procs : proc[p].pc = "enrol")
    => RootProfile(InitialRoot) /\ StrictSigners(InitialRoot, InitialRoot, "root")

\* A store that exists, or is being created, was enrolled with a root that fits the policy:
\* CreateStore checks it before anything is written.
LEMMA EnrolledInductive == Typed /\ Alone /\ Enrolled /\ [Next]_vars => Enrolled'
<1> SUFFICES ASSUME Typed, Alone, Enrolled, [Next]_vars,
                    ~(RootProfile(InitialRoot) /\ StrictSigners(InitialRoot, InitialRoot, "root"))
             PROVE  store' = "absent" /\ \A q \in Procs : proc'[q].pc # "enrol"
  BY DEF Enrolled
<1>1. store = "absent" /\ \A q \in Procs : proc[q].pc # "enrol"
  BY DEF Enrolled
<1>2. Idle.pc = "idle"
  BY DEF Idle
<1>3. ASSUME NEW p \in Procs, Step(p)
      PROVE  store' = "absent" /\ \A q \in Procs : proc'[q].pc # "enrol"
  <2>1. ~FillStore(p)
    BY <1>1 DEF FillStore
  <2>2. store' = store
    BY <1>3, <2>1 DEF Step, RecoverPublished, RecoverAbsent, ExportReceipt, ExportDone, ImportRoot,
       RootsDone, ImportTimestamp, ImportSnapshot, ImportTargets, FinishImport, Journal, Publish,
       Complete, Reject, Refuse, Retain
  <2>3. PICK s \in Sessions : Continues(p, s) /\ proc' = [proc EXCEPT ![p] = s]
    BY <1>3, <2>1, RunningContinues
  <2>4. s.pc # "enrol"
    BY <1>2, <2>3 DEF Continues
  <2> QED
    BY <1>1, <2>2, <2>3, <2>4 DEF Typed, TypeOK
<1>4. ASSUME NEW p \in Procs, Crash(p)
      PROVE  store' = "absent" /\ \A q \in Procs : proc'[q].pc # "enrol"
  BY <1>1, <1>2, <1>4 DEF Crash, End, Typed, TypeOK
<1>5. ASSUME NEW p \in Procs,
             \/ CreateStore(p)
             \/ \E command \in Commands, clock \in 1..MaxClock : Open(p, command, clock)
      PROVE  FALSE
  BY <1>1, <1>5 DEF CreateStore, Open
<1>6. ASSUME NEW o \in Outputs, ForeignFile(o)
      PROVE  store' = "absent" /\ \A q \in Procs : proc'[q].pc # "enrol"
  BY <1>1, <1>6 DEF ForeignFile
<1>7. ASSUME PowerLoss PROVE store' = "absent" /\ \A q \in Procs : proc'[q].pc # "enrol"
  BY <1>1, <1>2, <1>7 DEF PowerLoss
<1>8. CASE UNCHANGED vars
  BY <1>1, <1>8 DEF vars
<1> QED
  BY <1>3, <1>4, <1>5, <1>6, <1>7, <1>8 DEF Next

\* Before enrollment there is no store and both versions of the file are fresh.
LEMMA InitFiled == Init => Lineage /\ Enrolled
<1> SUFFICES ASSUME Init PROVE Lineage /\ Enrolled
  OBVIOUS
<1>1. Rooted(FreshState(1))
  BY PolicyAssumption DEF Rooted, FreshState
<1>2. \A q \in Procs : proc[q].pc = "idle"
  BY DEF Init, Idle
<1> QED
  BY <1>1, <1>2 DEF Init, Lineage, Enrolled

\* Whatever was saved, the version the processes see or the one a power loss brings
\* back, passes every check of load_state: the store never locks its owner out.
THEOREM SavedStatesLoad == Spec => []SavedStateLoads
<1>1. Typed /\ Lineage /\ Enrolled => SavedStateLoads
  <2> SUFFICES ASSUME Typed, Lineage, Enrolled, store = "ready", NEW st \in {disk, synced}
               PROVE  ValidState(st)
    BY DEF SavedStateLoads
  <2>1. st.generation \in 1..MaxGeneration /\ DOMAIN st.roles \subseteq ChainRoles
    BY DEF Typed, TypeOK, States, RoleMaps
  <2>2. RootProfile(InitialRoot) /\ StrictSigners(InitialRoot, InitialRoot, "root")
    BY DEF Enrolled
  <2>3. Rooted(st)
    BY DEF Lineage
  <2> QED
    BY <2>1, <2>2, <2>3 DEF ValidState, Rooted
<1> QED
  BY <1>1, InitFiled, Invariants, LineageInductive, EnrolledInductive, PTL DEF Spec

(***************************************************************************)
(* Nothing durable goes back.                                              *)
(***************************************************************************)

\* A role is followed by a newer version or by the same content, never by a parent
\* that knows only an older child.
RoleFollows(role, old, new) ==
  /\ \/ new.version > old.version
     \/ new.version = old.version /\ Signed(new) = Signed(old)
  /\ role # "targets" => new.child.version >= old.child.version

Grows(old, new) ==
  /\ \A r \in DOMAIN old.roles :
       r \in DOMAIN new.roles /\ RoleFollows(r, old.roles[r], new.roles[r])
  /\ \A i \in 1..Len(old.roots) : i \in 1..Len(new.roots) /\ new.roots[i] = old.roots[i]
  /\ new.time >= old.time
  /\ new # old => new.generation > old.generation

\* Versions and child versions of retained envelopes are numbers.
LEMMA RoleVersions ==
  ASSUME NEW st, st \in States, NEW role \in DOMAIN st.roles
  PROVE  /\ role \in ChainRoles /\ st.roles[role] \in Envelopes[role]
         /\ st.roles[role].version \in Nat
         /\ role # "targets" => st.roles[role].child.version \in Nat
<1>1. role \in ChainRoles /\ st.roles[role] \in Envelopes[role]
  BY DEF States, RoleMaps
<1>2. st.roles[role].version \in Nat
  BY <1>1, MetadataAssumption
<1>3. CASE role = "timestamp"
  <2>1. st.roles[role].child \in Envelopes["snapshot"]
    BY <1>1, <1>3 DEF Envelopes, Snapshots
  <2> QED
    BY <1>1, <1>2, <2>1, MetadataAssumption DEF ChainRoles
<1>4. CASE role = "snapshot"
  <2>1. st.roles[role].child \in Envelopes["targets"]
    BY <1>1, <1>4 DEF Envelopes, Targets
  <2> QED
    BY <1>1, <1>2, <2>1, MetadataAssumption DEF ChainRoles
<1> QED
  BY <1>1, <1>2, <1>3, <1>4 DEF ChainRoles

\* A save that changes nothing keeps every version, time and root.
LEMMA GrowsReflexive == ASSUME NEW st, st \in States PROVE Grows(st, st)
<1>1. \A r \in DOMAIN st.roles : RoleFollows(r, st.roles[r], st.roles[r])
  BY RoleVersions DEF RoleFollows
<1>2. st.time \in Nat
  BY DEF States
<1> QED
  BY <1>1, <1>2 DEF Grows

\* Growth over two saves is growth over both: a role kept at its version and bytes in each
\* is so in the end, and a raised version stays raised.
LEMMA GrowsTransitive ==
  ASSUME NEW a, NEW b, NEW c, a \in States, b \in States, c \in States, Grows(a, b), Grows(b, c)
  PROVE  Grows(a, c)
<1>1. ASSUME NEW r \in DOMAIN a.roles
      PROVE  r \in DOMAIN c.roles /\ RoleFollows(r, a.roles[r], c.roles[r])
  <2>1. r \in DOMAIN b.roles /\ r \in DOMAIN c.roles
    BY DEF Grows
  <2>2. RoleFollows(r, a.roles[r], b.roles[r]) /\ RoleFollows(r, b.roles[r], c.roles[r])
    BY <2>1 DEF Grows
  <2>3. /\ a.roles[r].version \in Nat /\ b.roles[r].version \in Nat /\ c.roles[r].version \in Nat
        /\ r # "targets" => /\ a.roles[r].child.version \in Nat
                            /\ b.roles[r].child.version \in Nat
                            /\ c.roles[r].child.version \in Nat
    BY <2>1, RoleVersions
  <2> QED
    BY <2>1, <2>2, <2>3 DEF RoleFollows
<1>2. ASSUME NEW i \in 1..Len(a.roots) PROVE i \in 1..Len(c.roots) /\ c.roots[i] = a.roots[i]
  BY DEF Grows
<1>3. c.time >= a.time
  BY DEF Grows, States
<1>4. c # a => c.generation > a.generation
  BY DEF Grows, States
<1> QED
  BY <1>1, <1>2, <1>3, <1>4 DEF Grows

\* Retaining an accepted envelope lets its role grow and the others stay.
LEMMA RetainedGrow ==
  ASSUME NEW st, Coherent(st), NEW role \in ChainRoles, NEW e \in Envelopes[role],
         RoleFloor(st, role, e), NEW r \in DOMAIN st.roles
  PROVE  /\ r \in DOMAIN RetainedRoles(st, role, e)
         /\ RoleFollows(r, st.roles[r], RetainedRoles(st, role, e)[r])
<1>1. r \in DOMAIN RetainedRoles(st, role, e)
  BY DEF RetainedRoles
<1>2. CASE r = role
  <2>1. RetainedRoles(st, role, e)[r] = e
    BY <1>2 DEF RetainedRoles
  <2>2. /\ e.version >= st.roles[r].version
        /\ e.version = st.roles[r].version => Signed(e) = Signed(st.roles[r])
        /\ r \in {"timestamp", "snapshot"} => e.child.version >= st.roles[r].child.version
    BY <1>2 DEF RoleFloor, ChildFloor
  <2>3. e.version \in Nat /\ st.roles[r].version \in Nat /\ r \in ChainRoles
    BY RoleVersions, MetadataAssumption DEF Coherent
  <2> QED
    BY <1>1, <2>1, <2>2, <2>3 DEF RoleFollows, ChainRoles
<1>3. CASE r # role
  <2>1. RetainedRoles(st, role, e)[r] = st.roles[r]
    BY <1>3 DEF RetainedRoles
  <2>2. RoleFollows(r, st.roles[r], st.roles[r])
    BY RoleVersions DEF RoleFollows, Coherent
  <2> QED
    BY <1>1, <2>1, <2>2
<1> QED
  BY <1>2, <1>3

\* What a step makes of the file keeps its roles and its roots, or lets them grow.
LEMMA MadeGrow ==
  ASSUME NEW p \in Procs, NEW new, Makes(p, new), Coherent(proc[p].st), Coherent(new)
  PROVE  LET st == proc[p].st IN
         /\ \A r \in DOMAIN st.roles :
              r \in DOMAIN new.roles /\ RoleFollows(r, st.roles[r], new.roles[r])
         /\ \A i \in 1..Len(st.roots) : i \in 1..Len(new.roots) /\ new.roots[i] = st.roots[i]
<1> DEFINE st == proc[p].st
<1>1. st \in States /\ new \in States
  BY DEF Coherent
<1>2. ASSUME NEW r \in DOMAIN st.roles
      PROVE  r \in DOMAIN new.roles /\ RoleFollows(r, st.roles[r], new.roles[r])
  <2>1. CASE new.roles = st.roles
    BY <1>1, <2>1, RoleVersions DEF RoleFollows
  <2>2. CASE new.roles # st.roles
    <3>1. proc[p].pc \in {"timestamp", "snapshot", "targets"}
      BY <1>1, <2>2, MadeFields
    <3>2. \E role \in ChainRoles : \E e \in Envelopes[role] :
            RoleFloor(st, role, e) /\ new.roles = RetainedRoles(st, role, e)
      <4>1. CASE proc[p].pc \in {"timestamp", "snapshot"}
        <5>1. PICK role \in {"timestamp", "snapshot"} : \E e \in Envelopes[role] :
                /\ RoleAccepted(st, role, e, proc[p].clock)
                /\ new = [st EXCEPT !.roles = RetainedRoles(st, role, e)]
          BY <4>1 DEF Makes
        <5>2. PICK e \in Envelopes[role] :
                /\ RoleAccepted(st, role, e, proc[p].clock)
                /\ new = [st EXCEPT !.roles = RetainedRoles(st, role, e)]
          BY <5>1
        <5>3. new.roles = RetainedRoles(st, role, e)
          BY <1>1, <5>2 DEF States
        <5> QED
          BY <5>2, <5>3 DEF RoleAccepted, ChainRoles
      <4>2. CASE proc[p].pc = "targets"
        <5>1. PICK e \in Targets :
                /\ RoleAccepted(st, "targets", e, proc[p].clock)
                /\ new = [st EXCEPT !.roles = RetainedRoles(st, "targets", e),
                                    !.floors = RaisedFloors(st, e.entries)]
          BY <4>2 DEF Makes
        <5>2. new.roles = RetainedRoles(st, "targets", e)
          BY <1>1, <5>1 DEF States
        <5>3. e \in Envelopes["targets"]
          BY DEF Envelopes
        <5> QED
          BY <5>1, <5>2, <5>3 DEF RoleAccepted, ChainRoles
      <4> QED
        BY <3>1, <4>1, <4>2
    <3> QED
      BY <3>2, RetainedGrow
  <2> QED
    BY <2>1, <2>2
<1>3. ASSUME NEW i \in 1..Len(st.roots)
      PROVE  i \in 1..Len(new.roots) /\ new.roots[i] = st.roots[i]
  <2>1. CASE new.roots = st.roots
    BY <2>1
  <2>2. CASE new.roots # st.roots
    <3>1. proc[p].pc = "roots"
      BY <1>1, <2>2, MadeFields
    <3>2. PICK r \in Roots : new = [st EXCEPT !.roots = Append(@, r)]
      BY <3>1 DEF Makes
    <3>3. new.roots = Append(st.roots, r)
      BY <1>1, <3>2 DEF States
    <3>4. st.roots \in Seq(Roots \cup {InitialRoot})
      BY <1>1 DEF States
    <3> QED
      BY <3>3, <3>4
  <2> QED
    BY <2>1, <2>2
<1> QED
  BY <1>2, <1>3

\* A save lets the file grow: the next number, a time no earlier, nothing lost.
LEMMA RewritesGrow ==
  ASSUME Typed, NEW p \in Procs, NEW new, Rewrites(p, new), proc[p].clock >= disk.time
  PROVE  Grows(disk, disk') /\ disk'.generation > disk.generation
<1>1. /\ proc[p].st = disk /\ Coherent(disk) /\ Coherent(new) /\ Makes(p, new)
      /\ disk' = Stamped(new, proc[p].clock)
  BY DEF Rewrites, Typed, TypeOK, Coherent
<1>2. /\ disk'.roles = new.roles /\ disk'.roots = new.roots
      /\ disk'.generation = new.generation + 1 /\ disk'.time = proc[p].clock
  BY <1>1, StampedFields DEF Coherent
<1>3. new.generation = disk.generation
  BY <1>1, MadeFields DEF Coherent
<1>4. disk'.generation > disk.generation
  BY <1>1, <1>2, <1>3 DEF Coherent, States
<1>5. /\ \A r \in DOMAIN disk.roles :
           r \in DOMAIN new.roles /\ RoleFollows(r, disk.roles[r], new.roles[r])
      /\ \A i \in 1..Len(disk.roots) : i \in 1..Len(new.roots) /\ new.roots[i] = disk.roots[i]
  BY <1>1, MadeGrow
<1> QED
  BY <1>2, <1>4, <1>5 DEF Grows

\* A command opened at a time that is not before the file's own.
Punctual == \A p \in Writers : proc[p].clock >= disk.time

\* A running command never changes the time it verifies at.
LEMMA ClockKept ==
  ASSUME Typed, NEW p \in Procs, Step(p)
  PROVE  proc'[p] = Idle \/ proc'[p].clock = proc[p].clock
<1>1. proc[p] \in Sessions /\ proc \in [Procs -> Sessions]
  BY DEF Typed, TypeOK
<1>2. ASSUME NEW pc, Goto(p, pc) PROVE proc'[p].clock = proc[p].clock
  BY <1>1, <1>2 DEF Goto, Sessions
<1>3. ASSUME End(p) PROVE proc'[p] = Idle
  BY <1>1, <1>3 DEF End
<1>4. ASSUME UNCHANGED proc PROVE proc'[p].clock = proc[p].clock
  BY <1>4
<1>5. ASSUME NEW st, NEW pc, Resume(p, st, pc) PROVE proc'[p] = Idle \/ proc'[p].clock = proc[p].clock
  BY <1>1, <1>3, <1>5 DEF Resume, Sessions
<1>6. ASSUME NEW st, NEW pc, Save(p, st, pc) PROVE proc'[p] = Idle \/ proc'[p].clock = proc[p].clock
  BY <1>3, <1>5, <1>6 DEF Save
<1>7. CASE Saving(p)
  BY <1>6, <1>7, SavingMakes
<1>8. CASE \/ FillStore(p) \/ ExportReceipt(p) \/ ExportDone(p) \/ RootsDone(p) \/ Publish(p)
           \/ Reject(p) \/ Refuse(p)
  BY <1>2, <1>3, <1>4, <1>8 DEF FillStore, ExportReceipt, ExportDone, RootsDone, Publish, Reject, Refuse
<1> QED
  BY <1>7, <1>8 DEF Step, Saving, Importing

\* Which sessions may be a writer's after a step, and at which time.
LEMMA WriterClocks ==
  ASSUME Typed, Alone, Next, NEW q \in Writers'
  PROVE  \/ q \in Writers /\ proc'[q].clock = proc[q].clock
         \/ UNCHANGED disk /\ proc'[q].clock >= disk.time
<1>0. Alone' /\ Idle.pc = "idle" /\ q \in Procs
  BY AloneInductive DEF Idle, Writers, Running
<1>1. ASSUME NEW p \in Procs, Step(p), ~FillStore(p)
      PROVE  q \in Writers /\ proc'[q].clock = proc[q].clock
  BY <1>1, OnlyWriter, ClockKept DEF Writers
<1>2. ASSUME NEW p \in Procs, FillStore(p) PROVE q \in Writers /\ proc'[q] = proc[q]
  BY <1>0, <1>2 DEF FillStore, End, Writers, Running, Writes, Typed, TypeOK
<1>3. ASSUME NEW p \in Procs, CreateStore(p) \/ Crash(p) PROVE q \in Writers /\ proc'[q] = proc[q]
  BY <1>0, <1>3 DEF CreateStore, Crash, Goto, End, Writers, Running, Writes, Typed, TypeOK, Sessions
<1>4. ASSUME NEW p \in Procs, NEW command \in Commands, NEW clock \in 1..MaxClock,
             Open(p, command, clock)
      PROVE  \/ q \in Writers /\ proc'[q].clock = proc[q].clock
             \/ UNCHANGED disk /\ proc'[q].clock >= disk.time
  <2>1. CASE q = p
    BY <1>0, <1>4, <2>1 DEF Open, Typed, TypeOK
  <2>2. CASE q # p
    BY <1>0, <1>4, <2>2 DEF Open, Writers, Running, Writes, Typed, TypeOK
  <2> QED
    BY <2>1, <2>2
<1>5. ASSUME NEW o \in Outputs, ForeignFile(o) PROVE q \in Writers /\ proc'[q] = proc[q]
  BY <1>5 DEF ForeignFile, Writers, Running, Writes
<1>6. ASSUME PowerLoss PROVE FALSE
  BY <1>0, <1>6 DEF PowerLoss, Writers, Running
<1> QED
  BY <1>1, <1>2, <1>3, <1>4, <1>5, <1>6 DEF Next

\* Session::open refuses a clock before the saved time and saves write the clock of their
\* session, so a running writer's clock is never before the time in the file.
LEMMA PunctualInductive == Typed /\ Alone /\ Punctual /\ [Next]_vars => Punctual'
<1> SUFFICES ASSUME Typed, Alone, Punctual, [Next]_vars PROVE Punctual'
  OBVIOUS
<1>1. CASE UNCHANGED vars
  BY <1>1 DEF vars, Punctual, Writers, Running, Writes
<1>2. ASSUME Next, NEW q \in Writers' PROVE proc'[q].clock >= disk'.time
  <2>1. disk.time \in Nat /\ Typed'
    BY TypedInductive DEF Typed, TypeOK, States
  <2>2. q \in Procs /\ proc'[q].clock \in Nat
    BY <2>1 DEF Writers, Running, Typed, TypeOK, Sessions
  <2>3. CASE UNCHANGED disk
    BY <1>2, <2>1, <2>3, WriterClocks DEF Punctual
  <2>4. ASSUME NEW p \in Procs, NEW new, Saving(p), Rewrites(p, new)
        PROVE  proc'[q].clock >= disk'.time
    <3>1. Step(p) /\ ~FillStore(p)
      BY <2>4 DEF Saving, Importing, Step, Rewrites, Running, FillStore
    <3>2. q = p /\ proc'[p].clock = proc[p].clock
      BY <3>1, OnlyWriter, ClockKept
    <3>3. disk'.time = proc[p].clock
      BY <2>4, StampedFields DEF Rewrites, Coherent
    <3> QED
      BY <2>2, <3>2, <3>3
  <2>5. CASE PowerLoss
    BY <2>5 DEF PowerLoss, Writers, Running, Idle
  <2> QED
    BY <1>2, <2>3, <2>4, <2>5, FileChanges
<1> QED
  BY <1>1, <1>2 DEF Punctual

\* What is durable is behind what the processes see, in every respect.
LEMMA GrowthInductive ==
  Typed /\ Alone /\ Punctual /\ Grows(synced, disk) /\ [Next]_vars
    => Grows(synced, disk)' /\ Grows(synced, synced')
<1> SUFFICES ASSUME Typed, Alone, Punctual, Grows(synced, disk), [Next]_vars
             PROVE  Grows(synced', disk') /\ Grows(synced, synced')
  OBVIOUS
<1>1. /\ disk \in States /\ synced \in States
      /\ disk' \in States /\ synced' \in States
  BY TypedInductive DEF Typed, TypeOK
<1>2. Grows(synced, synced) /\ Grows(disk', disk')
  BY <1>1, GrowsReflexive
<1>3. CASE UNCHANGED <<disk, synced>>
  BY <1>2, <1>3
<1>4. ASSUME NEW p \in Procs, NEW new, Rewrites(p, new)
      PROVE  Grows(synced', disk') /\ Grows(synced, synced')
  <2>1. proc[p].clock >= disk.time
    BY <1>4 DEF Rewrites, Writers, Punctual
  <2>2. Grows(disk, disk')
    BY <1>4, <2>1, RewritesGrow
  <2>3. Grows(synced, disk')
    BY <1>1, <2>2, GrowsTransitive
  <2>4. synced' \in {synced, disk'}
    BY <1>4 DEF Rewrites
  <2> QED
    BY <1>2, <2>3, <2>4
<1>5. CASE synced' \in {disk, synced} /\ disk' = synced'
  BY <1>2, <1>5
<1> QED
  BY <1>3, <1>4, <1>5, FileChanges DEF vars

\* No session runs before enrollment, and the two versions of the file are one.
LEMMA InitGrowth == Init => Punctual /\ Grows(synced, disk)
<1> SUFFICES ASSUME Init PROVE Punctual /\ Grows(synced, disk)
  OBVIOUS
<1>1. Writers = {}
  BY DEF Init, Idle, Writers, Running
<1>2. Grows(FreshState(1), FreshState(1))
  BY FreshIsCoherent, GrowsReflexive DEF Coherent
<1> QED
  BY <1>1, <1>2 DEF Init, Punctual

\* Durable metadata is never rolled back and never replaced by other content of the
\* same version, the root lineage only grows, and neither the verification time nor the
\* number of the file goes back: through every command, crash, power loss and recovery.
THEOREM VersionsHoldForever == Spec => VersionsNeverRollBack
<1> DEFINE Kept ==
      /\ \A r \in DOMAIN synced.roles :
          /\ r \in DOMAIN synced'.roles
          /\ LET old == synced.roles[r]
                 new == synced'.roles[r]
             IN /\ \/ new.version > old.version
                   \/ new.version = old.version /\ Signed(new) = Signed(old)
                /\ r # "targets" => new.child.version >= old.child.version
      /\ \A i \in 1..Len(synced.roots) :
           i \in 1..Len(synced'.roots) /\ synced'.roots[i] = synced.roots[i]
      /\ synced'.time >= synced.time
      /\ synced' # synced => synced'.generation > synced.generation
<1>1. Grows(synced, synced') => Kept
  BY DEF Grows, RoleFollows
<1>2. Typed /\ Alone /\ Punctual /\ Grows(synced, disk) /\ [Next]_vars =>
        Punctual' /\ Grows(synced, disk)' /\ [Kept]_vars
  BY <1>1, PunctualInductive, GrowthInductive
<1> QED
  BY <1>2, Invariants, InitGrowth, PTL DEF Spec, VersionsNeverRollBack

(***************************************************************************)
(* Room for completion.                                                    *)
(***************************************************************************)

\* The save that settles a journalled installation fits and can be numbered.
Room(st) == st.pending # {} => CanSave(Settled(st))

\* A save that leaves a journal entry behind is the one that made it.
LEMMA PendingIsJournalled ==
  ASSUME Typed, Alone, Journalling, NEW p \in Procs, NEW new, Rewrites(p, new), new.pending # {}
  PROVE  /\ proc[p].pc = "journal" /\ disk.pending = {}
         /\ \E r \in Receipt :
              /\ AtFloor(disk, r) /\ CanComplete(disk, r) /\ out[r.output] = {}
              /\ r.clock = proc[p].clock /\ r.generation = disk.generation + 1
              /\ "targets" \in DOMAIN disk.roles /\ Names(disk.roles["targets"], r)
              /\ new = [disk EXCEPT !.pending = {r}]
<1>1. /\ proc[p].st = disk /\ p \in Writers /\ Makes(p, new)
      /\ Coherent(disk) /\ Coherent(new)
  BY DEF Rewrites, Writers, Typed, TypeOK, Coherent
<1>2. proc[p].pc \notin {"recover", "publish", "complete"} => disk.pending = {}
  BY <1>1 DEF Journalling
<1>3. proc[p].pc \notin {"recover", "complete"}
  <2>1. Settled(disk).pending = {} /\ [disk EXCEPT !.pending = {}].pending = {}
    BY <1>1 DEF Settled, Coherent, States
  <2> QED
    BY <1>1, <2>1 DEF Makes
<1>4. proc[p].pc = "journal"
  BY <1>1, <1>2, <1>3, MadeFields DEF Coherent, Makes
<1> QED
  BY <1>1, <1>2, <1>4 DEF Makes

\* Every save that leaves an entry pending has reserved the room of its completion, and no
\* other save touches generation, completed or the size of a state with an entry.
LEMMA RoomInductive ==
  Typed /\ Alone /\ Journalling /\ Room(disk) /\ Room(synced) /\ [Next]_vars
    => Room(disk)' /\ Room(synced)'
<1> SUFFICES ASSUME Typed, Alone, Journalling, Room(disk), Room(synced), [Next]_vars
             PROVE  Room(disk') /\ Room(synced')
  OBVIOUS
<1>1. CASE UNCHANGED <<disk, synced>>
  BY <1>1
<1>2. ASSUME NEW p \in Procs, NEW new, Rewrites(p, new) PROVE Room(disk') /\ Room(synced')
  <2>1. /\ Coherent(disk) /\ Coherent(new) /\ synced' \in {synced, disk'}
        /\ disk' = Stamped(new, proc[p].clock)
    BY <1>2 DEF Rewrites, Typed, TypeOK, Coherent
  <2>2. /\ disk'.pending = new.pending /\ disk'.completed = new.completed
        /\ disk'.roots = new.roots /\ disk'.generation = new.generation + 1
    BY <2>1, StampedFields DEF Coherent
  <2>3. CASE new.pending = {}
    BY <2>1, <2>2, <2>3 DEF Room
  <2>4. CASE new.pending # {}
    <3>1. PICK r \in Receipt : CanComplete(disk, r) /\ new = [disk EXCEPT !.pending = {r}]
      BY <1>2, <2>4, PendingIsJournalled
    <3>2. /\ new.pending = {r} /\ new.completed = disk.completed
          /\ new.roots = disk.roots /\ new.generation = disk.generation
      BY <2>1, <3>1 DEF Coherent, States
    <3>3. /\ Settled(disk').completed = disk.completed \cup {r}
          /\ Settled(disk').roots = disk.roots
          /\ Settled(disk').generation = disk.generation + 1
      BY <2>1, <2>2, <3>2, TypedInductive DEF Settled, Typed, TypeOK, States
    <3>4. /\ [disk EXCEPT !.completed = @ \cup {r}].completed = disk.completed \cup {r}
          /\ [disk EXCEPT !.completed = @ \cup {r}].roots = disk.roots
      BY <2>1 DEF Coherent, States
    <3>5. Fits(Settled(disk'))
      BY <3>1, <3>3, <3>4 DEF CanComplete, Fits
    <3>6. disk.generation + 1 + 1 <= MaxGeneration
      BY <2>1, <3>1, PolicyAssumption DEF CanComplete, Coherent, States
    <3> QED
      BY <2>1, <3>3, <3>5, <3>6 DEF Room, CanSave
  <2> QED
    BY <2>3, <2>4
<1>3. CASE synced' \in {disk, synced} /\ disk' = synced'
  BY <1>3
<1> QED
  BY <1>1, <1>2, <1>3, FileChanges DEF vars

\* Once an installation is journalled, by this session or before a crash or a power
\* loss, the save that completes or recovers it is never refused for its size or for
\* the generation limit: install_with_checkpoint reserves room for two saves.
THEOREM CompletionStaysReserved == Spec => []CompletionIsReserved
<1>1. Room(disk) => CompletionIsReserved
  BY DEF Room, CompletionIsReserved
<1>2. Init => Room(disk) /\ Room(synced)
  BY DEF Init, Room, FreshState
<1> QED
  BY <1>1, <1>2, Invariants, InitJournals, JournallingInductive, RoomInductive, PTL DEF Spec

(***************************************************************************)
(* Status and import agree.                                                *)
(***************************************************************************)

\* A retained role passes its own floor: the store would take it again.
LEMMA RetainedPassesFloor ==
  ASSUME NEW st, st \in States, NEW role \in DOMAIN st.roles
  PROVE  RoleFloor(st, role, st.roles[role])
<1>1. /\ st.roles[role].version \in Nat /\ role \in ChainRoles
      /\ role # "targets" => st.roles[role].child.version \in Nat
  BY RoleVersions
<1> QED
  BY <1>1 DEF RoleFloor, ChildFloor

\* The releases of the retained targets pass the floors that they raised.
LEMMA RetainedPassesEntries ==
  ASSUME NEW st, Coherent(st), "targets" \in DOMAIN st.roles,
         DOMAIN st.roles["targets"].entries # {}
  PROVE  EntriesAccepted(st, st.roles["targets"].entries)
<1> DEFINE entries == st.roles["targets"].entries
<1>1. st.roles["targets"] \in Targets
  BY DEF Coherent, States, RoleMaps, Envelopes
<1>2. ASSUME NEW q \in DOMAIN entries PROVE EntryAccepted(st.floors[q], entries[q])
  <2>1. entries[q] \in [sequence : Nat, manifest : Manifests]
    BY <1>1, MetadataAssumption
  <2>2. st.floors[q] = entries[q]
    BY DEF Coherent, FloorsFollow
  <2> QED
    BY <2>1, <2>2, NoManifestAssumption DEF EntryAccepted
<1>3. DOMAIN entries \subseteq Profiles
  BY DEF Coherent, FloorsFollow
<1> QED
  BY <1>2, <1>3 DEF EntriesAccepted

\* What trust-status calls acceptable at a time, an import of the retained metadata
\* would accept at that time, for the same release: the two lists of checks, written
\* in two places, agree on every state the store can be in.
THEOREM StatusAgreesWithImport == Spec => []StatusIsReacceptable
<1>1. Typed => StatusIsReacceptable
  <2> SUFFICES ASSUME Typed, NEW p \in Profiles, NEW clock \in disk.time..MaxClock
      PROVE  LET r == [profile |-> p, sequence |-> disk.floors[p].sequence,
                       manifest |-> disk.floors[p].manifest]
                 ts == disk.roles["timestamp"]
             IN
             StatusAccepts([disk EXCEPT !.completed = {r}], r, clock) =>
               /\ RoleAccepted(disk, "timestamp", ts, clock)
               /\ RoleAccepted(disk, "snapshot", ts.child, clock)
               /\ RoleAccepted(disk, "targets", ts.child.child, clock)
               /\ EntriesAccepted(disk, ts.child.child.entries)
               /\ Names(ts.child.child, r)
    BY DEF StatusIsReacceptable
  <2> DEFINE r == [profile |-> p, sequence |-> disk.floors[p].sequence,
                   manifest |-> disk.floors[p].manifest]
             ts == disk.roles["timestamp"]
             st == [disk EXCEPT !.completed = {r}]
  <2> SUFFICES ASSUME StatusAccepts(st, r, clock)
               PROVE  /\ RoleAccepted(disk, "timestamp", ts, clock)
                      /\ RoleAccepted(disk, "snapshot", ts.child, clock)
                      /\ RoleAccepted(disk, "targets", ts.child.child, clock)
                      /\ EntriesAccepted(disk, ts.child.child.entries)
                      /\ Names(ts.child.child, r)
    OBVIOUS
  <2>1. Coherent(disk) /\ disk \in States
    BY DEF Typed, TypeOK, Coherent
  <2>2. st.roles = disk.roles /\ st.roots = disk.roots
    BY <2>1 DEF States
  <2>3. LastRoot(st) = LastRoot(disk)
    BY <2>2 DEF LastRoot
  <2> HIDE DEF st, r
  <2>4. /\ DOMAIN disk.roles = ChainRoles
        /\ \A role \in ChainRoles : /\ StrictSigners(LastRoot(disk), disk.roles[role], role)
                                    /\ Unexpired(disk.roles[role], role, clock)
        /\ Names(disk.roles["targets"], r)
        /\ ts.child = disk.roles["snapshot"] /\ disk.roles["snapshot"].child = disk.roles["targets"]
    BY <2>2, <2>3 DEF StatusAccepts
  <2>5. \A role \in ChainRoles : RoleAccepted(disk, role, disk.roles[role], clock)
    BY <2>1, <2>4, RetainedPassesFloor DEF RoleAccepted
  <2>6. EntriesAccepted(disk, disk.roles["targets"].entries)
    <3>1. DOMAIN disk.roles["targets"].entries # {} /\ "targets" \in DOMAIN disk.roles
      BY <2>4 DEF Names, ChainRoles
    <3> QED
      BY <2>1, <3>1, RetainedPassesEntries
  <2> QED
    BY <2>4, <2>5, <2>6 DEF ChainRoles
<1> QED
  BY <1>1, Invariants, PTL

(***************************************************************************)
(* Only what is trusted now is journalled.                                 *)
(***************************************************************************)

\* A retained role is signed under the last root and current at this time.
Current(st, role, clock) ==
  /\ role \in DOMAIN st.roles
  /\ StrictSigners(LastRoot(st), st.roles[role], role)
  /\ Unexpired(st.roles[role], role, clock)

\* What a session knows of its state at each step of an import.
Imported(s) ==
  /\ s.pc \in {"timestamp", "snapshot", "targets", "journal"} =>
       Unexpired(LastRoot(s.st), "root", s.clock)
  /\ s.pc \in {"snapshot", "targets", "journal"} => Current(s.st, "timestamp", s.clock)
  /\ s.pc \in {"targets", "journal"} =>
       /\ Current(s.st, "snapshot", s.clock)
       /\ s.st.roles["timestamp"].child = s.st.roles["snapshot"]
  /\ s.pc = "journal" =>
       /\ Current(s.st, "targets", s.clock)
       /\ s.st.roles["snapshot"].child = s.st.roles["targets"]

Deciding == \A p \in Writers : Imported(proc[p])

\* The steps at which a session relies on nothing it has imported.
Unimported == Pcs \ {"timestamp", "snapshot", "targets", "journal"}

\* At these steps of a session nothing is claimed of its copy.
LEMMA UnimportedHolds == ASSUME NEW s, s.pc \in Unimported PROVE Imported(s)
BY DEF Unimported, Imported

\* A role accepted under the last root is current once it is retained, and the roles
\* retained before it stay current.
LEMMA RetainedIsCurrent ==
  ASSUME NEW st, Coherent(st), NEW role \in ChainRoles, NEW e \in Envelopes[role], NEW clock,
         RoleAccepted(st, role, e, clock), NEW new, new.roots = st.roots,
         new.roles = RetainedRoles(st, role, e)
  PROVE  /\ LastRoot(new) = LastRoot(st)
         /\ new.roles[role] = e /\ Current(new, role, clock)
         /\ \A other \in ChainRoles \ {role} : Current(st, other, clock) =>
              Current(new, other, clock) /\ new.roles[other] = st.roles[other]
<1>1. LastRoot(new) = LastRoot(st)
  BY DEF LastRoot
<1>2. role \in DOMAIN new.roles /\ new.roles[role] = e
  BY DEF RetainedRoles
<1>3. Current(new, role, clock)
  BY <1>1, <1>2 DEF Current, RoleAccepted
<1>4. ASSUME NEW other \in ChainRoles \ {role}, Current(st, other, clock)
      PROVE  Current(new, other, clock) /\ new.roles[other] = st.roles[other]
  <2>1. other \in DOMAIN new.roles /\ new.roles[other] = st.roles[other]
    BY <1>4 DEF RetainedRoles, Current
  <2> QED
    BY <1>1, <1>4, <2>1 DEF Current
<1> QED
  BY <1>1, <1>2, <1>3, <1>4

\* A save that a session survives hands on what the next step relies on.
LEMMA SaveDecides ==
  ASSUME Typed, Deciding, NEW p \in Procs, NEW new, Rewrites(p, new), Resume(p, disk', After(p)),
         disk' \in States
  PROVE  proc'[p] = Idle \/ Imported(proc'[p])
<1> DEFINE st == proc[p].st
           clock == proc[p].clock
           Resumed == [proc[p] EXCEPT !.st = disk', !.pc = After(p)]
<1>1. /\ Coherent(st) /\ Coherent(new) /\ Makes(p, new) /\ st = disk
      /\ proc[p] \in Sessions /\ proc \in [Procs -> Sessions] /\ Imported(proc[p])
  BY DEF Rewrites, Writers, Deciding, Typed, TypeOK, Sessions, Coherent
<1>2. disk'.roles = new.roles /\ disk'.roots = new.roots
  BY <1>1, StampedFields DEF Rewrites, Coherent
<1>3. CASE After(p) = "idle"
  BY <1>1, <1>3 DEF Resume, End
<1>4. CASE After(p) # "idle"
  <2>1. /\ proc'[p] = Resumed /\ Resumed.pc = After(p)
        /\ Resumed.clock = clock /\ Resumed.st = disk'
    BY <1>1, <1>4 DEF Resume, Sessions
  <2> HIDE DEF Resumed
  <2>2. CASE After(p) \in Unimported
    BY <2>1, <2>2, UnimportedHolds
  <2>3. CASE proc[p].pc = "timestamp"
    <3>1. PICK e \in Envelopes["timestamp"] :
            /\ RoleAccepted(st, "timestamp", e, clock)
            /\ new = [st EXCEPT !.roles = RetainedRoles(st, "timestamp", e)]
      BY <1>1, <2>3 DEF Makes
    <3>2. disk'.roots = st.roots /\ disk'.roles = RetainedRoles(st, "timestamp", e)
      BY <1>1, <1>2, <3>1 DEF Coherent, States
    <3>3. LastRoot(disk') = LastRoot(st) /\ Current(disk', "timestamp", clock)
      BY <1>1, <3>1, <3>2, RetainedIsCurrent DEF ChainRoles
    <3>4. Unexpired(LastRoot(st), "root", clock)
      BY <1>1, <2>3 DEF Imported
    <3> QED
      BY <2>1, <2>3, <3>3, <3>4 DEF Imported, After
  <2>4. CASE proc[p].pc = "snapshot"
    <3>1. PICK e \in Envelopes["snapshot"] :
            /\ RoleAccepted(st, "snapshot", e, clock)
            /\ "timestamp" \in DOMAIN st.roles /\ e = st.roles["timestamp"].child
            /\ new = [st EXCEPT !.roles = RetainedRoles(st, "snapshot", e)]
      BY <1>1, <2>4 DEF Makes
    <3>2. disk'.roots = st.roots /\ disk'.roles = RetainedRoles(st, "snapshot", e)
      BY <1>1, <1>2, <3>1 DEF Coherent, States
    <3>3. /\ Unexpired(LastRoot(st), "root", clock) /\ Current(st, "timestamp", clock)
      BY <1>1, <2>4 DEF Imported
    <3>4. /\ LastRoot(disk') = LastRoot(st) /\ Current(disk', "snapshot", clock)
          /\ disk'.roles["snapshot"] = e
          /\ Current(disk', "timestamp", clock)
          /\ disk'.roles["timestamp"] = st.roles["timestamp"]
      BY <1>1, <3>1, <3>2, <3>3, RetainedIsCurrent DEF ChainRoles
    <3> QED
      BY <2>1, <2>4, <3>1, <3>3, <3>4 DEF Imported, After
  <2>5. CASE proc[p].pc = "targets"
    <3>1. PICK e \in Targets :
            /\ "snapshot" \in DOMAIN st.roles /\ e = st.roles["snapshot"].child
            /\ RoleAccepted(st, "targets", e, clock)
            /\ new = [st EXCEPT !.roles = RetainedRoles(st, "targets", e),
                                !.floors = RaisedFloors(st, e.entries)]
      BY <1>1, <2>5 DEF Makes
    <3>2. disk'.roots = st.roots /\ disk'.roles = RetainedRoles(st, "targets", e)
      BY <1>1, <1>2, <3>1 DEF Coherent, States
    <3>3. /\ Unexpired(LastRoot(st), "root", clock) /\ Current(st, "timestamp", clock)
          /\ Current(st, "snapshot", clock)
          /\ st.roles["timestamp"].child = st.roles["snapshot"]
      BY <1>1, <2>5 DEF Imported
    <3>4. /\ LastRoot(disk') = LastRoot(st) /\ Current(disk', "targets", clock)
          /\ disk'.roles["targets"] = e
          /\ Current(disk', "timestamp", clock) /\ Current(disk', "snapshot", clock)
          /\ disk'.roles["timestamp"] = st.roles["timestamp"]
          /\ disk'.roles["snapshot"] = st.roles["snapshot"]
      <4>1. e \in Envelopes["targets"] /\ "targets" \in ChainRoles
            /\ "timestamp" \in ChainRoles \ {"targets"} /\ "snapshot" \in ChainRoles \ {"targets"}
        BY DEF Envelopes, ChainRoles
      <4> QED
        BY <1>1, <3>1, <3>2, <3>3, <4>1, RetainedIsCurrent
    <3> QED
      BY <2>1, <3>1, <3>3, <3>4 DEF Imported
  <2>6. proc[p].pc \notin {"timestamp", "snapshot", "targets"} => After(p) \in Unimported
    BY DEF After, Unimported, Pcs
  <2> QED
    BY <2>2, <2>3, <2>4, <2>5, <2>6
<1> QED
  BY <1>3, <1>4

\* What a session knows is established step by step, on a file nobody else changes.
LEMMA DecidingInductive == Typed /\ Alone /\ Deciding /\ [Next]_vars => Deciding'
<1> SUFFICES ASSUME Typed, Alone, Deciding, [Next]_vars, NEW q \in Writers'
             PROVE  Imported(proc'[q])
  BY DEF Deciding
<1>0. Idle.pc = "idle" /\ q \in Procs /\ proc'[q] # Idle /\ proc'[q].pc \notin {"idle", "enrol"}
  BY DEF Idle, Writers, Running
<1>1. proc \in [Procs -> Sessions]
  BY DEF Typed, TypeOK
<1>2. ASSUME q \in Writers, proc'[q] = proc[q] PROVE Imported(proc'[q])
  BY <1>2 DEF Deciding
<1>3. ASSUME NEW p \in Procs, Step(p), ~FillStore(p) PROVE Imported(proc'[q])
  <2>1. q = p /\ p \in Running /\ Writes(p)
    BY <1>3, OnlyWriter
  <2>2. CASE Saving(p)
    <3>1. PICK new : Rewrites(p, new)
      <4>1. p \in Running /\ \E new : Coherent(new) /\ Makes(p, new) /\ Save(p, new, After(p))
        BY <2>2, SavingMakes
      <4>2. proc[p].st = disk
        BY <2>1 DEF Alone, WriterIsAlone, Writers
      <4> QED
        BY <2>1, <4>1, <4>2 DEF Save, Rewrites
    <3>2. CASE Resume(p, disk', After(p))
      <4>1. disk' \in States
        BY TypedInductive DEF Typed, TypeOK
      <4> QED
        BY <1>0, <2>1, <3>1, <3>2, <4>1, SaveDecides
    <3>3. CASE End(p)
      BY <1>0, <1>1, <2>1, <3>3 DEF End
    <3> QED
      BY <3>1, <3>2, <3>3 DEF Rewrites
  <2>3. CASE RootsDone(p)
    <3>1. proc'[p].pc \in {"finish", "timestamp"} /\ proc'[p].st = proc[p].st
          /\ proc'[p].clock = proc[p].clock
      BY <1>1, <2>3 DEF RootsDone, Goto, Sessions
    <3>2. Unexpired(LastRoot(proc[p].st), "root", proc[p].clock)
      BY <2>3 DEF RootsDone
    <3> QED
      BY <2>1, <3>1, <3>2 DEF Imported
  <2>4. CASE ExportDone(p) \/ Publish(p)
    <3>1. proc'[p].pc \in {"roots", "complete"}
      BY <1>0, <1>1, <2>1, <2>4 DEF ExportDone, Publish, Goto, End, Sessions
    <3> QED
      BY <2>1, <3>1, UnimportedHolds DEF Unimported, Pcs
  <2>5. CASE ExportReceipt(p)
    BY <1>2, <2>1, <2>5 DEF ExportReceipt, Writers
  <2>6. CASE Reject(p) \/ Refuse(p)
    BY <1>0, <1>1, <2>1, <2>6 DEF Reject, Refuse, End
  <2> QED
    BY <1>3, <2>2, <2>3, <2>4, <2>5, <2>6 DEF Step, Saving, Importing
<1>4. ASSUME NEW p \in Procs, FillStore(p) PROVE Imported(proc'[q])
  BY <1>0, <1>1, <1>2, <1>4 DEF FillStore, End, Writers, Running, Writes
<1>5. ASSUME NEW p \in Procs, CreateStore(p) \/ Crash(p) PROVE Imported(proc'[q])
  BY <1>0, <1>1, <1>2, <1>5 DEF CreateStore, Crash, Goto, End, Writers, Running, Writes, Sessions
<1>6. ASSUME NEW p \in Procs, NEW command \in Commands, NEW clock \in 1..MaxClock,
             Open(p, command, clock)
      PROVE  Imported(proc'[q])
  <2>1. CASE q = p
    <3>1. proc'[q].pc \in {"roots", "recover", "export"}
      BY <1>1, <1>6, <2>1 DEF Open, FirstStep
    <3> QED
      BY <3>1, UnimportedHolds DEF Unimported, Pcs
  <2>2. CASE q # p
    BY <1>0, <1>1, <1>2, <1>6, <2>2 DEF Open, Writers, Running, Writes
  <2> QED
    BY <2>1, <2>2
<1>7. ASSUME NEW o \in Outputs, ForeignFile(o) PROVE Imported(proc'[q])
  BY <1>2, <1>7 DEF ForeignFile, Writers, Running, Writes
<1>8. ASSUME PowerLoss PROVE FALSE
  BY <1>0, <1>8 DEF PowerLoss
<1>9. CASE UNCHANGED vars
  BY <1>2, <1>9 DEF vars, Writers, Running, Writes
<1> QED
  BY <1>3, <1>4, <1>5, <1>6, <1>7, <1>8, <1>9 DEF Next

\* What is journalled is what the retained chain names, at the time of the decision.
Authorised(st) ==
  \A r \in st.pending :
    /\ StatusAccepts([st EXCEPT !.pending = {}, !.completed = {r}], r, r.clock)
    /\ st.time = r.clock

\* The journal entry of install_with_checkpoint satisfies the checks of status.
LEMMA JournalAuthorised ==
  ASSUME Typed, Alone, Journalling, Deciding, NEW p \in Procs, NEW new, Rewrites(p, new),
         disk' \in States
  PROVE  Authorised(disk')
<1>1. /\ Coherent(disk) /\ Coherent(new) /\ p \in Writers /\ proc[p].st = disk
      /\ disk' = Stamped(new, proc[p].clock)
  BY DEF Rewrites, Writers, Typed, TypeOK, Coherent
<1>2. /\ disk'.pending = new.pending /\ disk'.roles = new.roles /\ disk'.roots = new.roots
      /\ disk'.floors = new.floors /\ disk'.time = proc[p].clock
  BY <1>1, StampedFields DEF Coherent
<1>3. CASE new.pending = {}
  BY <1>2, <1>3 DEF Authorised
<1>4. CASE new.pending # {}
  <2>1. PICK r \in Receipt :
          /\ AtFloor(disk, r) /\ r.clock = proc[p].clock
          /\ Names(disk.roles["targets"], r)
          /\ new = [disk EXCEPT !.pending = {r}]
    BY <1>4, PendingIsJournalled
  <2>2. proc[p].pc = "journal"
    BY <1>4, PendingIsJournalled
  <2>3. /\ Unexpired(LastRoot(disk), "root", r.clock)
        /\ Current(disk, "timestamp", r.clock) /\ Current(disk, "snapshot", r.clock)
        /\ Current(disk, "targets", r.clock)
        /\ disk.roles["timestamp"].child = disk.roles["snapshot"]
        /\ disk.roles["snapshot"].child = disk.roles["targets"]
    BY <1>1, <2>1, <2>2 DEF Deciding, Imported
  <2>4. /\ disk'.pending = {r} /\ disk'.roles = disk.roles /\ disk'.roots = disk.roots
        /\ disk'.floors = disk.floors
    BY <1>1, <1>2, <2>1 DEF Coherent, States
  <2> DEFINE st == [disk' EXCEPT !.pending = {}, !.completed = {r}]
  <2>5. /\ st.roles = disk.roles /\ st.roots = disk.roots /\ st.floors = disk.floors
        /\ st.pending = {} /\ st.completed = {r}
    BY <2>4 DEF States
  <2> HIDE DEF st
  <2>6. LastRoot(st) = LastRoot(disk)
    BY <2>5 DEF LastRoot
  <2>7. DOMAIN disk.roles = ChainRoles
    <3>1. DOMAIN disk.roles \subseteq ChainRoles
      BY <1>1 DEF Coherent, States, RoleMaps
    <3> QED
      BY <2>3, <3>1 DEF Current, ChainRoles
  <2>8. \A role \in ChainRoles : /\ StrictSigners(LastRoot(disk), disk.roles[role], role)
                                 /\ Unexpired(disk.roles[role], role, r.clock)
    BY <2>3 DEF Current, ChainRoles
  <2>9. StatusAccepts(st, r, r.clock)
    BY <2>1, <2>3, <2>5, <2>6, <2>7, <2>8 DEF StatusAccepts, AtFloor
  <2> QED
    BY <1>2, <2>1, <2>4, <2>9 DEF Authorised, st
<1> QED
  BY <1>3, <1>4

\* An entry is written by a session whose targets name its release under the last root, and
\* only the session that opened the store, recovering, finds one: no root comes in between.
LEMMA AuthorisedInductive ==
  Typed /\ Alone /\ Journalling /\ Deciding /\ Authorised(disk) /\ Authorised(synced) /\ [Next]_vars
    => Authorised(disk)' /\ Authorised(synced)'
<1> SUFFICES ASSUME Typed, Alone, Journalling, Deciding, Authorised(disk), Authorised(synced),
                    [Next]_vars
             PROVE  Authorised(disk') /\ Authorised(synced')
  OBVIOUS
<1>1. CASE UNCHANGED <<disk, synced>>
  BY <1>1
<1>2. ASSUME NEW p \in Procs, NEW new, Rewrites(p, new) PROVE Authorised(disk') /\ Authorised(synced')
  <2>1. disk' \in States
    BY TypedInductive DEF Typed, TypeOK
  <2>2. Authorised(disk')
    BY <1>2, <2>1, JournalAuthorised
  <2> QED
    BY <1>2, <2>2 DEF Rewrites
<1>3. CASE synced' \in {disk, synced} /\ disk' = synced'
  BY <1>3
<1> QED
  BY <1>1, <1>2, <1>3, FileChanges DEF vars

\* A fresh file has no entry.
LEMMA InitAuthorised == Init => Deciding /\ Authorised(disk) /\ Authorised(synced)
<1> SUFFICES ASSUME Init PROVE Deciding /\ Authorised(disk) /\ Authorised(synced)
  OBVIOUS
<1>1. Writers = {}
  BY DEF Init, Idle, Writers, Running
<1>2. Authorised(FreshState(1))
  BY DEF Authorised, FreshState
<1> QED
  BY <1>1, <1>2 DEF Init, Deciding

\* As long as an installation is journalled, the state that records it still says why:
\* every retained role is signed under the trusted root and was current at the time of
\* the decision, the chain is linked and names that release.  No import, rotation or
\* recovery comes between the decision and its outcome.
THEOREM PendingStaysAuthorised == Spec => []PendingAuthorised
<1>1. Authorised(disk) => PendingAuthorised
  BY DEF Authorised, PendingAuthorised
<1> QED
  BY <1>1, Invariants, InitJournals, InitAuthorised, JournallingInductive, DecidingInductive,
     AuthorisedInductive, PTL DEF Spec

(***************************************************************************)
(* Output paths and exported receipts.                                     *)
(***************************************************************************)

\* What a step may do at the output paths: link one vacant path, for its own journal
\* entry or for another program, or go back to what is durable.
LEMMA OutputChanges ==
  ASSUME Typed, Alone, Next
  PROVE  \/ UNCHANGED <<out, outSynced>>
         \/ \E p \in Procs : RecoverPublished(p) /\ UNCHANGED out
         \/ \E p \in Procs : Publish(p)
         \/ \E o \in Outputs : ForeignFile(o)
         \/ PowerLoss
<1>1. ASSUME NEW p \in Procs, Step(p), ~Publish(p), ~RecoverPublished(p)
      PROVE  UNCHANGED <<out, outSynced>>
  BY <1>1 DEF Step, FillStore, RecoverAbsent, ExportReceipt, ExportDone, ImportRoot, RootsDone,
     ImportTimestamp, ImportSnapshot, ImportTargets, FinishImport, Journal, Complete, Reject,
     Refuse, Retain
<1>2. ASSUME NEW p \in Procs, RecoverPublished(p) PROVE UNCHANGED out
  BY <1>2 DEF RecoverPublished
<1>3. ASSUME NEW p \in Procs,
             \/ CreateStore(p) \/ Crash(p)
             \/ \E command \in Commands, clock \in 1..MaxClock : Open(p, command, clock)
      PROVE  UNCHANGED <<out, outSynced>>
  BY <1>3 DEF CreateStore, Crash, Open
<1> QED
  BY <1>1, <1>2, <1>3 DEF Next

\* A file at an output path is never replaced, and removed only by a power loss that
\* undoes a link nobody had synced: publication is a hard link to a vacant path.
THEOREM OutputsStay == Spec => OutputsArePreserved
<1> DEFINE Kept == \A o \in Outputs : out[o] # {} => out'[o] \in {out[o], outSynced[o]}
<1>1. ASSUME Typed, Alone, [Next]_vars PROVE Kept
  <2>1. CASE UNCHANGED out
    BY <2>1
  <2>2. ASSUME NEW p \in Procs, Publish(p) PROVE Kept
    <3>1. PICK r \in proc[p].st.pending :
            /\ out[r.output] = {}
            /\ out' = [out EXCEPT ![r.output] = {[bytes |-> r.manifest, by |-> {r}]}]
      BY <2>2 DEF Publish, Vacant
    <3> QED
      BY <3>1 DEF Typed, TypeOK
  <2>3. ASSUME NEW o \in Outputs, ForeignFile(o) PROVE Kept
    BY <2>3 DEF ForeignFile, Typed, TypeOK
  <2>4. CASE PowerLoss
    BY <2>4 DEF PowerLoss
  <2>5. CASE UNCHANGED vars
    BY <2>1, <2>5 DEF vars
  <2> QED
    BY <1>1, <2>1, <2>2, <2>3, <2>4, <2>5, OutputChanges
<1> QED
  BY <1>1, Invariants, PTL DEF Spec, OutputsArePreserved

\* Every receipt that the state, the durable state or a receipt file holds.
Records ==
  receipts \cup disk.pending \cup disk.completed \cup synced.pending \cup synced.completed

\* The path of a recorded receipt holds that installation's file, or a foreign one.
Owned == \A r \in Records : \A f \in out[r.output] : f.by \subseteq {r}

\* A receipt enters the record through the journal, while nothing is at its path.
LEMMA RecordsEnter ==
  ASSUME Typed, Alone, Journalling, Next, NEW r \in Records'
  PROVE  r \in Records \/ (out[r.output] = {} /\ UNCHANGED out)
<1>1. r \in receipts' => r \in Records
  <2>1. ASSUME NEW p \in Procs, ExportReceipt(p), r \in receipts' PROVE r \in Records
    <3>1. p \in Writers
      BY <2>1 DEF ExportReceipt, Alone, WriterSteps, Writers, Running
    <3>2. proc[p].st = disk
      BY <3>1 DEF Alone, WriterIsAlone
    <3> QED
      BY <2>1, <3>2 DEF ExportReceipt, Records
  <2>2. ASSUME NEW p \in Procs, Step(p), ~ExportReceipt(p) PROVE receipts' = receipts
    BY <2>2 DEF Step, FillStore, RecoverPublished, RecoverAbsent, ExportDone, ImportRoot, RootsDone,
       ImportTimestamp, ImportSnapshot, ImportTargets, FinishImport, Journal, Publish, Complete,
       Reject, Refuse, Retain
  <2>3. ASSUME NEW p \in Procs,
               \/ CreateStore(p) \/ Crash(p)
               \/ \E command \in Commands, clock \in 1..MaxClock : Open(p, command, clock)
        PROVE  receipts' = receipts
    BY <2>3 DEF CreateStore, Crash, Open
  <2>4. ASSUME NEW o \in Outputs, ForeignFile(o) PROVE receipts' = receipts
    BY <2>4 DEF ForeignFile
  <2>5. PowerLoss => receipts' = receipts
    BY DEF PowerLoss
  <2> QED
    BY <2>1, <2>2, <2>3, <2>4, <2>5 DEF Next, Records
<1>2. CASE UNCHANGED <<disk, synced>>
  BY <1>1, <1>2 DEF Records
<1>3. ASSUME NEW p \in Procs, NEW new, Saving(p), Rewrites(p, new)
      PROVE  r \in Records \/ (out[r.output] = {} /\ UNCHANGED out)
  <2>1. /\ Coherent(disk) /\ Coherent(new) /\ Makes(p, new) /\ proc[p].st = disk
        /\ disk' = Stamped(new, proc[p].clock) /\ synced' \in {synced, disk'}
    BY <1>3 DEF Rewrites, Typed, TypeOK, Coherent
  <2>2. disk'.pending = new.pending /\ disk'.completed = new.completed
    BY <2>1, StampedFields DEF Coherent
  <2>3. UNCHANGED out
    BY <1>3 DEF Saving, Importing, RecoverPublished, RecoverAbsent, ImportRoot, ImportTimestamp,
       ImportSnapshot, ImportTargets, FinishImport, Journal, Complete, Retain
  <2>4. new.completed \subseteq disk.completed \cup disk.pending
    <3>1. CASE proc[p].pc \in {"recover", "complete"}
      BY <2>1, <3>1 DEF Makes, Settled, Coherent, States
    <3>2. CASE proc[p].pc \notin {"recover", "complete"}
      BY <2>1, <3>2, MadeFields DEF Coherent
    <3> QED
      BY <3>1, <3>2
  <2>5. ASSUME r \in new.pending PROVE out[r.output] = {}
    <3>1. PICK x \in Receipt : out[x.output] = {} /\ new = [disk EXCEPT !.pending = {x}]
      BY <1>3, <2>5, PendingIsJournalled
    <3>2. new.pending = {x}
      BY <2>1, <3>1 DEF Coherent, States
    <3> QED
      BY <2>5, <3>1, <3>2
  <2> QED
    BY <1>1, <2>1, <2>2, <2>3, <2>4, <2>5 DEF Records
<1>4. CASE synced' \in {disk, synced} /\ disk' = synced'
  BY <1>1, <1>4 DEF Records
<1> QED
  BY <1>2, <1>3, <1>4, FileChanges

\* Linking a vacant path: no completed or exported receipt stands for it.
LEMMA PublishOwns ==
  ASSUME Typed, Alone, Journalling, Accounting, Owned, NEW p \in Procs, Publish(p), NEW r \in Records,
         NEW f \in out'[r.output]
  PROVE  f.by \subseteq {r}
<1>1. p \in Writers /\ proc[p].st = disk /\ synced = disk
  BY DEF Publish, Alone, WriterIsAlone, WriterSteps, Writers, Running, Journalling
<1>2. PICK x \in disk.pending :
        /\ out[x.output] = {}
        /\ out' = [out EXCEPT ![x.output] = {[bytes |-> x.manifest, by |-> {x}]}]
  BY <1>1 DEF Publish, Vacant
<1>3. r \in Receipt /\ r.output \in Outputs /\ x.output \in Outputs
  <2>1. r \in Receipt /\ x \in Receipt
    BY <1>1, ReceiptsTyped DEF Records
  <2> QED
    BY <2>1 DEF Receipt
<1>4. CASE r.output # x.output
  <2>1. out'[r.output] = out[r.output]
    BY <1>2, <1>3, <1>4 DEF Typed, TypeOK
  <2> QED
    BY <2>1 DEF Owned
<1>5. CASE r.output = x.output
  <2>1. f.by = {x}
    BY <1>2, <1>3, <1>5 DEF Typed, TypeOK
  <2>2. r \notin disk.completed \cup synced.completed \cup receipts
    <3>1. outSynced[r.output] = {}
      BY <1>2, <1>3, <1>5 DEF Accounting
    <3> QED
      BY <3>1 DEF Accounting, Durable
  <2>3. r \in disk.pending
    BY <1>1, <2>2 DEF Records
  <2>4. r = x
    BY <2>3 DEF Journalling
  <2> QED
    BY <2>1, <2>4
<1> QED
  BY <1>4, <1>5

\* A path is linked by one receipt: publish needs it vacant, and another entry for the path
\* is not written while a file is there.
LEMMA OwnedInductive == Typed /\ Alone /\ Journalling /\ Accounting /\ Owned /\ [Next]_vars => Owned'
<1> SUFFICES ASSUME Typed, Alone, Journalling, Accounting, Owned, [Next]_vars,
                    NEW r \in Records', NEW f \in out'[r.output]
             PROVE  f.by \subseteq {r}
  BY DEF Owned
<1>1. CASE UNCHANGED vars
  BY <1>1 DEF vars, Owned, Records
<1>2. ASSUME Next, \A o : \A x \in out'[o] : x \in out[o] \/ x.by = {} PROVE f.by \subseteq {r}
  BY <1>2, RecordsEnter DEF Owned
<1>3. ASSUME Next, NEW p \in Procs, Publish(p) PROVE f.by \subseteq {r}
  <2>1. UNCHANGED <<disk, synced, receipts>>
    BY <1>3 DEF Publish
  <2> QED
    BY <1>3, <2>1, PublishOwns DEF Records
<1>4. ASSUME Next, NEW o \in Outputs, ForeignFile(o) PROVE f.by \subseteq {r}
  <2>1. UNCHANGED <<disk, synced, receipts>>
    BY <1>4 DEF ForeignFile
  <2>2. PICK b \in ForeignBytes : out' = [out EXCEPT ![o] = {[bytes |-> b, by |-> {}]}]
    BY <1>4 DEF ForeignFile
  <2>3. f \in out[r.output] \/ f.by = {}
    BY <2>2 DEF Typed, TypeOK
  <2> QED
    BY <2>1, <2>3 DEF Owned, Records
<1>5. ASSUME Next, PowerLoss PROVE f.by \subseteq {r}
  <2>1. r \in Records
    BY <1>5 DEF PowerLoss, Records
  <2>2. r.output \in Outputs
    <3>1. Typed'
      BY TypedInductive
    <3>2. r \in Receipt
      BY <3>1 DEF Records, Typed, TypeOK, States
    <3> QED
      BY <3>2 DEF Receipt
  <2>3. f \in out[r.output]
    BY <1>5, <2>2 DEF PowerLoss, Accounting
  <2> QED
    BY <2>1, <2>3 DEF Owned
<1> QED
  BY <1>1, <1>2, <1>3, <1>4, <1>5, OutputChanges

\* A receipt file always claims what the state records, in the version the processes see
\* and in any a power loss restores, or else the path it names holds exactly its bytes
\* from another program: what an operator reads in an exported receipt is never void.
THEOREM ReceiptsStayBacked == Spec => []ReceiptsAreBacked
<1>1. Typed /\ Accounting /\ Owned => ReceiptsAreBacked
  <2> SUFFICES ASSUME Typed, Accounting, Owned, NEW r \in receipts
               PROVE  \/ \A st \in {disk, synced} : r \in st.completed \cup st.pending
                      \/ \E f \in out[r.output] : f.bytes = r.manifest /\ f.by = {}
    BY DEF ReceiptsAreBacked
  <2>1. r.output \in Outputs
    BY ReceiptsTyped DEF Receipt
  <2>2. PICK f \in outSynced[r.output] : f.bytes = r.manifest
    BY DEF Accounting, Durable
  <2>3. f \in out[r.output]
    BY <2>1, <2>2 DEF Accounting
  <2>4. f.by \subseteq {r}
    BY <2>3 DEF Owned, Records
  <2>5. CASE f.by = {}
    BY <2>2, <2>3, <2>5
  <2>6. CASE r \in f.by
    BY <2>1, <2>3, <2>6 DEF Accounting, Accounted
  <2> QED
    BY <2>4, <2>5, <2>6
<1>2. Init => Owned
  BY DEF Init, FreshState, Owned, Records
<1> QED
  BY <1>1, <1>2, Invariants, InitJournals, JournallingInductive, AccountingInductive, OwnedInductive,
     PTL DEF Spec

(***************************************************************************)
(* The durable state implements the release ledger.                        *)
(*                                                                         *)
(* The ledger sees only what a power loss would leave.  A save that was    *)
(* not synced is invisible to it until a later save, or a power loss that  *)
(* keeps the new file, makes both durable at once; Behind lists how far    *)
(* the durable file may then lag, and each case is one step of the ledger. *)
(***************************************************************************)

\* What the ledger can tell apart.
SameLedger(a, b) == a.floors = b.floors /\ InstallsKept(a, b)

\* One ledger step or none leads from a to b.
Behind(a, b) ==
  \/ SameLedger(a, b)
  \/ InstallsKept(a, b) /\ FloorsHold(a, b) /\ b.pending = {}
  \/ /\ b.floors = a.floors /\ b.completed = a.completed /\ a.pending = {}
     /\ \E r \in Receipt : b.pending = {r} /\ r \notin a.completed /\ AtFloor(a, r)
  \/ /\ b.floors = a.floors /\ a.pending # {} /\ b.pending = {}
     /\ b.completed \in {a.completed, a.completed \cup a.pending}
  \/ /\ b.floors = a.floors /\ a.pending = {} /\ b.pending = {}
     /\ \E r \in Receipt : b.completed = a.completed \cup {r} /\ AtFloor(a, r)

\* Past the timestamp, a session works on a file that is durable.
Caught == \A p \in Writers : proc[p].pc \in {"snapshot", "targets", "journal"} => synced = disk

\* Receipts carry the number of the file that journalled them.
Numbered(st) == \A r \in st.completed \cup st.pending : r.generation <= st.generation

\* A step of the durable file that Behind allows is a step of the ledger.
LEMMA BehindIsALedgerStep ==
  ASSUME synced \in States, synced' \in States, Behind(synced, synced')
  PROVE  [Ledger!LedgerNext]_(Ledger!ledger)
<1> USE DEF Ledger!LedgerNext, Ledger!ledger
<1>1. CASE SameLedger(synced, synced')
  BY <1>1 DEF SameLedger, InstallsKept
<1>2. CASE InstallsKept(synced, synced') /\ FloorsHold(synced, synced')
  BY <1>2 DEF Ledger!Observe, Ledger!Follows, InstallsKept, FloorsHold, FloorHolds
<1>3. CASE /\ synced'.floors = synced.floors /\ synced'.completed = synced.completed
           /\ synced.pending = {}
           /\ \E r \in Receipt : synced'.pending = {r} /\ r \notin synced.completed /\ AtFloor(synced, r)
  BY <1>3 DEF Ledger!Reserve, Ledger!Accepted, AtFloor
<1>4. CASE /\ synced'.floors = synced.floors /\ synced.pending # {} /\ synced'.pending = {}
           /\ synced'.completed \in {synced.completed, synced.completed \cup synced.pending}
  BY <1>4 DEF Ledger!Settle
<1>5. CASE /\ synced'.floors = synced.floors /\ synced.pending = {} /\ synced'.pending = {}
           /\ \E r \in Receipt : synced'.completed = synced.completed \cup {r} /\ AtFloor(synced, r)
  BY <1>5 DEF Ledger!Install, Ledger!Accepted, AtFloor
<1> QED
  BY <1>1, <1>2, <1>3, <1>4, <1>5 DEF Behind

\* A file that the ledger cannot tell from another lags as far.
LEMMA BehindSame ==
  ASSUME NEW a, NEW b, NEW c, Behind(a, b), SameLedger(b, c)
  PROVE  Behind(a, c)
BY DEF Behind, SameLedger, InstallsKept, FloorsHold

\* A save that keeps the ledger's part of the file stutters.
LEMMA BehindItself == ASSUME NEW a PROVE Behind(a, a)
BY DEF Behind, SameLedger, InstallsKept

\* Settling from a file that is level with the durable one, or ahead by the journal
\* entry alone: recovery may make an entry and its outcome durable together.
LEMMA BehindSettled ==
  ASSUME NEW a, NEW b, NEW c, Behind(a, b), \A r, s \in b.pending : r = s,
         c.floors = b.floors, c.pending = {},
         c.completed \in {b.completed, b.completed \cup b.pending}
  PROVE  Behind(a, c)
<1>1. CASE b.pending = {}
  <2>1. SameLedger(b, c)
    BY <1>1 DEF SameLedger, InstallsKept
  <2> QED
    BY <2>1, BehindSame
<1>2. CASE b.pending # {} /\ SameLedger(a, b)
  BY <1>2 DEF Behind, SameLedger, InstallsKept
<1>3. CASE /\ b.floors = a.floors /\ b.completed = a.completed /\ a.pending = {}
           /\ \E r \in Receipt : b.pending = {r} /\ r \notin a.completed /\ AtFloor(a, r)
  <2>1. CASE c.completed = b.completed
    BY <1>3, <2>1 DEF Behind, SameLedger, InstallsKept
  <2>2. CASE c.completed = b.completed \cup b.pending
    BY <1>3, <2>2 DEF Behind
  <2> QED
    BY <2>1, <2>2
<1> QED
  BY <1>1, <1>2, <1>3 DEF Behind

\* A save leaves the durable file behind by one ledger step at most.
LEMMA SaveBehind ==
  ASSUME Typed, Alone, Journalling, Caught, Behind(synced, disk), Numbered(disk),
         NEW p \in Procs, NEW new, Rewrites(p, new)
  PROVE  Behind(synced, disk')
<1>1. /\ Coherent(disk) /\ Coherent(new) /\ Makes(p, new) /\ proc[p].st = disk /\ p \in Writers
      /\ disk' = Stamped(new, proc[p].clock)
  BY DEF Rewrites, Writers, Typed, TypeOK, Coherent
<1>2. disk'.floors = new.floors /\ disk'.pending = new.pending /\ disk'.completed = new.completed
  BY <1>1, StampedFields DEF Coherent
<1>3. CASE proc[p].pc \in {"roots", "timestamp", "snapshot", "finish"}
  <2>1. SameLedger(disk, disk')
    BY <1>1, <1>2, <1>3, MadeFields DEF SameLedger, InstallsKept, Coherent
  <2> QED
    BY <2>1, BehindSame
<1>4. CASE proc[p].pc = "targets"
  <2>1. synced = disk /\ disk.pending = {}
    BY <1>1, <1>4 DEF Caught, Journalling
  <2>2. new.pending = disk.pending /\ new.completed = disk.completed
    BY <1>1, <1>4, MadeFields DEF Coherent
  <2>3. FloorsHold(disk, new)
    BY <1>1, MadeFloorsHold
  <2> QED
    BY <1>2, <2>1, <2>2, <2>3 DEF Behind, InstallsKept, FloorsHold
<1>5. CASE proc[p].pc = "journal"
  <2>1. synced = disk /\ disk.pending = {}
    BY <1>1, <1>5 DEF Caught, Journalling
  <2>2. PICK r \in Receipt : /\ AtFloor(disk, r) /\ r.generation = disk.generation + 1
                             /\ new = [disk EXCEPT !.pending = {r}]
    BY <1>1, <1>5 DEF Makes
  <2>3. new.pending = {r} /\ new.completed = disk.completed /\ new.floors = disk.floors
    BY <1>1, <2>2 DEF Coherent, States
  <2>4. r \notin disk.completed
    BY <1>1, <2>2 DEF Numbered, Coherent, States
  <2> QED
    BY <1>2, <2>1, <2>2, <2>3, <2>4 DEF Behind
<1>6. CASE proc[p].pc \in {"recover", "complete"}
  <2>1. /\ new.floors = disk.floors /\ new.pending = {}
        /\ new.completed \in {disk.completed, disk.completed \cup disk.pending}
    BY <1>1, <1>6 DEF Makes, Settled, Coherent, States
  <2> QED
    BY <1>2, <2>1, BehindSettled DEF Journalling
<1> QED
  BY <1>1, <1>3, <1>4, <1>5, <1>6 DEF Makes

\* A save numbers the file higher and journals under its number.
LEMMA SaveNumbered ==
  ASSUME Typed, Alone, Journalling, Numbered(disk), NEW p \in Procs, NEW new, Rewrites(p, new)
  PROVE  Numbered(disk')
<1>1. /\ Coherent(disk) /\ Coherent(new) /\ Makes(p, new) /\ proc[p].st = disk
      /\ disk' = Stamped(new, proc[p].clock)
  BY DEF Rewrites, Typed, TypeOK, Coherent
<1>2. /\ disk'.pending = new.pending /\ disk'.completed = new.completed
      /\ disk'.generation = disk.generation + 1
  BY <1>1, StampedFields, MadeFields DEF Coherent
<1>3. disk.generation \in Nat /\ new.completed \cup new.pending \subseteq Receipt
  BY <1>1 DEF Coherent, States
<1>4. \A r \in new.completed \cup new.pending :
        r \in disk.completed \cup disk.pending \/ r.generation = disk.generation + 1
  <2>1. CASE proc[p].pc = "journal"
    <3>1. PICK r \in Receipt : /\ r.generation = disk.generation + 1
                               /\ new = [disk EXCEPT !.pending = {r}]
      BY <1>1, <2>1 DEF Makes
    <3>2. new.pending = {r} /\ new.completed = disk.completed
      BY <1>1, <3>1 DEF Coherent, States
    <3> QED
      BY <3>1, <3>2
  <2>2. CASE proc[p].pc \in {"recover", "complete"}
    BY <1>1, <2>2 DEF Makes, Settled, Coherent, States
  <2>3. CASE proc[p].pc \notin {"journal", "recover", "complete"}
    BY <1>1, <2>3, MadeFields DEF Coherent
  <2> QED
    BY <2>1, <2>2, <2>3
<1>5. \A r \in new.completed \cup new.pending : r.generation \in Nat
  BY <1>3 DEF Receipt
<1> QED
  BY <1>2, <1>3, <1>4, <1>5 DEF Numbered

\* A session gets past the timestamp only by a save that it survived.
LEMMA CaughtInductive == Typed /\ Alone /\ Caught /\ [Next]_vars => Caught'
<1> SUFFICES ASSUME Typed, Alone, Caught, [Next]_vars, NEW q \in Writers',
                    proc'[q].pc \in {"snapshot", "targets", "journal"}
             PROVE  synced' = disk'
  BY DEF Caught
<1>0. q \in Procs /\ proc'[q] # Idle /\ proc \in [Procs -> Sessions]
  BY DEF Idle, Writers, Running, Typed, TypeOK
<1>1. ASSUME q \in Writers, proc'[q] = proc[q], UNCHANGED <<disk, synced>> PROVE synced' = disk'
  BY <1>1 DEF Caught
<1>2. ASSUME NEW p \in Procs, Step(p), ~FillStore(p) PROVE synced' = disk'
  <2>1. q = p /\ p \in Running /\ Writes(p)
    BY <1>2, OnlyWriter
  <2>2. CASE Saving(p)
    <3>1. PICK new : Save(p, new, After(p))
      BY <2>2, SavingMakes
    <3>2. ~End(p)
      BY <1>0, <2>1 DEF End
    <3> QED
      BY <2>1, <3>1, <3>2 DEF Save
  <2>3. CASE RootsDone(p) \/ ExportDone(p) \/ Publish(p)
    <3>1. proc'[p].pc \in {"finish", "timestamp", "roots", "complete", "idle"}
      BY <1>0, <2>3 DEF RootsDone, ExportDone, Publish, Goto, End, Idle, Sessions
    <3> QED
      BY <2>1, <3>1
  <2>4. CASE ExportReceipt(p)
    BY <1>1, <2>1, <2>4 DEF ExportReceipt, Writers
  <2>5. CASE Reject(p) \/ Refuse(p)
    BY <1>0, <2>1, <2>5 DEF Reject, Refuse, End
  <2> QED
    BY <1>2, <2>2, <2>3, <2>4, <2>5 DEF Step, Saving, Importing
<1>3. ASSUME NEW p \in Procs, FillStore(p) PROVE synced' = disk'
  BY <1>0, <1>1, <1>3 DEF FillStore, End, Writers, Running, Writes
<1>4. ASSUME NEW p \in Procs, CreateStore(p) \/ Crash(p) PROVE synced' = disk'
  BY <1>0, <1>1, <1>4 DEF CreateStore, Crash, Goto, End, Writers, Running, Writes, Sessions
<1>5. ASSUME NEW p \in Procs, NEW command \in Commands, NEW clock \in 1..MaxClock,
             Open(p, command, clock)
      PROVE  synced' = disk'
  <2>1. CASE q = p
    BY <1>0, <1>5, <2>1 DEF Open, FirstStep
  <2>2. CASE q # p
    BY <1>0, <1>1, <1>5, <2>2 DEF Open, Writers, Running, Writes
  <2> QED
    BY <2>1, <2>2
<1>6. ASSUME NEW o \in Outputs, ForeignFile(o) PROVE synced' = disk'
  BY <1>1, <1>6 DEF ForeignFile, Writers, Running, Writes
<1>7. ASSUME PowerLoss PROVE synced' = disk'
  BY <1>7 DEF PowerLoss
<1>8. CASE UNCHANGED vars
  BY <1>1, <1>8 DEF vars, Writers, Running, Writes
<1> QED
  BY <1>2, <1>3, <1>4, <1>5, <1>6, <1>7, <1>8 DEF Next

\* The inductive invariant of the refinement, above those of the files.
Lagging == Caught /\ Behind(synced, disk) /\ Numbered(disk) /\ Numbered(synced)

\* The durable file stays at most one ledger step behind the visible one, and every change
\* of the durable file is such a step.
LEMMA LaggingInductive ==
  Typed /\ Alone /\ Journalling /\ Lagging /\ [Next]_vars => Lagging' /\ Behind(synced, synced')
<1> SUFFICES ASSUME Typed, Alone, Journalling, Lagging, [Next]_vars
             PROVE  Lagging' /\ Behind(synced, synced')
  OBVIOUS
<1>1. Caught'
  BY CaughtInductive DEF Lagging
<1>2. Behind(synced, synced) /\ Behind(disk', disk')
  BY BehindItself
<1>3. CASE UNCHANGED <<disk, synced>>
  BY <1>1, <1>2, <1>3 DEF Lagging
<1>4. ASSUME NEW p \in Procs, NEW new, Rewrites(p, new) PROVE Lagging' /\ Behind(synced, synced')
  <2>1. Behind(synced, disk') /\ Numbered(disk')
    BY <1>4, SaveBehind, SaveNumbered DEF Lagging
  <2>2. synced' \in {synced, disk'}
    BY <1>4 DEF Rewrites
  <2> QED
    BY <1>1, <1>2, <2>1, <2>2 DEF Lagging
<1>5. CASE synced' \in {disk, synced} /\ disk' = synced'
  BY <1>1, <1>2, <1>5 DEF Lagging
<1> QED
  BY <1>3, <1>4, <1>5, FileChanges DEF vars

\* A fresh store is in the initial state of the ledger, and its two files are one.
LEMMA InitLagging == Init => Lagging /\ Ledger!LedgerInit
<1> SUFFICES ASSUME Init PROVE Lagging /\ Ledger!LedgerInit
  OBVIOUS
<1>1. Writers = {}
  BY DEF Init, Idle, Writers, Running
<1>2. /\ disk = synced
      /\ synced.pending = {} /\ synced.completed = {}
      /\ \A q \in Profiles : synced.floors[q].manifest = NoManifest
  BY DEF Init, FreshState
<1>3. Caught /\ Numbered(disk) /\ Numbered(synced)
  BY <1>1, <1>2 DEF Caught, Numbered
<1>4. Behind(synced, disk)
  BY <1>2, BehindItself
<1>5. Ledger!LedgerInit
  BY <1>2 DEF Ledger!LedgerInit
<1> QED
  BY <1>3, <1>4, <1>5 DEF Lagging

\* The durable state implements the release ledger, whatever commands, crashes, power
\* losses and unsynced saves do: floors move forward, one installation at a time is
\* reserved and only for the accepted release, it is settled as installed or dropped,
\* and no installation is forgotten.
THEOREM StoreImplementsLedger == Spec => ImplementsLedger
<1>1. Typed /\ Alone /\ Journalling /\ Lagging /\ [Next]_vars =>
        Lagging' /\ [Ledger!LedgerNext]_(Ledger!ledger)
  <2> SUFFICES ASSUME Typed, Alone, Journalling, Lagging, [Next]_vars
               PROVE  Lagging' /\ [Ledger!LedgerNext]_(Ledger!ledger)
    OBVIOUS
  <2>1. synced \in States /\ synced' \in States
    BY TypedInductive DEF Typed, TypeOK
  <2> QED
    BY <2>1, LaggingInductive, BehindIsALedgerStep
<1> QED
  BY <1>1, Invariants, InitJournals, InitLagging, JournallingInductive, PTL
     DEF Spec, ImplementsLedger, Ledger!LedgerSpec
=============================================================================
