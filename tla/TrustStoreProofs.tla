-------------------------- MODULE TrustStoreProofs --------------------------
(***************************************************************************)
(* Theorems about the trust store, for every set of processes, envelopes,  *)
(* outputs and profiles and every bound.                                   *)
(*                                                                         *)
(* The proofs build one inductive invariant in layers, each used by the    *)
(* next.  Typed says what a state is and what the steps of an import may   *)
(* rely on; Alone says who may be running and how memory and file relate;  *)
(* Trailing how the durable file relates to the visible one; Journalling   *)
(* what a session may assume of the journal; Accounting how the files at   *)
(* the output paths relate to journal, completed receipts and exports.     *)
(***************************************************************************)
EXTENDS TrustStore, TLAPS

(***************************************************************************)
(* Well-formed states.                                                     *)
(***************************************************************************)

\* The floors of the profiles that the retained targets list are its releases.
FloorsFollow(st) ==
  "targets" \in DOMAIN st.roles =>
    /\ DOMAIN st.roles["targets"].entries \subseteq Profiles
    /\ \A p \in DOMAIN st.roles["targets"].entries :
         st.floors[p] = st.roles["targets"].entries[p]

Coherent(st) == st \in States /\ FloorsFollow(st)

\* The role whose child an import reads next has been retained.
Reached(session) ==
  /\ session.pc = "snapshot" => "timestamp" \in DOMAIN session.st.roles
  /\ session.pc = "targets" => "snapshot" \in DOMAIN session.st.roles
  /\ session.pc = "journal" => "targets" \in DOMAIN session.st.roles

Typed ==
  /\ TypeOK
  /\ FloorsFollow(disk) /\ FloorsFollow(synced)
  /\ \A p \in Procs : FloorsFollow(proc[p].st) /\ Reached(proc[p])

\* A new store's state is well formed.
LEMMA FreshIsCoherent == Coherent(FreshState(1))
<1>1. [r \in {} |-> InitialRoot] \in RoleMaps
  BY DEF RoleMaps, ChainRoles
<1>2. <<InitialRoot>> \in Seq(Roots \cup {InitialRoot})
  OBVIOUS
<1>3. 1 \in 1..MaxClock /\ 1 \in 1..MaxGeneration
  BY StoreConstantsAssumption, PolicyAssumption
<1>4. [p \in Profiles |-> [sequence |-> MinimumSequence, manifest |-> NoManifest]] \in Floors
  BY PolicyAssumption DEF Floors
<1>5. FreshState(1) \in States
  BY <1>1, <1>2, <1>3, <1>4 DEF FreshState, States
<1>6. FloorsFollow(FreshState(1))
  BY DEF FloorsFollow, FreshState
<1> QED
  BY <1>5, <1>6 DEF Coherent

\* What save() stamps keeps a state well formed.
LEMMA StampedIsCoherent ==
  ASSUME NEW st, Coherent(st), NEW clock \in 1..MaxClock, CanSave(st)
  PROVE  Coherent(Stamped(st, clock))
<1>1. st.generation + 1 \in 1..MaxGeneration
  BY PolicyAssumption DEF CanSave, Coherent, States
<1>2. Stamped(st, clock) \in States
  BY <1>1 DEF Stamped, Coherent, States
<1>3. /\ Stamped(st, clock).roles = st.roles
      /\ Stamped(st, clock).floors = st.floors
  BY DEF Stamped, Coherent, States
<1> QED
  BY <1>2, <1>3 DEF Coherent, FloorsFollow

\* An idle process has the well-formed session every command starts from.
LEMMA IdleIsTyped == Idle \in Sessions /\ Coherent(Idle.st) /\ Reached(Idle)
<1>1. 1 \in 1..MaxClock
  BY StoreConstantsAssumption
<1> QED
  BY <1>1, FreshIsCoherent DEF Idle, Sessions, Pcs, Commands, Coherent, Reached

(***************************************************************************)
(* Every step keeps the types.                                             *)
(***************************************************************************)

\* Changing one session, or a step that changes no state, keeps Typed for the rest.
LEMMA SessionsTyped ==
  ASSUME Typed, NEW p \in Procs, NEW s \in Sessions, FloorsFollow(s.st), Reached(s),
         proc' = [proc EXCEPT ![p] = s]
  PROVE  /\ proc' \in [Procs -> Sessions]
         /\ \A q \in Procs : FloorsFollow(proc'[q].st) /\ Reached(proc'[q])
BY DEF Typed, TypeOK

\* A command that ends leaves an idle process.
LEMMA EndTyped ==
  ASSUME Typed, NEW p \in Procs, End(p)
  PROVE  /\ proc' \in [Procs -> Sessions]
         /\ \A q \in Procs : FloorsFollow(proc'[q].st) /\ Reached(proc'[q])
BY SessionsTyped, IdleIsTyped DEF End, Coherent

\* A step that moves on to one that reads no new role keeps its session as it is.
LEMMA GotoTyped ==
  ASSUME Typed, NEW p \in Procs, NEW pc \in Pcs \ {"snapshot", "targets", "journal"}, Goto(p, pc)
  PROVE  /\ proc' \in [Procs -> Sessions]
         /\ \A q \in Procs : FloorsFollow(proc'[q].st) /\ Reached(proc'[q])
<1> DEFINE s == [proc[p] EXCEPT !.pc = pc]
<1>1. proc' = [proc EXCEPT ![p] = s]
  BY DEF Goto
<1>2. s \in Sessions /\ s.st = proc[p].st /\ s.pc = pc
  BY DEF Typed, TypeOK, Sessions
<1>3. FloorsFollow(s.st) /\ Reached(s)
  BY <1>2 DEF Typed, Reached
<1> HIDE DEF s
<1> QED
  BY <1>1, <1>2, <1>3, SessionsTyped

\* A save of a well-formed state leaves everything well formed.
LEMMA SaveTyped ==
  ASSUME Typed, NEW p \in Procs, NEW st, Coherent(st), NEW pc \in Pcs, Save(p, st, pc),
         pc = "snapshot" => "timestamp" \in DOMAIN st.roles,
         pc = "targets" => "snapshot" \in DOMAIN st.roles,
         pc = "journal" => "targets" \in DOMAIN st.roles
  PROVE  /\ Coherent(disk') /\ Coherent(synced')
         /\ proc' \in [Procs -> Sessions]
         /\ \A q \in Procs : FloorsFollow(proc'[q].st) /\ Reached(proc'[q])
         /\ faults' \in 0..MaxFaults
<1> DEFINE Resumed(new) == [proc[p] EXCEPT !.st = new, !.pc = pc]
<1>1. ASSUME NEW new, Coherent(new), new.roles = st.roles, Resume(p, new, pc)
      PROVE  /\ proc' \in [Procs -> Sessions]
             /\ \A q \in Procs : FloorsFollow(proc'[q].st) /\ Reached(proc'[q])
  <2>1. CASE pc = "idle"
    BY <1>1, <2>1, EndTyped DEF Resume
  <2>2. CASE pc # "idle"
    <3>1. proc' = [proc EXCEPT ![p] = Resumed(new)]
      BY <1>1, <2>2 DEF Resume, Typed, TypeOK
    <3>2. Resumed(new) \in Sessions /\ Resumed(new).st = new /\ Resumed(new).pc = pc
      BY <1>1 DEF Typed, TypeOK, Sessions, Coherent
    <3>3. FloorsFollow(Resumed(new).st) /\ Reached(Resumed(new))
      BY <1>1, <3>2 DEF Coherent, Reached
    <3> HIDE DEF Resumed
    <3> QED
      BY <3>1, <3>2, <3>3, SessionsTyped
  <2> QED
    BY <2>1, <2>2
<1>2. Coherent(disk) /\ Coherent(synced) /\ faults \in 0..MaxFaults
  BY DEF Typed, TypeOK, Coherent
<1>3. CASE ~Writes(p)
  BY <1>1, <1>2, <1>3 DEF Save
<1>4. CASE Writes(p)
  <2>1. CanSave(st) /\ disk' = Stamped(st, proc[p].clock)
    BY <1>4 DEF Save
  <2>2. proc[p].clock \in 1..MaxClock
    BY DEF Typed, TypeOK, Sessions
  <2>3. Coherent(disk')
    BY <2>1, <2>2, StampedIsCoherent
  <2>4. disk'.roles = st.roles
    BY <2>1 DEF Stamped, Coherent, States
  <2>5. CASE synced' = disk' /\ Resume(p, disk', pc) /\ UNCHANGED faults
    BY <1>1, <1>2, <2>3, <2>4, <2>5
  <2>6. CASE UNCHANGED synced /\ End(p) /\ Fault
    <3>1. faults' \in 0..MaxFaults
      BY <1>2, <2>6, StoreConstantsAssumption DEF Fault
    <3> QED
      BY <1>2, <2>3, <2>6, <3>1, EndTyped
  <2> QED
    BY <1>4, <2>5, <2>6 DEF Save
<1> QED
  BY <1>3, <1>4

\* The state updates of the steps that save keep a state well formed.
LEMMA UpdatesAreCoherent ==
  ASSUME NEW st, Coherent(st)
  PROVE  /\ Coherent([st EXCEPT !.pending = {}])
         /\ Coherent(Settled(st))
         /\ \A r \in Receipt : Coherent([st EXCEPT !.pending = {r}])
         /\ \A r \in Roots : Coherent([st EXCEPT !.roots = Append(@, r)])
<1>1. Coherent([st EXCEPT !.pending = {}])
  BY DEF Coherent, States, FloorsFollow
<1>2. Coherent(Settled(st))
  BY DEF Coherent, States, FloorsFollow, Settled
<1>3. ASSUME NEW r \in Receipt PROVE Coherent([st EXCEPT !.pending = {r}])
  BY <1>3 DEF Coherent, States, FloorsFollow
<1>4. ASSUME NEW r \in Roots PROVE Coherent([st EXCEPT !.roots = Append(@, r)])
  <2>1. Append(st.roots, r) \in Seq(Roots \cup {InitialRoot})
    BY <1>4 DEF Coherent, States
  <2> QED
    BY <2>1 DEF Coherent, States, FloorsFollow
<1> QED
  BY <1>1, <1>2, <1>3, <1>4

\* Retaining an envelope in its role.
LEMMA RetainedRolesTyped ==
  ASSUME NEW st, Coherent(st), NEW role \in ChainRoles, NEW e \in Envelopes[role]
  PROVE  /\ RetainedRoles(st, role, e) \in RoleMaps
         /\ DOMAIN RetainedRoles(st, role, e) = DOMAIN st.roles \cup {role}
         /\ RetainedRoles(st, role, e)[role] = e
         /\ \A r \in DOMAIN st.roles \ {role} : RetainedRoles(st, role, e)[r] = st.roles[r]
<1> DEFINE All == UNION {Timestamps, Snapshots, Targets}
           m == RetainedRoles(st, role, e)
<1>1. PICK S \in SUBSET ChainRoles : st.roles \in [S -> All]
  BY DEF Coherent, States, RoleMaps
<1>2. e \in All
  BY DEF Envelopes, ChainRoles
<1>3. m \in [S \cup {role} -> All]
  BY <1>1, <1>2 DEF RetainedRoles
<1>4. S \cup {role} \in SUBSET ChainRoles
  OBVIOUS
<1>5. \A r \in DOMAIN m : m[r] \in Envelopes[r]
  BY <1>1 DEF RetainedRoles, Coherent, States, RoleMaps
<1>6. m \in RoleMaps
  BY <1>3, <1>4, <1>5 DEF RoleMaps
<1> QED
  BY <1>1, <1>6 DEF RetainedRoles

\* Retaining a timestamp or a snapshot, and retaining targets with their floors.
LEMMA RetainIsCoherent ==
  ASSUME NEW st, Coherent(st), NEW role \in {"timestamp", "snapshot"}, NEW e \in Envelopes[role]
  PROVE  Coherent([st EXCEPT !.roles = RetainedRoles(st, role, e)])
<1> DEFINE new == [st EXCEPT !.roles = RetainedRoles(st, role, e)]
<1>1. role \in ChainRoles
  BY DEF ChainRoles
<1>2. new \in States
  BY <1>1, RetainedRolesTyped DEF Coherent, States
<1>3. new.roles = RetainedRoles(st, role, e) /\ new.floors = st.floors
  BY DEF Coherent, States
<1>4. DOMAIN new.roles = DOMAIN st.roles \cup {role}
  BY <1>1, <1>3, RetainedRolesTyped, SMTT(30)
<1>5. "targets" \in DOMAIN st.roles => new.roles["targets"] = st.roles["targets"]
  <2>1. \A r \in DOMAIN st.roles \ {role} : RetainedRoles(st, role, e)[r] = st.roles[r]
    BY <1>1, RetainedRolesTyped, Zenon
  <2> QED
    BY <1>3, <2>1
<1> HIDE DEF new
<1>6. FloorsFollow(new)
  BY <1>3, <1>4, <1>5 DEF FloorsFollow, Coherent
<1> QED
  BY <1>2, <1>6 DEF Coherent, new

\* Retained targets and the floors raised to their entries agree, which is FloorsFollow.
LEMMA RaiseIsCoherent ==
  ASSUME NEW st, Coherent(st), NEW e \in Targets, EntriesAccepted(st, e.entries)
  PROVE  Coherent([st EXCEPT !.roles = RetainedRoles(st, "targets", e),
                             !.floors = RaisedFloors(st, e.entries)])
<1> DEFINE new == [st EXCEPT !.roles = RetainedRoles(st, "targets", e),
                             !.floors = RaisedFloors(st, e.entries)]
<1>1. "targets" \in ChainRoles /\ e \in Envelopes["targets"]
  BY DEF ChainRoles, Envelopes
<1>2. \A p \in DOMAIN e.entries : e.entries[p] \in [sequence : Nat, manifest : Manifests]
  BY MetadataAssumption
<1>3. RaisedFloors(st, e.entries) \in Floors
  BY <1>2 DEF RaisedFloors, Floors, Coherent, States
<1>4. new \in States
  BY <1>1, <1>3, RetainedRolesTyped DEF Coherent, States
<1>5. new.roles = RetainedRoles(st, "targets", e) /\ new.floors = RaisedFloors(st, e.entries)
  BY DEF Coherent, States
<1>6. new.roles["targets"] = e
  <2>1. RetainedRoles(st, "targets", e)["targets"] = e
    BY DEF RetainedRoles
  <2> QED
    BY <1>5, <2>1
<1> HIDE DEF new
<1>7. FloorsFollow(new)
  BY <1>5, <1>6 DEF FloorsFollow, RaisedFloors, EntriesAccepted
<1> QED
  BY <1>4, <1>7 DEF Coherent, new

\* A published file names bytes and receipts of the right kinds.
LEMMA FileTyped ==
  ASSUME Typed, NEW p \in Procs, NEW r \in proc[p].st.pending
  PROVE  r \in Receipt /\ r.output \in Outputs /\ [bytes |-> r.manifest, by |-> {r}] \in Files
<1>1. r \in Receipt
  BY DEF Typed, TypeOK, Sessions, States
<1> QED
  BY <1>1 DEF Receipt, Files

\* Steps that change only which command a process is running.
LEMMA ControlTyped ==
  ASSUME Typed, NEW p \in Procs,
         \/ RootsDone(p) \/ ExportDone(p) \/ Reject(p) \/ Refuse(p)
  PROVE  Typed'
<1>0. UNCHANGED <<store, disk, synced, out, outSynced, receipts, faults>>
  BY DEF RootsDone, ExportDone, Reject, Refuse
<1>1. \/ End(p)
      \/ \E pc \in Pcs \ {"snapshot", "targets", "journal"} : Goto(p, pc)
  BY DEF RootsDone, ExportDone, Reject, Refuse, Pcs
<1>2. /\ proc' \in [Procs -> Sessions]
      /\ \A q \in Procs : FloorsFollow(proc'[q].st) /\ Reached(proc'[q])
  BY <1>1, EndTyped, GotoTyped
<1> QED
  BY <1>0, <1>2 DEF Typed, TypeOK, FloorsFollow

\* No floor falls or changes its manifest from one state to another.
FloorsHold(old, new) == \A q \in Profiles : FloorHolds(old.floors[q], new.floors[q])

\* What is journalled and completed stays as it is.
InstallsKept(old, new) == new.pending = old.pending /\ new.completed = old.completed

\* A state with the same floors holds them.
LEMMA SameFloorsHold ==
  ASSUME NEW old, NEW new, Coherent(old), new.floors = old.floors
  PROVE  FloorsHold(old, new)
BY DEF FloorsHold, FloorHolds, Coherent, States, Floors

\* Floors that hold over two saves hold over both.
LEMMA FloorsHoldTransitive ==
  ASSUME NEW a, NEW b, NEW c, Coherent(a), Coherent(b), Coherent(c),
         FloorsHold(a, b), FloorsHold(b, c)
  PROVE  FloorsHold(a, c)
<1> SUFFICES ASSUME NEW q \in Profiles PROVE FloorHolds(a.floors[q], c.floors[q])
  BY DEF FloorsHold
<1>1. /\ a.floors[q].sequence \in Int /\ b.floors[q].sequence \in Int
      /\ c.floors[q].sequence \in Int
  BY DEF Coherent, States, Floors
<1>2. FloorHolds(a.floors[q], b.floors[q]) /\ FloorHolds(b.floors[q], c.floors[q])
  BY DEF FloorsHold
<1> QED
  BY <1>1, <1>2 DEF FloorHolds

\* The updates of the journal and of the chain of roots leave the floors alone.
LEMMA UpdatesKeepFloors ==
  ASSUME NEW st, Coherent(st)
  PROVE  /\ FloorsHold(st, [st EXCEPT !.pending = {}])
         /\ FloorsHold(st, Settled(st))
         /\ \A r : FloorsHold(st, [st EXCEPT !.pending = {r}])
         /\ \A r : FloorsHold(st, [st EXCEPT !.roots = Append(@, r)])
<1>1. /\ [st EXCEPT !.pending = {}].floors = st.floors
      /\ Settled(st).floors = st.floors
      /\ \A r : [st EXCEPT !.pending = {r}].floors = st.floors
      /\ \A r : [st EXCEPT !.roots = Append(@, r)].floors = st.floors
  BY DEF Coherent, States, Settled
<1> QED
  BY <1>1, SameFloorsHold

\* The floors that accepted targets raise.
LEMMA RaisedFloorsHold ==
  ASSUME NEW st, Coherent(st), NEW e \in Targets, EntriesAccepted(st, e.entries),
         NEW new, new.floors = RaisedFloors(st, e.entries)
  PROVE  FloorsHold(st, new)
<1> SUFFICES ASSUME NEW q \in Profiles PROVE FloorHolds(st.floors[q], new.floors[q])
  BY DEF FloorsHold
<1>1. st.floors[q] \in [sequence : Nat, manifest : Manifests \cup {NoManifest}]
  BY DEF Coherent, States, Floors
<1>2. CASE q \in DOMAIN e.entries
  <2>1. e.entries[q] \in [sequence : Nat, manifest : Manifests]
    BY <1>2, MetadataAssumption
  <2>2. EntryAccepted(st.floors[q], e.entries[q]) /\ new.floors[q] = e.entries[q]
    BY <1>2 DEF EntriesAccepted, RaisedFloors
  <2> QED
    BY <1>1, <2>1, <2>2 DEF FloorHolds, EntryAccepted
<1>3. CASE q \notin DOMAIN e.entries
  BY <1>1, <1>3 DEF RaisedFloors, FloorHolds
<1> QED
  BY <1>2, <1>3

\* The steps that only a command holding the exclusive lock reaches.
WriterSteps == {"recover", "export", "finish", "journal", "publish", "complete", "export-installed"}

\* What an installation journals: a release that the floors of the file name.
LEMMA JournalSaves ==
  ASSUME Typed, NEW p \in Procs, Journal(p)
  PROVE  \E r \in Receipt :
           /\ Save(p, [proc[p].st EXCEPT !.pending = {r}], "publish")
           /\ proc[p].st.floors[r.profile] = [sequence |-> r.sequence, manifest |-> r.manifest]
           /\ CanComplete(proc[p].st, r)
           /\ out[r.output] = {}
<1> DEFINE st == proc[p].st
           entries == st.roles["targets"].entries
           Of(profile, o) == [profile |-> profile, sequence |-> entries[profile].sequence,
                              manifest |-> entries[profile].manifest, output |-> o,
                              clock |-> proc[p].clock, generation |-> st.generation + 1]
<1>1. Coherent(st) /\ proc[p] \in Sessions /\ Reached(proc[p])
  BY DEF Typed, TypeOK, Sessions, Coherent
<1>2. "targets" \in DOMAIN st.roles
  BY <1>1 DEF Journal, Reached
<1>3. st.roles["targets"] \in Targets
  BY <1>1, <1>2 DEF Coherent, States, RoleMaps, Envelopes
<1>4. PICK profile \in DOMAIN entries, o \in Outputs :
        /\ out[o] = {}
        /\ CanComplete(st, Of(profile, o))
        /\ Save(p, [st EXCEPT !.pending = {Of(profile, o)}], "publish")
  BY DEF Journal
<1>5. profile \in Profiles /\ st.floors[profile] = entries[profile]
  BY <1>1, <1>2, <1>4 DEF Coherent, FloorsFollow
<1>6. entries[profile] \in [sequence : Nat, manifest : Manifests]
  BY <1>3, <1>4, MetadataAssumption
<1>7. st.generation + 1 \in Nat /\ proc[p].clock \in 1..MaxClock
  BY <1>1 DEF Coherent, States, Sessions
<1>8. Of(profile, o) \in Receipt
  BY <1>4, <1>5, <1>6, <1>7 DEF Receipt
<1>9. /\ Of(profile, o).output = o
      /\ st.floors[Of(profile, o).profile]
           = [sequence |-> Of(profile, o).sequence, manifest |-> Of(profile, o).manifest]
  BY <1>5, <1>6
<1> HIDE DEF Of
<1> QED
  BY <1>4, <1>8, <1>9

\* What a step that does nothing but save hands to save(), and where it goes on.
SavesTo(p, new, pc) ==
  /\ Coherent(new) /\ Save(p, new, pc)
  /\ pc \in Pcs \ {"enrol"}
  /\ pc \in WriterSteps => proc[p].pc \in WriterSteps \/ Writes(p)
  /\ pc = "snapshot" => "timestamp" \in DOMAIN new.roles
  /\ pc = "targets" => "snapshot" \in DOMAIN new.roles
  /\ pc = "journal" => "targets" \in DOMAIN new.roles
  /\ FloorsHold(proc[p].st, new)
  /\ \/ proc[p].pc \in {"recover", "journal", "complete"}
     \/ InstallsKept(proc[p].st, new) /\ pc \notin {"recover", "publish", "complete"}

\* Every step that saves is a Save of a well-formed successor of its session's state.
LEMMA SavingSteps ==
  ASSUME Typed, NEW p \in Procs,
         \/ RecoverAbsent(p) \/ ImportRoot(p) \/ ImportTimestamp(p) \/ ImportSnapshot(p)
         \/ ImportTargets(p) \/ FinishImport(p) \/ Journal(p) \/ Complete(p)
  PROVE  \E new, pc : SavesTo(p, new, pc)
<1> DEFINE st == proc[p].st
<1> USE DEF SavesTo
<1>1. Coherent(st) /\ proc[p] \in Sessions /\ Reached(proc[p])
  BY DEF Typed, TypeOK, Sessions, Coherent
<1>2. \A role \in {"timestamp", "snapshot"} : \A e \in Envelopes[role] :
        LET new == [st EXCEPT !.roles = RetainedRoles(st, role, e)] IN
        /\ Coherent(new) /\ role \in DOMAIN new.roles /\ new.floors = st.floors
        /\ InstallsKept(st, new)
  <2> SUFFICES ASSUME NEW role \in {"timestamp", "snapshot"}, NEW e \in Envelopes[role]
               PROVE  LET new == [st EXCEPT !.roles = RetainedRoles(st, role, e)] IN
                      /\ Coherent(new) /\ role \in DOMAIN new.roles /\ new.floors = st.floors
                      /\ InstallsKept(st, new)
    OBVIOUS
  <2>1. Coherent([st EXCEPT !.roles = RetainedRoles(st, role, e)])
    BY <1>1, RetainIsCoherent
  <2>2. /\ role \in DOMAIN [st EXCEPT !.roles = RetainedRoles(st, role, e)].roles
        /\ [st EXCEPT !.roles = RetainedRoles(st, role, e)].floors = st.floors
        /\ InstallsKept(st, [st EXCEPT !.roles = RetainedRoles(st, role, e)])
    BY <1>1 DEF InstallsKept, RetainedRoles, Coherent, States
  <2> QED
    BY <2>1, <2>2
<1>0. \A new : new.floors = st.floors => FloorsHold(st, new)
  BY <1>1, SameFloorsHold
<1>3. CASE RecoverAbsent(p)
  <2>1. /\ Coherent([st EXCEPT !.pending = {}])
        /\ FloorsHold(st, [st EXCEPT !.pending = {}])
    BY <1>1, UpdatesAreCoherent, UpdatesKeepFloors
  <2> QED
    BY <1>3, <2>1 DEF RecoverAbsent, Pcs, WriterSteps
<1>4. CASE ImportRoot(p)
  <2>1. PICK r \in Roots : Save(p, [st EXCEPT !.roots = Append(@, r)], "roots")
    BY <1>4 DEF ImportRoot
  <2>2. /\ Coherent([st EXCEPT !.roots = Append(@, r)])
        /\ FloorsHold(st, [st EXCEPT !.roots = Append(@, r)])
    BY <1>1, UpdatesAreCoherent, UpdatesKeepFloors
  <2>3. InstallsKept(st, [st EXCEPT !.roots = Append(@, r)])
    BY <1>1 DEF InstallsKept, Coherent, States
  <2> QED
    BY <2>1, <2>2, <2>3 DEF Pcs, WriterSteps
<1>5. CASE ImportTimestamp(p)
  <2>1. PICK e \in Timestamps : Retain(p, "timestamp", e, "snapshot")
    BY <1>5 DEF ImportTimestamp
  <2> DEFINE new == [st EXCEPT !.roles = RetainedRoles(st, "timestamp", e)]
  <2>2. /\ Coherent(new) /\ "timestamp" \in DOMAIN new.roles
        /\ FloorsHold(st, new) /\ InstallsKept(st, new)
    BY <1>0, <1>2 DEF Envelopes
  <2>3. Save(p, new, "snapshot")
    BY <2>1 DEF Retain
  <2> HIDE DEF new
  <2> QED
    BY <2>2, <2>3 DEF Pcs, WriterSteps
<1>6. CASE ImportSnapshot(p)
  <2>1. "timestamp" \in DOMAIN st.roles
    BY <1>1, <1>6 DEF ImportSnapshot, Reached
  <2>2. st.roles["timestamp"] \in Timestamps
    BY <1>1, <2>1 DEF Coherent, States, RoleMaps, Envelopes
  <2>3. st.roles["timestamp"].child \in Envelopes["snapshot"]
    BY <2>2 DEF Envelopes, Snapshots
  <2> DEFINE new == [st EXCEPT !.roles =
                       RetainedRoles(st, "snapshot", st.roles["timestamp"].child)]
  <2>4. /\ Coherent(new) /\ "snapshot" \in DOMAIN new.roles
        /\ FloorsHold(st, new) /\ InstallsKept(st, new)
    BY <1>0, <1>2, <2>3
  <2>5. Save(p, new, "targets")
    BY <1>6 DEF ImportSnapshot, Retain
  <2> HIDE DEF new
  <2> QED
    BY <2>4, <2>5 DEF Pcs, WriterSteps
<1>7. CASE ImportTargets(p)
  <2> DEFINE e == st.roles["snapshot"].child
             new == [st EXCEPT !.roles = RetainedRoles(st, "targets", e),
                               !.floors = RaisedFloors(st, e.entries)]
             pc == AfterTargets(proc[p].command)
  <2>1. "snapshot" \in DOMAIN st.roles
    BY <1>1, <1>7 DEF ImportTargets, Reached
  <2>2. st.roles["snapshot"] \in Snapshots
    BY <1>1, <2>1 DEF Coherent, States, RoleMaps, Envelopes
  <2>3. e \in Targets
    BY <2>2 DEF Targets
  <2>4. EntriesAccepted(st, e.entries) /\ Save(p, new, pc)
    BY <1>7 DEF ImportTargets
  <2>5. Coherent(new)
    BY <1>1, <2>3, <2>4, RaiseIsCoherent
  <2>6. "targets" \in DOMAIN new.roles
    BY <1>1 DEF RetainedRoles, Coherent, States
  <2>7. /\ pc \in Pcs \ {"enrol"}
        /\ pc \notin {"snapshot", "targets", "recover", "publish", "complete"}
        /\ pc \in WriterSteps => Writes(p)
    BY DEF AfterTargets, Pcs, WriterSteps, Writes
  <2>8. new.floors = RaisedFloors(st, e.entries)
    BY <1>1 DEF Coherent, States
  <2>9. FloorsHold(st, new)
    BY <1>1, <2>3, <2>4, <2>8, RaisedFloorsHold
  <2>10. InstallsKept(st, new)
    BY <1>1 DEF InstallsKept, Coherent, States
  <2> HIDE DEF new, pc
  <2> QED
    BY <2>4, <2>5, <2>6, <2>7, <2>9, <2>10
<1>8. CASE FinishImport(p)
  BY <1>0, <1>1, <1>8 DEF FinishImport, Pcs, WriterSteps, InstallsKept
<1>9. CASE Journal(p)
  <2>1. PICK r \in Receipt : Save(p, [st EXCEPT !.pending = {r}], "publish")
    BY <1>9, JournalSaves
  <2>2. /\ Coherent([st EXCEPT !.pending = {r}])
        /\ FloorsHold(st, [st EXCEPT !.pending = {r}])
    BY <1>1, UpdatesAreCoherent, UpdatesKeepFloors
  <2>3. proc[p].pc \in WriterSteps /\ proc[p].pc = "journal" /\ "publish" \in Pcs \ {"enrol"}
    BY <1>9 DEF Journal, Pcs, WriterSteps
  <2> QED
    BY <2>1, <2>2, <2>3
<1>10. CASE Complete(p)
  <2>1. Save(p, Settled(st), "export-installed")
    BY <1>10 DEF Complete
  <2>2. Coherent(Settled(st)) /\ FloorsHold(st, Settled(st))
    BY <1>1, UpdatesAreCoherent, UpdatesKeepFloors
  <2> QED
    BY <1>10, <2>1, <2>2 DEF Complete, Pcs, WriterSteps
<1> QED
  BY <1>3, <1>4, <1>5, <1>6, <1>7, <1>8, <1>9, <1>10

\* Steps that do nothing but save.
LEMMA SavingTyped ==
  ASSUME Typed, NEW p \in Procs,
         \/ RecoverAbsent(p) \/ ImportRoot(p) \/ ImportTimestamp(p) \/ ImportSnapshot(p)
         \/ ImportTargets(p) \/ FinishImport(p) \/ Journal(p) \/ Complete(p)
  PROVE  Typed'
<1>1. UNCHANGED <<store, out, outSynced, receipts>>
  BY DEF RecoverAbsent, ImportRoot, ImportTimestamp, ImportSnapshot, ImportTargets,
         FinishImport, Journal, Complete, Retain
<1>2. \E new, pc : SavesTo(p, new, pc)
  BY SavingSteps
<1>3. /\ Coherent(disk') /\ Coherent(synced')
      /\ proc' \in [Procs -> Sessions]
      /\ \A q \in Procs : FloorsFollow(proc'[q].st) /\ Reached(proc'[q])
      /\ faults' \in 0..MaxFaults
  BY <1>2, SaveTyped DEF SavesTo
<1> QED
  BY <1>1, <1>3 DEF Typed, TypeOK, Coherent

\* Opening a session takes the state from the file.
LEMMA OpenTyped ==
  ASSUME Typed, NEW p \in Procs, NEW command \in Commands, NEW clock \in 1..MaxClock,
         Open(p, command, clock)
  PROVE  Typed'
<1> DEFINE s == [pc |-> FirstStep(command), command |-> command, clock |-> clock, st |-> disk]
<1>1. s \in Sessions /\ FloorsFollow(s.st) /\ Reached(s)
  BY DEF Typed, TypeOK, Sessions, Pcs, FirstStep, Reached
<1>2. proc' = [proc EXCEPT ![p] = s]
  BY DEF Open
<1> HIDE DEF s
<1>3. /\ proc' \in [Procs -> Sessions]
      /\ \A q \in Procs : FloorsFollow(proc'[q].st) /\ Reached(proc'[q])
  BY <1>1, <1>2, SessionsTyped
<1> QED
  BY <1>3 DEF Open, Typed, TypeOK, FloorsFollow

\* Steps that also touch an output path.
LEMMA PublishingTyped ==
  ASSUME Typed, NEW p \in Procs, RecoverPublished(p) \/ Publish(p)
  PROVE  Typed'
<1>1. CASE RecoverPublished(p)
  <2>1. PICK r \in proc[p].st.pending :
          /\ outSynced' = [outSynced EXCEPT ![r.output] = out[r.output]]
          /\ Save(p, Settled(proc[p].st), "export")
    BY <1>1 DEF RecoverPublished
  <2>2. outSynced' \in [Outputs -> SUBSET Files]
    BY <2>1, FileTyped DEF Typed, TypeOK
  <2>3. Coherent(Settled(proc[p].st))
    BY UpdatesAreCoherent DEF Typed, TypeOK, Sessions, Coherent
  <2>4. /\ Coherent(disk') /\ Coherent(synced')
        /\ proc' \in [Procs -> Sessions]
        /\ \A q \in Procs : FloorsFollow(proc'[q].st) /\ Reached(proc'[q])
        /\ faults' \in 0..MaxFaults
    <3>1. "export" \in Pcs
      BY DEF Pcs
    <3> QED
      BY <2>1, <2>3, <3>1, SaveTyped
  <2>5. UNCHANGED <<store, out, receipts>>
    BY <1>1 DEF RecoverPublished
  <2> QED
    BY <2>2, <2>4, <2>5 DEF Typed, TypeOK, Coherent
<1>2. CASE Publish(p)
  <2>1. PICK r \in proc[p].st.pending :
          /\ out' = [out EXCEPT ![r.output] = {[bytes |-> r.manifest, by |-> {r}]}]
          /\ \/ /\ outSynced' = [outSynced EXCEPT ![r.output] = out'[r.output]]
                /\ Goto(p, "complete")
                /\ UNCHANGED faults
             \/ UNCHANGED outSynced /\ End(p) /\ Fault
    BY <1>2 DEF Publish
  <2>2. out' \in [Outputs -> SUBSET Files] /\ outSynced' \in [Outputs -> SUBSET Files]
    <3>1. {[bytes |-> r.manifest, by |-> {r}]} \in SUBSET Files
      BY FileTyped
    <3> QED
      BY <2>1, <3>1, FileTyped DEF Typed, TypeOK
  <2>3. /\ proc' \in [Procs -> Sessions]
        /\ \A q \in Procs : FloorsFollow(proc'[q].st) /\ Reached(proc'[q])
    <3>1. "complete" \in Pcs \ {"snapshot", "targets", "journal"}
      BY DEF Pcs
    <3> QED
      BY <2>1, <3>1, EndTyped, GotoTyped
  <2>4. faults' \in 0..MaxFaults
    BY <2>1, StoreConstantsAssumption DEF Fault, Typed, TypeOK
  <2>5. UNCHANGED <<store, disk, synced, receipts>>
    BY <1>2 DEF Publish
  <2> QED
    BY <2>2, <2>3, <2>4, <2>5 DEF Typed, TypeOK, FloorsFollow
<1> QED
  BY <1>1, <1>2

\* Typed is inductive.
LEMMA TypedInductive == Typed /\ [Next]_vars => Typed'
<1> SUFFICES ASSUME Typed, [Next]_vars PROVE Typed'
  OBVIOUS
<1>1. ASSUME NEW p \in Procs, CreateStore(p) PROVE Typed'
  <2>1. "enrol" \in Pcs \ {"snapshot", "targets", "journal"}
    BY DEF Pcs
  <2>2. /\ proc' \in [Procs -> Sessions]
        /\ \A q \in Procs : FloorsFollow(proc'[q].st) /\ Reached(proc'[q])
    BY <1>1, <2>1, GotoTyped DEF CreateStore
  <2> QED
    BY <1>1, <2>2 DEF CreateStore, Typed, TypeOK, FloorsFollow
<1>2. ASSUME NEW p \in Procs, FillStore(p) PROVE Typed'
  <2>1. /\ proc' \in [Procs -> Sessions]
        /\ \A q \in Procs : FloorsFollow(proc'[q].st) /\ Reached(proc'[q])
    BY <1>2, EndTyped DEF FillStore, Typed, TypeOK
  <2> QED
    BY <1>2, <2>1 DEF FillStore, Typed, TypeOK, FloorsFollow
<1>3. ASSUME NEW p \in Procs, ExportReceipt(p) PROVE Typed'
  <2>1. receipts' \subseteq Receipt
    BY <1>3 DEF ExportReceipt, Typed, TypeOK, Sessions, States
  <2> QED
    BY <1>3, <2>1 DEF ExportReceipt, Typed, TypeOK, FloorsFollow
<1>4. ASSUME NEW p \in Procs, Step(p) PROVE Typed'
  BY <1>2, <1>3, <1>4, ControlTyped, SavingTyped, PublishingTyped DEF Step
<1>5. ASSUME NEW p \in Procs, Crash(p) PROVE Typed'
  <2>1. /\ proc' \in [Procs -> Sessions]
        /\ \A q \in Procs : FloorsFollow(proc'[q].st) /\ Reached(proc'[q])
    BY <1>5, EndTyped DEF Crash
  <2>2. faults' \in 0..MaxFaults
    BY <1>5, StoreConstantsAssumption DEF Crash, Fault, Typed, TypeOK
  <2> QED
    BY <1>5, <2>1, <2>2 DEF Crash, Typed, TypeOK, FloorsFollow
<1>6. ASSUME NEW o \in Outputs, ForeignFile(o) PROVE Typed'
  <2>1. PICK b \in ForeignBytes : out' = [out EXCEPT ![o] = {[bytes |-> b, by |-> {}]}]
    BY <1>6 DEF ForeignFile
  <2>2. {[bytes |-> b, by |-> {}]} \in SUBSET Files
    BY DEF Files
  <2>3. out' \in [Outputs -> SUBSET Files] /\ outSynced' \in [Outputs -> SUBSET Files]
    BY <1>6, <2>1, <2>2 DEF ForeignFile, Typed, TypeOK
  <2> QED
    BY <1>6, <2>3 DEF ForeignFile, Typed, TypeOK, FloorsFollow
<1>7. ASSUME PowerLoss PROVE Typed'
  <2>1. PICK st \in {disk, synced} : disk' = st /\ synced' = st
    BY <1>7 DEF PowerLoss
  <2>2. out' \in [Outputs -> SUBSET Files] /\ outSynced' \in [Outputs -> SUBSET Files]
    BY <1>7 DEF PowerLoss, Typed, TypeOK
  <2>3. /\ proc' \in [Procs -> Sessions]
        /\ \A q \in Procs : FloorsFollow(proc'[q].st) /\ Reached(proc'[q])
    BY <1>7, IdleIsTyped DEF PowerLoss, Coherent
  <2>4. faults' \in 0..MaxFaults
    BY <1>7, StoreConstantsAssumption DEF PowerLoss, Fault, Typed, TypeOK
  <2> QED
    BY <1>7, <2>1, <2>2, <2>3, <2>4 DEF PowerLoss, Typed, TypeOK
<1>8. CASE UNCHANGED vars
  BY <1>8 DEF vars, Typed, TypeOK, FloorsFollow, Reached
<1> QED
  BY <1>1, <1>4, <1>5, <1>6, <1>7, <1>8, OpenTyped DEF Next

\* The fresh store and its idle processes are well formed.
LEMMA InitTyped == Init => Typed
<1> SUFFICES ASSUME Init PROVE Typed
  OBVIOUS
<1>1. proc \in [Procs -> Sessions] /\ \A q \in Procs : FloorsFollow(proc[q].st) /\ Reached(proc[q])
  BY IdleIsTyped DEF Init, Coherent
<1>2. 0 \in 0..MaxFaults
  BY StoreConstantsAssumption
<1> QED
  BY <1>1, <1>2, FreshIsCoherent DEF Init, Typed, TypeOK, Coherent

\* In every reachable state the file, the memory copies and the output paths are
\* well formed, and no state is numbered past the limit that save() enforces.
THEOREM TypeCorrect == Spec => []TypeOK
<1>1. Spec => []Typed
  BY InitTyped, TypedInductive, PTL DEF Spec
<1>2. Typed => TypeOK
  BY DEF Typed
<1> QED
  BY <1>1, <1>2, PTL

(***************************************************************************)
(* A writer is alone and works on what the file holds.                     *)
(***************************************************************************)

Alone ==
  /\ WriterIsAlone
  /\ \A p \in Procs : proc[p].pc \in WriterSteps => Writes(p)

\* How a step of a running command may change its own session.
Continues(p, s) ==
  \/ s = Idle
  \/ /\ s.command = proc[p].command
     /\ s.pc \notin {"idle", "enrol"}
     /\ s.pc \in WriterSteps => Writes(p)
     /\ Writes(p) => s.st = disk'

\* One process moving on within its session, or ending, leaves the others excluded.
LEMMA ContinuesAlone ==
  ASSUME Typed, Alone, NEW p \in Running, NEW s \in Sessions, Continues(p, s),
         proc' = [proc EXCEPT ![p] = s], ~Writes(p) => disk' = disk
  PROVE  Alone'
<1>1. \A q \in Procs : proc'[q] = IF q = p THEN s ELSE proc[q]
  BY DEF Typed, TypeOK
<1>2. Idle.pc = "idle" /\ Idle.pc \notin WriterSteps
  BY DEF Idle, WriterSteps
<1>3. Running' \subseteq Running
  BY <1>1, <1>2 DEF Running
<1>4. ASSUME NEW q \in Writers' PROVE Running' = {q} /\ proc'[q].st = disk'
  <2>1. q \in Running'
    BY DEF Writers
  <2>2. q \in Writers
    <3>1. CASE q = p
      BY <1>1, <1>2, <2>1, <3>1 DEF Writers, Writes, Running, Continues
    <3>2. CASE q # p
      BY <1>1, <1>3, <2>1, <3>2 DEF Writers, Writes
    <3> QED
      BY <3>1, <3>2
  <2>3. Running = {q} /\ q = p /\ Writes(p)
    BY <2>2 DEF Alone, WriterIsAlone, Writers
  <2>4. proc'[p] = s /\ s # Idle
    BY <1>1, <1>2, <2>1, <2>3 DEF Running
  <2> QED
    BY <1>3, <2>1, <2>3, <2>4 DEF Continues
<1>5. ASSUME NEW q \in Procs, proc'[q].pc \in WriterSteps PROVE Writes(q)'
  <2>1. CASE q = p
    BY <1>1, <1>2, <1>5, <2>1 DEF Continues, Writes
  <2>2. CASE q # p
    BY <1>1, <1>5, <2>2 DEF Alone, Writes
  <2> QED
    BY <2>1, <2>2
<1> QED
  BY <1>4, <1>5 DEF Alone, WriterIsAlone

\* After a save the session goes on with what it saved, or ends.
LEMMA SaveContinues ==
  ASSUME Typed, NEW p \in Procs, NEW st, Coherent(st), NEW pc \in Pcs \ {"enrol"}, Save(p, st, pc),
         pc \in WriterSteps => Writes(p)
  PROVE  /\ \E s \in Sessions : Continues(p, s) /\ proc' = [proc EXCEPT ![p] = s]
         /\ ~Writes(p) => disk' = disk /\ synced' = synced
<1> DEFINE Resumed(new) == [proc[p] EXCEPT !.st = new, !.pc = pc]
<1>1. ASSUME NEW new \in States, Resume(p, new, pc), Writes(p) => new = disk'
      PROVE  \E s \in Sessions : Continues(p, s) /\ proc' = [proc EXCEPT ![p] = s]
  <2>1. CASE pc = "idle"
    BY <1>1, <2>1, IdleIsTyped DEF Resume, End, Continues
  <2>2. CASE pc # "idle"
    <3>1. proc' = [proc EXCEPT ![p] = Resumed(new)]
      BY <1>1, <2>2 DEF Resume, Typed, TypeOK
    <3>2. /\ Resumed(new) \in Sessions /\ Resumed(new).st = new /\ Resumed(new).pc = pc
          /\ Resumed(new).command = proc[p].command
      BY <1>1 DEF Typed, TypeOK, Sessions
    <3> HIDE DEF Resumed
    <3>3. Continues(p, Resumed(new))
      BY <1>1, <2>2, <3>2 DEF Continues
    <3> QED
      BY <3>1, <3>2, <3>3
  <2> QED
    BY <2>1, <2>2
<1>2. CASE ~Writes(p)
  BY <1>1, <1>2 DEF Save, Coherent
<1>3. CASE Writes(p)
  <2>1. CanSave(st) /\ disk' = Stamped(st, proc[p].clock)
    BY <1>3 DEF Save
  <2>2. disk' \in States
    BY <2>1, StampedIsCoherent DEF Typed, TypeOK, Sessions, Coherent
  <2>3. CASE Resume(p, disk', pc)
    BY <1>1, <1>3, <2>2, <2>3
  <2>4. CASE End(p)
    <3>1. Continues(p, Idle) /\ Idle \in Sessions
      BY IdleIsTyped DEF Continues
    <3> QED
      BY <1>3, <2>4, <3>1 DEF End
  <2> QED
    BY <1>3, <2>3, <2>4 DEF Save
<1> QED
  BY <1>2, <1>3

\* Every step of a running command continues its session, and a reader changes no file.
LEMMA RunningContinues ==
  ASSUME Typed, Alone, NEW p \in Procs, Step(p), ~FillStore(p)
  PROVE  /\ p \in Running
         /\ \E s \in Sessions : Continues(p, s) /\ proc' = [proc EXCEPT ![p] = s]
         /\ ~Writes(p) => disk' = disk /\ synced' = synced
<1> DEFINE st == proc[p].st
           Done == /\ \E s \in Sessions : Continues(p, s) /\ proc' = [proc EXCEPT ![p] = s]
                   /\ ~Writes(p) => disk' = disk /\ synced' = synced
<1>1. p \in Running
  BY DEF Step, Running, RecoverPublished, RecoverAbsent, ExportReceipt, ExportDone, ImportRoot,
         RootsDone, ImportTimestamp, ImportSnapshot, ImportTargets, FinishImport, Journal,
         Publish, Complete, Reject, Refuse
<1>2. Coherent(st) /\ proc[p] \in Sessions /\ Reached(proc[p])
  BY DEF Typed, TypeOK, Sessions, Coherent
<1>3. ASSUME NEW new, NEW pc \in Pcs \ {"enrol"}, Coherent(new), Save(p, new, pc),
             pc \in WriterSteps => Writes(p)
      PROVE  Done
  BY <1>3, SaveContinues
<1>4. ASSUME UNCHANGED <<disk, synced>>, End(p) PROVE Done
  <2>1. Continues(p, Idle) /\ Idle \in Sessions
    BY IdleIsTyped DEF Continues
  <2> QED
    BY <1>4, <2>1 DEF End
<1>5. ASSUME UNCHANGED <<disk, synced>>, NEW pc \in Pcs \ {"idle", "enrol"}, Goto(p, pc),
             pc \in WriterSteps => Writes(p)
      PROVE  Done
  <2> DEFINE s == [proc[p] EXCEPT !.pc = pc]
  <2>1. proc' = [proc EXCEPT ![p] = s]
    BY <1>5 DEF Goto
  <2>2. s \in Sessions /\ s.st = st /\ s.pc = pc /\ s.command = proc[p].command
    BY <1>2 DEF Sessions
  <2> HIDE DEF s
  <2>3. Writes(p) => st = disk'
    BY <1>1, <1>5 DEF Alone, WriterIsAlone, Writers
  <2>4. Continues(p, s)
    BY <1>5, <2>2, <2>3 DEF Continues
  <2> QED
    BY <1>5, <2>1, <2>2, <2>4
<1>6. CASE RecoverPublished(p) \/ RecoverAbsent(p)
  <2>1. Writes(p)
    BY <1>6 DEF Alone, WriterSteps, RecoverPublished, RecoverAbsent
  <2>2. "export" \in Pcs \ {"enrol"}
    BY DEF Pcs
  <2>3. Coherent(Settled(st)) /\ Coherent([st EXCEPT !.pending = {}])
    BY <1>2, UpdatesAreCoherent
  <2>4. \/ Save(p, Settled(st), "export")
        \/ Save(p, [st EXCEPT !.pending = {}], "export")
    BY <1>6 DEF RecoverPublished, RecoverAbsent
  <2> QED
    BY <1>1, <1>3, <2>1, <2>2, <2>3, <2>4
<1>7. CASE ExportReceipt(p)
  <2>1. Writes(p)
    BY <1>7 DEF Alone, WriterSteps, ExportReceipt
  <2>2. proc' = [proc EXCEPT ![p] = proc[p]] /\ disk' = disk
    BY <1>7 DEF ExportReceipt, Typed, TypeOK
  <2>3. Continues(p, proc[p])
    BY <1>1, <2>1, <2>2 DEF Continues, Alone, WriterIsAlone, Writers, Running
  <2> QED
    BY <1>1, <1>2, <2>1, <2>2, <2>3
<1>8. CASE ExportDone(p) \/ RootsDone(p) \/ Reject(p) \/ Refuse(p)
  <2>1. UNCHANGED <<disk, synced>>
    BY <1>8 DEF ExportDone, RootsDone, Reject, Refuse
  <2>2. \/ End(p)
        \/ Goto(p, "roots") \/ Goto(p, "timestamp")
        \/ Goto(p, "finish") /\ proc[p].command = "root-only"
    BY <1>8 DEF ExportDone, RootsDone, Reject, Refuse
  <2> QED
    BY <1>1, <1>4, <1>5, <2>1, <2>2 DEF Pcs, WriterSteps, Writes
<1>9. CASE Publish(p)
  <2>1. Writes(p)
    BY <1>9 DEF Alone, WriterSteps, Publish
  <2>2. UNCHANGED <<disk, synced>> /\ (End(p) \/ Goto(p, "complete"))
    BY <1>9 DEF Publish
  <2> QED
    BY <1>1, <1>4, <1>5, <2>1, <2>2 DEF Pcs
<1>10. CASE \/ ImportRoot(p) \/ ImportTimestamp(p) \/ ImportSnapshot(p) \/ ImportTargets(p)
            \/ FinishImport(p) \/ Journal(p) \/ Complete(p)
  <2>1. PICK new, pc : SavesTo(p, new, pc)
    BY <1>10, SavingSteps
  <2>2. pc \in WriterSteps => Writes(p)
    BY <2>1 DEF SavesTo, Alone
  <2> QED
    BY <1>1, <1>3, <2>1, <2>2 DEF SavesTo
<1> QED
  BY <1>1, <1>6, <1>7, <1>8, <1>9, <1>10 DEF Step

\* No step of any process lets a second session run beside a writer.
LEMMA AloneInductive == Typed /\ Alone /\ [Next]_vars => Alone'
<1> SUFFICES ASSUME Typed, Alone, [Next]_vars PROVE Alone'
  OBVIOUS
<1>0. Idle.pc = "idle" /\ Idle.pc \notin WriterSteps /\ Idle.command = "verify"
  BY DEF Idle, WriterSteps
\* A step of a process that is not running, and leaves it so, disturbs nobody.
<1>1. ASSUME NEW p \in Procs \ Running, NEW s \in Sessions, s.pc \in {"idle", "enrol"},
             proc' = [proc EXCEPT ![p] = s], disk' = disk
      PROVE  Alone'
  <2>1. \A q \in Procs : proc'[q] = IF q = p THEN s ELSE proc[q]
    BY <1>1 DEF Typed, TypeOK
  <2>2. Running' = Running
    BY <1>1, <2>1 DEF Running
  <2>3. Writers' = Writers /\ \A q \in Running : proc'[q] = proc[q]
    BY <1>1, <2>1, <2>2 DEF Writers, Writes
  <2>4. WriterIsAlone'
    BY <1>1, <2>2, <2>3 DEF Alone, WriterIsAlone, Writers
  <2>5. \A q \in Procs : proc'[q].pc \in WriterSteps => Writes(q)'
    BY <1>1, <2>1 DEF Alone, WriterSteps, Writes
  <2> QED
    BY <2>4, <2>5 DEF Alone
<1>2. ASSUME NEW p \in Procs, CreateStore(p) PROVE Alone'
  <2> DEFINE s == [proc[p] EXCEPT !.pc = "enrol"]
  <2>1. s \in Sessions /\ s.pc = "enrol"
    BY DEF Typed, TypeOK, Sessions, Pcs
  <2>2. proc' = [proc EXCEPT ![p] = s] /\ disk' = disk /\ p \notin Running
    BY <1>2 DEF CreateStore, Goto, Running
  <2> HIDE DEF s
  <2> QED
    BY <1>1, <2>1, <2>2
<1>3. ASSUME NEW p \in Procs, FillStore(p) PROVE Alone'
  <2>1. disk' = disk /\ p \notin Running /\ (End(p) \/ UNCHANGED proc)
    BY <1>3 DEF FillStore, Running
  <2>2. CASE End(p)
    BY <1>0, <1>1, <2>1, <2>2, IdleIsTyped DEF End
  <2>3. CASE UNCHANGED proc
    BY <2>1, <2>3 DEF Alone, WriterIsAlone, Writers, Running, Writes
  <2> QED
    BY <2>1, <2>2, <2>3
<1>4. ASSUME NEW p \in Procs, NEW command \in Commands, NEW clock \in 1..MaxClock,
             Open(p, command, clock)
      PROVE  Alone'
  <2> DEFINE s == [pc |-> FirstStep(command), command |-> command, clock |-> clock, st |-> disk]
  <2>1. \A q \in Procs : proc'[q] = IF q = p THEN s ELSE proc[q]
    BY <1>4 DEF Open, Typed, TypeOK
  <2>2. disk' = disk /\ LockFree(command) /\ p \notin Running
    BY <1>4 DEF Open, Running
  <2>3. s.st = disk /\ s.command = command /\ (command = "verify" => s.pc \notin WriterSteps)
    BY DEF FirstStep, WriterSteps
  <2> HIDE DEF s
  <2>4. Running' \subseteq Running \cup {p}
    BY <2>1 DEF Running
  <2>5. ASSUME NEW q \in Writers' PROVE Running' = {q} /\ proc'[q].st = disk'
    <3>1. CASE command = "verify"
      <4>1. q \in Writers /\ Writers = {}
        BY <2>1, <2>2, <2>3, <2>5, <3>1 DEF LockFree, Writers, Running, Writes
      <4> QED
        BY <4>1
    <3>2. CASE command # "verify"
      <4>1. Running = {} /\ q \in Running'
        BY <2>2, <2>5, <3>2 DEF LockFree, Writers
      <4>2. q = p /\ Running' = {p}
        BY <2>4, <4>1
      <4> QED
        BY <2>1, <2>2, <2>3, <4>2
    <3> QED
      BY <3>1, <3>2
  <2>6. \A q \in Procs : proc'[q].pc \in WriterSteps => Writes(q)'
    BY <2>1, <2>3 DEF Alone, Writes
  <2> QED
    BY <2>5, <2>6 DEF Alone, WriterIsAlone
<1>5. ASSUME NEW p \in Procs, Step(p), ~FillStore(p) PROVE Alone'
  BY <1>5, RunningContinues, ContinuesAlone
<1>6. ASSUME NEW p \in Procs, Crash(p) PROVE Alone'
  <2>1. proc' = [proc EXCEPT ![p] = Idle] /\ disk' = disk
    BY <1>6 DEF Crash, End
  <2>2. CASE p \in Running
    <3>1. Continues(p, Idle) /\ Idle \in Sessions
      BY IdleIsTyped DEF Continues
    <3> QED
      BY <2>1, <2>2, <3>1, ContinuesAlone
  <2>3. CASE p \notin Running
    BY <1>0, <1>1, <2>1, <2>3, IdleIsTyped
  <2> QED
    BY <2>2, <2>3
<1>7. ASSUME NEW o \in Outputs, ForeignFile(o) PROVE Alone'
  BY <1>7 DEF ForeignFile, Alone, WriterIsAlone, Writers, Running, Writes
<1>8. ASSUME PowerLoss PROVE Alone'
  <2>1. \A q \in Procs : proc'[q] = Idle
    BY <1>8 DEF PowerLoss
  <2>2. Running' = {}
    BY <1>0, <2>1 DEF Running
  <2> QED
    BY <1>0, <2>1, <2>2 DEF Alone, WriterIsAlone, Writers
<1>9. CASE UNCHANGED vars
  BY <1>9 DEF vars, Alone, WriterIsAlone, Writers, Running, Writes
<1> QED
  BY <1>2, <1>3, <1>4, <1>5, <1>6, <1>7, <1>8, <1>9 DEF Next, Step

\* No process runs at the start.
LEMMA InitAlone == Init => Alone
<1> SUFFICES ASSUME Init PROVE Alone
  OBVIOUS
<1>1. \A q \in Procs : proc[q].pc = "idle"
  BY DEF Init, Idle
<1> QED
  BY <1>1 DEF Alone, WriterIsAlone, Writers, Running, WriterSteps

\* Types and exclusion hold in every reachable state.
LEMMA Invariants == Spec => [](Typed /\ Alone)
BY InitTyped, InitAlone, TypedInductive, AloneInductive, PTL DEF Spec

\* Two commands never write at once, no command reads beside a writer, and what a
\* writer holds in memory is what state.json holds: an exclusive lock taken before
\* the state is loaded, and a save after every change.
THEOREM WritersExclude == Spec => []WriterIsAlone
<1>1. Alone => WriterIsAlone
  BY DEF Alone
<1> QED
  BY <1>1, Invariants, PTL

(***************************************************************************)
(* The floors never fall.                                                  *)
(***************************************************************************)

\* What is durable trails what the processes see, and never contradicts it.
Trailing == FloorsHold(synced, disk)

\* A save raises the floors of the file, and makes durable the new file or nothing.
LEMMA SaveRaises ==
  ASSUME Typed, Alone, NEW p \in Running, NEW new, Coherent(new), FloorsHold(proc[p].st, new),
         NEW pc, Save(p, new, pc)
  PROVE  FloorsHold(disk, disk') /\ synced' \in {synced, disk'}
<1>1. CASE ~Writes(p)
  BY <1>1, SameFloorsHold DEF Save, Typed, TypeOK, Coherent
<1>2. CASE Writes(p)
  <2>1. proc[p].st = disk
    BY <1>2 DEF Alone, WriterIsAlone, Writers
  <2>2. disk' = Stamped(new, proc[p].clock) /\ synced' \in {synced, disk'}
    BY <1>2 DEF Save
  <2>3. disk'.floors = new.floors
    BY <2>2 DEF Stamped, Coherent, States
  <2> QED
    BY <2>1, <2>2, <2>3 DEF FloorsHold
<1> QED
  BY <1>1, <1>2

\* One step of a command raises the visible floors or keeps them, and makes durable either
\* the file it leaves visible or nothing.
LEMMA StepRaises ==
  ASSUME Typed, Alone, NEW p \in Procs, Step(p)
  PROVE  FloorsHold(disk, disk') /\ synced' \in {synced, disk'}
<1>1. ASSUME UNCHANGED <<disk, synced>> PROVE FloorsHold(disk, disk') /\ synced' \in {synced, disk'}
  BY <1>1, SameFloorsHold DEF Typed, TypeOK, Coherent
<1>2. CASE \/ FillStore(p) \/ ExportReceipt(p) \/ ExportDone(p) \/ RootsDone(p) \/ Publish(p)
           \/ Reject(p) \/ Refuse(p)
  BY <1>1, <1>2 DEF FillStore, ExportReceipt, ExportDone, RootsDone, Publish, Reject, Refuse
<1>3. CASE RecoverPublished(p)
  <2>1. p \in Running
    BY <1>3 DEF RecoverPublished, Running
  <2>2. Save(p, Settled(proc[p].st), "export") /\ Coherent(proc[p].st)
    BY <1>3 DEF RecoverPublished, Typed, TypeOK, Sessions, Coherent
  <2>3. Coherent(Settled(proc[p].st)) /\ FloorsHold(proc[p].st, Settled(proc[p].st))
    BY <2>2, UpdatesAreCoherent, UpdatesKeepFloors
  <2> QED
    BY <2>1, <2>2, <2>3, SaveRaises
<1>4. CASE \/ RecoverAbsent(p) \/ ImportRoot(p) \/ ImportTimestamp(p) \/ ImportSnapshot(p)
           \/ ImportTargets(p) \/ FinishImport(p) \/ Journal(p) \/ Complete(p)
  <2>1. p \in Running
    BY <1>4 DEF RecoverAbsent, ImportRoot, ImportTimestamp, ImportSnapshot, ImportTargets,
                FinishImport, Journal, Complete, Running
  <2>2. PICK new, pc : SavesTo(p, new, pc)
    BY <1>4, SavingSteps
  <2> QED
    BY <2>1, <2>2, SaveRaises DEF SavesTo
<1> QED
  BY <1>2, <1>3, <1>4 DEF Step

\* The file and what is durable of it move up together, or a power loss picks one.
LEMMA NextRaises ==
  ASSUME Typed, Alone, Next
  PROVE  \/ FloorsHold(disk, disk') /\ synced' \in {synced, disk'}
         \/ synced' \in {synced, disk} /\ disk' = synced'
<1>1. ASSUME UNCHANGED <<disk, synced>> PROVE FloorsHold(disk, disk') /\ synced' \in {synced, disk'}
  BY <1>1, SameFloorsHold DEF Typed, TypeOK, Coherent
<1>2. ASSUME NEW p \in Procs,
             \/ CreateStore(p) \/ Crash(p)
             \/ \E command \in Commands, clock \in 1..MaxClock : Open(p, command, clock)
      PROVE  UNCHANGED <<disk, synced>>
  BY <1>2 DEF CreateStore, Crash, Open
<1>3. ASSUME NEW o \in Outputs, ForeignFile(o) PROVE UNCHANGED <<disk, synced>>
  BY <1>3 DEF ForeignFile
<1>4. ASSUME PowerLoss PROVE synced' \in {synced, disk} /\ disk' = synced'
  BY <1>4 DEF PowerLoss
<1> QED
  BY <1>1, <1>2, <1>3, <1>4, StepRaises DEF Next

\* The durable floors stay behind the visible ones and never fall, power losses included.
LEMMA TrailingInductive ==
  Typed /\ Alone /\ Trailing /\ [Next]_vars => Trailing' /\ FloorsHold(synced, synced')
<1> SUFFICES ASSUME Typed, Alone, Trailing, [Next]_vars
             PROVE  Trailing' /\ FloorsHold(synced, synced')
  OBVIOUS
<1>1. Coherent(disk) /\ Coherent(synced)
  BY DEF Typed, TypeOK, Coherent
<1>2. Coherent(disk') /\ Coherent(synced')
  BY TypedInductive DEF Typed, TypeOK, Coherent
<1>3. FloorsHold(synced, synced) /\ FloorsHold(disk', disk')
  BY <1>1, <1>2, SameFloorsHold
<1>4. CASE UNCHANGED vars
  BY <1>3, <1>4 DEF vars, Trailing
<1>5. CASE FloorsHold(disk, disk') /\ synced' \in {synced, disk'}
  <2>1. FloorsHold(synced, disk')
    BY <1>1, <1>2, <1>5, FloorsHoldTransitive DEF Trailing
  <2> QED
    BY <1>3, <1>5, <2>1 DEF Trailing
<1>6. CASE synced' \in {synced, disk} /\ disk' = synced'
  BY <1>3, <1>6 DEF Trailing
<1> QED
  BY <1>4, <1>5, <1>6, NextRaises

\* Across commands, crashes and power losses the durable floor of a profile never
\* falls and one sequence keeps its manifest: entries are accepted against the
\* floors of the file itself, because the writer is alone with what it loaded.
THEOREM FloorsHoldForever == Spec => FloorsNeverFall
<1>1. Init => Trailing
  BY FreshIsCoherent, SameFloorsHold DEF Init, Trailing
<1>2. FloorsHold(synced, synced') => \A p \in Profiles : FloorHolds(synced.floors[p], synced'.floors[p])
  BY DEF FloorsHold
<1> QED
  BY <1>1, <1>2, Invariants, TrailingInductive, PTL DEF Spec, FloorsNeverFall

(***************************************************************************)
(* Journal, outputs and receipts.                                          *)
(***************************************************************************)

\* At most one installation is journalled; a session past recovery has none until
\* it journals its own, and that entry is durable before anything is published.
Journalling ==
  /\ \A r, s \in disk.pending : r = s
  /\ \A r, s \in synced.pending : r = s
  /\ \A p \in Writers :
       /\ proc[p].pc \notin {"recover", "publish", "complete"} => disk.pending = {}
       /\ proc[p].pc \in {"publish", "complete"} => synced = disk

\* What a save by a writer does to the journal and to the sessions.
LEMMA SaveJournals ==
  ASSUME Typed, Alone, NEW p \in Running, Writes(p), NEW new, Coherent(new), NEW pc \in Pcs,
         Save(p, new, pc)
  PROVE  /\ proc[p].st = disk
         /\ disk'.pending = new.pending /\ disk'.completed = new.completed
         /\ \/ synced' = disk' /\ (proc'[p] = Idle \/ proc'[p].pc = pc)
            \/ synced' = synced /\ proc'[p] = Idle
<1>1. proc[p].st = disk
  BY DEF Alone, WriterIsAlone, Writers
<1>2. disk' = Stamped(new, proc[p].clock)
  BY DEF Save
<1>3. disk'.pending = new.pending /\ disk'.completed = new.completed
  BY <1>2 DEF Stamped, Coherent, States
<1>4. p \in Procs
  BY DEF Running
<1>5. CASE synced' = disk' /\ Resume(p, disk', pc)
  BY <1>1, <1>3, <1>4, <1>5 DEF Resume, End, Typed, TypeOK, Sessions
<1>6. CASE UNCHANGED synced /\ End(p)
  BY <1>1, <1>3, <1>4, <1>6 DEF End, Typed, TypeOK
<1> QED
  BY <1>5, <1>6 DEF Save

\* After a step of a running command only that command may be a writer.
LEMMA OnlyWriter ==
  ASSUME Typed, Alone, NEW p \in Procs, Step(p), ~FillStore(p), NEW q \in Writers'
  PROVE  q = p /\ p \in Running /\ Writes(p) /\ proc'[p] # Idle
<1>1. p \in Running
  BY RunningContinues
<1>2. PICK s \in Sessions : Continues(p, s) /\ proc' = [proc EXCEPT ![p] = s]
  BY RunningContinues
<1>3. \A x \in Procs : proc'[x] = IF x = p THEN s ELSE proc[x]
  BY <1>2 DEF Typed, TypeOK
<1>4. q \in Procs /\ proc'[q].pc \notin {"idle", "enrol"} /\ proc'[q].command # "verify"
  BY DEF Writers, Running, Writes
<1>5. q = p
  <2> SUFFICES ASSUME q # p PROVE FALSE
    OBVIOUS
  <2>1. q \in Writers
    BY <1>3, <1>4 DEF Writers, Running, Writes
  <2> QED
    BY <1>1, <2>1 DEF Alone, WriterIsAlone
<1>6. s # Idle
  BY <1>3, <1>4, <1>5 DEF Idle
<1> QED
  BY <1>1, <1>2, <1>3, <1>4, <1>5, <1>6 DEF Continues, Writes

Importing(p) ==
  ImportRoot(p) \/ ImportTimestamp(p) \/ ImportSnapshot(p) \/ ImportTargets(p) \/ FinishImport(p)

\* An import leaves the installations of the file alone.
LEMMA ImportsKeepInstalls ==
  ASSUME Typed, Alone, NEW p \in Procs, Importing(p)
  PROVE  /\ InstallsKept(disk, disk') /\ synced' \in {synced, disk'}
         /\ Writes(p) => \/ proc'[p] = Idle
                         \/ proc'[p].pc \notin {"recover", "publish", "complete"}
<1>1. PICK new, pc : SavesTo(p, new, pc)
  BY SavingSteps DEF Importing
<1>2. p \in Running /\ proc[p].pc \notin {"recover", "publish", "complete", "journal"}
  BY DEF Importing, ImportRoot, ImportTimestamp, ImportSnapshot, ImportTargets, FinishImport, Running
<1>3. InstallsKept(proc[p].st, new) /\ pc \notin {"recover", "publish", "complete"}
  BY <1>1, <1>2 DEF SavesTo
<1>4. CASE ~Writes(p)
  BY <1>1, <1>4 DEF SavesTo, Save, InstallsKept
<1>5. CASE Writes(p)
  BY <1>1, <1>2, <1>3, <1>5, SaveJournals DEF SavesTo, InstallsKept
<1> QED
  BY <1>4, <1>5

\* The journal discipline is inductive: recovery comes first, the journal entry is
\* durable before the output is linked, and only settling it clears it.
LEMMA JournallingInductive == Typed /\ Alone /\ Journalling /\ [Next]_vars => Journalling'
<1> SUFFICES ASSUME Typed, Alone, Journalling, [Next]_vars PROVE Journalling'
  OBVIOUS
<1> DEFINE Past(p) == /\ proc[p].pc \notin {"recover", "publish", "complete"} => disk.pending = {}
                      /\ proc[p].pc \in {"publish", "complete"} => synced = disk
<1>0. Alone' /\ Idle.pc = "idle"
  BY AloneInductive DEF Idle
\* Steps that leave the file alone and start no writer's session.
<1>1. ASSUME UNCHANGED <<disk, synced>>, \A q \in Writers' : Past(q)' PROVE Journalling'
  BY <1>1 DEF Journalling
<1>2. ASSUME NEW p \in Procs, Step(p), ~FillStore(p),
             \A r, s \in disk'.pending : r = s, synced' \in {synced, disk'}, Past(p)'
      PROVE  Journalling'
  BY <1>2, OnlyWriter DEF Journalling
<1>3. ASSUME NEW p \in Procs, FillStore(p) PROVE Journalling'
  <2>1. \A q \in Writers' : q \in Writers /\ proc'[q] = proc[q]
    BY <1>3, <1>0 DEF FillStore, End, Writers, Running, Writes, Typed, TypeOK
  <2> QED
    BY <1>1, <1>3, <2>1 DEF FillStore, Journalling
<1>4. ASSUME NEW p \in Procs, Importing(p) PROVE Journalling'
  <2>1. Step(p) /\ ~FillStore(p) /\ p \in Running
    BY <1>4 DEF Importing, Step, FillStore, ImportRoot, ImportTimestamp, ImportSnapshot,
                ImportTargets, FinishImport, Running
  <2>2. proc[p].pc \notin {"recover", "publish", "complete"}
    BY <1>4 DEF Importing, ImportRoot, ImportTimestamp, ImportSnapshot, ImportTargets, FinishImport
  <2>3. InstallsKept(disk, disk') /\ synced' \in {synced, disk'}
    BY <1>4, ImportsKeepInstalls
  <2>4. \A r, s \in disk'.pending : r = s
    BY <2>3 DEF InstallsKept, Journalling
  <2>5. \A q \in Writers' : Past(q)'
    <3>1. ASSUME NEW q \in Writers' PROVE q = p /\ Writes(p) /\ proc'[p] # Idle
      BY <2>1, <3>1, OnlyWriter
    <3>2. Writes(p) => disk.pending = {}
      BY <2>1, <2>2 DEF Journalling, Writers
    <3> QED
      BY <1>4, <2>3, <3>1, <3>2, ImportsKeepInstalls DEF InstallsKept
  <2> QED
    BY <2>3, <2>4, <2>5 DEF Journalling
<1>5. ASSUME NEW p \in Procs, RecoverPublished(p) \/ RecoverAbsent(p) \/ Complete(p)
      PROVE  Journalling'
  <2>1. Step(p) /\ ~FillStore(p) /\ p \in Running /\ Writes(p)
    BY <1>5 DEF Step, FillStore, RecoverPublished, RecoverAbsent, Complete, Running, Alone, WriterSteps
  <2>2. PICK new \in {Settled(proc[p].st), [proc[p].st EXCEPT !.pending = {}]},
             pc \in {"export", "export-installed"} : Save(p, new, pc)
    BY <1>5 DEF RecoverPublished, RecoverAbsent, Complete
  <2>3. Coherent(new) /\ new.pending = {} /\ pc \in Pcs
    <3>1. Coherent(proc[p].st)
      BY DEF Typed, TypeOK, Sessions, Coherent
    <3>2. /\ Settled(proc[p].st).pending = {}
          /\ [proc[p].st EXCEPT !.pending = {}].pending = {}
      BY <3>1 DEF Settled, Coherent, States
    <3> QED
      BY <2>2, <3>1, <3>2, UpdatesAreCoherent DEF Pcs
  <2>4. /\ disk'.pending = {}
        /\ synced' \in {synced, disk'}
        /\ proc'[p] = Idle \/ proc'[p].pc \in {"export", "export-installed"}
    BY <2>1, <2>2, <2>3, SaveJournals
  <2> QED
    BY <1>0, <1>2, <2>1, <2>4
<1>6. ASSUME NEW p \in Procs, Journal(p) PROVE Journalling'
  <2>1. Step(p) /\ ~FillStore(p) /\ p \in Running /\ Writes(p)
    BY <1>6 DEF Step, FillStore, Journal, Running, Alone, WriterSteps
  <2>2. PICK r \in Receipt : Save(p, [proc[p].st EXCEPT !.pending = {r}], "publish")
    BY <1>6, JournalSaves
  <2> DEFINE new == [proc[p].st EXCEPT !.pending = {r}]
  <2>3. Coherent(proc[p].st)
    BY DEF Typed, TypeOK, Sessions, Coherent
  <2>4. Coherent(new) /\ "publish" \in Pcs
    BY <2>3, UpdatesAreCoherent DEF Pcs
  <2>5. new.pending = {r}
    BY <2>3 DEF Coherent, States
  <2> HIDE DEF new
  <2>6. Save(p, new, "publish")
    BY <2>2 DEF new
  <2>7. /\ disk'.pending = {r}
        /\ \/ synced' = disk' /\ (proc'[p] = Idle \/ proc'[p].pc = "publish")
           \/ synced' = synced /\ proc'[p] = Idle
    BY <2>1, <2>4, <2>5, <2>6, SaveJournals
  <2>8. ASSUME NEW q \in Writers' PROVE Past(q)'
    BY <2>1, <2>7, <2>8, OnlyWriter
  <2>9. \A x, y \in synced'.pending : x = y
    BY <2>7 DEF Journalling
  <2> QED
    BY <2>7, <2>8, <2>9 DEF Journalling
<1>7. ASSUME NEW p \in Procs, ExportReceipt(p) \/ ExportDone(p) \/ RootsDone(p) \/ Reject(p) \/ Refuse(p)
      PROVE  Journalling'
  <2>1. Step(p) /\ ~FillStore(p) /\ p \in Running /\ UNCHANGED <<disk, synced>>
    BY <1>7 DEF Step, FillStore, ExportReceipt, ExportDone, RootsDone, Reject, Refuse, Running
  <2>2. ASSUME NEW q \in Writers' PROVE Past(q)'
    <3>1. q = p /\ p \in Writers /\ proc'[p] # Idle
      BY <2>1, OnlyWriter DEF Writers
    <3>2. \/ proc'[p] = proc[p]
          \/ /\ proc[p].pc \notin {"recover", "publish", "complete"}
             /\ proc'[p].pc \notin {"recover", "publish", "complete"}
      BY <1>7, <3>1 DEF ExportReceipt, ExportDone, RootsDone, Reject, Refuse, Goto, End,
                        Typed, TypeOK, Sessions
    <3> QED
      BY <2>1, <3>1, <3>2 DEF Journalling
  <2> QED
    BY <1>1, <2>1, <2>2
<1>8. ASSUME NEW p \in Procs, Publish(p) PROVE Journalling'
  <2>1. Step(p) /\ ~FillStore(p) /\ UNCHANGED <<disk, synced>>
    BY <1>8 DEF Step, FillStore, Publish
  <2>2. ASSUME NEW q \in Writers' PROVE Past(q)'
    <3>1. q = p /\ p \in Writers /\ proc'[p] # Idle
      BY <2>1, OnlyWriter DEF Writers
    <3>2. synced = disk /\ proc'[p].pc = "complete"
      BY <1>8, <3>1 DEF Publish, Goto, End, Typed, TypeOK, Sessions, Journalling
    <3> QED
      BY <2>1, <3>1, <3>2
  <2> QED
    BY <1>1, <2>1, <2>2
<1>9. ASSUME NEW p \in Procs, NEW command \in Commands, NEW clock \in 1..MaxClock,
             Open(p, command, clock)
      PROVE  Journalling'
  <2>1. /\ proc' = [proc EXCEPT ![p] = [pc |-> FirstStep(command), command |-> command,
                                       clock |-> clock, st |-> disk]]
        /\ UNCHANGED <<disk, synced>>
    BY <1>9 DEF Open
  <2>2. ASSUME NEW q \in Writers' PROVE Past(q)'
    <3>1. CASE q = p
      <4>1. proc'[q].pc = FirstStep(command) /\ command # "verify"
        BY <2>1, <3>1 DEF Typed, TypeOK, Writers, Writes
      <4> QED
        BY <2>1, <4>1 DEF FirstStep
    <3>2. CASE q # p
      BY <2>1, <3>2 DEF Writers, Running, Writes, Journalling, Typed, TypeOK
    <3> QED
      BY <3>1, <3>2
  <2> QED
    BY <1>1, <2>1, <2>2
<1>10. ASSUME NEW p \in Procs, CreateStore(p) \/ Crash(p) PROVE Journalling'
  <2>1. UNCHANGED <<disk, synced>>
    BY <1>10 DEF CreateStore, Crash
  <2>2. \A q \in Writers' : q \in Writers /\ proc'[q] = proc[q]
    BY <1>0, <1>10 DEF CreateStore, Crash, Goto, End, Writers, Running, Writes, Typed, TypeOK, Sessions
  <2> QED
    BY <1>1, <2>1, <2>2 DEF Journalling
<1>11. ASSUME NEW o \in Outputs, ForeignFile(o) PROVE Journalling'
  BY <1>11 DEF ForeignFile, Journalling, Writers, Running, Writes
<1>12. ASSUME PowerLoss PROVE Journalling'
  <2>1. Writers' = {}
    BY <1>0, <1>12 DEF PowerLoss, Writers, Running
  <2> QED
    BY <1>12, <2>1 DEF PowerLoss, Journalling
<1>13. CASE UNCHANGED vars
  BY <1>13 DEF vars, Journalling, Writers, Running, Writes
<1> QED
  BY <1>3, <1>4, <1>5, <1>6, <1>7, <1>8, <1>9, <1>10, <1>11, <1>12, <1>13 DEF Next, Step, Importing

(***************************************************************************)
(* Published files and completed receipts.                                 *)
(***************************************************************************)

\* Every receipt that published a file of `files` stands for its path, and is in st.
Accounted(files, st) ==
  \A o \in Outputs : \A f \in files[o] : \A r \in f.by :
    r.output = o /\ r \in st.pending \cup st.completed

\* The bytes of a receipt survive a power loss.
Durable(files, r) == \E f \in files[r.output] : f.bytes = r.manifest

\* A path is durable as it is seen or empty; what was published is accounted for, and
\* what is completed, exported or about to be completed is durable.
Accounting ==
  /\ \A o \in Outputs : outSynced[o] \in {{}, out[o]}
  /\ Accounted(out, disk) /\ Accounted(out, synced)
  /\ \A r \in disk.completed \cup synced.completed \cup receipts : Durable(outSynced, r)
  /\ \A p \in Writers : proc[p].pc = "complete" => \A r \in disk.pending : Durable(outSynced, r)

\* A durable path never loses its file.
PathsKept == \A o \in Outputs : outSynced'[o] \in {{}, out'[o]} /\ outSynced[o] \subseteq outSynced'[o]

\* A durable database stays durable as long as paths are kept.
LEMMA DurableKept ==
  ASSUME Typed, PathsKept, NEW r \in Receipt, Durable(outSynced, r)
  PROVE  Durable(outSynced', r)
BY DEF Durable, PathsKept, Receipt

\* What files and states hold as receipts are receipts.
LEMMA ReceiptsTyped ==
  ASSUME Typed
  PROVE  /\ disk.pending \subseteq Receipt /\ disk.completed \subseteq Receipt
         /\ synced.completed \subseteq Receipt /\ receipts \subseteq Receipt
BY DEF Typed, TypeOK, States

\* Steps that leave the output paths alone.
LEMMA UntouchedPaths ==
  ASSUME Typed, Accounting, UNCHANGED <<out, outSynced>>
  PROVE  PathsKept
BY DEF Accounting, PathsKept

\* What a step of a running command has to show.
LEMMA SessionAccounts ==
  ASSUME Typed, Alone, Accounting, NEW p \in Procs, Step(p), ~FillStore(p),
         PathsKept, receipts' = receipts,
         Accounted(out', disk'), Accounted(out', synced'),
         \A r \in (disk'.completed \cup synced'.completed) \ (disk.completed \cup synced.completed) :
           Durable(outSynced', r),
         Writes(p) /\ proc'[p].pc = "complete" => \A r \in disk'.pending : Durable(outSynced', r)
  PROVE  Accounting'
<1>1. \A r \in disk'.completed \cup synced'.completed \cup receipts' : Durable(outSynced', r)
  BY DurableKept, ReceiptsTyped DEF Accounting
<1>2. \A q \in Writers' : proc'[q].pc = "complete" => \A r \in disk'.pending : Durable(outSynced', r)
  BY OnlyWriter
<1> QED
  BY <1>1, <1>2 DEF Accounting, PathsKept

\* Steps that keep the file, the paths and the exported receipts.
LEMMA StillAccounts ==
  ASSUME Typed, Alone, Accounting, UNCHANGED <<disk, synced, out, outSynced, receipts>>,
         \A q \in Writers' : proc'[q].pc = "complete" => q \in Writers /\ proc[q].pc = "complete"
  PROVE  Accounting'
BY DEF Accounting

\* Growing installations keep published files accounted for.
LEMMA AccountedKept ==
  ASSUME NEW files, NEW old, NEW new, Accounted(files, old),
         old.pending \cup old.completed \subseteq new.pending \cup new.completed
  PROVE  Accounted(files, new)
BY DEF Accounted

\* The steps of an import touch neither paths nor entries.
LEMMA ImportAccounts ==
  ASSUME Typed, Alone, Journalling, Accounting, NEW p \in Procs, Importing(p)
  PROVE  Accounting'
<1>1. Step(p) /\ ~FillStore(p) /\ UNCHANGED <<out, outSynced, receipts>>
  BY DEF Importing, Step, FillStore, ImportRoot, ImportTimestamp, ImportSnapshot, ImportTargets,
         FinishImport, Retain
<1>2. InstallsKept(disk, disk') /\ synced' \in {synced, disk'}
  BY ImportsKeepInstalls
<1>3. PathsKept
  BY <1>1, UntouchedPaths
<1>4. Accounted(out', disk') /\ Accounted(out', synced')
  BY <1>1, <1>2, AccountedKept DEF Accounting, InstallsKept
<1>5. disk'.completed \cup synced'.completed \subseteq disk.completed \cup synced.completed
  BY <1>2 DEF InstallsKept
<1>6. Writes(p) => proc'[p].pc # "complete"
  BY ImportsKeepInstalls DEF Idle
<1> QED
  BY <1>1, <1>3, <1>4, <1>5, <1>6, SessionAccounts

\* Settling: what was pending is completed, and durable by then.
LEMMA SettlingAccounts ==
  ASSUME Typed, Alone, Journalling, Accounting, NEW p \in Procs, RecoverPublished(p) \/ Complete(p)
  PROVE  Accounting'
<1> DEFINE st == proc[p].st
<1>1. Step(p) /\ ~FillStore(p) /\ p \in Running /\ Writes(p) /\ UNCHANGED <<out, receipts>>
  BY DEF Step, FillStore, RecoverPublished, Complete, Running, Alone, WriterSteps
<1>2. st = disk /\ Coherent(st)
  BY <1>1 DEF Alone, WriterIsAlone, Writers, Typed, TypeOK, Coherent
<1>3. PICK pc \in {"export", "export-installed"} : Save(p, Settled(st), pc)
  BY DEF RecoverPublished, Complete
<1>4. Coherent(Settled(st)) /\ pc \in Pcs
  BY <1>2, <1>3, UpdatesAreCoherent DEF Pcs
<1>5. /\ Settled(st).pending = {}
      /\ Settled(st).completed = disk.completed \cup disk.pending
  BY <1>2 DEF Settled, Coherent, States
<1>6. /\ disk'.pending = {} /\ disk'.completed = disk.completed \cup disk.pending
      /\ synced' \in {synced, disk'}
      /\ proc'[p] = Idle \/ proc'[p].pc = pc
  BY <1>1, <1>3, <1>4, <1>5, SaveJournals
<1>7. PathsKept
  <2>1. CASE RecoverPublished(p)
    BY <2>1 DEF RecoverPublished, Accounting, PathsKept, Typed, TypeOK
  <2>2. CASE Complete(p)
    BY <2>2, UntouchedPaths DEF Complete
  <2> QED
    BY <2>1, <2>2
<1>8. \A r \in disk.pending : Durable(outSynced', r)
  <2>1. CASE RecoverPublished(p)
    <3>1. PICK r \in disk.pending : \E f \in out[r.output] :
            /\ MatchesDescriptor(f, r)
            /\ outSynced' = [outSynced EXCEPT ![r.output] = out[r.output]]
      BY <1>2, <2>1 DEF RecoverPublished
    <3>2. r.output \in Outputs
      BY ReceiptsTyped DEF Receipt
    <3>3. Durable(outSynced', r)
      BY <3>1, <3>2 DEF Durable, MatchesDescriptor, Typed, TypeOK
    <3> QED
      BY <3>3 DEF Journalling
  <2>2. CASE Complete(p)
    BY <1>1, <2>2 DEF Complete, Accounting, Writers
  <2> QED
    BY <2>1, <2>2
<1>9. Accounted(out', disk') /\ Accounted(out', synced')
  BY <1>1, <1>6, AccountedKept DEF Accounting
<1>10. Idle.pc # "complete" /\ pc # "complete"
  BY <1>3 DEF Idle
<1>11. Writes(p) /\ proc'[p].pc = "complete" => \A r \in disk'.pending : Durable(outSynced', r)
  BY <1>6, <1>10
<1>12. \A r \in (disk'.completed \cup synced'.completed) \ (disk.completed \cup synced.completed) :
         Durable(outSynced', r)
  BY <1>6, <1>8
<1> QED
  BY <1>1, <1>7, <1>9, <1>11, <1>12, SessionAccounts

\* Clearing a journal whose output is absent loses nothing.
LEMMA ClearingAccounts ==
  ASSUME Typed, Alone, Journalling, Accounting, NEW p \in Procs, RecoverAbsent(p)
  PROVE  Accounting'
<1> DEFINE st == proc[p].st
           new == [st EXCEPT !.pending = {}]
<1>1. Step(p) /\ ~FillStore(p) /\ p \in Running /\ Writes(p) /\ UNCHANGED <<out, outSynced, receipts>>
  BY DEF Step, FillStore, RecoverAbsent, Running, Alone, WriterSteps
<1>2. st = disk /\ Coherent(st)
  BY <1>1 DEF Alone, WriterIsAlone, Writers, Typed, TypeOK, Coherent
<1>3. Save(p, new, "export") /\ "export" \in Pcs
  BY DEF RecoverAbsent, Pcs
<1>4. Coherent(new) /\ new.pending = {} /\ new.completed = disk.completed
  BY <1>2, UpdatesAreCoherent DEF Coherent, States
<1> HIDE DEF new
<1>5. /\ disk'.pending = {} /\ disk'.completed = disk.completed
      /\ synced' \in {synced, disk'}
  BY <1>1, <1>3, <1>4, SaveJournals
<1>6. PathsKept
  BY <1>1, UntouchedPaths
<1>7. Accounted(out', disk')
  <2>1. PICK r \in disk.pending : out[r.output] = {}
    BY <1>2 DEF RecoverAbsent
  <2> SUFFICES ASSUME NEW o \in Outputs, NEW f \in out[o], NEW s \in f.by
               PROVE  s.output = o /\ s \in disk.completed
    BY <1>1, <1>5 DEF Accounted
  <2>2. s.output = o /\ s \in disk.pending \cup disk.completed
    BY DEF Accounting, Accounted
  <2>3. s \notin disk.pending
    BY <2>1, <2>2 DEF Journalling
  <2> QED
    BY <2>2, <2>3
<1>8. Accounted(out', synced')
  BY <1>1, <1>5, <1>7 DEF Accounting
<1>9. disk'.completed \cup synced'.completed \subseteq disk.completed \cup synced.completed
  BY <1>5
<1> QED
  BY <1>1, <1>5, <1>6, <1>7, <1>8, <1>9, SessionAccounts

\* A journal entry is made where there is none, for a path with nothing on it.
LEMMA JournalAccounts ==
  ASSUME Typed, Alone, Journalling, Accounting, NEW p \in Procs, Journal(p)
  PROVE  Accounting'
<1>1. Step(p) /\ ~FillStore(p) /\ p \in Running /\ Writes(p) /\ UNCHANGED <<out, outSynced, receipts>>
  BY DEF Step, FillStore, Journal, Running, Alone, WriterSteps
<1>2. PICK r \in Receipt : Save(p, [proc[p].st EXCEPT !.pending = {r}], "publish")
  BY JournalSaves
<1> DEFINE new == [proc[p].st EXCEPT !.pending = {r}]
<1>3. proc[p].st = disk /\ Coherent(proc[p].st) /\ "publish" \in Pcs
  BY <1>1 DEF Alone, WriterIsAlone, Writers, Typed, TypeOK, Coherent, Pcs
<1>4. Coherent(new) /\ new.completed = disk.completed
  BY <1>3, UpdatesAreCoherent DEF Coherent, States
<1>5. disk.pending = {}
  BY <1>1 DEF Journal, Journalling, Writers
<1> HIDE DEF new
<1>6. Save(p, new, "publish")
  BY <1>2 DEF new
<1>7. /\ disk'.completed = disk.completed
      /\ synced' \in {synced, disk'}
      /\ proc'[p] = Idle \/ proc'[p].pc = "publish"
  BY <1>1, <1>3, <1>4, <1>6, SaveJournals
<1>8. PathsKept
  BY <1>1, UntouchedPaths
<1>9. Accounted(out', disk') /\ Accounted(out', synced')
  BY <1>1, <1>5, <1>7, AccountedKept DEF Accounting
<1>10. disk'.completed \cup synced'.completed \subseteq disk.completed \cup synced.completed
  BY <1>7
<1>11. proc'[p].pc # "complete"
  BY <1>7 DEF Idle
<1> QED
  BY <1>1, <1>8, <1>9, <1>10, <1>11, SessionAccounts

\* Publishing fills an empty path for the one entry of a durable journal.
LEMMA PublishAccounts ==
  ASSUME Typed, Alone, Journalling, Accounting, NEW p \in Procs, Publish(p)
  PROVE  Accounting'
<1>1. Step(p) /\ ~FillStore(p) /\ p \in Running /\ Writes(p) /\ UNCHANGED <<disk, synced, receipts>>
  BY DEF Step, FillStore, Publish, Running, Alone, WriterSteps
<1>2. proc[p].st = disk /\ synced = disk
  BY <1>1 DEF Alone, WriterIsAlone, Writers, Journalling, Publish
<1>3. PICK r \in disk.pending :
        /\ out[r.output] = {}
        /\ out' = [out EXCEPT ![r.output] = {[bytes |-> r.manifest, by |-> {r}]}]
        /\ \/ /\ outSynced' = [outSynced EXCEPT ![r.output] = out'[r.output]]
              /\ Goto(p, "complete")
           \/ UNCHANGED outSynced /\ End(p)
  BY <1>2 DEF Publish, Vacant
<1>4. r.output \in Outputs
  BY ReceiptsTyped DEF Receipt
<1>5. \A o \in Outputs :
        /\ out'[o] = IF o = r.output THEN {[bytes |-> r.manifest, by |-> {r}]} ELSE out[o]
        /\ outSynced'[o] \in {outSynced[o], out'[o]} /\ (o # r.output => outSynced'[o] = outSynced[o])
  BY <1>3, <1>4 DEF Typed, TypeOK
<1>6. PathsKept
  BY <1>3, <1>4, <1>5 DEF Accounting, PathsKept
<1>7. Accounted(out', disk')
  <2> SUFFICES ASSUME NEW o \in Outputs, NEW f \in out'[o], NEW s \in f.by
               PROVE  s.output = o /\ s \in disk.pending \cup disk.completed
    BY <1>1 DEF Accounted
  <2>1. CASE o = r.output
    <3>1. f.by = {r}
      BY <1>5, <2>1
    <3> QED
      BY <2>1, <3>1
  <2>2. CASE o # r.output
    BY <1>5, <2>2 DEF Accounting, Accounted
  <2> QED
    BY <2>1, <2>2
<1>8. ASSUME proc'[p].pc = "complete" PROVE \A s \in disk'.pending : Durable(outSynced', s)
  <2>1. ~End(p)
    BY <1>8 DEF End, Idle, Typed, TypeOK
  <2>2. outSynced'[r.output] = {[bytes |-> r.manifest, by |-> {r}]}
    BY <1>3, <1>4, <1>5, <2>1 DEF Typed, TypeOK
  <2>3. Durable(outSynced', r)
    BY <2>2 DEF Durable
  <2> QED
    BY <1>1, <2>3 DEF Journalling
<1> QED
  BY <1>1, <1>2, <1>6, <1>7, <1>8, SessionAccounts

\* Only what the file completes is exported.
LEMMA ExportAccounts ==
  ASSUME Typed, Alone, Accounting, NEW p \in Procs, ExportReceipt(p)
  PROVE  Accounting'
<1>1. p \in Writers /\ UNCHANGED <<disk, synced, out, outSynced, proc>>
  BY DEF ExportReceipt, Writers, Running, Alone, WriterSteps
<1>2. proc[p].st = disk
  BY <1>1 DEF Alone, WriterIsAlone
<1>3. receipts' \subseteq receipts \cup disk.completed
  BY <1>2 DEF ExportReceipt
<1> QED
  BY <1>1, <1>3 DEF Accounting, Writers, Running, Writes

\* Steps that change only which command a process is running.
LEMMA ControlAccounts ==
  ASSUME Typed, Alone, Accounting, NEW p \in Procs,
         \/ ExportDone(p) \/ RootsDone(p) \/ Reject(p) \/ Refuse(p) \/ FillStore(p)
         \/ CreateStore(p) \/ Crash(p)
         \/ \E command \in Commands, clock \in 1..MaxClock : Open(p, command, clock)
  PROVE  Accounting'
<1>1. UNCHANGED <<disk, synced, out, outSynced, receipts>>
  BY DEF ExportDone, RootsDone, Reject, Refuse, FillStore, CreateStore, Crash, Open
<1>2. ASSUME NEW q \in Writers', proc'[q].pc = "complete" PROVE q \in Writers /\ proc[q].pc = "complete"
  <2>1. \/ proc' = proc \/ End(p)
        \/ \E pc \in {"roots", "finish", "timestamp", "enrol"} : Goto(p, pc)
        \/ \E command \in Commands, clock \in 1..MaxClock, pc \in {"roots", "recover", "export"} :
             proc' = [proc EXCEPT ![p] = [pc |-> pc, command |-> command, clock |-> clock, st |-> disk]]
    BY DEF ExportDone, RootsDone, Reject, Refuse, FillStore, CreateStore, Crash, Open, FirstStep
  <2>2. q \in Procs /\ (q = p => proc' = proc)
    BY <1>2, <2>1 DEF Writers, Running, End, Goto, Idle, Typed, TypeOK, Sessions
  <2>3. proc'[q] = proc[q]
    BY <2>1, <2>2 DEF End, Goto, Typed, TypeOK
  <2> QED
    BY <1>2, <2>2, <2>3 DEF Writers, Running, Writes
<1> QED
  BY <1>1, <1>2, StillAccounts

\* A path keeps its durable file or takes what was visible; every session is gone.
LEMMA PowerLossAccounts ==
  ASSUME Typed, Alone, Accounting, PowerLoss
  PROVE  Accounting'
<1>1. disk' \in {disk, synced} /\ synced' = disk' /\ outSynced' = out' /\ receipts' = receipts
  BY DEF PowerLoss
<1>2. \A o \in Outputs : out'[o] \in {out[o], outSynced[o]}
  BY DEF PowerLoss
<1>3. PathsKept
  BY <1>1, <1>2 DEF Accounting, PathsKept
<1>4. Accounted(out', disk')
  BY <1>1, <1>2 DEF Accounting, Accounted
<1>5. \A r \in disk'.completed \cup receipts : Durable(outSynced', r)
  BY <1>1, <1>3, DurableKept, ReceiptsTyped DEF Accounting
<1>6. Writers' = {}
  BY DEF PowerLoss, Writers, Running, Idle
<1> QED
  BY <1>1, <1>3, <1>4, <1>5, <1>6 DEF Accounting, PathsKept

\* A foreign file appears where nothing is, and no receipt published it.
LEMMA ForeignAccounts ==
  ASSUME Typed, Alone, Accounting, NEW o \in Outputs, ForeignFile(o)
  PROVE  Accounting'
<1>1. UNCHANGED <<disk, synced, receipts, proc>> /\ out[o] = {}
  BY DEF ForeignFile
<1>2. PICK b \in ForeignBytes :
        /\ out' = [out EXCEPT ![o] = {[bytes |-> b, by |-> {}]}]
        /\ outSynced' = [outSynced EXCEPT ![o] = out'[o]]
  BY DEF ForeignFile
<1>3. \A x \in Outputs : /\ out'[x] = IF x = o THEN {[bytes |-> b, by |-> {}]} ELSE out[x]
                         /\ outSynced'[x] = IF x = o THEN out'[o] ELSE outSynced[x]
  BY <1>2 DEF Typed, TypeOK
<1>4. PathsKept
  BY <1>1, <1>3 DEF Accounting, PathsKept
<1>5. Accounted(out', disk') /\ Accounted(out', synced')
  BY <1>1, <1>3 DEF Accounting, Accounted
<1>6. \A r \in Receipt : Durable(outSynced, r) => Durable(outSynced', r)
  BY <1>4, DurableKept
<1>7. Writers' = Writers
  BY <1>1 DEF Writers, Running, Writes
<1> QED
  BY <1>1, <1>4, <1>5, <1>6, <1>7, ReceiptsTyped DEF Accounting, PathsKept

\* Every step keeps the account of published databases.
LEMMA AccountingInductive ==
  Typed /\ Alone /\ Journalling /\ Accounting /\ [Next]_vars => Accounting'
<1> SUFFICES ASSUME Typed, Alone, Journalling, Accounting, [Next]_vars PROVE Accounting'
  OBVIOUS
<1>1. ASSUME NEW p \in Procs, Step(p) PROVE Accounting'
  BY <1>1, ImportAccounts, SettlingAccounts, ClearingAccounts, JournalAccounts, PublishAccounts,
     ExportAccounts, ControlAccounts DEF Step, Importing
<1>2. CASE UNCHANGED vars
  BY <1>2 DEF vars, Accounting, Writers, Running, Writes
<1> QED
  BY <1>1, <1>2, ControlAccounts, PowerLossAccounts, ForeignAccounts DEF Next

\* Nothing is journalled, published or exported at the start.
LEMMA InitJournals == Init => Journalling /\ Accounting
<1> SUFFICES ASSUME Init PROVE Journalling /\ Accounting
  OBVIOUS
<1>1. Writers = {}
  BY DEF Init, Writers, Running, Idle
<1>2. disk = FreshState(1) /\ synced = FreshState(1) /\ receipts = {}
  BY DEF Init
<1>3. FreshState(1).pending = {} /\ FreshState(1).completed = {}
  BY DEF FreshState
<1>4. \A o \in Outputs : out[o] = {} /\ outSynced[o] = {}
  BY DEF Init
<1> QED
  BY <1>1, <1>2, <1>3, <1>4 DEF Journalling, Accounting, Accounted

\* The account holds in every reachable state.
LEMMA AlwaysAccounting == Spec => []Accounting
BY Invariants, InitJournals, JournallingInductive, AccountingInductive, PTL DEF Spec

\* A database at an output path that an installation linked is pending or completed in
\* the state the processes see and in any a power loss can restore: recovery clears the
\* journal only when nothing is at the path.
THEOREM PublishedStaysAccounted == Spec => []PublishedIsAccounted
<1>1. Accounting => PublishedIsAccounted
  BY DEF Accounting, Accounted, PublishedIsAccounted
<1> QED
  BY <1>1, AlwaysAccounting, PTL

\* A completed or exported receipt stands for bytes that no power loss removes: the
\* output is synced before the save that completes it, on both ways to completion.
THEOREM CompletedStaysDurable == Spec => []CompletedIsDurable
<1>1. Accounting => CompletedIsDurable
  BY DEF Accounting, Durable, CompletedIsDurable
<1> QED
  BY <1>1, AlwaysAccounting, PTL

(***************************************************************************)
(* Readers, outputs and floors of what is installed.                       *)
(***************************************************************************)

\* While a session that only verifies is open nobody replaces state.json: whoever saves
\* is alone, and a power loss ends every session.
THEOREM ReadersAreUndisturbed == Spec => SnapshotHolds
<1> DEFINE Held == disk' # disk => \A p \in Running : Writes(p) \/ proc'[p] = Idle
<1>1. ASSUME Typed, Alone, [Next]_vars PROVE Held
  <2>1. ASSUME NEW q \in Procs, Step(q) PROVE Held
    <3>1. CASE FillStore(q)
      BY <3>1 DEF FillStore
    <3>2. CASE ~FillStore(q)
      BY <1>1, <2>1, <3>2, RunningContinues DEF Alone, WriterIsAlone, Writers
    <3> QED
      BY <3>1, <3>2
  <2>2. ASSUME NEW q \in Procs,
               \/ CreateStore(q) \/ Crash(q)
               \/ \E command \in Commands, clock \in 1..MaxClock : Open(q, command, clock)
        PROVE  Held
    BY <2>2 DEF CreateStore, Crash, Open
  <2>3. ASSUME NEW o \in Outputs, ForeignFile(o) PROVE Held
    BY <2>3 DEF ForeignFile
  <2>4. CASE PowerLoss
    BY <2>4 DEF PowerLoss, Running
  <2>5. CASE UNCHANGED vars
    BY <2>5 DEF vars
  <2> QED
    BY <1>1, <2>1, <2>2, <2>3, <2>4, <2>5 DEF Next
<1> QED
  BY <1>1, Invariants, PTL DEF Spec, SnapshotHolds

\* What a state has installed or journalled is at or below its floors.
Matched(st) ==
  \A r \in st.completed \cup st.pending :
    /\ r.sequence <= st.floors[r.profile].sequence
    /\ r.sequence = st.floors[r.profile].sequence
         => r.manifest = st.floors[r.profile].manifest

\* The release a floor names.
AtFloor(st, r) == st.floors[r.profile] = [sequence |-> r.sequence, manifest |-> r.manifest]

\* Receipts below the floors stay below floors that rise, and a new one is at its floor.
LEMMA RisingFloorsMatch ==
  ASSUME NEW old, NEW new, Coherent(old), Coherent(new), Matched(old), FloorsHold(old, new),
         \A r \in new.completed \cup new.pending :
           r \in old.completed \cup old.pending \/ AtFloor(new, r)
  PROVE  Matched(new)
<1> SUFFICES ASSUME NEW r \in new.completed \cup new.pending
             PROVE  /\ r.sequence <= new.floors[r.profile].sequence
                    /\ r.sequence = new.floors[r.profile].sequence
                         => r.manifest = new.floors[r.profile].manifest
  BY DEF Matched
<1>1. r \in Receipt
  BY DEF Coherent, States
<1>2. /\ r.profile \in Profiles /\ r.sequence \in Nat /\ r.manifest \in Manifests
      /\ r.manifest # NoManifest
  BY <1>1, NoManifestAssumption DEF Receipt
<1>3. /\ old.floors[r.profile].sequence \in Nat /\ new.floors[r.profile].sequence \in Nat
      /\ FloorHolds(old.floors[r.profile], new.floors[r.profile])
  BY <1>2 DEF Coherent, States, Floors, FloorsHold
<1>4. CASE r \in old.completed \cup old.pending
  <2>1. /\ r.sequence <= old.floors[r.profile].sequence
        /\ r.sequence = old.floors[r.profile].sequence
             => r.manifest = old.floors[r.profile].manifest
    BY <1>4 DEF Matched
  <2> QED
    BY <1>2, <1>3, <2>1 DEF FloorHolds
<1>5. CASE AtFloor(new, r)
  BY <1>2, <1>5 DEF AtFloor
<1> QED
  BY <1>4, <1>5

\* A save of such a state keeps both versions of the file matched.
LEMMA SaveMatches ==
  ASSUME Typed, Alone, InstallsMatchFloors, NEW p \in Running, NEW new, NEW pc, Coherent(new),
         Save(p, new, pc), FloorsHold(proc[p].st, new),
         \A r \in new.completed \cup new.pending :
           r \in proc[p].st.completed \cup proc[p].st.pending \/ AtFloor(new, r)
  PROVE  InstallsMatchFloors'
<1>1. InstallsMatchFloors <=> Matched(disk) /\ Matched(synced)
  BY DEF InstallsMatchFloors, Matched
<1>2. InstallsMatchFloors' <=> Matched(disk') /\ Matched(synced')
  BY DEF InstallsMatchFloors, Matched
<1>3. CASE ~Writes(p)
  BY <1>1, <1>2, <1>3 DEF Save
<1>4. CASE Writes(p)
  <2>1. proc[p].st = disk /\ Coherent(disk)
    BY <1>4 DEF Alone, WriterIsAlone, Writers, Typed, TypeOK, Coherent
  <2>2. Matched(new)
    BY <1>1, <2>1, RisingFloorsMatch
  <2>3. disk' = Stamped(new, proc[p].clock) /\ synced' \in {synced, disk'}
    BY <1>4 DEF Save
  <2>4. disk'.floors = new.floors /\ disk'.pending = new.pending /\ disk'.completed = new.completed
    BY <2>3 DEF Stamped, Coherent, States
  <2>5. Matched(disk')
    BY <2>2, <2>4 DEF Matched
  <2> QED
    BY <1>1, <1>2, <2>3, <2>5
<1> QED
  BY <1>3, <1>4

\* Steps that save, one by one.
LEMMA SavingStepsMatch ==
  ASSUME Typed, Alone, InstallsMatchFloors, NEW p \in Procs,
         \/ Importing(p) \/ RecoverPublished(p) \/ RecoverAbsent(p) \/ Journal(p) \/ Complete(p)
  PROVE  InstallsMatchFloors'
<1> DEFINE st == proc[p].st
<1>1. p \in Running
  BY DEF Importing, RecoverPublished, RecoverAbsent, ImportRoot, ImportTimestamp, ImportSnapshot,
         ImportTargets, FinishImport, Journal, Complete, Running
<1>2. Coherent(st)
  BY DEF Typed, TypeOK, Sessions, Coherent
<1>3. CASE Importing(p)
  <2>1. PICK new, pc : SavesTo(p, new, pc)
    BY <1>3, SavingSteps DEF Importing
  <2>2. InstallsKept(st, new)
    BY <1>3, <2>1 DEF SavesTo, Importing, ImportRoot, ImportTimestamp, ImportSnapshot,
                      ImportTargets, FinishImport
  <2> QED
    BY <1>1, <2>1, <2>2, SaveMatches DEF SavesTo, InstallsKept
<1>4. CASE RecoverPublished(p) \/ RecoverAbsent(p) \/ Complete(p)
  <2>1. PICK new \in {Settled(st), [st EXCEPT !.pending = {}]}, pc \in Pcs : Save(p, new, pc)
    BY <1>4 DEF RecoverPublished, RecoverAbsent, Complete, Pcs
  <2>2. Coherent(new) /\ FloorsHold(st, new)
    BY <1>2, <2>1, UpdatesAreCoherent, UpdatesKeepFloors
  <2>3. new.completed \cup new.pending \subseteq st.completed \cup st.pending
    BY <1>2, <2>1 DEF Settled, Coherent, States
  <2> QED
    BY <1>1, <2>1, <2>2, <2>3, SaveMatches
<1>5. CASE Journal(p)
  <2>1. PICK r \in Receipt : /\ Save(p, [st EXCEPT !.pending = {r}], "publish")
                             /\ AtFloor(st, r)
    BY <1>5, JournalSaves DEF AtFloor
  <2> DEFINE new == [st EXCEPT !.pending = {r}]
  <2>2. Coherent(new) /\ FloorsHold(st, new)
    BY <1>2, UpdatesAreCoherent, UpdatesKeepFloors
  <2>3. new.completed = st.completed /\ new.pending = {r} /\ new.floors = st.floors
    BY <1>2 DEF Coherent, States
  <2>4. Save(p, new, "publish")
    BY <2>1
  <2> HIDE DEF new
  <2>5. AtFloor(new, r)
    BY <2>1, <2>3 DEF AtFloor
  <2> QED
    BY <1>1, <2>2, <2>3, <2>4, <2>5, SaveMatches
<1> QED
  BY <1>3, <1>4, <1>5

\* No step leaves a receipt ahead of the floors or at odds with them.
LEMMA MatchedInductive == Typed /\ Alone /\ InstallsMatchFloors /\ [Next]_vars => InstallsMatchFloors'
<1> SUFFICES ASSUME Typed, Alone, InstallsMatchFloors, [Next]_vars PROVE InstallsMatchFloors'
  OBVIOUS
<1>1. ASSUME UNCHANGED <<disk, synced>> PROVE InstallsMatchFloors'
  BY <1>1 DEF InstallsMatchFloors
<1>2. ASSUME NEW p \in Procs, Step(p) PROVE InstallsMatchFloors'
  <2>1. CASE \/ FillStore(p) \/ ExportReceipt(p) \/ ExportDone(p) \/ RootsDone(p) \/ Publish(p)
             \/ Reject(p) \/ Refuse(p)
    BY <1>1, <2>1 DEF FillStore, ExportReceipt, ExportDone, RootsDone, Publish, Reject, Refuse
  <2> QED
    BY <1>2, <2>1, SavingStepsMatch DEF Step, Importing
<1>3. ASSUME NEW p \in Procs,
             \/ CreateStore(p) \/ Crash(p)
             \/ \E command \in Commands, clock \in 1..MaxClock : Open(p, command, clock)
      PROVE  InstallsMatchFloors'
  BY <1>1, <1>3 DEF CreateStore, Crash, Open
<1>4. ASSUME NEW o \in Outputs, ForeignFile(o) PROVE InstallsMatchFloors'
  BY <1>1, <1>4 DEF ForeignFile
<1>5. CASE PowerLoss
  <2>1. disk' \in {disk, synced} /\ synced' = disk'
    BY <1>5 DEF PowerLoss
  <2> QED
    BY <2>1 DEF InstallsMatchFloors
<1>6. CASE UNCHANGED vars
  BY <1>1, <1>6 DEF vars
<1> QED
  BY <1>2, <1>3, <1>4, <1>5, <1>6 DEF Next

\* Journalled and completed installations never run ahead of the floors, and a sequence
\* of a profile is never installed with two manifests, whatever a publisher signs:
\* install takes its release from the floors that the import has saved.
THEOREM InstallsStayMatched == Spec => []InstallsMatchFloors
<1>1. Init => InstallsMatchFloors
  BY DEF Init, InstallsMatchFloors, FreshState
<1> QED
  BY <1>1, Invariants, MatchedInductive, PTL DEF Spec

=============================================================================
