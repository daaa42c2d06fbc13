---------------------------- MODULE TrustMetadata ----------------------------
(***************************************************************************)
(* The checks the catalog trust consumer makes on one piece of signed      *)
(* metadata, against the policy fixed at enrollment and against the state  *)
(* it has retained so far (catalog_trust/wire.rs and consumer.rs).         *)
(*                                                                         *)
(* An envelope is a record.  Its `signers` are the keys whose signature    *)
(* over it verifies; every other field is signed content, so two envelopes *)
(* have the same signed digest exactly when they agree on those fields,    *)
(* and the same bytes exactly when they are equal.  A link to a child by   *)
(* version, length and SHA-256 is the child envelope itself:               *)
(*   root       version, expires, keys, threshold                          *)
(*   timestamp  version, expires, child (a snapshot)                       *)
(*   snapshot   version, expires, child (a targets)                        *)
(*   targets    version, expires, entries: profile -> [sequence, manifest] *)
(* A manifest stands for the manifest digest and for the database it       *)
(* describes.                                                              *)
(***************************************************************************)
EXTENDS Integers, Sequences, FiniteSets

CONSTANTS
  Profiles,         \* the catalog profiles this store enrolled
  Manifests,        \* the catalog manifests a publisher may authorise
  NoManifest,       \* a floor that has not seen a manifest, or no pin
  InitialRoot,      \* the independently authenticated root
  MinimumSequence,  \* the release floor fixed at enrollment
  Pin,              \* the first manifest pinned at enrollment, or NoManifest
  Horizon,          \* role -> how far ahead of the clock it may expire
  MaxGeneration,    \* the largest generation number the state may carry
  MaxCompleted,     \* how many completed receipts fit in the state
  MaxRoots          \* how many roots fit in the state

ASSUME NoManifestAssumption == NoManifest \notin Manifests
ASSUME PolicyAssumption ==
  /\ MinimumSequence \in Nat
  /\ Pin \in Manifests \cup {NoManifest}
  /\ Pin # NoManifest => Cardinality(Profiles) = 1
  /\ MaxGeneration \in Nat \ {0}
  /\ MaxCompleted \in Nat
  /\ MaxRoots \in Nat \ {0}

ChainRoles == {"timestamp", "snapshot", "targets"}
Roles == ChainRoles \cup {"root"}

\* The content the signatures of an envelope cover.
Signed(e) == [f \in DOMAIN e \ {"signers"} |-> e[f]]

(***************************************************************************)
(* Signatures and roots.                                                   *)
(***************************************************************************)

\* Distinct keys the root lists for this role, at least the role's threshold of them.
StrictSigners(root, e, role) ==
  Cardinality(e.signers \cap root.keys[role]) >= root.threshold[role]

\* The local quorum and custody floor, and no key serving two roles.
RootProfile(root) ==
  /\ \A role \in Roles :
       LET offline == role \in {"root", "targets"} IN
       /\ root.threshold[role] >= (IF offline THEN 2 ELSE 1)
       /\ Cardinality(root.keys[role]) >= (IF offline THEN 3 ELSE 2)
       /\ root.threshold[role] <= Cardinality(root.keys[role])
  /\ \A a, b \in Roles : a # b => root.keys[a] \cap root.keys[b] = {}

\* A root the retained root hands over to: consecutive, and signed by both quorums.
Succeeds(old, new) ==
  /\ new.version = old.version + 1
  /\ RootProfile(new)
  /\ StrictSigners(old, new, "root")
  /\ StrictSigners(new, new, "root")

LastRoot(st) == st.roots[Len(st.roots)]

(***************************************************************************)
(* Freshness, rollback and equivocation.                                   *)
(***************************************************************************)

\* Not expired at the verification time, and within the local horizon of the role.
Unexpired(e, role, clock) ==
  /\ e.expires > clock
  /\ e.expires - clock <= Horizon[role]

\* Mutant: the floor a parent keeps on its child is not looked at.
ChildFloorIgnored(old, e, role) == TRUE

\* A parent may not refer to an older child than the retained parent did.
ChildFloor(old, e, role) ==
  role \in {"timestamp", "snapshot"} => e.child.version >= old.child.version

\* A role's version never falls, and one version has one signed content.
RoleFloor(st, role, e) ==
  role \in DOMAIN st.roles =>
    LET old == st.roles[role] IN
    /\ e.version >= old.version
    /\ e.version = old.version => Signed(e) = Signed(old)
    /\ ChildFloor(old, e, role)

\* What a timestamp, snapshot or targets must pass before the store retains it.
RoleAccepted(st, role, e, clock) ==
  /\ Unexpired(e, role, clock)
  /\ RoleFloor(st, role, e)
  /\ StrictSigners(LastRoot(st), e, role)

\* Mutant: sequences are compared, the manifest of an equal sequence is not.
EntryAcceptedByNumber(floor, entry) ==
  /\ entry.sequence >= floor.sequence
  /\ (floor.manifest = NoManifest /\ Pin # NoManifest) => entry.manifest = Pin

\* One release against the floor of its profile.
EntryAccepted(floor, entry) ==
  /\ entry.sequence >= floor.sequence
  /\ (floor.manifest = NoManifest /\ Pin # NoManifest) => entry.manifest = Pin
  /\ (entry.sequence = floor.sequence /\ floor.manifest # NoManifest)
       => entry.manifest = floor.manifest

\* Every entry is in scope and passes before any floor is advanced.
EntriesAccepted(st, entries) ==
  /\ DOMAIN entries # {}
  /\ DOMAIN entries \subseteq Profiles
  /\ \A p \in DOMAIN entries : EntryAccepted(st.floors[p], entries[p])

\* Mutant: profiles the targets do not list lose their floor.
ListedFloors(st, entries) == entries

RaisedFloors(st, entries) ==
  [p \in Profiles |-> IF p \in DOMAIN entries THEN entries[p] ELSE st.floors[p]]

RetainedRoles(st, role, e) ==
  [r \in DOMAIN st.roles \cup {role} |-> IF r = role THEN e ELSE st.roles[r]]

(***************************************************************************)
(* The state file.                                                         *)
(***************************************************************************)

\* The state written at enrollment.
FreshState(clock) ==
  [roots |-> <<InitialRoot>>, roles |-> [r \in {} |-> InitialRoot],
   floors |-> [p \in Profiles |-> [sequence |-> MinimumSequence, manifest |-> NoManifest]],
   time |-> clock, generation |-> 1, pending |-> {}, completed |-> {}]

\* The schema and byte bounds an encoded state must keep.
Fits(st) ==
  /\ Cardinality(st.completed) <= MaxCompleted
  /\ Len(st.roots) <= MaxRoots

\* Mutant: a save looks at the encoded state and not at its number.
CanEncode(st) == Fits(st)

CanSave(st) == st.generation + 1 <= MaxGeneration /\ Fits(st)

\* What save() stamps on the state it writes.
Stamped(st, clock) == [st EXCEPT !.generation = @ + 1, !.time = clock]

\* The checks every reader of state.json repeats.
ValidState(st) ==
  /\ st.generation \in 1..MaxGeneration
  /\ \A p \in Profiles : st.floors[p].sequence >= MinimumSequence
  /\ DOMAIN st.roles \subseteq ChainRoles
  /\ Len(st.roots) > 0 /\ st.roots[1] = InitialRoot
  /\ RootProfile(InitialRoot) /\ StrictSigners(InitialRoot, InitialRoot, "root")
  /\ \A i \in 1..(Len(st.roots) - 1) : Succeeds(st.roots[i], st.roots[i + 1])

\* Mutant: room is kept for the journal save alone.
CanJournal(st, receipt) ==
  /\ st.generation + 1 <= MaxGeneration
  /\ Fits([st EXCEPT !.completed = @ \cup {receipt}])

\* Reserve before publishing: the completing save must fit and be numberable.
CanComplete(st, receipt) ==
  /\ st.generation + 2 <= MaxGeneration
  /\ Fits([st EXCEPT !.completed = @ \cup {receipt}])

\* The receipt is in the manifest's profile, as the retained targets name it.
Names(targets, receipt) ==
  /\ receipt.profile \in DOMAIN targets.entries
  /\ targets.entries[receipt.profile]
       = [sequence |-> receipt.sequence, manifest |-> receipt.manifest]

\* Mutant: each retained role is checked on its own, never as a chain.
RolesAccept(st, receipt, clock) ==
  /\ receipt \in st.completed
  /\ Unexpired(LastRoot(st), "root", clock)
  /\ st.pending = {}
  /\ DOMAIN st.roles = ChainRoles
  /\ \A r \in ChainRoles : /\ StrictSigners(LastRoot(st), st.roles[r], r)
                           /\ Unexpired(st.roles[r], r, clock)
  /\ Names(st.roles["targets"], receipt)

\* trust-status: does current policy still accept a completed installation?
StatusAccepts(st, receipt, clock) ==
  /\ receipt \in st.completed
  /\ Unexpired(LastRoot(st), "root", clock)
  /\ st.pending = {}
  /\ DOMAIN st.roles = ChainRoles
  /\ \A r \in ChainRoles : /\ StrictSigners(LastRoot(st), st.roles[r], r)
                           /\ Unexpired(st.roles[r], r, clock)
  /\ Names(st.roles["targets"], receipt)
  /\ st.floors[receipt.profile]
       = [sequence |-> receipt.sequence, manifest |-> receipt.manifest]
  /\ st.roles["timestamp"].child = st.roles["snapshot"]
  /\ st.roles["snapshot"].child = st.roles["targets"]
=============================================================================
