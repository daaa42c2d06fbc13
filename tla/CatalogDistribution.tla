------------------------ MODULE CatalogDistribution ------------------------
(***************************************************************************)
(* Bundles of the catalog: catalog-bundle-create freezes one state of the  *)
(* database while other commands change it, projects it on a profile and   *)
(* publishes payload and manifest; catalog-bundle-install takes what it    *)
(* was given of the two, from the publisher or from elsewhere              *)
(* (knowledge/src/catalog_bundle.rs, derive_current_profile_to).           *)
(*                                                                         *)
(* A database is its contents, and stands for its hashes and its           *)
(* descriptor too.  Sizes, the frame format, descriptors of single sources *)
(* and quick_check are left out: a damaged file is not what its manifest   *)
(* names.                                                                  *)
(***************************************************************************)
EXTENDS AdvisoryCatalog

CONSTANTS
  Makers,    \* processes that create bundles at the same two paths
  Declared,  \* source -> the profile its name, license and locator are recognized for, or "none"
  Prefixed,  \* records whose identifier has the prefix of their source
  Forged     \* manifests that somebody else wrote, each with its payload

VARIABLES
  maker,     \* what each creation is at
  made,      \* history: the manifests built
  files,     \* the publisher's bundle and manifest, if there
  installer, \* the installation going on
  installed  \* the catalog at its output, if there

distribution == <<maker, made, files, installer, installed>>

Profiles == {"full", "core", "malicious"}

(***************************************************************************)
(* Databases and profiles.                                                 *)
(***************************************************************************)

\* What the online backup copies.
Frozen ==
  [records |-> [k \in active |-> current[k]], inactive |-> DOMAIN current \ active,
   imports |-> DOMAIN snaps \cup DOMAIN deltas, preparing |-> Preparing,
   fts |-> fts, index |-> index]

KindOf(k) == IF k \in Prefixed THEN Declared[SourceOf[k]] ELSE "none"
OfKind(db, kind) == {k \in DOMAIN db.records : KindOf(k) = kind}

\* The current records of the sources of the profile, imported into a new catalog.
Projection(profile, db) ==
  LET kept == {k \in DOMAIN db.records : Declared[SourceOf[k]] = profile}
      records == [k \in kept |-> db.records[k]]
  IN [records |-> records, inactive |-> {}, imports |-> {}, preparing |-> {},
      fts |-> records, index |-> "ready"]

\* Nothing is assigned to a profile silently, and no profile is empty.
Derivable(profile, origin) ==
  profile # "full" => OfKind(origin, "none") = {} /\ OfKind(origin, profile) # {}

Payload(profile, origin) == IF profile = "full" THEN origin ELSE Projection(profile, origin)

\* A database with a delta being prepared has no composition.
DescriptorValid(db) == db.index = "ready" /\ db.preparing = {}

\* Sources and their counts are compared with the origin, not the records.
MatchesOrigin(m) ==
  \A source \in DOMAIN Declared :
    Cardinality(OfSource(DOMAIN m.payload.records, source)) =
      IF Declared[source] = m.profile
      THEN Cardinality(OfSource(DOMAIN m.origin.records, source)) ELSE 0

\* Mutant: the profile is taken from the label.
ProfileClaimed(m) == m.profile = "full" => m.payload = m.origin

\* The profile is recomputed from the records.
ProfileValid(m) ==
  IF m.profile = "full" THEN m.payload = m.origin
  ELSE /\ DOMAIN m.payload.records = OfKind(m.payload, m.profile)
       /\ m.payload.records # [k \in {} |-> 0]
       /\ m.payload.inactive = {} /\ m.payload.imports = {}
       /\ OfKind(m.origin, "none") = {}
       /\ MatchesOrigin(m)

ManifestValid(m) ==
  DescriptorValid(m.payload) /\ DescriptorValid(m.origin) /\ ProfileValid(m)

(***************************************************************************)
(* catalog-bundle-create.                                                  *)
(***************************************************************************)
NoBundle == [pc |-> "idle", step |-> 0, manifest |-> {}]

DistributionInit ==
  /\ Init
  /\ maker = [p \in Makers |-> NoBundle] /\ made = {}
  /\ files = [bundle |-> {}, manifest |-> {}]
  /\ installer = [pc |-> "idle"] /\ installed = {}

\* Bound: nothing happens to the catalog after the first copy, which a creation
\* does not read again, and one creation at a time is on its way to that copy.
Changing == made = {} /\ Next /\ UNCHANGED distribution

\* Both outputs are absent and no delta is being prepared.
BundleCreate(p) ==
  /\ maker[p].pc = "idle" /\ files.bundle = {} /\ files.manifest = {}
  /\ made = {} => \A q \in Makers : maker[q].pc = "idle"
  /\ Preparing = {}
  /\ maker' = [maker EXCEPT ![p].pc = "copy"]
  /\ UNCHANGED <<vars, made, files, installer, installed>>

\* backup_to, both descriptions and the projection; the commands on the catalog are cut
\* short (a bound).
Freeze(p) ==
  /\ maker[p].pc = "copy"
  /\ \E profile \in Profiles :
       LET m == [profile |-> profile, origin |-> Frozen, payload |-> Payload(profile, Frozen)]
       IN /\ CopyVerified(Preparing) /\ Derivable(profile, Frozen)
          /\ ManifestValid(m)
          /\ made' = made \cup {m}
          /\ maker' = [maker EXCEPT ![p] = [pc |-> "publish", step |-> 1, manifest |-> {m}]]
  /\ proc' = [q \in Procs |-> Idle]
  /\ UNCHANGED <<snaps, deltas, current, active, fts, index, backups, files, installer, installed>>

\* Mutant: the manifest goes first.
PublicationReversed == <<"manifest", "bundle">>

\* The payload is published first, the manifest is the commit marker.
Publication == <<"bundle", "manifest">>

\* Either is a hard link, which replaces nothing.
PublishNew(p) ==
  LET path == Publication[maker[p].step] IN
  /\ maker[p].pc = "publish" /\ files[path] = {}
  /\ files' = [files EXCEPT ![path] =
       {IF path = "bundle" THEN m.payload ELSE m : m \in maker[p].manifest}]
  /\ maker' = [maker EXCEPT ![p] = IF @.step = 1 THEN [@ EXCEPT !.step = 2] ELSE NoBundle]
  /\ UNCHANGED <<vars, made, installer, installed>>

\* A refusal, a failed link or a kill; a payload that was published stays.
CreateEnds(p) ==
  /\ maker[p].pc # "idle"
  /\ maker' = [maker EXCEPT ![p] = NoBundle]
  /\ UNCHANGED <<vars, made, files, installer, installed>>

(***************************************************************************)
(* catalog-bundle-install.                                                 *)
(***************************************************************************)

\* The manifest is pinned to the hash the publisher told, or the operator accepts it
\* unverified; the payload is checked in a private file.
BundleInstall(m, db, pinned) ==
  /\ made # {} /\ installer.pc = "idle" /\ installed = {}
  /\ ManifestValid(m)
  /\ pinned => m \in files.manifest
  /\ db = m.payload
  /\ installer' = [pc |-> "publish", manifest |-> m, pinned |-> pinned]
  /\ UNCHANGED <<vars, maker, made, files, installed>>

PublishInstalled ==
  /\ installer.pc = "publish" /\ installed = {}
  /\ installed' = {[db |-> installer.manifest.payload, profile |-> installer.manifest.profile,
                    pinned |-> installer.pinned, used |-> FALSE]}
  /\ installer' = [installer EXCEPT !.pc = "check"]
  /\ UNCHANGED <<vars, maker, made, files>>

\* Another process imports into the catalog as soon as it is there.
UseInstalled ==
  /\ \E f \in installed : ~f.used /\ installed' = {[f EXCEPT !.db.index = "dirty", !.used = TRUE]}
  /\ UNCHANGED <<vars, maker, made, files, installer>>

\* The output is described again, and removed with its sidecars when it differs.
CheckInstalled ==
  /\ installer.pc = "check"
  /\ installed' = {f \in installed : f.db = installer.manifest.payload}
  /\ installer' = [pc |-> "idle"]
  /\ UNCHANGED <<vars, maker, made, files>>

InstallEnds ==
  /\ installer.pc # "idle" /\ installer' = [pc |-> "idle"]
  /\ UNCHANGED <<vars, maker, made, files, installed>>

Creating == \E p \in Makers : BundleCreate(p) \/ Freeze(p) \/ PublishNew(p) \/ CreateEnds(p)

Installing ==
  \/ \E m \in files.manifest \cup Forged, pinned \in BOOLEAN :
       \E db \in files.bundle \cup {f.payload : f \in Forged} : BundleInstall(m, db, pinned)
  \/ PublishInstalled \/ UseInstalled \/ CheckInstalled \/ InstallEnds

DistributionNext == Changing \/ Creating \/ Installing

DistributionSpec == DistributionInit /\ [][DistributionNext]_<<vars, distribution>>

-----------------------------------------------------------------------------

\* A manifest that was published is never without the payload it names, whichever creation
\* was cut short and whichever two went for the same paths (the manifest is the commit
\* marker; a crash leaves an orphan bundle at most).
ManifestsVerify == \A m \in files.manifest : files.bundle = {m.payload}

\* Of a projected profile a catalog has records of that kind only.
IsOfProfile(f) == f.profile # "full" => DOMAIN f.db.records = OfKind(f.db, f.profile)

\* The records of the profile that the catalog held when it was frozen, each in its current
\* version, none of an import that was under way as a delta, and an index of exactly these.
IsAsFrozen(f) ==
  /\ f.db.records = [k \in {k \in active : f.profile \in {"full", KindOf(k)}} |-> current[k]]
  /\ f.db.fts = f.db.records
  /\ f.db.preparing = {}
  /\ f.profile # "full" => \A k \in active : KindOf(k) # "none"

\* An installed catalog that nobody has used yet is of the profile its manifest states, also
\* when the manifest was accepted unverified; and one whose manifest was pinned is the
\* publisher's catalog of one moment, index included, whatever imports and deltas the copy
\* was taken between (create_bundle, derive_current_profile_to, install_bundle).
InstalledAsFrozen ==
  \A f \in installed : ~f.used => IsOfProfile(f) /\ (f.pinned => IsAsFrozen(f))
=============================================================================
