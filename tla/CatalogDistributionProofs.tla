--------------------- MODULE CatalogDistributionProofs ---------------------
(***************************************************************************)
(* Theorems about bundles, for every feed, every declaration of sources,   *)
(* every forged manifest and any number of processes and makers.           *)
(*                                                                         *)
(* The invariant of the catalog holds here too: an import or a rebuild is  *)
(* a step of the catalog, and a creation that ends the running commands    *)
(* changes no table.  Publishing relates what each maker is at to the two  *)
(* files; Made says that what was built is the catalog, of which nothing   *)
(* changes any more; Taken follows a manifest through an installation.     *)
(***************************************************************************)
EXTENDS CatalogDistribution, AdvisoryCatalogProofs

(***************************************************************************)
(* The inductive invariant.                                                *)
(***************************************************************************)

\* A maker is idle, copying or publishing one manifest it built.  At its second step
\* the payload at the path is its own, and a manifest at the path is beside its payload.
Publishing ==
  /\ maker \in [Makers -> [pc : {"idle", "copy", "publish"}, step : {0, 1, 2}, manifest : SUBSET made]]
  /\ \A p \in Makers : maker[p].pc = "publish" =>
       \E m \in made : /\ maker[p].manifest = {m} /\ maker[p].step \in {1, 2}
                       /\ maker[p].step = 2 => files.bundle = {m.payload}
  /\ DOMAIN files = {"bundle", "manifest"} /\ files = [path \in DOMAIN files |-> files[path]]
  /\ files.manifest \subseteq made

\* A manifest that was built describes the catalog as it is.
Built(m) ==
  /\ m.profile \in Profiles
  /\ m.origin = Frozen /\ m.payload = Payload(m.profile, Frozen)
  /\ Derivable(m.profile, Frozen) /\ ManifestValid(m)

Made == \A m \in made : Built(m)

\* Wherever it came from, a manifest is valid when its payload is installed, and when
\* it was pinned it is one that was built.
Taken ==
  /\ installer.pc \in {"idle", "publish", "check"}
  /\ installer.pc # "idle" =>
       /\ installer \in [pc : {"publish", "check"}, manifest : {installer.manifest}, pinned : BOOLEAN]
       /\ ManifestValid(installer.manifest)
       /\ installer.pinned => installer.manifest \in made
  /\ \A f \in installed :
       /\ "used" \in DOMAIN f
       /\ ~f.used => /\ IsOfProfile(f)
                     /\ f.pinned => \E m \in made : f.db = m.payload /\ f.profile = m.profile

DistributionInv == Inv /\ Publishing /\ ManifestsVerify /\ Made /\ Taken

(***************************************************************************)
(* What was built is the catalog.                                          *)
(***************************************************************************)

\* An installed catalog with the payload of a manifest that was built holds the records
\* of its profile, each in its current version, and an index of exactly these.
LEMMA BuiltIsAsFrozen ==
  ASSUME IndexAgrees, NEW m, Built(m), NEW f, f.db = m.payload, f.profile = m.profile
  PROVE  IsAsFrozen(f)
<1>1. /\ Frozen.records = [k \in active |-> current[k]] /\ Frozen.fts = fts
      /\ Frozen.index = index /\ Frozen.preparing = Preparing
  BY DEF Frozen
<1>2. DOMAIN Frozen.records = active
  BY <1>1
<1>3. DescriptorValid(m.origin) /\ DescriptorValid(m.payload) /\ ProfileValid(m)
  BY DEF Built, ManifestValid
<1>4. f.db.preparing = {}
  BY <1>3 DEF DescriptorValid
<1>5. CASE m.profile = "full"
  <2>1. f.db = Frozen
    BY <1>5 DEF Built, Payload
  <2>2. index = "ready"
    BY <1>1, <1>3 DEF Built, DescriptorValid
  <2>3. {k \in active : f.profile \in {"full", KindOf(k)}} = active
    BY <1>5
  <2> QED
    BY <1>1, <1>4, <1>5, <2>1, <2>2, <2>3 DEF IsAsFrozen, IndexAgrees
<1>6. CASE m.profile # "full"
  <2> DEFINE kept == {k \in active : Declared[SourceOf[k]] = m.profile}
             asked == {k \in active : f.profile \in {"full", KindOf(k)}}
  <2>1. f.db = Projection(m.profile, Frozen)
    BY <1>6 DEF Built, Payload
  <2>2. f.db.records = [k \in kept |-> Frozen.records[k]] /\ f.db.fts = f.db.records
    BY <1>2, <2>1 DEF Projection
  <2>3. DOMAIN f.db.records = kept
    BY <2>2
  <2>4. \A k \in kept : KindOf(k) = m.profile
    BY <1>3, <1>6, <2>3 DEF ProfileValid, OfKind
  <2>5. m.profile # "none"
    BY DEF Built, Profiles
  <2>6. \A k \in active : KindOf(k) = m.profile => k \in kept
    BY <2>5 DEF KindOf
  <2>7. kept = asked
    BY <1>6, <2>4, <2>6
  <2>8. f.db.records = [k \in asked |-> current[k]]
    BY <1>1, <2>2, <2>7
  <2>9. \A k \in active : KindOf(k) # "none"
    BY <1>2, <1>6 DEF Built, Derivable, OfKind
  <2> QED
    BY <1>4, <2>2, <2>8, <2>9 DEF IsAsFrozen
<1> QED
  BY <1>5, <1>6

\* What is installed and not used is as frozen when it was pinned.
LEMMA TakenIsAsFrozen == DistributionInv => InstalledAsFrozen
<1> SUFFICES ASSUME DistributionInv, NEW f \in installed, ~f.used
             PROVE  IsOfProfile(f) /\ (f.pinned => IsAsFrozen(f))
  BY DEF InstalledAsFrozen
<1>1. IsOfProfile(f) /\ (f.pinned => \E m \in made : f.db = m.payload /\ f.profile = m.profile)
  BY DEF DistributionInv, Taken
<1>2. IndexAgrees /\ \A m \in made : Built(m)
  BY DEF DistributionInv, Inv, Made
<1> QED
  BY <1>1, <1>2, BuiltIsAsFrozen

(***************************************************************************)
(* The catalog.                                                            *)
(***************************************************************************)

\* Ending every command changes no table and leaves nothing applied that is not
\* registered.
LEMMA ResetKeeps ==
  ASSUME Inv, proc' = [p \in Procs |-> Idle], UNCHANGED database
  PROVE  Inv'
<1>1. Commanded'
  BY IdleIsRunning DEF Commanded
<1>2. Registered'
  BY DEF Registered, Applying, Idle
<1>3. Tables' /\ Held' /\ IndexAgrees' /\ BackupsAreClean'
  BY DEF Inv, Recorded, Tables, Held, IndexAgrees, BackupsAreClean, database
<1>4. Topped' /\ Chained' /\ NoForks'
  BY DEF Inv, Topped, Latest, Chain, Chained, NoForks, database
<1> QED
  BY <1>1, <1>2, <1>3, <1>4 DEF Inv, Recorded

\* Nothing the distribution does to the catalog breaks its invariant.
LEMMA CatalogKept == Inv /\ [DistributionNext]_<<vars, distribution>> => Inv'
<1> SUFFICES ASSUME Inv, [DistributionNext]_<<vars, distribution>> PROVE Inv'
  OBVIOUS
<1>1. CASE [Next]_vars
  BY <1>1, InvInductive
<1>2. ASSUME NEW p \in Makers, Freeze(p) PROVE Inv'
  BY <1>2, ResetKeeps DEF Freeze, database
<1>3. ASSUME Installing PROVE UNCHANGED vars
  <2>1. \A m, db, pinned : BundleInstall(m, db, pinned) => UNCHANGED vars
    BY DEF BundleInstall
  <2>2. PublishInstalled \/ UseInstalled \/ CheckInstalled \/ InstallEnds => UNCHANGED vars
    BY DEF PublishInstalled, UseInstalled, CheckInstalled, InstallEnds
  <2> QED
    BY <1>3, <2>1, <2>2 DEF Installing
<1>4. ASSUME NEW p \in Makers, BundleCreate(p) \/ PublishNew(p) \/ CreateEnds(p) PROVE UNCHANGED vars
  BY <1>4 DEF BundleCreate, PublishNew, CreateEnds
<1>5. Changing => [Next]_vars
  BY DEF Changing
<1> QED
  BY <1>1, <1>2, <1>3, <1>4, <1>5 DEF DistributionNext, Creating

\* What was built does not change: the catalog is not changed after the first copy (a
\* bound of the module, since a creation reads it only once).
LEMMA MadeStays == Made /\ [DistributionNext]_<<vars, distribution>> => Made'
<1> SUFFICES ASSUME Made, [DistributionNext]_<<vars, distribution>> PROVE Made'
  OBVIOUS
<1>1. ASSUME UNCHANGED database PROVE Frozen' = Frozen /\ \A m : Built(m)' <=> Built(m)
  <2>1. Frozen' = Frozen
    BY <1>1 DEF Frozen, Preparing, database
  <2> QED
    BY <2>1 DEF Built
<1>2. CASE UNCHANGED <<database, made>>
  BY <1>1, <1>2 DEF Made
<1>3. CASE Changing
  BY <1>3 DEF Changing, distribution, Made
<1>4. ASSUME NEW p \in Makers, Freeze(p) PROVE Made'
  <2>1. PICK profile \in Profiles :
          LET m == [profile |-> profile, origin |-> Frozen, payload |-> Payload(profile, Frozen)]
          IN Derivable(profile, Frozen) /\ ManifestValid(m) /\ made' = made \cup {m}
    BY <1>4 DEF Freeze
  <2> DEFINE m == [profile |-> profile, origin |-> Frozen, payload |-> Payload(profile, Frozen)]
  <2>2. Built(m)
    BY <2>1 DEF Built
  <2>3. made' = made \cup {m}
    BY <2>1
  <2> HIDE DEF m
  <2>4. UNCHANGED database
    BY <1>4 DEF Freeze, database
  <2> QED
    BY <1>1, <2>2, <2>3, <2>4 DEF Made
<1>5. ASSUME Installing PROVE UNCHANGED <<database, made>>
  <2>1. \A m, db, pinned : BundleInstall(m, db, pinned) => UNCHANGED <<database, made>>
    BY DEF BundleInstall, vars, database
  <2>2. PublishInstalled \/ UseInstalled \/ CheckInstalled \/ InstallEnds => UNCHANGED <<database, made>>
    BY DEF PublishInstalled, UseInstalled, CheckInstalled, InstallEnds, vars, database
  <2> QED
    BY <1>5, <2>1, <2>2 DEF Installing
<1>6. ASSUME NEW p \in Makers, BundleCreate(p) \/ PublishNew(p) \/ CreateEnds(p)
      PROVE  UNCHANGED <<database, made>>
  BY <1>6 DEF BundleCreate, PublishNew, CreateEnds, vars, database
<1>7. UNCHANGED <<vars, distribution>> => UNCHANGED <<database, made>>
  BY DEF vars, distribution, database
<1> QED
  BY <1>2, <1>3, <1>4, <1>5, <1>6, <1>7 DEF DistributionNext, Creating

(***************************************************************************)
(* Publication.                                                            *)
(***************************************************************************)

\* A maker that gets a well-formed state leaves the publication in order.
LEMMA SetMaker ==
  ASSUME Publishing, NEW p \in Makers, made \subseteq made', UNCHANGED files,
         NEW r \in [pc : {"idle", "copy", "publish"}, step : {0, 1, 2}, manifest : SUBSET made'],
         r.pc = "publish" => r.step = 1 /\ \E m \in made' : r.manifest = {m},
         maker' = [maker EXCEPT ![p] = r]
  PROVE  Publishing'
<1>1. maker' \in [Makers -> [pc : {"idle", "copy", "publish"}, step : {0, 1, 2}, manifest : SUBSET made']]
  BY DEF Publishing
<1>2. ASSUME NEW q \in Makers, maker'[q].pc = "publish"
      PROVE  \E m \in made' : /\ maker'[q].manifest = {m} /\ maker'[q].step \in {1, 2}
                              /\ maker'[q].step = 2 => files'.bundle = {m.payload}
  <2>1. CASE q = p
    BY <1>2, <2>1 DEF Publishing
  <2>2. CASE q # p
    <3>1. maker'[q] = maker[q]
      BY <2>2 DEF Publishing
    <3> QED
      BY <1>2, <3>1 DEF Publishing
  <2> QED
    BY <2>1, <2>2
<1> QED
  BY <1>1, <1>2 DEF Publishing

\* A link puts the payload at its path, or beside it the manifest of the same maker.
LEMMA LinkVerifies ==
  ASSUME Publishing, ManifestsVerify, NEW p \in Makers, PublishNew(p)
  PROVE  Publishing' /\ ManifestsVerify'
<1>1. PICK m \in made : /\ maker[p].manifest = {m} /\ maker[p].step \in {1, 2}
                        /\ maker[p].step = 2 => files.bundle = {m.payload}
  BY DEF PublishNew, Publishing
<1>2. DOMAIN files = {"bundle", "manifest"} /\ files = [path \in DOMAIN files |-> files[path]]
  BY DEF Publishing
<1>3. UNCHANGED made /\ maker[p].pc = "publish"
  BY DEF PublishNew
<1>4. /\ maker \in [Makers -> [pc : {"idle", "copy", "publish"}, step : {0, 1, 2}, manifest : SUBSET made]]
      /\ files.manifest \subseteq made
  BY DEF Publishing
<1>5. CASE maker[p].step = 1
  <2>1. /\ files["bundle"] = {}
        /\ files' = [files EXCEPT !["bundle"] = {n.payload : n \in maker[p].manifest}]
        /\ maker' = [maker EXCEPT ![p] = [maker[p] EXCEPT !.step = 2]]
    BY <1>5 DEF PublishNew, Publication
  <2>2. /\ files'.bundle = {m.payload} /\ files'.manifest = files.manifest
        /\ DOMAIN files' = DOMAIN files /\ files' = [path \in DOMAIN files' |-> files'[path]]
    BY <1>1, <1>2, <2>1
  <2>3. /\ maker' \in [Makers -> [pc : {"idle", "copy", "publish"}, step : {0, 1, 2}, manifest : SUBSET made]]
        /\ \A q \in Makers \ {p} : maker'[q] = maker[q]
        /\ maker'[p].pc = "publish" /\ maker'[p].step = 2 /\ maker'[p].manifest = {m}
    BY <1>1, <1>3, <1>4, <2>1
  <2>4. \A q \in Makers : maker[q].pc = "publish" => maker[q].step # 2
    BY <2>1 DEF Publishing
  <2>5. \A n \in files.manifest : FALSE
    BY <2>1 DEF ManifestsVerify
  <2>6. ManifestsVerify'
    BY <2>2, <2>5 DEF ManifestsVerify
  <2>7. ASSUME NEW q \in Makers, maker'[q].pc = "publish"
        PROVE  \E n \in made' : /\ maker'[q].manifest = {n} /\ maker'[q].step \in {1, 2}
                                /\ maker'[q].step = 2 => files'.bundle = {n.payload}
    <3>1. CASE q = p
      BY <1>3, <2>2, <2>3, <3>1
    <3>2. CASE q # p
      BY <1>3, <2>3, <2>4, <2>7, <3>2 DEF Publishing
    <3> QED
      BY <3>1, <3>2
  <2>8. Publishing'
    BY <1>2, <1>3, <1>4, <2>2, <2>3, <2>7 DEF Publishing
  <2> QED
    BY <2>6, <2>8
<1>6. CASE maker[p].step = 2
  <2>1. /\ files' = [files EXCEPT !["manifest"] = {n : n \in maker[p].manifest}]
        /\ maker' = [maker EXCEPT ![p] = NoBundle]
    BY <1>6 DEF PublishNew, Publication
  <2>2. /\ files'.bundle = files.bundle /\ files'.manifest = {m}
        /\ DOMAIN files' = DOMAIN files /\ files' = [path \in DOMAIN files' |-> files'[path]]
    <3>1. {n : n \in maker[p].manifest} = {m}
      BY <1>1
    <3>2. files' = [files EXCEPT !["manifest"] = {m}]
      BY <2>1, <3>1
    <3> QED
      BY <1>2, <3>2
  <2>3. NoBundle \in [pc : {"idle", "copy", "publish"}, step : {0, 1, 2}, manifest : SUBSET made]
    BY DEF NoBundle
  <2>4. /\ maker' \in [Makers -> [pc : {"idle", "copy", "publish"}, step : {0, 1, 2}, manifest : SUBSET made]]
        /\ \A q \in Makers \ {p} : maker'[q] = maker[q]
        /\ maker'[p].pc = "idle"
    BY <1>4, <2>1, <2>3 DEF NoBundle
  <2>5. ManifestsVerify'
    BY <1>1, <1>6, <2>2 DEF ManifestsVerify
  <2>6. ASSUME NEW q \in Makers, maker'[q].pc = "publish"
        PROVE  \E n \in made' : /\ maker'[q].manifest = {n} /\ maker'[q].step \in {1, 2}
                                /\ maker'[q].step = 2 => files'.bundle = {n.payload}
    BY <1>3, <2>2, <2>4, <2>6 DEF Publishing
  <2>7. Publishing'
    BY <1>1, <1>2, <1>3, <2>2, <2>4, <2>6 DEF Publishing
  <2> QED
    BY <2>5, <2>7
<1> QED
  BY <1>1, <1>5, <1>6

\* Whichever creations are cut short and whichever two go for the same paths.
LEMMA PublishingInductive ==
  Publishing /\ ManifestsVerify /\ [DistributionNext]_<<vars, distribution>> =>
    Publishing' /\ ManifestsVerify'
<1> SUFFICES ASSUME Publishing, ManifestsVerify, [DistributionNext]_<<vars, distribution>>
             PROVE  Publishing' /\ ManifestsVerify'
  OBVIOUS
<1>1. CASE UNCHANGED <<maker, made, files>>
  BY <1>1 DEF Publishing, ManifestsVerify
<1>2. Changing \/ UNCHANGED <<vars, distribution>> => UNCHANGED <<maker, made, files>>
  BY DEF Changing, distribution
<1>3. Installing => UNCHANGED <<maker, made, files>>
  <2>1. \A m, db, pinned : BundleInstall(m, db, pinned) => UNCHANGED <<maker, made, files>>
    BY DEF BundleInstall
  <2>2. PublishInstalled \/ UseInstalled \/ CheckInstalled \/ InstallEnds => UNCHANGED <<maker, made, files>>
    BY DEF PublishInstalled, UseInstalled, CheckInstalled, InstallEnds
  <2> QED
    BY <2>1, <2>2 DEF Installing
<1>4. ASSUME NEW p \in Makers, BundleCreate(p) PROVE Publishing' /\ ManifestsVerify'
  <2> DEFINE r == [maker[p] EXCEPT !.pc = "copy"]
  <2>1. r \in [pc : {"idle", "copy", "publish"}, step : {0, 1, 2}, manifest : SUBSET made'] /\ r.pc = "copy"
    BY <1>4 DEF BundleCreate, Publishing
  <2>2. maker' = [maker EXCEPT ![p] = r] /\ made' = made /\ files' = files
    BY <1>4 DEF BundleCreate, Publishing
  <2> HIDE DEF r
  <2>3. Publishing'
    BY <2>1, <2>2, SetMaker
  <2> QED
    BY <2>2, <2>3 DEF ManifestsVerify
<1>5. ASSUME NEW p \in Makers, Freeze(p) PROVE Publishing' /\ ManifestsVerify'
  <2>1. PICK m : /\ made' = made \cup {m}
                 /\ maker' = [maker EXCEPT ![p] = [pc |-> "publish", step |-> 1, manifest |-> {m}]]
    BY <1>5 DEF Freeze
  <2> DEFINE r == [pc |-> "publish", step |-> 1, manifest |-> {m}]
  <2>2. r \in [pc : {"idle", "copy", "publish"}, step : {0, 1, 2}, manifest : SUBSET made']
    BY <2>1
  <2>3. r.step = 1 /\ r.manifest = {m} /\ m \in made' /\ made \subseteq made'
    BY <2>1
  <2>4. maker' = [maker EXCEPT ![p] = r] /\ files' = files
    BY <1>5, <2>1 DEF Freeze
  <2> HIDE DEF r
  <2>5. Publishing'
    BY <2>2, <2>3, <2>4, SetMaker
  <2> QED
    BY <2>4, <2>5 DEF ManifestsVerify
<1>6. ASSUME NEW p \in Makers, PublishNew(p) PROVE Publishing' /\ ManifestsVerify'
  BY <1>6, LinkVerifies
<1>7. ASSUME NEW p \in Makers, CreateEnds(p) PROVE Publishing' /\ ManifestsVerify'
  <2>1. NoBundle \in [pc : {"idle", "copy", "publish"}, step : {0, 1, 2}, manifest : SUBSET made']
        /\ NoBundle.pc = "idle"
    BY DEF NoBundle
  <2>2. maker' = [maker EXCEPT ![p] = NoBundle] /\ made' = made /\ files' = files
    BY <1>7 DEF CreateEnds
  <2>3. Publishing'
    BY <2>1, <2>2, SetMaker
  <2> QED
    BY <2>2, <2>3 DEF ManifestsVerify
<1> QED
  BY <1>1, <1>2, <1>3, <1>4, <1>5, <1>6, <1>7 DEF DistributionNext, Creating

(***************************************************************************)
(* Installation.                                                           *)
(***************************************************************************)

\* An installation follows one valid manifest, and what is used is no longer judged.
LEMMA TakenStays ==
  Publishing /\ Taken /\ [DistributionNext]_<<vars, distribution>> => Taken'
<1> SUFFICES ASSUME Publishing, Taken, [DistributionNext]_<<vars, distribution>> PROVE Taken'
  OBVIOUS
<1>1. ASSUME made \subseteq made', UNCHANGED <<installer, installed>> PROVE Taken'
  BY <1>1 DEF Taken, IsOfProfile, OfKind
<1>2. Changing \/ UNCHANGED <<vars, distribution>> =>
        made \subseteq made' /\ UNCHANGED <<installer, installed>>
  BY DEF Changing, distribution
<1>3. ASSUME NEW p \in Makers, BundleCreate(p) \/ Freeze(p) \/ PublishNew(p) \/ CreateEnds(p)
      PROVE  made \subseteq made' /\ UNCHANGED <<installer, installed>>
  BY <1>3 DEF BundleCreate, Freeze, PublishNew, CreateEnds
<1>4. ASSUME NEW m \in files.manifest \cup Forged, NEW db, NEW pinned \in BOOLEAN,
             BundleInstall(m, db, pinned)
      PROVE  Taken'
  <2>1. /\ installer' = [pc |-> "publish", manifest |-> m, pinned |-> pinned]
        /\ installed' = installed /\ made' = made
        /\ ManifestValid(m) /\ (pinned => m \in files.manifest)
    BY <1>4 DEF BundleInstall
  <2>2. /\ installer'.pc = "publish" /\ installer'.manifest = m /\ installer'.pinned = pinned
        /\ installer' \in [pc : {"publish", "check"}, manifest : {m}, pinned : BOOLEAN]
    BY <2>1
  <2>3. pinned => m \in made
    BY <2>1 DEF Publishing
  <2> QED
    BY <2>1, <2>2, <2>3 DEF Taken, IsOfProfile, OfKind
<1>5. CASE PublishInstalled
  <2>1. /\ installer.pc = "publish" /\ made' = made
        /\ installer' = [installer EXCEPT !.pc = "check"]
        /\ installed' = {[db |-> installer.manifest.payload, profile |-> installer.manifest.profile,
                          pinned |-> installer.pinned, used |-> FALSE]}
    BY <1>5 DEF PublishInstalled
  <2>2. /\ installer \in [pc : {"publish", "check"}, manifest : {installer.manifest}, pinned : BOOLEAN]
        /\ ManifestValid(installer.manifest)
        /\ installer.pinned => installer.manifest \in made
    BY <2>1 DEF Taken
  <2>3. /\ installer'.pc = "check" /\ installer'.manifest = installer.manifest
        /\ installer'.pinned = installer.pinned
        /\ installer' \in [pc : {"publish", "check"}, manifest : {installer.manifest}, pinned : BOOLEAN]
    BY <2>1, <2>2
  <2> DEFINE f == [db |-> installer.manifest.payload, profile |-> installer.manifest.profile,
                   pinned |-> installer.pinned, used |-> FALSE]
  <2>4. /\ "used" \in DOMAIN f /\ f.db = installer.manifest.payload
        /\ f.profile = installer.manifest.profile /\ f.pinned = installer.pinned
    OBVIOUS
  <2>5. installed' = {f}
    BY <2>1
  <2> HIDE DEF f
  <2>6. IsOfProfile(f)
    BY <2>2, <2>4 DEF ManifestValid, ProfileValid, IsOfProfile
  <2> QED
    BY <2>1, <2>2, <2>3, <2>4, <2>5, <2>6 DEF Taken, IsOfProfile, OfKind
<1>6. CASE UseInstalled
  <2>1. PICK f \in installed : installed' = {[f EXCEPT !.db.index = "dirty", !.used = TRUE]}
    BY <1>6 DEF UseInstalled
  <2> DEFINE g == [f EXCEPT !.db.index = "dirty", !.used = TRUE]
  <2>2. "used" \in DOMAIN g /\ g.used = TRUE
    BY DEF Taken
  <2>3. installed' = {g} /\ made' = made /\ installer' = installer
    BY <1>6, <2>1 DEF UseInstalled
  <2> HIDE DEF g
  <2> QED
    BY <2>2, <2>3 DEF Taken
<1>7. CASE CheckInstalled \/ InstallEnds
  <2>1. installed' \subseteq installed /\ installer' = [pc |-> "idle"] /\ made' = made
    BY <1>7 DEF CheckInstalled, InstallEnds
  <2> QED
    BY <2>1 DEF Taken, IsOfProfile, OfKind
<1>8. Installing => Taken'
  BY <1>4, <1>5, <1>6, <1>7 DEF Installing
<1> QED
  BY <1>1, <1>2, <1>3, <1>8 DEF DistributionNext, Creating

(***************************************************************************)
(* The theorems.                                                           *)
(***************************************************************************)

\* Nothing was built, published or installed at first.
LEMMA InitDistribution == DistributionInit => DistributionInv
<1> SUFFICES ASSUME DistributionInit PROVE DistributionInv
  OBVIOUS
<1>1. Inv
  BY InitInv DEF DistributionInit
<1>2. Publishing /\ ManifestsVerify
  BY DEF DistributionInit, NoBundle, Publishing, ManifestsVerify
<1>3. Made /\ Taken
  BY DEF DistributionInit, Made, Taken
<1> QED
  BY <1>1, <1>2, <1>3 DEF DistributionInv

\* The inductive invariant holds in every reachable state of the distribution.
THEOREM DistributionInvHolds == DistributionSpec => []DistributionInv
<1>1. DistributionInv /\ [DistributionNext]_<<vars, distribution>> => DistributionInv'
  BY CatalogKept, MadeStays, PublishingInductive, TakenStays DEF DistributionInv
<1> QED
  BY <1>1, InitDistribution, PTL DEF DistributionSpec

\* A published manifest is never without its payload, for any number of makers at the
\* same two paths.
THEOREM ManifestsStayVerified == DistributionSpec => []ManifestsVerify
<1>1. DistributionInv => ManifestsVerify
  BY DEF DistributionInv
<1> QED
  BY <1>1, DistributionInvHolds, PTL

\* What is installed is of the profile its manifest states, and what was pinned is the
\* publisher's catalog of one moment, whatever imports and deltas came before the copy and
\* whatever else is forged.
THEOREM InstallsAreAsFrozen == DistributionSpec => []InstalledAsFrozen
BY TakenIsAsFrozen, DistributionInvHolds, PTL

\* The catalog keeps its index, its chain and its backups while bundles are made of it.
THEOREM CatalogSurvives == DistributionSpec => [](IndexAgrees /\ NoForks /\ BackupsAreClean)
<1>1. DistributionInv => IndexAgrees /\ NoForks /\ BackupsAreClean
  BY DEF DistributionInv, Inv
<1> QED
  BY <1>1, DistributionInvHolds, PTL
=============================================================================
