-------------------------- MODULE AdvisorySources --------------------------
(***************************************************************************)
(* How a downloaded archive or index becomes a directory that the catalog  *)
(* imports: snapshot-prepare-osv and delta-prepare-osv, and the validation *)
(* every import repeats (knowledge/src/snapshot.rs and delta.rs).          *)
(*                                                                         *)
(* A payload is one OSV file:                                              *)
(*   id, family, modified, body, wellFormed, ecosystems, terms, openssf,   *)
(*   withdrawn                                                             *)
(* where family is what the identifier's prefix says, terms the license a  *)
(* RUSTSEC file names and openssf whether a MAL file points to OpenSSF.    *)
(* A value stands for its own hash, and a manifest without its id for the  *)
(* hash that is its id.  Sizes, text limits and file kinds are left out:   *)
(* an oversized or unreadable payload is one that is not well formed.      *)
(***************************************************************************)
EXTENDS Integers, SequencesExt

Families == {"GHSA", "RUSTSEC", "MAL", "PYSEC", "GO"}

\* The family's license policy: a RUSTSEC file names its terms, a MAL file comes from
\* OpenSSF and is accepted only if evidence of that license was supplied.
HasPolicy(payload, evidence) ==
  /\ payload.family \in Families
  /\ payload.family = "RUSTSEC" => payload.terms \in {"CC0-1.0", "CC-BY-4.0"}
  /\ payload.family = "MAL" => "MAL" \in evidence /\ payload.openssf

\* A file [name, payload] that is not classified is quarantined.
Classified(file, ecosystem, evidence) ==
  /\ file.payload.wellFormed
  /\ file.payload.id = file.name
  /\ ecosystem \in file.payload.ecosystems
  /\ HasPolicy(file.payload, evidence)

\* The ecosystem, which is part of a source's name, is the manifest's.
SourceName(payload) ==
  IF payload.family # "RUSTSEC" THEN payload.family
  ELSE IF payload.terms = "CC0-1.0" THEN "RUSTSEC cc0" ELSE "RUSTSEC cc-by"

LicenseOf(source) == IF source \in {"RUSTSEC cc0", "RUSTSEC cc-by"} THEN "RUSTSEC" ELSE source

\* An accepted payload without the evidence of its license stops the preparation.
Licensed(accepted, evidence) == {file.payload.family : file \in accepted} \subseteq evidence

InSource(rows, source) == {row \in rows : row.source = source}
SourceTable(rows) ==
  {[name |-> s, records |-> Cardinality(InSource(rows, s))] : s \in {row.source : row \in rows}}

Licenses(m) == {LicenseOf(s.name) : s \in m.sources}

IdentityOf(m) == [field \in DOMAIN m \ {"id"} |-> m[field]]
Sealed(m) == [id |-> m] @@ m

\* The directory is renamed into place when everything is in it: a file for each record
\* and for each quarantined payload, and a license for each source.
Directory(m, files) ==
  [manifest |-> m,
   records |-> {file \in files : file.name \in {row.id : row \in m.records}},
   quarantine |-> {file \in files : file.name \in {row.id : row \in m.quarantined}},
   licenses |-> Licenses(m)]

FilesOf(rows) == {[name |-> row.id, payload |-> row.hash] : row \in rows}

HoldsItsFiles(directory) ==
  LET m == directory.manifest IN
  /\ directory.records = FilesOf(m.records)
  /\ directory.quarantine = FilesOf(m.quarantined)
  /\ directory.licenses = Licenses(m)

\* Rows belong to a listed source and to the ecosystem, and sources count them right.
RowsAreListed(m) ==
  /\ m.records # {}
  /\ \A row \in m.records : /\ row.source \in {s.name : s \in m.sources}
                            /\ m.ecosystem \in row.hash.ecosystems
  /\ \A s \in m.sources : s.records = Cardinality(InSource(m.records, s.name))
  /\ m.accounting.accepted = Cardinality(m.records)
  /\ m.accounting.quarantined = Cardinality(m.quarantined)

(***************************************************************************)
(* Snapshots: the whole archive of an ecosystem, a set of files.           *)
(***************************************************************************)

SnapshotRequest(archive, ecosystem, acquired, evidence) ==
  [archive |-> archive, ecosystem |-> ecosystem, acquired |-> acquired, evidence |-> evidence]

InArchive(r) == {file \in r.archive : Classified(file, r.ecosystem, r.evidence)}

SnapshotRow(file) ==
  [id |-> file.name, source |-> SourceName(file.payload), modified |-> file.payload.modified,
   hash |-> file.payload]

\* No name twice, something accepted, a license for everything accepted.
SnapshotIsPrepared(r) ==
  /\ \A x, y \in r.archive : x.name = y.name => x = y
  /\ InArchive(r) # {}
  /\ Licensed(InArchive(r), r.evidence)

SnapshotManifest(r) ==
  LET records == {SnapshotRow(file) : file \in InArchive(r)}
      rest == r.archive \ InArchive(r)
  IN Sealed([ecosystem |-> r.ecosystem, acquired |-> r.acquired, artifact |-> r.archive,
             sources |-> SourceTable(records), records |-> records,
             quarantined |-> {[id |-> file.name, hash |-> file.payload] : file \in rest},
             accounting |-> [entries |-> Cardinality(r.archive), accepted |-> Cardinality(records),
                             quarantined |-> Cardinality(rest)]])

PrepareSnapshot(r) == Directory(SnapshotManifest(r), r.archive)

SnapshotIsReconciled(m) ==
  /\ RowsAreListed(m)
  /\ m.accounting.entries = m.accounting.accepted + m.accounting.quarantined
  /\ m.id = IdentityOf(m)

\* The files are compared with the manifest; they are not classified again.
SnapshotLoads(directory) ==
  SnapshotIsReconciled(directory.manifest) /\ HoldsItsFiles(directory)

\* The archive is compared when the operator gives it.
ArchiveMatches(directory) ==
  "archive" \in DOMAIN directory => directory.archive = directory.manifest.artifact

(***************************************************************************)
(* Deltas: the index of modified records, newest first, a sequence of      *)
(* [id, modified], and a folder with a file for each row after the cursor. *)
(***************************************************************************)

\* What the operator declares: the cursor, the base and the previous delta too.
DeltaRequest(listed, folder, ecosystem, acquired, after, base, previous, evidence) ==
  [index |-> listed, folder |-> folder, ecosystem |-> ecosystem, acquired |-> acquired,
   after |-> after, base |-> base, previous |-> previous, evidence |-> evidence]

IndexParses(listed) ==
  /\ listed # <<>>
  /\ \A i, j \in DOMAIN listed : i < j => /\ listed[i].modified >= listed[j].modified
                                          /\ listed[i].id # listed[j].id

\* The cursor is exclusive.
Select(listed, after) == SelectSeq(listed, LAMBDA row : row.modified > after)

LineOf(listed, id) == CHOOSE line \in DOMAIN listed : listed[line].id = id

FolderMatches(selected, folder) == {file.name : file \in folder} = {row.id : row \in ToSet(selected)}

\* A payload of another time than its row is quarantined as well.
InFolder(r) ==
  {file \in r.folder : /\ file.payload.modified = r.index[LineOf(r.index, file.name)].modified
                       /\ Classified(file, r.ecosystem, r.evidence)}

DeltaIsPrepared(r) ==
  LET selected == Select(r.index, r.after) IN
  /\ IndexParses(r.index)
  /\ selected # <<>> /\ selected[1].modified <= r.acquired.at
  /\ FolderMatches(selected, r.folder)
  /\ InFolder(r) # {}
  /\ Licensed(InFolder(r), r.evidence)

IndexRow(listed, file) ==
  LET line == LineOf(listed, file.name) IN
  [id |-> file.name, line |-> line, indexed |-> listed[line].modified, hash |-> file.payload]

DeltaRow(listed, file) ==
  IndexRow(listed, file) @@ SnapshotRow(file) @@ [withdrawn |-> file.payload.withdrawn]

Withdrawn(rows) == {row \in rows : row.withdrawn}

DeltaSources(rows) ==
  {[name |-> s.name, records |-> s.records,
    withdrawn |-> Cardinality(Withdrawn(InSource(rows, s.name)))] : s \in SourceTable(rows)}

DeltaManifest(r) ==
  LET selected == Select(r.index, r.after)
      records == {DeltaRow(r.index, file) : file \in InFolder(r)}
      rest == r.folder \ InFolder(r)
  IN Sealed([ecosystem |-> r.ecosystem, acquired |-> r.acquired, base |-> r.base,
             previous |-> r.previous, after |-> r.after, through |-> selected[1].modified,
             index |-> r.index, sources |-> DeltaSources(records), records |-> records,
             quarantined |-> {IndexRow(r.index, file) : file \in rest},
             accounting |-> [index |-> Len(r.index), selected |-> Len(selected),
                             accepted |-> Cardinality(records), quarantined |-> Cardinality(rest),
                             withdrawn |-> Cardinality(Withdrawn(records))]])

PrepareDelta(r) == Directory(DeltaManifest(r), r.folder) @@ [index |-> r.index]

CursorIsOrdered(m) == m.after < m.through /\ m.through <= m.acquired.at

RowsAreInCursor(m) ==
  /\ \A row \in m.records \cup m.quarantined : m.after < row.indexed /\ row.indexed <= m.through
  /\ \A row \in m.records : row.modified = row.indexed

DeltaIsReconciled(m) ==
  /\ CursorIsOrdered(m)
  /\ RowsAreListed(m)
  /\ RowsAreInCursor(m)
  /\ \A x, y \in m.records \cup m.quarantined : x.id = y.id => x = y
  /\ m.sources = DeltaSources(m.records)
  /\ m.accounting.selected = m.accounting.accepted + m.accounting.quarantined
  /\ m.accounting.withdrawn = Cardinality(Withdrawn(m.records))
  /\ m.accounting.index >= m.accounting.selected
  /\ m.id = IdentityOf(m)

\* Mutant: the accounting is not compared with the index.
IndexUncounted(m, listed) == IndexParses(listed)

\* The index selects as many rows as the manifest accounts for, up to its cursor.
IndexIsAccounted(m, listed) ==
  LET selected == Select(listed, m.after) IN
  /\ IndexParses(listed)
  /\ m.accounting.index = Len(listed) /\ m.accounting.selected = Len(selected)
  /\ selected # <<>> /\ selected[1].modified = m.through

Stands(row, m, listed) ==
  /\ row.id \in {x.id : x \in ToSet(Select(listed, m.after))}
  /\ row.line = LineOf(listed, row.id)
  /\ row.indexed = listed[row.line].modified

\* Every row of the manifest stands in the index, and an accepted payload is
\* classified again: as the sources say, MAL files are welcome or not.
RowsFollowIndex(m, listed) ==
  /\ \A row \in m.records \cup m.quarantined : Stands(row, m, listed)
  /\ \A row \in m.records : LET file == [name |-> row.id, payload |-> row.hash] IN
       Classified(file, m.ecosystem, Licenses(m)) /\ row = DeltaRow(listed, file)

DeltaLoads(directory) ==
  LET m == directory.manifest IN
  /\ DeltaIsReconciled(m)
  /\ HoldsItsFiles(directory) /\ m.index = directory.index
  /\ IndexIsAccounted(m, directory.index)
  /\ RowsFollowIndex(m, directory.index)

(***************************************************************************)
(* What catalog-import-snapshot and catalog-import-delta hand on.          *)
(***************************************************************************)

RecordsOf(m) ==
  [key \in {<<row.source, row.id>> : row \in m.records} |->
     LET row == CHOOSE row \in m.records : <<row.source, row.id>> = key
     IN [modified |-> row.modified, body |-> row.hash.body]]

SnapshotFeed(m) ==
  [ecosystem |-> m.ecosystem, acquired |-> m.acquired, artifact |-> m.artifact,
   quarantined |-> m.accounting.quarantined, records |-> RecordsOf(m)]

DeltaFeed(m) ==
  [ecosystem |-> m.ecosystem, acquired |-> m.acquired, base |-> m.base, previous |-> m.previous,
   after |-> m.after, through |-> m.through,
   quarantined |-> m.accounting.quarantined, records |-> RecordsOf(m)]
=============================================================================
