--------------------------- MODULE AdvisorySupply ---------------------------
(***************************************************************************)
(* The catalog fed with the directories that snapshot-prepare-osv and      *)
(* delta-prepare-osv made of downloads, and with those that were changed   *)
(* since.  An import validates the directory before it opens the catalog:  *)
(* Snapshots and Deltas are what loads, Feed is what it hands on.          *)
(***************************************************************************)
EXTENDS AdvisoryCatalog, AdvisorySources

CONSTANT Offered  \* manifest -> the directory offered under that name

Loading == {m \in DOMAIN Offered :
              IF "index" \in DOMAIN Offered[m] THEN DeltaLoads(Offered[m])
              ELSE SnapshotLoads(Offered[m]) /\ ArchiveMatches(Offered[m])}

FeedFrom(directory) ==
  IF "index" \in DOMAIN directory THEN DeltaFeed(directory.manifest) ELSE SnapshotFeed(directory.manifest)

ASSUME OfferedAssumption ==
  /\ Snapshots \cup Deltas = Loading
  /\ \A m \in Loading : Feed[m] = FeedFrom(Offered[m])

Manifest(m) == Offered[m].manifest

\* What the index lists up to the cursor, the archive holds in that version.
Covers(s, listed, cursor) ==
  \A row \in ToSet(listed) : row.modified <= cursor =>
    \E file \in Manifest(s).artifact :
      file.payload.id = row.id /\ file.payload.modified = row.modified

\* The first complete delta over the base of d.
FirstOver(d) == {f \in Complete(deltas) : Feed[f].base = Feed[d].base /\ Feed[f].previous = NoDelta}

\* After a complete chain of deltas the catalog holds every record that the last index
\* lists, those it did not select too, in the version it lists or a later one: no row
\* is lost at a cursor, to a quarantine, to a changed directory or between two
\* manifests.  The archive must reach up to the first cursor, which no code compares
\* with more than the time of acquisition, what it quarantined stays away, and a snapshot
\* newer than the base may have put its own content in place, even one whose import was
\* interrupted, since ensure_delta_order asks for complete snapshots only
\* (prepare_osv_delta, validate_files, register_delta, import_osv_delta_batch).
CatalogFollowsIndex ==
  \A d \in Latest(Complete(deltas)) : \A f \in FirstOver(d) :
    (/\ Covers(Feed[d].base, Manifest(d).index, Feed[f].after)
     /\ \A s \in DOMAIN snaps : Acquired(s) <= Acquired(Feed[d].base)) =>
      \A row \in ToSet(Manifest(d).index) :
        \/ row.id \in {q.id : q \in Manifest(Feed[d].base).quarantined}
        \/ \E k \in active : k[2] = row.id /\ current[k].modified >= row.modified
=============================================================================
