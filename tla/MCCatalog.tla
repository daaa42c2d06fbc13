----------------------------- MODULE MCCatalog -----------------------------
EXTENDS AdvisorySupply

At(n) == [at |-> n, text |-> n]

\* Upstream: a1 is corrected three times, a2 disappears for a while, m1 is malware
\* whose license nobody reviewed.
File(id, family, modified, body) ==
  [id |-> id, family |-> family, modified |-> modified, body |-> body, wellFormed |-> TRUE,
   ecosystems |-> {"npm"}, terms |-> "CC0-1.0", openssf |-> TRUE, withdrawn |-> FALSE]
Published ==
  {File(f[1], f[2], f[3], f[4]) : f \in
     {<<"a1", "GHSA", 1, "x">>, <<"a1", "GHSA", 2, "y">>, <<"a1", "GHSA", 3, "z">>,
      <<"a1", "GHSA", 5, "w">>, <<"a2", "GHSA", 1, "x">>, <<"a2", "GHSA", 3, "z">>,
      <<"b1", "RUSTSEC", 2, "x">>, <<"m1", "MAL", 1, "x">>}}
Away == [id : {"a2"}, at : {2}]
World(t) ==
  LET past == {p \in Published : p.modified <= t}
  IN {p \in past : /\ \A q \in past : q.id = p.id => q.modified <= p.modified
                   /\ [id |-> p.id, at |-> t] \notin Away}

Archive(t) == {[name |-> p.id, payload |-> p] : p \in World(t)}
Index(t) == SetToSortSeq({[id |-> p.id, modified |-> p.modified] : p \in World(t)},
                         LAMBDA x, y : x.modified >= y.modified)
Folder(listed, after, t) ==
  {file \in Archive(t) : file.name \in {row.id : row \in ToSet(Select(listed, after))}}

\* The file of id with another text.
Rewritten(files, id) ==
  {IF file.name = id THEN [file EXCEPT !.payload.body = "r"] ELSE file : file \in files}

Evidence == {"GHSA", "RUSTSEC"}
ArchiveOf(content, acquired) == SnapshotRequest(Archive(content), "npm", At(acquired), Evidence)
Update(base, previous, after, indexed, fetched) ==
  DeltaRequest(Index(indexed), Folder(Index(indexed), after, fetched), "npm", At(indexed), after,
               base, previous, Evidence)

\* S2 is an old archive acquired late; F2 is D2 with a payload that changed without a
\* new time, and forks it; Q2 has a payload that was fetched after its row.
Snapshot1 == ArchiveOf(1, 1)
Snapshot2 == ArchiveOf(2, 4)
Requested ==
  [D1 |-> Update("S1", "none", 1, 2, 2),
   D2 |-> Update("S1", "D1", 2, 3, 3),
   F2 |-> [Update("S1", "D1", 2, 3, 3) EXCEPT !.folder = Rewritten(@, "a1")],
   Q2 |-> Update("S1", "D1", 2, 3, 5),
   D3 |-> Update("S2", "none", 2, 5, 5),
   G3 |-> Update("S2", "none", 4, 5, 5)]

\* D2 without the record of a2, its accounts and its id made to fit.
Without(r, id) ==
  LET m == IdentityOf(DeltaManifest(r))
      records == {row \in m.records : row.id # id}
  IN Directory(Sealed([m EXCEPT !.records = records, !.sources = DeltaSources(records),
                                !.accounting.selected = @ - 1, !.accounting.accepted = @ - 1]),
               r.folder) @@ [index |-> r.index]

\* X1, X2 and E2 were changed after their preparation, A1 comes with a later archive.
MCOffered ==
  [S1 |-> PrepareSnapshot(Snapshot1) @@ [archive |-> Archive(1)], S2 |-> PrepareSnapshot(Snapshot2),
   X1 |-> [PrepareSnapshot(Snapshot1) EXCEPT !.records = Rewritten(@, "a1")],
   X2 |-> [PrepareDelta(Requested["D2"]) EXCEPT !.records = Rewritten(@, "a1")],
   E2 |-> Without(Requested["D2"], "a2"),
   A1 |-> PrepareSnapshot(Snapshot1) @@ [archive |-> Archive(2)]]
  @@ [d \in {x \in DOMAIN Requested : DeltaIsPrepared(Requested[x])} |-> PrepareDelta(Requested[d])]

MCSnapshots == {m \in Loading : "index" \notin DOMAIN MCOffered[m]}
MCDeltas == Loading \ MCSnapshots

(***************************************************************************)
(* What an import of each directory hands on, written out;                 *)
(* OfferedAssumption compares it with the directories that load (E2 is the *)
(* one that would load if its accounts were not compared with the index).  *)
(***************************************************************************)
A1 == <<"GHSA", "a1">>
A2 == <<"GHSA", "a2">>
B1 == <<"RUSTSEC cc0", "b1">>
C1 == <<"by hand", "c1">>
Dated(modified, body) == [modified |-> modified, body |-> body]

ReadArchive(acquired, artifact, records) ==
  [ecosystem |-> "npm", acquired |-> At(acquired), artifact |-> artifact, quarantined |-> 1,
   records |-> records]
ReadDelta(base, previous, after, through, quarantined, records) ==
  [ecosystem |-> "npm", acquired |-> At(through), base |-> base, previous |-> previous,
   after |-> after, through |-> through, quarantined |-> quarantined, records |-> records]

MCFeed ==
  [S1 |-> ReadArchive(1, Archive(1), A1 :> Dated(1, "x") @@ A2 :> Dated(1, "x")),
   S2 |-> ReadArchive(4, Archive(2), A1 :> Dated(2, "y") @@ B1 :> Dated(2, "x")),
   D1 |-> ReadDelta("S1", "none", 1, 2, 0, A1 :> Dated(2, "y") @@ B1 :> Dated(2, "x")),
   D2 |-> ReadDelta("S1", "D1", 2, 3, 0, A1 :> Dated(3, "z") @@ A2 :> Dated(3, "z")),
   F2 |-> ReadDelta("S1", "D1", 2, 3, 0, A1 :> Dated(3, "r") @@ A2 :> Dated(3, "z")),
   Q2 |-> ReadDelta("S1", "D1", 2, 3, 1, A2 :> Dated(3, "z")),
   E2 |-> ReadDelta("S1", "D1", 2, 3, 0, A1 :> Dated(3, "z")),
   D3 |-> ReadDelta("S2", "none", 2, 5, 0, A1 :> Dated(5, "w") @@ A2 :> Dated(3, "z")),
   G3 |-> ReadDelta("S2", "none", 4, 5, 0, A1 :> Dated(5, "w")),
   L1 |-> [records |-> C1 :> Dated(1, "x")]]
MCSourceOf == [key \in {A1, A2, B1, C1} |-> key[1]]
=============================================================================
