--------------------------- MODULE MCCatalogRace ---------------------------
EXTENDS AdvisoryCatalog, TLC

At(n) == [at |-> n, text |-> n]
Version(modified, body) == [modified |-> modified, body |-> body]

MCSourceOf == [a1 |-> "GHSA", a2 |-> "GHSA", m1 |-> "MAL", c1 |-> "by hand"]

Snapshot(acquired, artifact, records) ==
  [ecosystem |-> "npm", acquired |-> At(acquired), artifact |-> artifact, quarantined |-> 0, records |-> records]
Delta(base, previous, after, through, records) ==
  [ecosystem |-> "npm", acquired |-> At(through), base |-> base, previous |-> previous,
   after |-> after, through |-> through, quarantined |-> 0, records |-> records]

\* F1 forks D1; S2 is newer than both.
MCFeed ==
  [S1 |-> Snapshot(1, "zip1", [a1 |-> Version(1, "x"), a2 |-> Version(1, "x"), m1 |-> Version(1, "x")]),
   S2 |-> Snapshot(4, "zip2", [a1 |-> Version(1, "x")]),
   D1 |-> Delta("S1", "none", 1, 2, [a1 |-> Version(2, "y"), a2 |-> Version(2, "y")]),
   F1 |-> Delta("S1", "none", 1, 3, [a2 |-> Version(3, "z")]),
   L1 |-> [records |-> [c1 |-> Version(1, "x")]]]

ProcSymmetry == Permutations(Procs)
=============================================================================
