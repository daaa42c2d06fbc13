--------------------------- MODULE MCDistribution ---------------------------
EXTENDS CatalogDistribution, MCCatalogRace

MCDeclared == [GHSA |-> "core", MAL |-> "malicious"] @@ ("by hand" :> "none")

Database(records) ==
  [records |-> records, inactive |-> {}, imports |-> {}, preparing |-> {}, fts |-> records, index |-> "ready"]
Old == Database([a1 |-> Version(1, "x")])
Malware == Database([m1 |-> Version(1, "x")])

\* An older bundle, malware under another label, and a claim of two profiles at once.
MCForged ==
  {[profile |-> "core", origin |-> Old, payload |-> Old],
   [profile |-> "core", origin |-> Malware, payload |-> Malware],
   [profile |-> "malicious", origin |-> Old, payload |-> Malware]}

Interchangeable == ProcSymmetry \cup Permutations(Makers)
=============================================================================
