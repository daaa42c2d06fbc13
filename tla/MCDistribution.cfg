SPECIFICATION DistributionSpec
CONSTANTS
  Procs = {p1, p2}
  Snapshots = {"S1", "S2"}
  Deltas = {"D1", "F1"}
  Loose = {"L1"}
  Feed <- MCFeed
  SourceOf <- MCSourceOf
  NoDelta = "none"
  NoFeed = "no feed"
  Makers = {m1, m2}
  Declared <- MCDeclared
  Prefixed = {"a1", "a2", "m1"}
  Forged <- MCForged
SYMMETRY Interchangeable
INVARIANTS IndexAgrees NoForks BackupsAreClean ManifestsVerify InstalledAsFrozen
CHECK_DEADLOCK FALSE
