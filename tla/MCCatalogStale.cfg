SPECIFICATION Spec
CONSTANTS
  Procs = {p1, p2}
  Snapshots = {"S1", "S2"}
  Deltas = {"D1", "F1"}
  Loose = {}
  Feed <- MCFeed
  SourceOf <- MCSourceOf
  NoDelta = "none"
  NoFeed = "no feed"
SYMMETRY ProcSymmetry
INVARIANT NewestWins
