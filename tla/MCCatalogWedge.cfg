SPECIFICATION Spec
CONSTANTS
  Procs = {p1}
  Snapshots <- MCSnapshots
  Offered <- MCOffered
  Deltas <- MCDeltas
  Loose = {"L1"}
  Feed <- MCFeed
  SourceOf <- MCSourceOf
  NoDelta = "none"
  NoFeed = "no feed"
INVARIANT PreparingCanResume
