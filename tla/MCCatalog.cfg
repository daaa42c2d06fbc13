SPECIFICATION FairSpec
CONSTANTS
  Procs = {p1}
  Offered <- MCOffered
  Snapshots <- MCSnapshots
  Deltas <- MCDeltas
  Loose = {"L1"}
  Feed <- MCFeed
  SourceOf <- MCSourceOf
  NoDelta = "none"
  NoFeed = "no feed"
INVARIANTS NewestWins PresenceFollows CatalogFollowsIndex
PROPERTY IndexIsRebuilt
