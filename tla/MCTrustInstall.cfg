SPECIFICATION FairSpec
CONSTANTS
  m1 = m1
  m2 = m2
  Manifests = {m1, m2}
  NoManifest = NoManifest
  Procs = {p1}
  Profiles <- MCProfiles
  InitialRoot <- Root1
  Roots <- MCRoots
  Timestamps <- MCTimestamps
  Outputs = {o1, o2}
  ForeignBytes = {m1, other}
  other = other
  MinimumSequence = 0
  Pin = m1
  Horizon <- MCHorizon
  MaxGeneration = 11
  MaxCompleted = 2
  MaxRoots = 2
  MaxClock = 1
  MaxFaults = 2
INVARIANTS PendingAuthorised InstallsMatchFloors PublishedIsAccounted CompletedIsDurable CompletionIsReserved ReceiptsAreBacked
PROPERTIES OutputsArePreserved ImplementsLedger PendingIsSettled
CHECK_DEADLOCK FALSE
