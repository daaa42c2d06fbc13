SPECIFICATION Spec
CONSTANTS
  m1 = m1
  m2 = m2
  m3 = m3
  Manifests = {m1, m2, m3}
  NoManifest = NoManifest
  Procs = {p1, p2}
  Profiles <- MCProfiles
  InitialRoot <- Root1
  Roots <- MCRoots
  Timestamps <- MCTimestamps
  Outputs = {}
  ForeignBytes = {}
  MinimumSequence = 1
  Pin = NoManifest
  Horizon <- MCHorizon
  MaxGeneration = 7
  MaxCompleted = 0
  MaxRoots = 2
  MaxClock = 2
  MaxFaults = 1
INVARIANTS TypeOK SavedStateLoads WriterIsAlone StatusIsReacceptable
PROPERTIES FloorsNeverFall VersionsNeverRollBack SnapshotHolds
SYMMETRY ProcSymmetry
CHECK_DEADLOCK FALSE
