SPECIFICATION Spec
CONSTANTS
  PrimaryOf <- MCPrimaryOf
  VersionsOf <- MCVersionsOf
  Candidate <- MCCandidate
INVARIANT RebuildSucceeds
