SPECIFICATION Spec
CONSTANTS
  PrimaryOf <- MCPrimaryOf
  VersionsOf <- MCVersionsOf
  Candidate <- MCCandidate
INVARIANTS MembersAreFindable OnlyNamesMerge FormerIdsLead
PROPERTY RebuildAgrees
