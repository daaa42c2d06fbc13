----------------------------- MODULE MCIdentity -----------------------------
EXTENDS CanonicalIdentity

Version(aliases, related) == [aliases |-> aliases, related |-> related]

MCPrimaryOf == [x |-> "CVE-1", r |-> "GHSA-1", z |-> "PYSEC-1"]
MCCandidate == [x |-> 3, r |-> 2, z |-> 1]
MCVersionsOf ==
  [x |-> {Version({"GHSA-1"}, {}), Version({}, {"PYSEC-1"})},
   r |-> {Version({}, {}), Version({"PYSEC-1"}, {})},
   z |-> {Version({"GHSA-1"}, {}), Version({}, {})}]
=============================================================================
