SPECIFICATION Spec
CONSTANTS
  Files <- MCFiles
  Holds <- MCHolds
  MaxRoutes = 3
  MaxReferences = 2
  Bytes <- MCBytes
  PathOf <- MCPathOf
  Manifests <- MCManifests
  Drafts <- MCDrafts
  Coverage <- MCCoverage
  Reproductions <- MCReproductions
  Cases <- MCCases
  Corpora <- MCCorpora
  Payloads <- MCPayloads
  Results <- MCResults
  Requests <- MCRequests
  FirstRows <- MCFirstRows
  NextRows <- MCNextRows
  MaxEdits = 2
  MaxTime = 1
  MaxDeltas = 1
  MaxDocuments = 6
  MaxOfKind <- MCMaxOfKind
INVARIANTS EvidenceIsOfOneTree OwnChecksPass VerdictsMatchTheCatalog
CHECK_DEADLOCK FALSE
