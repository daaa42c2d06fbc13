SPECIFICATION Spec
CONSTANTS
  Scans <- MCScans
  FirstLedger <- MCFirstLedger
  Envelopes <- MCEnvelopes
  Sarifs <- MCSarifs
  RunPaths = {p1, p2}
  CasePaths = {c1, c2}
  Importers = {i1, i2}
  Agents = {a1}
  Reviewers = {"ann"}
  Verdicts = {"validated", "rejected"}
  TokenBudget = 1
  Tokens = {1, 2}
  MaxReviews = 2
  MaxRequests = 2
  MaxImports = 2
  MaxCaseSteps = 2
  MaxStages = 1
  MaxCommands = 5
INVARIANTS DocumentsAreUsable ImportedIsKept
PROPERTIES DecisionsAreFinal AgentsReplaceNothing
SYMMETRY Interchangeable
CHECK_DEADLOCK FALSE
