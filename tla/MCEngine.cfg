SPECIFICATION Spec
CONSTANTS
  NoExpiry = NoExpiry
  Timeout = 2
  Validities <- MCValidities
  Margin = 1
  MaxOutput = 2
  PipeSize = 2
  MaxWritten <- MCMaxWritten
  MaxLag = 1
  MaxEdits = 1
INVARIANTS
  StopsInTime
  ReportIsWhole
  ManifestIsOneRun
PROPERTY RunEnds
CHECK_DEADLOCK FALSE
