SPECIFICATION FairSpec
CONSTANTS
  p = p
  q = q
  Process = {p, q}
  Id = {0, 1}
  Started <- MCStarted
  MaxMutations = 2
  MaxReports = 1
  PipeSize = 1
  MaxTime = 1
  NoFile = NoFile
INVARIANTS
  TypeOK
  EvidenceIsolated
  ReportsPaired
PROPERTIES
  FarmEnds
