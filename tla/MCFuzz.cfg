SPECIFICATION FairSpec
CONSTANTS
  NoDoc = NoDoc
  Doc <- MCFuzzDocs
  MaxParsers = 2
  ParserName <- AllThree
  Verdict <- MCVerdict
  Stream <- MCStream
  Crashes <- MCCrashes
  KnownToRapidjson <- MCKnown
  Precision <- Epsilon
  MaxMutations = 3
  MaxValues = 2
  MaxTime = 1
INVARIANTS
  TypeOK
  KeepsAccepted
  AbortsOnlyAtStart
  EvidenceKept
  Lockstep
  DifferencesFlagged
  ReportedWithoutRapidjson
  AbortIsReported
  ReportsAreTrue
PROPERTIES
  ImplementsSession
  Termination
