SPECIFICATION Spec
CONSTANTS
  NoDoc = NoDoc
  Doc <- MCSessionDocs
  MaxParsers = 2
  ParserName <- WithoutRapidjson
  Verdict <- MCVerdict
  Stream <- MCStream
  Crashes <- MCCrashes
  KnownToRapidjson <- MCKnown
  Precision <- Epsilon
  MaxMutations = 2
  MaxValues = 3
  MaxTime = 1
INVARIANT
  NoReportLost
