SPECIFICATION Spec
CONSTANTS
  NoDoc = NoDoc
  Doc <- MCSessionDocs
  MaxParsers = 2
  ParserName <- Shipped
  Verdict <- MCVerdict
  Stream <- MCStream
  Crashes <- MCCrashes
  KnownToRapidjson <- MCKnown
  Precision <- Epsilon
  MaxMutations = 1
  MaxValues = 3
  MaxTime = 1
INVARIANT
  EveryDifferenceReported
