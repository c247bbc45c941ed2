SPECIFICATION KnownProblemSpec
CONSTANTS
  MaxSize = 3
  MaxBelow = 2
INVARIANTS
  NeverUnknown
  DiesWithoutNull
