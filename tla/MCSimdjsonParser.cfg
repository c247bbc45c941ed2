SPECIFICATION Spec
CONSTANTS
  Text <- MCText
  DepthCapacity = 5
INVARIANTS
  LabelsMatchBrackets
  ScopesFit
  NoInternalBug
  TapeSufficesElsewhere
