SPECIFICATION Spec
CONSTANTS
  Text <- MCText
  DepthCapacity = 5
INVARIANT
  TapeSuffices
