SPECIFICATION Spec
CONSTANTS
  Text <- MCText
  Session <- MCSession
  DepthCapacity = 6
  OutOfMemory <- MCOutOfMemory
  MaxCalls <- MCMaxCalls
INVARIANT
  NothingLeft
