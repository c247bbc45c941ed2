SPECIFICATION Spec
CONSTANTS
  Text <- MCText
  Session <- MCSession
  DepthCapacity = 6
  OutOfMemory <- MCOutOfMemory
  MaxCalls <- MCMaxCalls
INVARIANTS
  OnlyWideIntegersDiffer
  ShowsInTurn
  RunsAwayOnNoJson
  AcceptedLeaveNothing
  CountsMatchStack
  StackFits
  DepthIsNesting
  InsideScopes
  IteratorsNest
  GettersAnswer
  IndicesNest
PROPERTIES
  VerdictsFollowText
  SimdjsonShowsEvents
  RapidjsonShowsEvents
  SajsonShowsEvents
