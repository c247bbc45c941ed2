SPECIFICATION ComparisonSpec
CONSTANTS
  Shown <- MCShown
  Precisions <- MCPrecisions
INVARIANTS
  Symmetric
  SlackOfStar
  SignsAgree
  InfinityInverted
