SPECIFICATION Spec
CONSTANTS
  HalfDay = 2
  MaxEntriesPerFile = 4
  Fallbacks = {3}
  DefaultTokensPerCodeHash = 2
  DefaultTokensPerGeneration = 3
  TokensPerStepFloor = 1
  Precedes <- MCPrecedes
  Workspace = "/workspace"
  DayLength = 4
  WeekLength = 2
  Shapes <- MCShapes
  Chat = 1
  Repo = 2
  Snapshots = 2
  MaxSteps = 3
CHECK_DEADLOCK FALSE
INVARIANTS
  CountedOnce
  CallsKeepTheirOwner
  ResetsAsAnnounced
  WindowsAgree
  EstimatesBracket
  CopiesAreFree
