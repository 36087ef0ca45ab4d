SPECIFICATION Spec
CONSTANTS
  DayLength = 16
  WeekLength = 7
  Precedes <- MCPrecedes
  GrowthUnit = 12
  MinRunTurns = 3
  FewTurns = 3
  SmallContext = 8
  BigContext = 20
  SideDays = 2
  LagDays = 1
  TrendDays = 1
  BlockDays = 1
  RecurrenceWindows = 2
  TopTasksLimit = 3
  ContextRiskLimit = 2
  Scenes <- MCScenes
  C1 = C1
  C2 = C2
SYMMETRY Commands
CHECK_DEADLOCK FALSE
INVARIANTS
  EscalatedIsRecurrent
  EveryAdviceCounts
  WorkloadPays
  CutPays
  OutcomesAreAccounted
  SnapshotIsHistory
