SPECIFICATION Spec
CONSTANTS
  Length = 4
  DayLength = 4
  WeekLength = 2
  Precedes <- MCPrecedes
  ContextStreamLimit = 6
  ContextShiftLimit = 5
  MonthLengths <- MCMonths
  MinObservations = 2
  MinPerModel = 1
  SameWallWithin = 2
  BurnLookback = 2
  MinTurnsForLever = 1
  Kinds <- MCKinds
  Settings <- MCSettings
  Days = 2
  Backlog <- MCBacklog
  MaxSteps = 4
CHECK_DEADLOCK FALSE
INVARIANTS
  CalibrationIsSound
  PlansForTheWorst
  CyclesAreInFlight
  NoHopefulZero
  EveryThreadStands
  SavingsAreSeen
