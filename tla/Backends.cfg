SPECIFICATION AnySpec
CONSTANTS
  robot1 = robot1
  robot2 = robot2
  Window = 2
  Keys = {"fleet"}
  Callers = {robot1, robot2}
  Capped = {robot1, robot2}
  Backend = "sqlite"
  Limit = 2
  Amounts = {1, 2}
  MaxTime = 5
  MaxCalls = 3
INVARIANTS
  RowsMatchLedger
  CapPerBucket
  BoundaryBurst
PROPERTY
  KeepsPromise
