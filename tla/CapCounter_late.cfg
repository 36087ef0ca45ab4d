SPECIFICATION Spec
CONSTANTS
  robot1 = robot1
  robot2 = robot2
  human = human
  Window = 2
  Keys = {"fleet"}
  Callers = {robot1, robot2}
  Capped = {robot1, robot2}
  Limit = 2
  Amounts = {1, 2}
  MaxTime = 3
  Backend = "sqlite"
  MaxCalls = 4
INVARIANT
  NeverOvershoots
