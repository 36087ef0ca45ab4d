SPECIFICATION SceneSpec
CONSTANTS
  robot = robot
  rival = rival
  human = human
  Window = 1
  Keys = {"fleet"}
  Callers = {robot, rival, human}
  Capped = {robot, rival}
  Limit = 1
  Amounts = {1}
  MaxTime = 1
  CountUsage = TRUE
  MaxTokens = 2
  MaxCalls = 3
INVARIANT
  StillCounts
