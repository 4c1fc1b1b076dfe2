CONSTANTS
  s = s
  t = t
  u = u
  None = None
  Tasks = {s}
  NumBodies = 2
  NumLanes = 1
  RetryBudget = 2
  Program <- OneProgram
  Dependencies <- OneAlone
  Colliding <- OneAlone
  MaxDisturbances = 3
SPECIFICATION OrchestratorSpec
INVARIANT NothingRestsOnLostEffects
CHECK_DEADLOCK FALSE
