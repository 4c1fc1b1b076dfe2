CONSTANTS
  s = s
  t = t
  u = u
  None = None
  Tasks = {s, t, u}
  NumBodies = 2
  NumLanes = 2
  RetryBudget = 1
  Program <- ThreePrograms
  Dependencies <- ThreeChained
  Colliding <- ThreeColliding
  MaxDisturbances = 2
SPECIFICATION OrchestratorSpec
INVARIANTS OrchestratorTypeOK NoOverlap StrayLeasesNeedADeath ScanHolds WholeProgramRan
PROPERTIES OneLiveBinding MissionSettles
CHECK_DEADLOCK FALSE
