CONSTANTS
  u = u
  v = v
  t1 = t1
  Clients = {u, v}
  Tasks = {t1}
  NumBodies = 2
  MaxLeases = 2
  MaxRevision = 2
SPECIFICATION BrokerSpec
SYMMETRY Symmetry
PROPERTIES EndedLeaseIsFinal OnlyLateLeasesSurvive ReplacedLeaseHasEnded
CHECK_DEADLOCK FALSE
