CONSTANTS
  c1 = c1
  c2 = c2
  t1 = t1
  t2 = t2
  p1 = p1
  p2 = p2
  n1 = n1
  n2 = n2
  l1 = l1
  l2 = l2
  None = None
  Clients = {c1, c2}
  Tasks = {t1, t2}
  Scopes <- MCScopes
  Lanes = {n1, n2}
  Leases = {l1, l2}
  Asks = {"a"}
  MaxWrites = 5
SPECIFICATION GraphSpec
SYMMETRY Symmetry
INVARIANTS GraphTypeOK PlanAgreesWithStatus CompletedIsVerified ChainIsDurable OverlapNeedsARace
PROPERTIES UndisturbedWriteIsLegal
CHECK_DEADLOCK FALSE
