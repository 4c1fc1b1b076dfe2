CONSTANTS
  u = u
  v = v
  b1 = b1
  b2 = b2
  NoRow = NoRow
  NoRecord = NoRow
  Clients = {u, v}
  Bodies = {b1, b2}
  Expiries = {0, 1}
  UseCache = FALSE
  MaxVersion = 2
  MaxTime = 1
SPECIFICATION LeaseSpec
SYMMETRY Symmetry
INVARIANTS GateTellsTheTruth
PROPERTIES FollowsLeaseLifecycle
