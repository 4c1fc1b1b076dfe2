CONSTANTS
  a = a
  b = b
  c = c
  d = d
  None = None
  Orders = {a, b, c, d}
  Local = {a, b, c}
  Program <- FourOrders
  LogIsDurable = TRUE
  MaxCommands = 3
  MaxDisturbances = 3
SPECIFICATION CompanionSpec
INVARIANTS CompanionTypeOK AckedIsHeld QueueKeepsItsOrders VerdictIsEarned
PROPERTIES DrainEnds
CHECK_DEADLOCK FALSE
