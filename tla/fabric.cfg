CONSTANTS
  u = u
  v = v
  Clients = {u, v}
  CreateOnce = TRUE
  Contents = {"x"}
  MaxLeases = 2
  MaxRenewed = 2
  MaxRevision = 3
SPECIFICATION Spec
SYMMETRY Symmetry
INVARIANTS FabricTypeOK RecordRefersOnlyToDurableFacts
PROPERTIES ImplementsTaskLifecycle NoUpdateIsLost FinishingEndsTheLease
CHECK_DEADLOCK FALSE
