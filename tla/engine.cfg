CONSTANTS
  u = u
  v = v
  NoRow = NoRow
  NoRecord = NoRow
  Clients = {u, v}
  Records <- MCRecords
  UseCache = TRUE
  MaxVersion = 2
SPECIFICATION Spec
SYMMETRY Symmetry
INVARIANTS TypeOK LostCasHasAWinner CacheHoldsOnlyStoredRecords
PROPERTIES ImplementsAtomicStore
