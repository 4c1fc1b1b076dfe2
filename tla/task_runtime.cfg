CONSTANTS
  t1 = t1
  t2 = t2
  c1 = c1
  c2 = c2
  None = None
  Callers = {c1, c2}
  Tasks = {t1, t2}
  Program <- Both
  MaxCalls = 5
SYMMETRY CallerSymmetry
SPECIFICATION TaskRuntimeSpec
INVARIANTS TaskRuntimeTypeOK WholeTranscript FinishedHoldsNoLease
PROPERTIES FinishedStands
CHECK_DEADLOCK FALSE
