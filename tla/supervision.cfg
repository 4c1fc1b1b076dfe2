CONSTANTS
  u = u
  v = v
  a1 = a1
  a2 = a2
  e1 = e1
  e2 = e2
  Callers = {u, v}
  Actions = {a1, a2}
  Episodes = {e1, e2}
  MaxLeases = 3
  MaxCalls = 3
SPECIFICATION SupervisionSpec
SYMMETRY Symmetry
INVARIANTS RenewalIsOneLineage VerdictsAreStored EpisodesStand
CHECK_DEADLOCK FALSE
