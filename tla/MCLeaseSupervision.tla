-------------------------- MODULE MCLeaseSupervision --------------------------
(* Small instances of the lease side of the autonomy runtime for TLC.      *)
EXTENDS LeaseSupervision, TLC

CONSTANTS u, v, a1, a2, e1, e2

Symmetry == Permutations({u, v}) \cup Permutations({a1, a2}) \cup Permutations({e1, e2})
=============================================================================
