----------------------------- MODULE MCTaskGraph -----------------------------
(* Instances of TaskGraph for TLC. *)
EXTENDS TaskGraph, TLC

CONSTANTS c1, c2      \* clients
CONSTANTS t1, t2      \* tasks
CONSTANTS p1, p2      \* paths
CONSTANTS l1, l2      \* leases
CONSTANTS n1, n2      \* lanes

MCScopes == {{p1}, {p2}}
Symmetry ==
    Permutations({c1, c2}) \cup Permutations({t1, t2}) \cup Permutations({p1, p2})
        \cup Permutations({l1, l2}) \cup Permutations({n1, n2})
=============================================================================
