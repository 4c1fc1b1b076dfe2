----------------------------- MODULE MCBodyLease -----------------------------
(* Instances of BodyLease for TLC. *)
EXTENDS BodyLease, TLC

CONSTANTS u, v        \* clients
CONSTANTS b1, b2      \* bodies
CONSTANTS NoRow       \* the absent lease

Symmetry == Permutations({u, v}) \cup Permutations({b1, b2})
=============================================================================
