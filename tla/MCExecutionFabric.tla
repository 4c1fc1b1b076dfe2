-------------------------- MODULE MCExecutionFabric --------------------------
(* Instances of ExecutionFabric for TLC. *)
EXTENDS ExecutionFabric, TLC

CONSTANTS u, v        \* calls

Symmetry == Permutations({u, v})
=============================================================================
