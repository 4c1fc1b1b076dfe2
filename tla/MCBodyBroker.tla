---------------------------- MODULE MCBodyBroker ----------------------------
(* Instances of BodyBroker for TLC. *)
EXTENDS BodyBroker, TLC

CONSTANTS u, v        \* calls
CONSTANTS t1          \* a task

Symmetry == Permutations(Clients)
=============================================================================
