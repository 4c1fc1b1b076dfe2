--------------------------- MODULE MCRecordEngine ---------------------------
(* Instances of RecordEngine for TLC. *)
EXTENDS RecordEngine, TLC

CONSTANTS u, v        \* clients
CONSTANTS NoRow       \* the absent record

MCRecords == [rev : 0..2, val : {"a", "b"}]
Symmetry == Permutations({u, v})
=============================================================================
