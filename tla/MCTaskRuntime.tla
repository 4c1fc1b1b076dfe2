---------------------------- MODULE MCTaskRuntime ----------------------------
(* Small instances of the task runtime for TLC.                            *)
EXTENDS TaskRuntime, TLC

CONSTANTS t1, t2, c1, c2

Both ==
    t1 :> <<"operation", "checkpoint", "uncertainty">> @@ t2 :> <<"operation", "ask">>
Pair == t1 :> <<"operation", "checkpoint">> @@ t2 :> <<"operation", "checkpoint">>
CallerSymmetry == Permutations({c1, c2})
=============================================================================
