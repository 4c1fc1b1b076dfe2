--------------------------- MODULE MCOrchestrator ---------------------------
(* Small instances of the orchestrator for TLC.                            *)
EXTENDS Orchestrator, TLC

CONSTANTS s, t, u

OneProgram == s :> <<"operation", "checkpoint", "operation">>
OneAlone == s :> {}

(* Two tasks run side by side, the third collides with one of them.        *)
ThreePrograms ==
    s :> <<"operation", "checkpoint", "operation">> @@ t :> <<"operation", "ask">> @@ u :> <<"operation">>
ThreeAlone == s :> {} @@ t :> {} @@ u :> {}
ThreeColliding == s :> {} @@ t :> {u} @@ u :> {t}
ThreeChained == s :> {} @@ t :> {} @@ u :> {s}
=============================================================================
