-------------------------- MODULE MCCompanionHost --------------------------
(* Small instances of the companion host for TLC.                          *)
EXTENDS CompanionHost, TLC

CONSTANTS a, b, c, d

(* Three local orders, one with a step the companion's body does not offer,*)
(* and one for a body elsewhere.                                           *)
FourOrders ==
    a :> <<"surface", "emit">> @@ b :> <<"capture">> @@ c :> <<"foreign">> @@ d :> <<"foreign">>
=============================================================================
