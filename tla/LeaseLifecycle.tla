---------------------------- MODULE LeaseLifecycle ----------------------------
(***************************************************************************)
(* The life of one body lease as live-store promises it: acquired once     *)
(* under its single-use id, renewed while ACTIVE, ended once, and never    *)
(* active again; every write is the next revision of the one before it.    *)
(***************************************************************************)
EXTENDS Integers

CONSTANTS NoLease, TerminalStates

VARIABLE lease

Acquire ==
    /\ lease = NoLease
    /\ lease' # NoLease /\ lease'.state = "ACTIVE" /\ lease'.rev = 1

Renew ==
    /\ lease # NoLease /\ lease.state = "ACTIVE"
    /\ lease' = [lease EXCEPT !.rev = @ + 1, !.expires = lease'.expires]

End ==
    /\ lease # NoLease /\ lease.state = "ACTIVE"
    /\ lease'.state \in TerminalStates
    /\ lease' = [lease EXCEPT !.rev = @ + 1, !.state = lease'.state]

LifeSpec == lease = NoLease /\ [][Acquire \/ Renew \/ End]_lease
=============================================================================
