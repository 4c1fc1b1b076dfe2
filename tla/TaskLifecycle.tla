---------------------------- MODULE TaskLifecycle ----------------------------
(***************************************************************************)
(* The life of one bounded task as the execution fabric promises it: it is *)
(* created once; every later write extends the record before it by one     *)
(* revision and forgets nothing; only RUNNING and PAUSED tasks change      *)
(* status; COMPLETED needs the Spirit-side verification record; a body     *)
(* replacement parks the task and moves it to a later lease.               *)
(***************************************************************************)
EXTENDS Integers

CONSTANT NoTask

VARIABLE task

Open == task # NoTask /\ task.status \in {"RUNNING", "PAUSED"}

Create ==
    /\ task = NoTask
    /\ task' # NoTask /\ task'.status = "RUNNING" /\ task'.rev = 1
    /\ task'.obs = 1 /\ task'.cps = 0 /\ task'.arts = {} /\ ~task'.verified

(* What every write after the creation keeps.                              *)
Extends ==
    /\ task # NoTask /\ task'.rev = task.rev + 1
    /\ task'.obs \in task.obs + 1 .. task.obs + 2
    /\ task'.cps \in task.cps .. task.cps + 1
    /\ task.arts \subseteq task'.arts

(* Reports, denials and outcomes are recorded whatever the status;         *)
(* checkpoints and artifacts only while the task is open.                  *)
Record ==
    /\ Extends
    /\ task'.status = task.status /\ task'.lease = task.lease
    /\ task'.verified = task.verified
    /\ task'.cps # task.cps => Open
    /\ task'.arts # task.arts => task.status = "RUNNING"

Transition ==
    /\ Open /\ Extends
    /\ task' = [task EXCEPT !.status = task'.status, !.rev = @ + 1, !.obs = @ + 1,
                            !.verified = task'.verified]
    /\ task'.status \in {"RUNNING", "PAUSED", "CANCELLED", "COMPLETED"} \ {task.status}
    /\ task'.verified = (task'.status = "COMPLETED")

MoveToLease ==
    /\ Extends
    /\ task' = [task EXCEPT !.lease = task'.lease, !.rev = @ + 1, !.obs = @ + 1,
                            !.status = IF @ = "RUNNING" THEN "PAUSED" ELSE @]
    /\ task'.lease > task.lease

TaskSpec == task = NoTask /\ [][Create \/ Record \/ Transition \/ MoveToLease]_task
=============================================================================
