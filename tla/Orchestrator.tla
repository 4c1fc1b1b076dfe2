---------------------------- MODULE Orchestrator ----------------------------
(***************************************************************************)
(* The Spirit orchestrator's control loop and the worker runtime it drives *)
(* over the durable task graph.  One tick recovers failed tasks, assigns   *)
(* ready ones, runs every RUNNING task's program and ingests the results;  *)
(* a step is one durable write, or one call of a body, and the code up to  *)
(* the next.  A tick may die at any of them, and the process with it: the  *)
(* graph and the leases are durable, the bodies' sessions and the ask      *)
(* queue are not.  One orchestrator drives the graph; what other writers   *)
(* do to a graph write is TaskGraph's, what they do to a lease BodyBroker's*)
(***************************************************************************)
EXTENDS Integers, Sequences, FiniteSets, SequencesExt, FiniteSetsExt

CONSTANTS
    Tasks,
    NumBodies,       \* bodies are numbered in registration order
    NumLanes,
    RetryBudget,     \* RETRY_BUDGET
    Program,         \* each task's steps: "operation", "checkpoint", "ask"
    Dependencies,    \* the tasks each task waits for
    Colliding,       \* the tasks whose owned paths collide with a task's
    MaxDisturbances, \* bound: failures, deaths, suspensions and answers
    None             \* no task

ASSUME OrchestratorAssumption ==
    /\ NumBodies \in Nat \ {0} /\ NumLanes \in Nat \ {0}
    /\ RetryBudget \in Nat /\ MaxDisturbances \in Nat
    /\ Program \in [Tasks -> Seq({"operation", "checkpoint", "ask"})]
    /\ Dependencies \in [Tasks -> SUBSET Tasks]
    /\ Colliding \in [Tasks -> SUBSET Tasks]
    /\ \A t, o \in Tasks : t \in Colliding[o] => o \in Colliding[t]
    /\ None \notin Tasks

Bodies == 1..NumBodies
Lanes == 1..NumLanes
States == {"PENDING", "RUNNING", "PAUSED", "COMPLETED", "FAILED"}
Results == {"none", "COMPLETED_REPORT", "FAILED", "AUTHORITY_GAP", "ASK_REQUIRED"}
Points == {"idle", "recover", "retry", "dispatch", "acquire", "assign", "unassign", "execute",
           "step", "chain", "ingest", "park", "release", "complete", "adopt", "pin"}

VARIABLES
    node,        \* the graph: state, retries, lane (0: unassigned), chained step, ask, verification
    lease,       \* the lease each record is bound to: its body, and whether it is ACTIVE
    stray,       \* ACTIVE leases no record is bound to, by task and body
    recent,      \* the bodies each task has held a lease on, latest first
    env,         \* each body's session of a task: {} when none, else 0 and the operations done
    available,   \* the bodies in service
    queue,       \* the tasks with a PENDING entry in the ask queue
    pc, todo,    \* where the tick is, and the tasks left in this phase
    cur,         \* the task it works on
    fresh,       \* the lease it has just acquired
    at,          \* the steps of the program behind the worker
    result,      \* the worker results of this tick
    disturbances,
    died,        \* auxiliary: ticks that died holding a fresh lease, by task and body
    cut,         \* auxiliary: tasks whose completion was cut off by a death
    home,        \* auxiliary: the bodies whose session of a task reached its checkpoint
    moved        \* auxiliary: tasks that went on from it in a session that had not

durable == <<node, lease, stray, recent>>
memory == <<env, available, queue>>
locals == <<pc, todo, cur, fresh, at, result>>
aux == <<died, cut, home, moved>>
vars == <<durable, memory, locals, disturbances, aux>>

NoLease == [body |-> 0, live |-> FALSE]
NewNode ==
    [state |-> "PENDING", retries |-> 0, lane |-> 0, chain |-> 0, ask |-> FALSE, vref |-> FALSE]

Init ==
    /\ node = [t \in Tasks |-> NewNode]
    /\ lease = [t \in Tasks |-> NoLease]
    /\ stray = [t \in Tasks |-> [b \in Bodies |-> 0]]
    /\ recent = [t \in Tasks |-> <<>>]
    /\ env = [b \in Bodies |-> [t \in Tasks |-> {}]]
    /\ available = Bodies
    /\ queue = {}
    /\ pc = "idle" /\ todo = {} /\ cur = None /\ fresh = NoLease /\ at = 0
    /\ result = [t \in Tasks |-> "none"]
    /\ disturbances = 0
    /\ died = [t \in Tasks |-> [b \in Bodies |-> 0]] /\ cut = {}
    /\ home = [t \in Tasks |-> {}] /\ moved = {}

InState(s) == {t \in Tasks : node[t].state = s}

(* The tick goes on at p; the task in hand is done with.                   *)
Proceed(p) == pc' = p /\ UNCHANGED <<todo, cur, fresh, at, result>>
Settle(p) ==
    /\ pc' = p /\ todo' = todo \ {cur}
    /\ cur' = None /\ fresh' = NoLease /\ at' = 0

(* The phase is over: the next one starts from a new reading of the graph. *)
Phase(p, q, tasks) ==
    /\ pc = p /\ todo = {}
    /\ pc' = q /\ todo' = tasks
    /\ UNCHANGED <<durable, memory, cur, fresh, at, disturbances, aux>>

Disturb ==
    /\ disturbances < MaxDisturbances
    /\ disturbances' = disturbances + 1

-----------------------------------------------------------------------------
(* 1. Recovery: a failed task is queued again, its lease ended first.      *)

(* Mutant: the budget is checked one too late.                             *)
StartTickBeyond ==
    /\ InState("PENDING") \cup InState("RUNNING") \cup InState("FAILED") # {}
    /\ Phase("idle", "recover", {t \in InState("FAILED") : node[t].retries <= RetryBudget})
    /\ UNCHANGED result

StartTick ==
    /\ InState("PENDING") \cup InState("RUNNING") \cup InState("FAILED") # {}
    /\ Phase("idle", "recover", {t \in InState("FAILED") : node[t].retries < RetryBudget})
    /\ UNCHANGED result

(* Mutant: the task is queued again and its lease left alone.              *)
RecoverLeaseKept(t) ==
    /\ pc = "recover" /\ t \in todo
    /\ pc' = "retry" /\ cur' = t
    /\ UNCHANGED <<durable, memory, todo, fresh, at, result, disturbances, aux>>

RecoverLease(t) ==
    /\ pc = "recover" /\ t \in todo
    /\ lease' = [lease EXCEPT ![t].live = FALSE]
    /\ pc' = "retry" /\ cur' = t
    /\ UNCHANGED <<node, stray, recent, memory, todo, fresh, at, result, disturbances, aux>>

RetriedNode(n) == [n EXCEPT !.state = "PENDING", !.retries = n.retries + 1, !.lane = 0]

Retry ==
    /\ pc = "retry"
    /\ node' = [node EXCEPT ![cur] = RetriedNode(@)]
    /\ Settle("recover")
    /\ UNCHANGED <<lease, stray, recent, memory, result, disturbances, aux>>

Recovered == Phase("recover", "dispatch", InState("PENDING")) /\ UNCHANGED result

-----------------------------------------------------------------------------
(* 2. Dispatch: a free lane, finished dependencies, a body, a lease, and   *)
(* the assignment, whose own checks may still refuse.                      *)

(* Mutant: a parked task is taken for idle.                                *)
ActiveRunning == InState("RUNNING")

Active == InState("RUNNING") \cup {t \in InState("PAUSED") : node[t].lane # 0}

FreeLanes == Lanes \ {node[t].lane : t \in Active}

LeasedTo(b) ==
    {t \in Tasks : (lease[t].live /\ lease[t].body = b) \/ stray[t][b] > 0}

(* A retry goes back to the latest of its bodies no other task holds; else *)
(* to the first idle body; else to the first in service.                   *)
Select(t) ==
    LET back == {i \in DOMAIN recent[t] :
                    recent[t][i] \in available /\ LeasedTo(recent[t][i]) \subseteq {t}}
        idle == {b \in available : LeasedTo(b) = {}} IN
    CASE node[t].retries > 0 /\ back # {} -> recent[t][Min(back)]
      [] ~(node[t].retries > 0 /\ back # {}) /\ idle # {} -> Min(idle)
      [] OTHER -> Min(available)

(* Mutant: bodies are not shared; a task waits for an idle one.            *)
ReadyIdle(t) ==
    /\ FreeLanes # {} /\ \E b \in available : LeasedTo(b) = {}
    /\ \A d \in Dependencies[t] : node[d].state = "COMPLETED"

Ready(t) ==
    /\ FreeLanes # {} /\ available # {}
    /\ \A d \in Dependencies[t] : node[d].state = "COMPLETED"

Dispatch(t) ==
    /\ pc = "dispatch" /\ t \in todo
    /\ \/ /\ Ready(t)
          /\ fresh' = [body |-> Select(t), live |-> FALSE]
          /\ pc' = "acquire" /\ cur' = t
          /\ UNCHANGED todo
       \/ ~Ready(t) /\ todo' = todo \ {t} /\ UNCHANGED <<pc, cur, fresh>>
    /\ UNCHANGED <<durable, memory, at, result, disturbances, aux>>

Acquire ==
    /\ pc = "acquire"
    /\ \/ /\ fresh.body \in available
          /\ fresh' = [fresh EXCEPT !.live = TRUE]
          /\ recent' = [recent EXCEPT ![cur] = <<fresh.body>> \o RemoveFirst(@, fresh.body)]
          /\ pc' = "assign"
          /\ UNCHANGED <<todo, cur, at>>
       \/ fresh.body \notin available /\ Settle("dispatch") /\ UNCHANGED recent
    /\ UNCHANGED <<node, lease, stray, memory, result, disturbances, aux>>

(* A bound lease that is still ACTIVE is left to itself.                   *)
Assign ==
    /\ pc = "assign"
    /\ Colliding[cur] \cap Active = {}
    /\ node' = [node EXCEPT ![cur] = [@ EXCEPT !.state = "RUNNING", !.lane = Min(FreeLanes)]]
    /\ lease' = [lease EXCEPT ![cur] = fresh]
    /\ stray' = IF lease[cur].live THEN [stray EXCEPT ![cur][lease[cur].body] = @ + 1] ELSE stray
    /\ Settle("dispatch")
    /\ UNCHANGED <<recent, memory, result, disturbances, aux>>

AssignRefused ==
    /\ pc = "assign"
    /\ Colliding[cur] \cap Active # {}
    /\ Proceed("unassign")
    /\ UNCHANGED <<durable, memory, disturbances, aux>>

(* Mutant: the refusal is recorded and the fresh lease forgotten.          *)
UnassignKept ==
    /\ pc = "unassign"
    /\ stray' = [stray EXCEPT ![cur][fresh.body] = @ + (IF fresh.live THEN 1 ELSE 0)]
    /\ Settle("dispatch")
    /\ UNCHANGED <<node, lease, recent, memory, result, disturbances, aux>>

Unassign ==
    /\ pc = "unassign"
    /\ Settle("dispatch")
    /\ UNCHANGED <<durable, memory, result, disturbances, aux>>

Dispatched ==
    /\ Phase("dispatch", "execute", InState("RUNNING"))
    /\ result' = [t \in Tasks |-> "none"]

-----------------------------------------------------------------------------
(* 3. Execute: the worker establishes its session on the leased body and   *)
(* runs the program from the last chained checkpoint, or from zero when    *)
(* the body had to adopt the task.                                         *)

Report(r) ==
    /\ result' = [result EXCEPT ![cur] = r]
    /\ Settle("execute")

Resuming(t) == node[t].retries > 0 \/ node[t].chain > 0

(* Mutant: the run goes on from the checkpoint whatever the body holds.    *)
StartAtChain(t, b) == IF Resuming(t) THEN node[t].chain ELSE 0

StartAt(t, b) == IF Resuming(t) /\ env[b][t] # {} THEN node[t].chain ELSE 0

(* createTask opens a new environment; resumeTask keeps the one it finds.  *)
Session(t) ==
    LET b == lease[t].body IN
    /\ pc = "execute" /\ t \in todo
    /\ at' = StartAt(t, b)
    /\ env' = IF Resuming(t) /\ env[b][t] # {} THEN env ELSE [env EXCEPT ![b][t] = {0}]
    /\ home' = IF env'[b][t] = {0} THEN [home EXCEPT ![t] = @ \ {b}] ELSE home
    /\ moved' = IF node[t].chain > 0 /\ env[b][t] # {} /\ b \notin home[t]
                THEN moved \cup {t} ELSE moved
    /\ pc' = "step" /\ cur' = t
    /\ UNCHANGED <<durable, available, queue, todo, fresh, result, disturbances, died, cut>>

Running(kind) ==
    /\ pc = "step" /\ at < Len(Program[cur])
    /\ Program[cur][at + 1] = kind

Effect == [env EXCEPT ![lease[cur].body][cur] = @ \cup {at + 1}]

(* The fabric's gates: an operation needs the ACTIVE lease.                *)
Operate ==
    /\ Running("operation")
    /\ \/ lease[cur].live /\ env' = Effect /\ at' = at + 1 /\ UNCHANGED <<pc, todo, cur, fresh, result>>
       \/ ~lease[cur].live /\ Report("FAILED") /\ UNCHANGED env
    /\ UNCHANGED <<durable, available, queue, disturbances, aux>>

(* The checkpoint is durable first and chained into the node after.        *)
Checkpoint ==
    /\ Running("checkpoint")
    /\ Proceed("chain")
    /\ UNCHANGED <<durable, memory, disturbances, aux>>

Chain ==
    /\ pc = "chain"
    /\ node' = [node EXCEPT ![cur].chain = at + 1]
    /\ pc' = "step" /\ at' = at + 1
    /\ home' = [home EXCEPT ![cur] = {lease[cur].body}]
    /\ UNCHANGED <<lease, stray, recent, memory, todo, cur, fresh, result, disturbances,
                   died, cut, moved>>

AskStep ==
    /\ Running("ask")
    /\ Report("ASK_REQUIRED")
    /\ UNCHANGED <<durable, memory, disturbances, aux>>

ProgramEnds ==
    /\ pc = "step" /\ at = Len(Program[cur])
    /\ Report("COMPLETED_REPORT")
    /\ UNCHANGED <<durable, memory, disturbances, aux>>

(* A step crashes, is unsupported, or runs and fails, its effect done or   *)
(* not; or the authority gate denies it.                                   *)
StepFails ==
    /\ pc = "step" /\ at < Len(Program[cur]) /\ Disturb
    /\ \/ Report("FAILED") /\ env' \in {env, Effect}
       \/ Running("operation") /\ Report("AUTHORITY_GAP") /\ UNCHANGED env
    /\ UNCHANGED <<durable, available, queue, aux>>

Executed ==
    Phase("execute", "ingest", {t \in Tasks : result[t] # "none"}) /\ UNCHANGED result
-----------------------------------------------------------------------------
(* 4. Ingest.                                                              *)

(* Mutant: the failed node keeps its lane.                                 *)
FailedNodeAssigned(n) == [n EXCEPT !.state = "FAILED"]

FailedNode(n) == [n EXCEPT !.state = "FAILED", !.lane = 0]

RecordFailure(t) ==
    /\ node' = [node EXCEPT ![t] = FailedNode(@)]
    /\ todo' = todo \ {t}
    /\ UNCHANGED <<lease, stray, recent, memory, pc, cur, fresh, at, result, aux>>

IngestFailure(t) ==
    /\ pc = "ingest" /\ t \in todo /\ result[t] = "FAILED"
    /\ RecordFailure(t) /\ UNCHANGED disturbances

(* The grants may turn out to cover a gap; the verifier may reject.        *)
IngestDisputed(t) ==
    /\ pc = "ingest" /\ t \in todo /\ result[t] \in {"AUTHORITY_GAP", "COMPLETED_REPORT"}
    /\ Disturb /\ RecordFailure(t)

Escalate(t) ==
    /\ pc = "ingest" /\ t \in todo /\ result[t] \in {"ASK_REQUIRED", "AUTHORITY_GAP"}
    /\ queue' = queue \cup {t}
    /\ pc' = "park" /\ cur' = t
    /\ UNCHANGED <<durable, env, available, todo, fresh, at, result, disturbances, aux>>

Park ==
    /\ pc = "park"
    /\ node' = [node EXCEPT ![cur] = [@ EXCEPT !.state = "PAUSED", !.ask = TRUE]]
    /\ Settle("ingest")
    /\ UNCHANGED <<lease, stray, recent, memory, result, disturbances, aux>>

Verify(t) ==
    /\ pc = "ingest" /\ t \in todo /\ result[t] = "COMPLETED_REPORT"
    /\ pc' = "release" /\ cur' = t
    /\ UNCHANGED <<durable, memory, todo, fresh, at, result, disturbances, aux>>

(* fabric.completeTask ends the lease, then writes COMPLETED; the adoption *)
(* clears the assignment; the verification reference is pinned last.       *)
ReleaseLease ==
    /\ pc = "release"
    /\ lease' = [lease EXCEPT ![cur].live = FALSE]
    /\ Proceed("complete")
    /\ UNCHANGED <<node, stray, recent, memory, disturbances, aux>>

CompleteTask ==
    /\ pc = "complete"
    /\ node' = [node EXCEPT ![cur].state = "COMPLETED"]
    /\ Proceed("adopt")
    /\ UNCHANGED <<lease, stray, recent, memory, disturbances, aux>>

(* Mutant: the node to adopt from is read after the completion.            *)
AdoptUnchanged ==
    /\ pc = "adopt"
    /\ Proceed("pin")
    /\ UNCHANGED <<durable, memory, disturbances, aux>>

Adopt ==
    /\ pc = "adopt"
    /\ node' = [node EXCEPT ![cur].lane = 0]
    /\ Proceed("pin")
    /\ UNCHANGED <<lease, stray, recent, memory, disturbances, aux>>

PinVerification ==
    /\ pc = "pin"
    /\ node' = [node EXCEPT ![cur].vref = TRUE]
    /\ Settle("ingest")
    /\ UNCHANGED <<lease, stray, recent, memory, result, disturbances, aux>>

(* 5. The scan throws or not; it writes nothing.                           *)
TickEnds == Phase("ingest", "idle", {}) /\ result' = [t \in Tasks |-> "none"]

-----------------------------------------------------------------------------
(* Around the loop.                                                        *)

TickGone ==
    /\ pc' = "idle" /\ todo' = {} /\ cur' = None /\ fresh' = NoLease /\ at' = 0
    /\ result' = [t \in Tasks |-> "none"]
    /\ stray' = IF fresh.live THEN [stray EXCEPT ![cur][fresh.body] = @ + 1] ELSE stray
    /\ died' = IF fresh.live THEN [died EXCEPT ![cur][fresh.body] = @ + 1] ELSE died
    /\ cut' = IF pc \in {"adopt", "pin"} THEN cut \cup {cur} ELSE cut
    /\ UNCHANGED <<node, lease, recent, moved>>

(* A store or a body throws: the tick ends where it stands.                *)
TickDies == pc # "idle" /\ Disturb /\ TickGone /\ UNCHANGED <<memory, home>>

(* The process dies and a new one starts on the same durable stores.       *)
Restart ==
    /\ Disturb /\ TickGone
    /\ env' = [b \in Bodies |-> [t \in Tasks |-> {}]]
    /\ available' = Bodies /\ queue' = {}
    /\ home' = [t \in Tasks |-> {}]

(* broker.suspendBody, whose every lease of the body ends.                 *)
Suspend(b) ==
    /\ b \in available /\ Disturb
    /\ available' = available \ {b}
    /\ lease' = [t \in Tasks |-> [lease[t] EXCEPT !.live = @ /\ lease[t].body # b]]
    /\ stray' = [t \in Tasks |-> [stray[t] EXCEPT ![b] = 0]]
    /\ fresh' = [fresh EXCEPT !.live = @ /\ fresh.body # b]
    /\ UNCHANGED <<node, recent, env, queue, pc, todo, cur, at, result, aux>>

ResumeBody(b) ==
    /\ b \notin available
    /\ available' = available \cup {b}
    /\ UNCHANGED <<durable, env, queue, locals, disturbances, aux>>

(* An ask is answered, and the task resumed through the fabric's gates.    *)
AnsweredNode(n, live) ==
    [n EXCEPT !.ask = FALSE, !.state = IF live THEN "RUNNING" ELSE n.state]

Answer(t) ==
    /\ t \in queue /\ node[t].ask /\ Disturb
    /\ queue' = queue \ {t}
    /\ node' = [node EXCEPT ![t] = AnsweredNode(@, lease[t].live)]
    /\ UNCHANGED <<lease, stray, recent, env, available, locals, aux>>

-----------------------------------------------------------------------------
TickStep ==
    \/ StartTick \/ Retry \/ Recovered
    \/ Acquire \/ Assign \/ AssignRefused \/ Unassign \/ Dispatched
    \/ Operate \/ Checkpoint \/ Chain \/ AskStep \/ ProgramEnds \/ Executed
    \/ Park \/ ReleaseLease \/ CompleteTask \/ Adopt \/ PinVerification \/ TickEnds
    \/ \E t \in Tasks :
          \/ RecoverLease(t) \/ Dispatch(t) \/ Session(t)
          \/ IngestFailure(t) \/ Escalate(t) \/ Verify(t)

Trouble ==
    \/ StepFails \/ TickDies \/ Restart
    \/ \E t \in Tasks : IngestDisputed(t) \/ Answer(t)
    \/ \E b \in Bodies : Suspend(b) \/ ResumeBody(b)

OrchestratorNext == TickStep \/ Trouble

(* The host drives ticks from its tick source while a task is active, and  *)
(* a tick that has begun runs on; nothing else is owed.                    *)
OrchestratorSpec == Init /\ [][OrchestratorNext]_vars /\ WF_vars(TickStep)
-----------------------------------------------------------------------------
Nodes ==
    [state : States, retries : 0..RetryBudget, lane : 0..NumLanes, chain : Nat, ask : BOOLEAN,
     vref : BOOLEAN]
Leases == [body : 0..NumBodies, live : BOOLEAN]

OrchestratorTypeOK ==
    /\ node \in [Tasks -> Nodes] /\ lease \in [Tasks -> Leases]
    /\ stray \in [Tasks -> [Bodies -> Nat]]
    /\ recent \in [Tasks -> Seq(Bodies)]
    /\ env \in [Bodies -> [Tasks -> SUBSET Nat]]
    /\ available \subseteq Bodies /\ queue \subseteq Tasks
    /\ pc \in Points /\ todo \subseteq Tasks /\ cur \in Tasks \cup {None}
    /\ fresh \in Leases /\ at \in Nat /\ result \in [Tasks -> Results]
    /\ disturbances \in Nat /\ died \in [Tasks -> [Bodies -> Nat]] /\ cut \subseteq Tasks
    /\ home \in [Tasks -> SUBSET Bodies] /\ moved \subseteq Tasks

(* "Never a silent overlap": the tasks that hold a lane, the parked ones   *)
(* and those of ticks that died included, hold different lanes and collide *)
(* on no path.                                                             *)
NoOverlap ==
    \A t, o \in Active :
        t # o => node[t].lane # node[o].lane /\ o \notin Colliding[t]

(* Every ACTIVE lease is the one its task's record is bound to, except for *)
(* one per tick that died between the acquisition, of that task and body,  *)
(* and the assignment.                                                     *)
StrayLeasesNeedADeath ==
    \A t \in Tasks, b \in Bodies : stray[t][b] <= died[t][b]

(* The scan at the end of a tick finds nothing to throw on (G4, G7) unless *)
(* a tick died between a completion and its last write.                    *)
ScanHolds ==
    pc = "idle" => \A t \in Tasks \ cut :
        /\ node[t].state = "RUNNING" => node[t].lane # 0
        /\ node[t].lane # 0 => node[t].state \in {"RUNNING", "PAUSED"}
        /\ node[t].state = "COMPLETED" => node[t].vref

Operations(t) == {i \in DOMAIN Program[t] : Program[t][i] = "operation"}

RanWhole(t) ==
    result[t] = "COMPLETED_REPORT" => Operations(t) \subseteq env[lease[t].body][t]

(* A completion report means that every operation of the program was done  *)
(* in the environment of the body that reports, across retries, deaths,    *)
(* restarts and adoptions, as long as the task never went on from its      *)
(* checkpoint in a session that had not reached it.                        *)
WholeProgramRan == \A t \in Tasks \ moved : RanWhole(t)

(* runtime.ts, adoption: "the checkpoint's prior effects are gone -- the   *)
(* run restarts from ZERO": no report rests on steps of another body.      *)
NothingRestsOnLostEffects == \A t \in Tasks : RanWhole(t)

(* "their dead leases end first": a record is bound to a new lease only    *)
(* once the one it was bound to has ended.                                 *)
OneLiveBinding ==
    [][\A t \in Tasks : lease'[t] # lease[t] /\ lease'[t].live => ~lease[t].live]_vars

Waiting(t) ==
    /\ node[t].state = "PENDING"
    /\ \/ \E d \in Dependencies[t] : node[d].state # "COMPLETED"
       \/ available = {}
       \/ \E o \in Tasks \ {t} : /\ node[o].state = "PAUSED" /\ node[o].lane # 0
                                 /\ o \in Colliding[t] \/ FreeLanes = {}

(* Once disturbances cease, the loop leaves no task behind: each is        *)
(* COMPLETED, parked, FAILED with its retries spent, or waits for one that *)
(* is.                                                                     *)
MissionSettles ==
    <>[](\A t \in Tasks :
            \/ node[t].state \in {"COMPLETED", "PAUSED"}
            \/ node[t].state = "FAILED" /\ node[t].retries = RetryBudget
            \/ Waiting(t))
=============================================================================
