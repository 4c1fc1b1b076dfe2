------------------------------ MODULE TaskGraph ------------------------------
(***************************************************************************)
(* The durable task graph: every node is a task record, its status shared  *)
(* with the execution fabric and its plan the graph's own snapshot of the  *)
(* node.  A graph call computes the new node from one read of the record   *)
(* and writeNode puts it over the record of a second read; that read and   *)
(* the guarded put behind it are one step here, because the put succeeds   *)
(* only over exactly the record read.  A fabric call takes effect at the   *)
(* one write ExecutionFabric gives it, over exactly the record it read.    *)
(***************************************************************************)
EXTENDS Integers, FiniteSets

CONSTANTS
    Clients,      \* concurrent callers of the graph
    Tasks,
    Scopes,       \* owned-path scopes, as the sets of what the paths own
    Lanes, Leases, Asks,
    None,         \* null: no assignment, no lease
    MaxWrites     \* bound: record writes, over all tasks

ASSUME GraphAssumption ==
    /\ None \notin Clients \cup Tasks \cup Leases /\ None \notin [lane : Lanes, lease : Leases]
    /\ MaxWrites \in Nat \ {0}

States == {"PENDING", "RUNNING", "PAUSED", "CANCELLED", "COMPLETED", "FAILED"}
Statuses == {"QUEUED", "RUNNING", "PAUSED", "AWAITING_INPUT", "CANCELLED", "COMPLETED", "FAILED"}
Terminal == {"CANCELLED", "COMPLETED"}
Assignments == [lane : Lanes, lease : Leases]

(* node.ts: the typed transitions, and a node as a view of its record.     *)
TASK_NODE_TRANSITIONS ==
    {"PENDING"} \X {"RUNNING", "CANCELLED", "PAUSED"}
    \cup {"RUNNING", "PAUSED"} \X {"CANCELLED", "COMPLETED", "FAILED"}
    \cup {<<"RUNNING", "PAUSED">>, <<"PAUSED", "RUNNING">>, <<"FAILED", "PENDING">>}

Legal(from, to) == <<from, to>> \in TASK_NODE_TRANSITIONS

NodeState(status) ==
    CASE status = "QUEUED" -> "PENDING"
      [] status = "AWAITING_INPUT" -> "PAUSED"
      [] OTHER -> status

(* Mutant: the node's state is stored as it is.                            *)
RecordStatusUnmapped(n) ==
    IF n.state = "PAUSED" /\ n.plan.asks # {} THEN "AWAITING_INPUT" ELSE n.state

RecordStatus(n) ==
    CASE n.state = "PENDING" -> "QUEUED"
      [] n.state = "PAUSED" /\ n.plan.asks # {} -> "AWAITING_INPUT"
      [] OTHER -> n.state

NodeOf(r) ==
    [state |-> NodeState(r.status),
     plan |-> [r.plan EXCEPT !.chain = @ \cap 1..r.cps]]

NewPlan(paths, deps) ==
    [paths |-> paths, deps |-> deps, asg |-> None, asks |-> {}, recovery |-> "NONE",
     chain |-> {}, vref |-> FALSE]

NoRecord ==
    [status |-> "NONE", plan |-> NewPlan({}, {}), lease |-> None, cps |-> 0, verified |-> FALSE]

Fresh(n) == [NoRecord EXCEPT !.status = "QUEUED", !.plan = n.plan]

(* The record writeNode puts: the node over the record as it is now.       *)
Written(r, n) ==
    [r EXCEPT !.status = RecordStatus(n), !.plan = n.plan,
              !.lease = IF n.plan.asg = None THEN @ ELSE n.plan.asg.lease]

VARIABLES
    record,       \* the durable task records
    call,         \* each client's call: its operation, await, task and new node
    writes,       \* the record writes so far
    overtaken,    \* auxiliary: the clients whose task was written since they read it
    raced         \* auxiliary: an overtaken call has written, or two assignments overlapped

vars == <<record, call, writes, overtaken, raced>>

Ops == {"none", "add", "assign", "fail", "retry", "ask", "resolve", "pin", "verify", "adopt",
        "chain"}
Awaits == {"none", "list", "list_new", "get", "get_adopt", "put", "put_new"}

NoNode == [state |-> "PENDING", plan |-> NewPlan({}, {})]
NoCall == [op |-> "none", at |-> "none", task |-> None, node |-> NoNode]

Init ==
    /\ record = [t \in Tasks |-> NoRecord]
    /\ call = [c \in Clients |-> NoCall]
    /\ writes = 0
    /\ overtaken = {} /\ raced = FALSE

Stored(t) == record[t] # NoRecord
Node(t) == NodeOf(record[t])

Begin(c, o, a, t, n) ==
    /\ call[c] = NoCall /\ writes < MaxWrites
    /\ call' = [call EXCEPT ![c] = [op |-> o, at |-> a, task |-> t, node |-> n]]
    /\ UNCHANGED <<record, writes, overtaken, raced>>

(* A call on a stored node that is going to write n in its place.          *)
BeginWrite(c, o, t, n) == Stored(t) /\ Begin(c, o, "put", t, n)

(* The call has returned or thrown.                                        *)
Over(c) ==
    /\ call' = [call EXCEPT ![c] = NoCall]
    /\ overtaken' = overtaken \ {c}

Await(c, a, n) ==
    /\ call' = [call EXCEPT ![c].at = a, ![c].node = n]
    /\ UNCHANGED <<record, writes>>

Store(t, r) ==
    /\ record' = [record EXCEPT ![t] = r]
    /\ writes' = writes + 1

(* Every other call on t has now read an older record.                     *)
Overtake(t, c) ==
    overtaken' = (overtaken \cup {d \in Clients : call[d].task = t}) \ {c}

-----------------------------------------------------------------------------
(* addNode: the existence check, the structural scan, the first write.     *)

BeginAdd(c, t) ==
    /\ ~Stored(t) /\ \A d \in Clients : call[d].task # t
    /\ \E paths \in Scopes, deps \in SUBSET (Tasks \ {t}) :
          Begin(c, "add", "list_new", t, [state |-> "PENDING", plan |-> NewPlan(paths, deps)])

AddList(c) ==
    /\ call[c].at = "list_new"
    /\ \A d \in call[c].node.plan.deps : Stored(d)
    /\ Await(c, "put_new", call[c].node)
    /\ UNCHANGED <<overtaken, raced>>

AddPut(c) ==
    /\ call[c].at = "put_new"
    /\ Store(call[c].task, Fresh(call[c].node))
    /\ Over(c)
    /\ UNCHANGED raced

-----------------------------------------------------------------------------
(* assign: PENDING, dependencies COMPLETED, then the scopes and lanes of   *)
(* the active nodes, each from a read of its own.                          *)

BeginAssign(c, t) ==
    /\ Stored(t) /\ Node(t).state = "PENDING"
    /\ \E l \in Lanes, s \in Leases :
          Begin(c, "assign", "list", t,
                [Node(t) EXCEPT !.state = "RUNNING", !.plan.asg = [lane |-> l, lease |-> s]])

(* p and q may not both be active: common scope, or the same lane.         *)
Clash(p, q) ==
    \/ p.paths \cap q.paths # {}
    \/ p.asg # None /\ q.asg # None /\ p.asg.lane = q.asg.lane

(* Mutant: a paused node is taken for idle.                                *)
ActiveRunning(t) == Stored(t) /\ Node(t).state = "RUNNING"

Active(t) ==
    /\ Stored(t)
    /\ \/ Node(t).state = "RUNNING"
       \/ Node(t).state = "PAUSED" /\ Node(t).plan.asg # None

AssignList(c) ==
    LET plan == call[c].node.plan IN
    /\ call[c].at = "list"
    /\ \A d \in plan.deps : Stored(d) /\ Node(d).state = "COMPLETED"
    /\ \A o \in Tasks : Active(o) => ~Clash(plan, Node(o).plan)
    /\ Await(c, "put", call[c].node)
    /\ raced' = (raced \/ \E d \in Clients : call[d].op = "assign" /\ call[d].at = "put")
    /\ UNCHANGED overtaken

-----------------------------------------------------------------------------
(* The other graph-owned writes.                                           *)

RecordFailure(c, t) ==
    /\ Legal(Node(t).state, "FAILED")
    /\ \E k \in {"RETRYABLE", "TERMINAL"} :
          BeginWrite(c, "fail", t,
                [Node(t) EXCEPT !.state = "FAILED", !.plan.asg = None, !.plan.recovery = k])

(* Mutants: a retry that leaves the recovery state in the plan; one that   *)
(* re-queues whatever the state of the node.                               *)
RetryUncleared(c, t) ==
    /\ Node(t).state = "FAILED" /\ Node(t).plan.recovery = "RETRYABLE"
    /\ BeginWrite(c, "retry", t, [Node(t) EXCEPT !.state = "PENDING", !.plan.asg = None])

RetryAnyState(c, t) ==
    BeginWrite(c, "retry", t,
          [Node(t) EXCEPT !.state = "PENDING", !.plan.asg = None, !.plan.recovery = "NONE"])

Retry(c, t) ==
    /\ Node(t).state = "FAILED" /\ Node(t).plan.recovery = "RETRYABLE"
    /\ BeginWrite(c, "retry", t,
          [Node(t) EXCEPT !.state = "PENDING", !.plan.asg = None, !.plan.recovery = "NONE"])

RecordAsk(c, t) ==
    /\ Node(t).state = "PAUSED" \/ Legal(Node(t).state, "PAUSED")
    /\ \E a \in Asks \ Node(t).plan.asks :
          BeginWrite(c, "ask", t, [Node(t) EXCEPT !.state = "PAUSED", !.plan.asks = @ \cup {a}])

ResolveAsk(c, t) ==
    \E a \in Node(t).plan.asks :
        BeginWrite(c, "resolve", t, [Node(t) EXCEPT !.plan.asks = @ \ {a}])

(* recordWorkspaceRevision: the revision itself is not modelled.           *)
RecordWorkspaceRevision(c, t) == BeginWrite(c, "pin", t, Node(t))

(* Mutant: pinning the reference also completes the node.                  *)
RecordVerificationRefCompleting(c, t) ==
    BeginWrite(c, "verify", t, [Node(t) EXCEPT !.state = "COMPLETED", !.plan.vref = TRUE])

RecordVerificationRef(c, t) ==
    /\ Node(t).state = "COMPLETED"
    /\ BeginWrite(c, "verify", t, [Node(t) EXCEPT !.plan.vref = TRUE])

(* recordCheckpointRef reads the record once more before it chains.        *)
RecordCheckpointRef(c, t) ==
    /\ Stored(t)
    /\ \E k \in 1..record[t].cps + 1 \ Node(t).plan.chain :
          Begin(c, "chain", "get", t, [Node(t) EXCEPT !.plan.chain = @ \cup {k}])

(* Mutant: the checkpoint is taken on trust.                               *)
ChainGetUnchecked(c) ==
    call[c].at = "get" /\ Await(c, "put", call[c].node) /\ UNCHANGED <<overtaken, raced>>

ChainGet(c) ==
    /\ call[c].at = "get"
    /\ call[c].node.plan.chain \subseteq 1..record[call[c].task].cps
    /\ Await(c, "put", call[c].node)
    /\ UNCHANGED <<overtaken, raced>>

(* adoptFabricTransition, with the node its caller read earlier.           *)
BeginAdopt(c, t) == Stored(t) /\ Begin(c, "adopt", "get_adopt", t, Node(t))

AdoptGet(c) ==
    LET prior == call[c].node
        current == Node(call[c].task) IN
    /\ call[c].at = "get_adopt"
    /\ \/ /\ Legal(prior.state, current.state)
          /\ current.state \in Terminal \cup {"FAILED"}
          /\ Await(c, "put", [current EXCEPT !.plan.asg = None])
          /\ overtaken' = overtaken \ {c}
       \/ /\ \/ current.state = prior.state
             \/ ~Legal(prior.state, current.state)
             \/ current.state \notin Terminal \cup {"FAILED"}
          /\ Over(c)
          /\ UNCHANGED <<record, writes>>
    /\ UNCHANGED raced

(* writeNode.                                                              *)
WriteNode(c) ==
    LET t == call[c].task IN
    /\ call[c].at = "put"
    /\ Store(t, Written(record[t], call[c].node))
    /\ call' = [call EXCEPT ![c] = NoCall]
    /\ Overtake(t, c)
    /\ raced' = (raced \/ c \in overtaken)

(* A check refuses, the put loses its race, a store rejects, or the        *)
(* process dies: the call ends at its await and the record stands.         *)
Fail(c) ==
    /\ call[c] # NoCall
    /\ Over(c)
    /\ UNCHANGED <<record, writes, raced>>

-----------------------------------------------------------------------------
(* The fabric's writes of the same record that change more than its lists  *)
(* of observations and artifacts and its revision.                         *)

FabricWrite(t, r) ==
    /\ Stored(t) /\ writes < MaxWrites
    /\ Store(t, r)
    /\ Overtake(t, None)
    /\ UNCHANGED <<call, raced>>

Open(t) == record[t].status \in {"RUNNING", "PAUSED"}

Pause(t) == record[t].status = "RUNNING" /\ FabricWrite(t, [record[t] EXCEPT !.status = "PAUSED"])

Resume(t) ==
    /\ record[t].status = "PAUSED" /\ record[t].lease # None
    /\ FabricWrite(t, [record[t] EXCEPT !.status = "RUNNING"])

Cancel(t) == Open(t) /\ FabricWrite(t, [record[t] EXCEPT !.status = "CANCELLED"])

Complete(t) ==
    Open(t) /\ FabricWrite(t, [record[t] EXCEPT !.status = "COMPLETED", !.verified = TRUE])

ReplaceBody(t) ==
    /\ record[t].lease # None
    /\ \E s \in Leases \ {record[t].lease} :
          FabricWrite(t, [record[t] EXCEPT !.lease = s,
                               !.status = IF @ = "RUNNING" THEN "PAUSED" ELSE @])

RecordCheckpoint(t) == Open(t) /\ FabricWrite(t, [record[t] EXCEPT !.cps = @ + 1])

-----------------------------------------------------------------------------
BeginAny(c, t) ==
    \/ BeginAdd(c, t) \/ BeginAssign(c, t) \/ RecordFailure(c, t) \/ Retry(c, t)
    \/ RecordAsk(c, t) \/ ResolveAsk(c, t) \/ RecordWorkspaceRevision(c, t)
    \/ RecordVerificationRef(c, t) \/ RecordCheckpointRef(c, t) \/ BeginAdopt(c, t)

Proceed(c) ==
    AddList(c) \/ AddPut(c) \/ AssignList(c) \/ ChainGet(c) \/ AdoptGet(c) \/ WriteNode(c)

Fabric(t) ==
    \/ Pause(t) \/ Resume(t) \/ Cancel(t) \/ Complete(t) \/ ReplaceBody(t) \/ RecordCheckpoint(t)

Next ==
    \/ \E c \in Clients, t \in Tasks : BeginAny(c, t)
    \/ \E c \in Clients : Proceed(c) \/ Fail(c)
    \/ \E t \in Tasks : Fabric(t)

GraphSpec == Init /\ [][Next]_vars

-----------------------------------------------------------------------------
Plans ==
    [paths : Scopes \cup {{}}, deps : SUBSET Tasks, asg : Assignments \cup {None}, asks : SUBSET Asks,
     recovery : {"NONE", "RETRYABLE", "TERMINAL"}, chain : SUBSET Nat, vref : BOOLEAN]

TaskRecords ==
    [status : Statuses \cup {"NONE"}, plan : Plans, lease : Leases \cup {None}, cps : Nat,
     verified : BOOLEAN]

GraphTypeOK ==
    /\ record \in [Tasks -> TaskRecords]
    /\ call \in [Clients -> [op : Ops, at : Awaits, task : Tasks \cup {None},
                             node : [state : States, plan : Plans]]]
    /\ writes \in Nat
    /\ overtaken \subseteq Clients /\ raced \in BOOLEAN

(* Two writers share the record, the fabric its status and the graph its   *)
(* plan, and a graph call may write over a status it never saw; yet the    *)
(* two columns never disagree: a recovery decision exactly on FAILED       *)
(* nodes, an assignment never on a node that waits for one, an ask overlay *)
(* only over pending asks (G6, G4).                                        *)
PlanAgreesWithStatus ==
    \A t \in Tasks :
        /\ record[t].status = "FAILED" <=> record[t].plan.recovery # "NONE"
        /\ record[t].plan.asg # None => record[t].status \notin {"QUEUED", "FAILED"}
        /\ record[t].status = "AWAITING_INPUT" => record[t].plan.asks # {}

(* Section 10: no interleaving of graph and fabric writes makes a task     *)
(* COMPLETED that no verification record completed.                        *)
CompletedIsVerified ==
    \A t \in Tasks : record[t].status = "COMPLETED" => record[t].verified

(* G5: the checkpoint chain never references a checkpoint the durable      *)
(* record does not hold, however old the node the chain was extended from. *)
ChainIsDurable ==
    \A t \in Tasks : record[t].plan.chain \subseteq 1..record[t].cps

(* "Never a silent overlap" (G3, G4): two assigned nodes are never active  *)
(* on common paths or on one lane, unless one of two races has happened: a *)
(* write over a record its call had not read, or overlapping assignments.  *)
OverlapNeedsARace ==
    raced \/ \A t, o \in {h \in Tasks : /\ record[h].status \in {"RUNNING", "PAUSED", "AWAITING_INPUT"}
                                     /\ record[h].plan.asg # None} :
        t # o => ~Clash(record[t].plan, record[o].plan)

(* A write over the record its call read is a legal typed transition, or   *)
(* keeps the state; COMPLETED and CANCELLED are terminal; asks leave only  *)
(* one by one.  (A write that was overtaken promises none of this.)        *)
UndisturbedWriteIsLegal ==
    [][\A c \in Clients :
          LET t == call[c].task
              before == Node(t)
              after == NodeOf(record'[t]) IN
          WriteNode(c) /\ c \notin overtaken =>
              /\ after.state # before.state => Legal(before.state, after.state)
              /\ Cardinality(before.plan.asks \ after.plan.asks) <= 1
              /\ before.plan.chain \subseteq after.plan.chain]_vars

(* replaceBodyForTask: the task record points at the replacement lease.    *)
(* Only an assignment binds the task to another one, at least when nobody  *)
(* gets in the way of the call.                                            *)
LeaseBindingStands ==
    [][\A c \in Clients :
          WriteNode(c) /\ c \notin overtaken /\ call[c].op # "assign"
             => record'[call[c].task].lease = record[call[c].task].lease]_vars
=============================================================================
