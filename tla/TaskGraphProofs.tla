--------------------------- MODULE TaskGraphProofs ---------------------------
(***************************************************************************)
(* Proofs about the task graph, for any clients, tasks, scopes, lanes,     *)
(* leases and asks, and any bound.  The stored record is sound whatever    *)
(* node overtook whatever write, because the node in flight carries its    *)
(* part of the agreement with it (Fits), and because what that part needs  *)
(* of the record only grows (Extends).                                     *)
(***************************************************************************)
EXTENDS TaskGraph, FiniteSetTheorems, TLAPS

Nodes == [state : States, plan : Plans]

(* What every stored record satisfies.                                     *)
Sound(r) ==
    /\ r.status = "NONE" => r = NoRecord
    /\ r.status = "FAILED" <=> r.plan.recovery # "NONE"
    /\ r.plan.asg # None => r.status \notin {"QUEUED", "FAILED"}
    /\ r.status = "AWAITING_INPUT" => r.plan.asks # {}
    /\ r.status = "COMPLETED" => r.verified
    /\ r.plan.chain \subseteq 1..r.cps

(* Node n may be written over record r.                                    *)
Agrees(n) ==
    /\ n.state = "FAILED" <=> n.plan.recovery # "NONE"
    /\ n.plan.asg # None => n.state \notin {"PENDING", "FAILED"}

Fits(n, r) == Agrees(n) /\ (n.state = "COMPLETED" => r.verified)

(* What every write over a stored record keeps.                            *)
Extends(r, s) ==
    /\ s \in TaskRecords /\ s.status # "NONE"
    /\ r.verified => s.verified
    /\ r.cps <= s.cps

Creating == {"list_new", "put_new"}
Writing == {"list", "get", "get_adopt", "put"}

CallFits(k, rec) ==
    /\ k.at \in Writing =>
          k.task \in Tasks /\ rec[k.task].status # "NONE" /\ Fits(k.node, rec[k.task])
    /\ k.at \in Writing \ {"get"} => k.node.plan.chain \subseteq 1..rec[k.task].cps
    /\ k.at \in Creating =>
          /\ k.task \in Tasks /\ rec[k.task].status = "NONE"
          /\ Agrees(k.node) /\ k.node.plan.recovery = "NONE" /\ k.node.plan.asg = None
          /\ k.node.plan.chain = {}

(* A creation has its task to itself.                                      *)
CreatorsAlone ==
    \A c, d \in Clients :
        c # d /\ call[c].at \in Creating => call[d].task # call[c].task

GraphInv ==
    /\ GraphTypeOK
    /\ \A t \in Tasks : Sound(record[t])
    /\ \A c \in Clients : CallFits(call[c], record)
    /\ CreatorsAlone

-----------------------------------------------------------------------------
(* Facts about one record and one node.                                    *)

(* nodeFromRecord: the view of a sound record is a node that fits it.      *)
LEMMA NodeFits ==
  ASSUME NEW r \in TaskRecords, Sound(r), r.status # "NONE"
  PROVE  /\ NodeOf(r) \in Nodes /\ Fits(NodeOf(r), r)
         /\ NodeOf(r).plan.chain \subseteq 1..r.cps
<1>1. NodeState(r.status) \in States
  BY DEF TaskRecords, Statuses, NodeState, States
<1>2. [r.plan EXCEPT !.chain = @ \cap 1..r.cps] \in Plans
  BY DEF TaskRecords, Plans
<1>3. NodeOf(r) \in Nodes
  BY <1>1, <1>2 DEF NodeOf, Nodes
<1>4. /\ NodeOf(r).plan.recovery = r.plan.recovery
      /\ NodeOf(r).plan.asg = r.plan.asg
      /\ NodeOf(r).plan.chain \subseteq 1..r.cps
  BY DEF NodeOf, TaskRecords, Plans
<1>5. /\ NodeState(r.status) = "FAILED" <=> r.status = "FAILED"
      /\ NodeState(r.status) = "PENDING" <=> r.status = "QUEUED"
      /\ NodeState(r.status) = "COMPLETED" <=> r.status = "COMPLETED"
  BY DEF TaskRecords, Statuses, NodeState
<1>6. NodeOf(r).state = NodeState(r.status)
  BY DEF NodeOf
<1> QED
  BY <1>3, <1>4, <1>5, <1>6 DEF Sound, Fits, Agrees

(* writeNode: a node that fits, written over a sound record, gives a sound *)
(* record that extends it.                                                 *)
LEMMA WrittenSound ==
  ASSUME NEW r \in TaskRecords, NEW n \in Nodes, r.status # "NONE",
         Fits(n, r), n.plan.chain \subseteq 1..r.cps
  PROVE  Sound(Written(r, n)) /\ Extends(r, Written(r, n))
<1> DEFINE w == Written(r, n)
           lease == IF n.plan.asg = None THEN r.lease ELSE n.plan.asg.lease
<1>1. n.state \in States /\ n.plan \in Plans
  BY DEF Nodes
<1>2. RecordStatus(n) \in Statuses
  BY <1>1 DEF RecordStatus, States, Statuses
<1>3. lease \in Leases \cup {None}
  BY <1>1 DEF Plans, Assignments, TaskRecords
<1>4. RecordStatus(n) \in Statuses \cup {"NONE"} /\ n.plan \in Plans
  BY <1>1, <1>2
<1>5. w \in TaskRecords
  <2> HIDE DEF lease
  <2>1. w = [r EXCEPT !.status = RecordStatus(n), !.plan = n.plan, !.lease = lease]
    BY DEF Written, lease
  <2> QED
    BY <1>3, <1>4, <2>1 DEF TaskRecords
<1>6. /\ w.status = RecordStatus(n) /\ w.plan = n.plan
      /\ w.cps = r.cps /\ w.verified = r.verified
  BY DEF Written, TaskRecords
<1>7. w.status # "NONE"
  BY <1>2, <1>6 DEF Statuses
<1>8. /\ RecordStatus(n) = "FAILED" <=> n.state = "FAILED"
      /\ RecordStatus(n) = "QUEUED" <=> n.state = "PENDING"
      /\ RecordStatus(n) = "COMPLETED" <=> n.state = "COMPLETED"
      /\ RecordStatus(n) = "AWAITING_INPUT" => n.plan.asks # {}
  BY <1>1 DEF RecordStatus, States
<1>9. Sound(w)
  BY <1>6, <1>7, <1>8 DEF Sound, Fits, Agrees
<1>10. r.cps \in Nat
  BY DEF TaskRecords
<1>11. Extends(r, w)
  BY <1>5, <1>6, <1>7, <1>10 DEF Extends
<1> QED
  BY <1>9, <1>11

(* What a call in flight needs of a record, every extension of it has.     *)
LEMMA ExtendsFits ==
  ASSUME NEW r \in TaskRecords, NEW s, NEW n, Extends(r, s)
  PROVE  /\ Fits(n, r) => Fits(n, s)
         /\ n.plan.chain \subseteq 1..r.cps => n.plan.chain \subseteq 1..s.cps
<1>1. r.cps \in Nat /\ s.cps \in Nat /\ r.cps <= s.cps
  BY DEF Extends, TaskRecords
<1>2. 1..r.cps \subseteq 1..s.cps
  BY <1>1
<1>3. Fits(n, r) => Fits(n, s)
  BY DEF Fits, Extends
<1> QED
  BY <1>2, <1>3

-----------------------------------------------------------------------------
(* Facts about one step.                                                   *)

Calls == [op : Ops, at : Awaits, task : Tasks \cup {None}, node : Nodes]

LEMMA CallTyped ==
  ASSUME GraphTypeOK
  PROVE  /\ call \in [Clients -> Calls] /\ record \in [Tasks -> TaskRecords]
         /\ writes \in Nat /\ overtaken \subseteq Clients /\ raced \in BOOLEAN
BY DEF GraphTypeOK, Calls, Nodes

LEMMA NoCallTyped == NoCall \in Calls /\ \A rec : CallFits(NoCall, rec)
<1>1. NewPlan({}, {}) \in Plans
  BY DEF NewPlan, Plans
<1>2. NoCall \in Calls
  BY <1>1 DEF NoCall, NoNode, Calls, Nodes, Ops, Awaits, States
<1>3. NoCall.at \notin Creating \cup Writing
  BY DEF NoCall, Creating, Writing
<1> QED
  BY <1>2, <1>3 DEF CallFits

LEMMA NoRecordTyped == NoRecord \in TaskRecords
<1>1. NewPlan({}, {}) \in Plans
  BY DEF NewPlan, Plans
<1> QED
  BY <1>1 DEF NoRecord, TaskRecords

(* No record is stored exactly where the status is none.                   *)
LEMMA StoredStatus ==
  ASSUME GraphInv, NEW t \in Tasks
  PROVE  Stored(t) <=> record[t].status # "NONE"
<1>1. NoRecord.status = "NONE"
  BY DEF NoRecord
<1>2. record[t].status = "NONE" => record[t] = NoRecord
  BY DEF GraphInv, Sound
<1> QED
  BY <1>1, <1>2 DEF Stored

(* A step that only moves the call of one client.                          *)
LEMMA CallMoves ==
  ASSUME GraphInv, NEW c \in Clients, NEW k \in Calls,
         record' = record, writes' = writes, call' = [call EXCEPT ![c] = k],
         overtaken' \subseteq Clients, raced' \in BOOLEAN,
         CallFits(k, record),
         \A d \in Clients \ {c} :
            k.at \in Creating \/ call[d].at \in Creating => call[d].task # k.task
  PROVE  GraphInv'
<1>1. call \in [Clients -> Calls] /\ record \in [Tasks -> TaskRecords] /\ writes \in Nat
  BY CallTyped DEF GraphInv
<1>2. call' \in [Clients -> Calls] /\ call'[c] = k /\ \A d \in Clients \ {c} : call'[d] = call[d]
  BY <1>1
<1>3. GraphTypeOK'
  BY <1>1, <1>2, Zenon DEF GraphTypeOK, Calls, Nodes
<1>4. \A t \in Tasks : Sound(record'[t])
  BY DEF GraphInv
<1>5. \A d \in Clients : CallFits(call'[d], record')
  BY <1>2 DEF GraphInv
<1>6. CreatorsAlone'
  BY <1>2, Zenon DEF GraphInv, CreatorsAlone
<1> QED
  BY <1>3, <1>4, <1>5, <1>6 DEF GraphInv

(* A write that extends a stored record; a call may end with it.           *)
LEMMA RecordMoves ==
  ASSUME GraphInv, NEW t \in Tasks, NEW s, record[t].status # "NONE",
         Sound(s), Extends(record[t], s),
         Store(t, s), overtaken' \subseteq Clients, raced' \in BOOLEAN,
         call' \in [Clients -> Calls],
         \A d \in Clients : call'[d] = call[d] \/ call'[d] = NoCall
  PROVE  GraphInv'
<1>1. call \in [Clients -> Calls] /\ record \in [Tasks -> TaskRecords] /\ writes \in Nat
  BY CallTyped DEF GraphInv
<1>2. s \in TaskRecords /\ s.status # "NONE"
  BY DEF Extends
<1>3. /\ record' \in [Tasks -> TaskRecords] /\ record'[t] = s
      /\ \A u \in Tasks \ {t} : record'[u] = record[u]
  BY <1>1, <1>2 DEF Store
<1>4. writes' \in Nat
  BY <1>1 DEF Store
<1>5. GraphTypeOK'
  BY <1>3, <1>4, Zenon DEF GraphTypeOK, Calls, Nodes
<1>6. \A u \in Tasks : Sound(record'[u])
  BY <1>3 DEF GraphInv
<1>7. ASSUME NEW d \in Clients, CallFits(call[d], record)
      PROVE  CallFits(call[d], record')
  <2>1. CASE call[d].task = t
    <3>1. /\ Fits(call[d].node, record[t]) => Fits(call[d].node, s)
          /\ call[d].node.plan.chain \subseteq 1..record[t].cps
                => call[d].node.plan.chain \subseteq 1..s.cps
      BY <1>1, ExtendsFits
    <3> QED
      BY <1>2, <1>3, <1>7, <2>1, <3>1 DEF CallFits
  <2>2. CASE call[d].task # t
    <3>1. call[d].task \in Tasks => record'[call[d].task] = record[call[d].task]
      BY <1>3, <2>2
    <3> QED
      BY <1>7, <3>1 DEF CallFits, Writing, Creating
  <2> QED
    BY <2>1, <2>2
<1>8. \A d \in Clients : CallFits(call'[d], record')
  BY <1>7, NoCallTyped DEF GraphInv
<1>9. CreatorsAlone'
  <2> SUFFICES ASSUME NEW c \in Clients, NEW d \in Clients, c # d, call'[c].at \in Creating
               PROVE  call'[d].task # call'[c].task
    BY DEF CreatorsAlone
  <2>1. NoCall.at \notin Creating /\ NoCall.task = None
    BY DEF NoCall, Creating
  <2>2. call'[c] = call[c]
    BY <2>1
  <2>3. call[d].task # call[c].task
    BY <2>2 DEF GraphInv, CreatorsAlone
  <2>4. call[c].task # None
    BY <2>2, GraphAssumption DEF GraphInv, CallFits
  <2> QED
    BY <2>1, <2>2, <2>3, <2>4
<1> QED
  BY <1>5, <1>6, <1>8, <1>9 DEF GraphInv

(* A call on a stored node begins.                                         *)
LEMMA WriteBegins ==
  ASSUME GraphInv, NEW c \in Clients, NEW t \in Tasks, NEW n \in Nodes,
         NEW o \in Ops, NEW a \in Writing,
         record[t].status # "NONE", Fits(n, record[t]),
         a = "get" \/ n.plan.chain \subseteq 1..record[t].cps,
         Begin(c, o, a, t, n)
  PROVE  GraphInv'
<1> DEFINE k == [op |-> o, at |-> a, task |-> t, node |-> n]
<1>1. k \in Calls
  BY DEF Calls, Writing, Awaits
<1>2. a \notin Creating
  BY DEF Writing, Creating
<1>3. CallFits(k, record)
  BY <1>2 DEF CallFits
<1>4. \A d \in Clients : call[d].at \in Creating => call[d].task # t
  BY DEF GraphInv, CallFits
<1>5. /\ record' = record /\ writes' = writes /\ call' = [call EXCEPT ![c] = k]
      /\ overtaken' \subseteq Clients /\ raced' \in BOOLEAN
  BY CallTyped, Zenon DEF GraphInv, Begin
<1> HIDE DEF k
<1>6. k.at = a /\ k.task = t
  BY DEF k
<1> QED
  BY <1>1, <1>2, <1>3, <1>4, <1>5, <1>6, CallMoves

(* A call ends and the record stands.                                      *)
LEMMA CallEnds ==
  ASSUME GraphInv, NEW c \in Clients, Over(c), UNCHANGED <<record, writes, raced>>
  PROVE  GraphInv'
<1>1. NoCall.at \notin Creating /\ NoCall.task = None
  BY DEF NoCall, Creating
<1>2. \A d \in Clients : call[d].at \in Creating => call[d].task # None
  BY GraphAssumption DEF GraphInv, CallFits
<1>3. overtaken' \subseteq Clients /\ raced' \in BOOLEAN
  BY CallTyped, Zenon DEF GraphInv, Over
<1> QED
  BY <1>1, <1>2, <1>3, NoCallTyped, CallMoves DEF Over

-----------------------------------------------------------------------------
(* The calls begin.                                                        *)

LEMMA StoredNode ==
  ASSUME GraphInv, NEW t \in Tasks, Stored(t)
  PROVE  /\ record[t] \in TaskRecords /\ record[t].status # "NONE"
         /\ Node(t) \in Nodes /\ Fits(Node(t), record[t])
         /\ Node(t).plan.chain \subseteq 1..record[t].cps
<1>1. record[t] \in TaskRecords /\ Sound(record[t])
  BY CallTyped DEF GraphInv
<1> QED
  BY <1>1, StoredStatus, NodeFits DEF Node

LEMMA AddBegins ==
  ASSUME GraphInv, NEW c \in Clients, NEW t \in Tasks, BeginAdd(c, t)
  PROVE  GraphInv'
<1>1. PICK paths \in Scopes, deps \in SUBSET (Tasks \ {t}) :
          Begin(c, "add", "list_new", t, [state |-> "PENDING", plan |-> NewPlan(paths, deps)])
  BY DEF BeginAdd
<1> DEFINE n == [state |-> "PENDING", plan |-> NewPlan(paths, deps)]
           k == [op |-> "add", at |-> "list_new", task |-> t, node |-> n]
<1>2. NewPlan(paths, deps) \in Plans
  BY DEF NewPlan, Plans
<1>3. k \in Calls
  BY <1>2 DEF Calls, Nodes, Ops, Awaits, States
<1>4. record[t].status = "NONE"
  BY StoredStatus DEF BeginAdd
<1>5. CallFits(k, record)
  BY <1>4 DEF CallFits, Writing, Creating, Agrees, NewPlan
<1>6. /\ record' = record /\ writes' = writes /\ call' = [call EXCEPT ![c] = k]
      /\ overtaken' \subseteq Clients /\ raced' \in BOOLEAN
  BY <1>1, CallTyped, Zenon DEF GraphInv, Begin
<1>7. \A d \in Clients : call[d].task # k.task
  BY DEF BeginAdd
<1> QED
  BY <1>3, <1>5, <1>6, <1>7, CallMoves

LEMMA AssignBegins ==
  ASSUME GraphInv, NEW c \in Clients, NEW t \in Tasks, BeginAssign(c, t)
  PROVE  GraphInv'
<1>1. PICK l \in Lanes, s \in Leases :
          Begin(c, "assign", "list", t,
                [Node(t) EXCEPT !.state = "RUNNING", !.plan.asg = [lane |-> l, lease |-> s]])
  BY DEF BeginAssign
<1> DEFINE n == [Node(t) EXCEPT !.state = "RUNNING", !.plan.asg = [lane |-> l, lease |-> s]]
<1>2. Stored(t) /\ Node(t).state = "PENDING"
  BY DEF BeginAssign
<1>3. /\ n \in Nodes /\ n.state = "RUNNING"
      /\ n.plan.recovery = Node(t).plan.recovery /\ n.plan.chain = Node(t).plan.chain
  BY <1>2, StoredNode DEF Nodes, Plans, States, Assignments
<1>4. Fits(n, record[t])
  BY <1>2, <1>3, StoredNode DEF Fits, Agrees
<1> HIDE DEF n
<1>5. "assign" \in Ops /\ "list" \in Writing
  BY DEF Ops, Writing
<1> QED
  BY <1>1, <1>2, <1>3, <1>4, <1>5, StoredNode, WriteBegins DEF n

(* A call that goes straight on to its put.                                *)
LEMMA PutBegins ==
  ASSUME GraphInv, NEW c \in Clients, NEW t \in Tasks, NEW o \in Ops, NEW n,
         BeginWrite(c, o, t, n),
         Stored(t) => n \in Nodes /\ Fits(n, record[t]) /\ n.plan.chain = Node(t).plan.chain
  PROVE  GraphInv'
<1>1. "put" \in Writing
  BY DEF Writing
<1> QED
  BY <1>1, StoredNode, WriteBegins DEF BeginWrite

LEMMA FailureBegins ==
  ASSUME GraphInv, NEW c \in Clients, NEW t \in Tasks, RecordFailure(c, t)
  PROVE  GraphInv'
<1>1. PICK k \in {"RETRYABLE", "TERMINAL"} :
          BeginWrite(c, "fail", t,
                [Node(t) EXCEPT !.state = "FAILED", !.plan.asg = None, !.plan.recovery = k])
  BY DEF RecordFailure
<1> DEFINE n == [Node(t) EXCEPT !.state = "FAILED", !.plan.asg = None, !.plan.recovery = k]
<1>2. Stored(t) => /\ n \in Nodes /\ n.state = "FAILED" /\ n.plan.asg = None
                   /\ n.plan.recovery = k /\ n.plan.chain = Node(t).plan.chain
  BY StoredNode DEF Nodes, Plans, States
<1>3. Stored(t) => Fits(n, record[t])
  BY <1>2 DEF Fits, Agrees
<1> HIDE DEF n
<1> QED
  BY <1>1, <1>2, <1>3, PutBegins DEF n, Ops

LEMMA RetryBegins ==
  ASSUME GraphInv, NEW c \in Clients, NEW t \in Tasks, Retry(c, t)
  PROVE  GraphInv'
<1> DEFINE n == [Node(t) EXCEPT !.state = "PENDING", !.plan.asg = None, !.plan.recovery = "NONE"]
<1>1. BeginWrite(c, "retry", t, n)
  BY DEF Retry
<1>2. Stored(t) => /\ n \in Nodes /\ n.state = "PENDING" /\ n.plan.asg = None
                   /\ n.plan.recovery = "NONE" /\ n.plan.chain = Node(t).plan.chain
  BY StoredNode DEF Nodes, Plans, States
<1>3. Stored(t) => Fits(n, record[t])
  BY <1>2 DEF Fits, Agrees
<1> HIDE DEF n
<1> QED
  BY <1>1, <1>2, <1>3, PutBegins DEF Ops

LEMMA AskBegins ==
  ASSUME GraphInv, NEW c \in Clients, NEW t \in Tasks, RecordAsk(c, t)
  PROVE  GraphInv'
<1>1. PICK a \in Asks \ Node(t).plan.asks :
          BeginWrite(c, "ask", t, [Node(t) EXCEPT !.state = "PAUSED", !.plan.asks = @ \cup {a}])
  BY DEF RecordAsk
<1> DEFINE n == [Node(t) EXCEPT !.state = "PAUSED", !.plan.asks = @ \cup {a}]
<1>2. Stored(t) => /\ n \in Nodes /\ n.state = "PAUSED"
                   /\ n.plan.asg = Node(t).plan.asg /\ n.plan.recovery = Node(t).plan.recovery
                   /\ n.plan.chain = Node(t).plan.chain
  BY StoredNode DEF Nodes, Plans, States
<1>3. Node(t).state # "FAILED"
  BY DEF RecordAsk, Legal, TASK_NODE_TRANSITIONS
<1>4. Stored(t) => Fits(n, record[t])
  BY <1>2, <1>3, StoredNode DEF Fits, Agrees
<1> HIDE DEF n
<1> QED
  BY <1>1, <1>2, <1>4, PutBegins DEF n, Ops

LEMMA ResolveBegins ==
  ASSUME GraphInv, NEW c \in Clients, NEW t \in Tasks, ResolveAsk(c, t)
  PROVE  GraphInv'
<1>1. PICK a \in Node(t).plan.asks :
          BeginWrite(c, "resolve", t, [Node(t) EXCEPT !.plan.asks = @ \ {a}])
  BY DEF ResolveAsk
<1> DEFINE n == [Node(t) EXCEPT !.plan.asks = @ \ {a}]
<1>2. Stored(t) => /\ n \in Nodes /\ n.state = Node(t).state
                   /\ n.plan.asg = Node(t).plan.asg /\ n.plan.recovery = Node(t).plan.recovery
                   /\ n.plan.chain = Node(t).plan.chain
  BY StoredNode DEF Nodes, Plans
<1>3. Stored(t) => Fits(n, record[t])
  BY <1>2, StoredNode DEF Fits, Agrees
<1> HIDE DEF n
<1> QED
  BY <1>1, <1>2, <1>3, PutBegins DEF n, Ops

LEMMA VerifyBegins ==
  ASSUME GraphInv, NEW c \in Clients, NEW t \in Tasks, RecordVerificationRef(c, t)
  PROVE  GraphInv'
<1> DEFINE n == [Node(t) EXCEPT !.plan.vref = TRUE]
<1>1. BeginWrite(c, "verify", t, n)
  BY DEF RecordVerificationRef
<1>2. Stored(t) => /\ n \in Nodes /\ n.state = Node(t).state
                   /\ n.plan.asg = Node(t).plan.asg /\ n.plan.recovery = Node(t).plan.recovery
                   /\ n.plan.chain = Node(t).plan.chain
  BY StoredNode DEF Nodes, Plans
<1>3. Stored(t) => Fits(n, record[t])
  BY <1>2, StoredNode DEF Fits, Agrees
<1> HIDE DEF n
<1> QED
  BY <1>1, <1>2, <1>3, PutBegins DEF Ops

LEMMA PinBegins ==
  ASSUME GraphInv, NEW c \in Clients, NEW t \in Tasks, RecordWorkspaceRevision(c, t)
  PROVE  GraphInv'
<1>1. BeginWrite(c, "pin", t, Node(t))
  BY DEF RecordWorkspaceRevision
<1> QED
  BY <1>1, StoredNode, PutBegins DEF Ops

LEMMA ChainBegins ==
  ASSUME GraphInv, NEW c \in Clients, NEW t \in Tasks, RecordCheckpointRef(c, t)
  PROVE  GraphInv'
<1>1. PICK k \in 1..record[t].cps + 1 \ Node(t).plan.chain :
          Begin(c, "chain", "get", t, [Node(t) EXCEPT !.plan.chain = @ \cup {k}])
  BY DEF RecordCheckpointRef
<1> DEFINE n == [Node(t) EXCEPT !.plan.chain = @ \cup {k}]
<1>2. Stored(t)
  BY DEF RecordCheckpointRef
<1>3. k \in Nat
  <2>1. record[t].cps \in Nat
    BY <1>2, StoredNode DEF TaskRecords
  <2> QED
    BY <2>1
<1>4. /\ n \in Nodes /\ n.state = Node(t).state
      /\ n.plan.asg = Node(t).plan.asg /\ n.plan.recovery = Node(t).plan.recovery
  BY <1>2, <1>3, StoredNode DEF Nodes, Plans
<1>5. Fits(n, record[t])
  BY <1>2, <1>4, StoredNode DEF Fits, Agrees
<1> HIDE DEF n
<1>6. "chain" \in Ops /\ "get" \in Writing
  BY DEF Ops, Writing
<1> QED
  BY <1>1, <1>2, <1>4, <1>5, <1>6, StoredNode, WriteBegins DEF n

LEMMA AdoptBegins ==
  ASSUME GraphInv, NEW c \in Clients, NEW t \in Tasks, BeginAdopt(c, t)
  PROVE  GraphInv'
<1>1. Stored(t) /\ Begin(c, "adopt", "get_adopt", t, Node(t))
  BY DEF BeginAdopt
<1>2. "adopt" \in Ops /\ "get_adopt" \in Writing
  BY DEF Ops, Writing
<1> QED
  BY <1>1, <1>2, StoredNode, WriteBegins

-----------------------------------------------------------------------------
(* The calls proceed.                                                      *)

(* A call takes node n to its next await.                                  *)
LEMMA CallAwaits ==
  ASSUME GraphInv, NEW c \in Clients, NEW a \in Awaits, NEW n \in Nodes,
         Await(c, a, n), overtaken' \subseteq Clients, raced' \in BOOLEAN,
         CallFits([call[c] EXCEPT !.at = a, !.node = n], record),
         a \in Creating => call[c].at \in Creating,
         call[c].task \in Tasks, call[c].at \in Creating \cup Writing
  PROVE  GraphInv'
<1> DEFINE k == [call[c] EXCEPT !.at = a, !.node = n]
<1>1. call \in [Clients -> Calls]
  BY CallTyped DEF GraphInv
<1>2. k \in Calls /\ k.at = a /\ k.task = call[c].task
  BY <1>1 DEF Calls
<1>3. call' = [call EXCEPT ![c] = k]
  BY <1>1 DEF Await, Calls
<1>4. record' = record /\ writes' = writes
  BY DEF Await
<1> HIDE DEF k
<1>5. \A d \in Clients \ {c} : call[c].at \in Creating \/ call[d].at \in Creating
                                  => call[d].task # call[c].task
  BY DEF GraphInv, CreatorsAlone
<1>6. CallFits(k, record)
  BY DEF k
<1>7. \A d \in Clients \ {c} : k.at \in Creating \/ call[d].at \in Creating
                                  => call[d].task # k.task
  BY <1>2, <1>5
<1> QED
  BY <1>2, <1>3, <1>4, <1>6, <1>7, CallMoves

LEMMA AddLists ==
  ASSUME GraphInv, NEW c \in Clients, AddList(c)
  PROVE  GraphInv'
<1>1. call[c] \in Calls /\ call[c].at = "list_new" /\ CallFits(call[c], record)
  BY CallTyped DEF GraphInv, AddList
<1>2. call[c].node \in Nodes /\ call[c].task \in Tasks
  BY <1>1 DEF Calls, CallFits, Creating
<1>3. CallFits([call[c] EXCEPT !.at = "put_new", !.node = call[c].node], record)
  BY <1>1 DEF Calls, CallFits, Creating, Writing
<1>4. overtaken' \subseteq Clients /\ raced' \in BOOLEAN
  BY CallTyped, Zenon DEF GraphInv, AddList
<1>5. Await(c, "put_new", call[c].node) /\ "put_new" \in Awaits /\ call[c].at \in Creating
  BY <1>1 DEF AddList, Awaits, Creating
<1> QED
  BY <1>2, <1>3, <1>4, <1>5, CallAwaits

(* A call goes on to its put: its node fits the record, the chain included. *)
LEMMA PutAwaits ==
  ASSUME GraphInv, NEW c \in Clients, NEW n \in Nodes, call[c].at \in Writing,
         Await(c, "put", n), overtaken' \subseteq Clients, raced' \in BOOLEAN,
         Fits(n, record[call[c].task]), n.plan.chain \subseteq 1..record[call[c].task].cps
  PROVE  GraphInv'
<1>1. call[c] \in Calls /\ CallFits(call[c], record)
  BY CallTyped DEF GraphInv
<1>2. call[c].task \in Tasks /\ record[call[c].task].status # "NONE"
  BY <1>1 DEF CallFits
<1>3. CallFits([call[c] EXCEPT !.at = "put", !.node = n], record)
  BY <1>1, <1>2 DEF Calls, CallFits, Creating, Writing
<1>4. "put" \in Awaits /\ "put" \notin Creating
  BY DEF Awaits, Creating
<1> QED
  BY <1>2, <1>3, <1>4, CallAwaits

LEMMA AssignLists ==
  ASSUME GraphInv, NEW c \in Clients, AssignList(c)
  PROVE  GraphInv'
<1>1. call[c] \in Calls /\ call[c].at = "list" /\ CallFits(call[c], record)
  BY CallTyped DEF GraphInv, AssignList
<1>2. call[c].node \in Nodes
  BY <1>1 DEF Calls
<1>3. /\ Fits(call[c].node, record[call[c].task])
      /\ call[c].node.plan.chain \subseteq 1..record[call[c].task].cps
  BY <1>1 DEF CallFits, Writing
<1>4. Await(c, "put", call[c].node) /\ call[c].at \in Writing
  BY <1>1 DEF AssignList, Writing
<1>5. overtaken' \subseteq Clients /\ raced' \in BOOLEAN
  BY CallTyped, Zenon DEF GraphInv, AssignList
<1> QED
  BY <1>2, <1>3, <1>4, <1>5, PutAwaits

LEMMA ChainGets ==
  ASSUME GraphInv, NEW c \in Clients, ChainGet(c)
  PROVE  GraphInv'
<1>1. call[c] \in Calls /\ call[c].at = "get" /\ CallFits(call[c], record)
  BY CallTyped DEF GraphInv, ChainGet
<1>2. call[c].node \in Nodes
  BY <1>1 DEF Calls
<1>3. /\ Fits(call[c].node, record[call[c].task])
      /\ call[c].node.plan.chain \subseteq 1..record[call[c].task].cps
  BY <1>1 DEF CallFits, Writing, ChainGet
<1>4. Await(c, "put", call[c].node) /\ call[c].at \in Writing
  BY <1>1 DEF ChainGet, Writing
<1>5. overtaken' \subseteq Clients /\ raced' \in BOOLEAN
  BY CallTyped, Zenon DEF GraphInv, ChainGet
<1> QED
  BY <1>2, <1>3, <1>4, <1>5, PutAwaits

LEMMA AdoptGets ==
  ASSUME GraphInv, NEW c \in Clients, AdoptGet(c)
  PROVE  GraphInv'
<1> DEFINE t == call[c].task
           n == [Node(t) EXCEPT !.plan.asg = None]
<1>1. call[c] \in Calls /\ call[c].at = "get_adopt" /\ CallFits(call[c], record)
  BY CallTyped DEF GraphInv, AdoptGet
<1>2. t \in Tasks /\ record[t].status # "NONE"
  BY <1>1 DEF CallFits, Writing
<1>3. Stored(t)
  BY <1>2, StoredStatus
<1>4. CASE Over(c) /\ UNCHANGED <<record, writes>>
  BY <1>4, CallEnds DEF AdoptGet
<1>5. CASE Await(c, "put", n) /\ overtaken' = overtaken \ {c}
  <2>1. /\ n \in Nodes /\ n.state = Node(t).state /\ n.plan.asg = None
        /\ n.plan.recovery = Node(t).plan.recovery /\ n.plan.chain = Node(t).plan.chain
    BY <1>2, <1>3, StoredNode DEF Nodes, Plans
  <2>2. Fits(n, record[t]) /\ n.plan.chain \subseteq 1..record[t].cps
    BY <1>2, <1>3, <2>1, StoredNode DEF Fits, Agrees
  <2>3. call[c].at \in Writing
    BY <1>1 DEF Writing
  <2>4. overtaken' \subseteq Clients /\ raced' \in BOOLEAN
    BY <1>5, CallTyped, Zenon DEF GraphInv, AdoptGet
  <2> HIDE DEF n
  <2> QED
    BY <1>5, <2>1, <2>2, <2>3, <2>4, PutAwaits
<1> QED
  BY <1>4, <1>5 DEF AdoptGet

-----------------------------------------------------------------------------
(* The writes.                                                             *)

LEMMA AddPuts ==
  ASSUME GraphInv, NEW c \in Clients, AddPut(c)
  PROVE  GraphInv'
<1> DEFINE t == call[c].task
           n == call[c].node
           s == Fresh(n)
<1>1. call \in [Clients -> Calls] /\ record \in [Tasks -> TaskRecords] /\ writes \in Nat
  BY CallTyped DEF GraphInv
<1>2. call[c].at = "put_new" /\ CallFits(call[c], record) /\ n \in Nodes
  BY <1>1 DEF GraphInv, AddPut, Calls
<1>3. /\ t \in Tasks /\ record[t].status = "NONE"
      /\ n.plan.recovery = "NONE" /\ n.plan.asg = None /\ n.plan.chain = {} /\ n.plan \in Plans
  BY <1>2 DEF CallFits, Creating, Nodes
<1>4. s \in TaskRecords
  BY <1>3, NoRecordTyped DEF Fresh, TaskRecords, Statuses
<1>5. s.status = "QUEUED" /\ s.plan = n.plan
  BY NoRecordTyped DEF Fresh, TaskRecords
<1> HIDE DEF n, s
<1>6. Sound(s)
  BY <1>3, <1>5 DEF Sound
<1>7. record' = [record EXCEPT ![t] = s] /\ writes' \in Nat /\ call' = [call EXCEPT ![c] = NoCall]
  BY <1>1 DEF AddPut, Store, Over, n, s
<1>8. overtaken' \subseteq Clients /\ raced' \in BOOLEAN
  BY CallTyped, Zenon DEF GraphInv, AddPut, Over
<1>9. /\ record' \in [Tasks -> TaskRecords] /\ record'[t] = s
      /\ \A u \in Tasks \ {t} : record'[u] = record[u]
  BY <1>1, <1>3, <1>4, <1>7
<1>10. /\ call' \in [Clients -> Calls] /\ call'[c] = NoCall
       /\ \A d \in Clients \ {c} : call'[d] = call[d] /\ call[d].task # t
  BY <1>1, <1>2, <1>7, NoCallTyped DEF GraphInv, CreatorsAlone, Creating
<1>11. GraphTypeOK'
  BY <1>7, <1>8, <1>9, <1>10, Zenon DEF GraphTypeOK, Calls, Nodes
<1>12. \A u \in Tasks : Sound(record'[u])
  BY <1>6, <1>9 DEF GraphInv
<1>13. \A d \in Clients : CallFits(call'[d], record')
  <2> SUFFICES ASSUME NEW d \in Clients \ {c} PROVE CallFits(call[d], record')
    BY <1>10, NoCallTyped
  <2>1. CallFits(call[d], record)
    BY DEF GraphInv
  <2>2. call[d].task \in Tasks => record'[call[d].task] = record[call[d].task]
    BY <1>9, <1>10
  <2> QED
    BY <2>1, <2>2 DEF CallFits, Writing, Creating
<1>14. CreatorsAlone'
  <2> SUFFICES ASSUME NEW b \in Clients, NEW d \in Clients, b # d, call'[b].at \in Creating
               PROVE  call'[d].task # call'[b].task
    BY DEF CreatorsAlone
  <2>1. NoCall.at \notin Creating /\ NoCall.task = None
    BY DEF NoCall, Creating
  <2>2. b # c /\ call'[b] = call[b]
    BY <1>10, <2>1
  <2>3. call[b].task \in Tasks /\ call[d].task # call[b].task
    BY <2>2 DEF GraphInv, CreatorsAlone, CallFits
  <2> QED
    BY <1>10, <2>1, <2>2, <2>3, GraphAssumption
<1> QED
  BY <1>11, <1>12, <1>13, <1>14 DEF GraphInv

LEMMA NodeWritten ==
  ASSUME GraphInv, NEW c \in Clients, WriteNode(c)
  PROVE  GraphInv'
<1> DEFINE t == call[c].task
           s == Written(record[t], call[c].node)
<1>1. call \in [Clients -> Calls] /\ record \in [Tasks -> TaskRecords]
  BY CallTyped DEF GraphInv
<1>2. call[c].at = "put" /\ CallFits(call[c], record) /\ call[c].node \in Nodes
  BY <1>1 DEF GraphInv, WriteNode, Calls
<1>3. /\ t \in Tasks /\ record[t].status # "NONE" /\ Fits(call[c].node, record[t])
      /\ call[c].node.plan.chain \subseteq 1..record[t].cps
  BY <1>2 DEF CallFits, Writing
<1>4. Sound(s) /\ Extends(record[t], s)
  BY <1>1, <1>2, <1>3, WrittenSound
<1>5. Store(t, s) /\ call' = [call EXCEPT ![c] = NoCall]
  BY DEF WriteNode
<1>6. overtaken' \subseteq Clients /\ raced' \in BOOLEAN
  BY CallTyped, Zenon DEF GraphInv, WriteNode, Overtake
<1>7. /\ call' \in [Clients -> Calls]
      /\ \A d \in Clients : call'[d] = call[d] \/ call'[d] = NoCall
  BY <1>1, <1>5, NoCallTyped
<1> HIDE DEF s, t
<1> QED
  BY <1>3, <1>4, <1>5, <1>6, <1>7, RecordMoves

(* The fabric's writes.                                                    *)
LEMMA FabricWrites ==
  ASSUME GraphInv, NEW t \in Tasks, NEW s, FabricWrite(t, s),
         record[t].status # "NONE" => Sound(s) /\ Extends(record[t], s)
  PROVE  GraphInv'
<1>1. record[t].status # "NONE"
  BY StoredStatus DEF FabricWrite
<1>2. Store(t, s) /\ call' = call
  BY DEF FabricWrite
<1>3. overtaken' \subseteq Clients /\ raced' \in BOOLEAN
  BY CallTyped, Zenon DEF GraphInv, FabricWrite, Overtake
<1>4. call \in [Clients -> Calls]
  BY CallTyped DEF GraphInv
<1> QED
  BY <1>1, <1>2, <1>3, <1>4, RecordMoves

LEMMA FabricKeeps ==
  ASSUME GraphInv, NEW t \in Tasks, Fabric(t)
  PROVE  GraphInv'
<1>1. record[t] \in TaskRecords /\ Sound(record[t])
  BY CallTyped DEF GraphInv
<1>2. record[t].cps \in Nat /\ record[t].verified \in BOOLEAN
  BY <1>1 DEF TaskRecords
<1>3. CASE Pause(t)
  BY <1>1, <1>2, <1>3, FabricWrites DEF Pause, Sound, Extends, TaskRecords, Statuses
<1>4. CASE Resume(t)
  BY <1>1, <1>2, <1>4, FabricWrites DEF Resume, Sound, Extends, TaskRecords, Statuses
<1>5. CASE Cancel(t)
  BY <1>1, <1>2, <1>5, FabricWrites DEF Cancel, Open, Sound, Extends, TaskRecords, Statuses
<1>6. CASE Complete(t)
  <2> DEFINE s == [record[t] EXCEPT !.status = "COMPLETED", !.verified = TRUE]
  <2>1. /\ s \in TaskRecords /\ s.status = "COMPLETED" /\ s.plan = record[t].plan
        /\ s.cps = record[t].cps
    BY <1>1 DEF TaskRecords, Statuses
  <2>2. s.verified
    BY <1>1, Zenon DEF TaskRecords
  <2>3. record[t].status \in {"RUNNING", "PAUSED"} /\ FabricWrite(t, s)
    BY <1>6 DEF Complete, Open
  <2> HIDE DEF s
  <2>4. Sound(s) /\ Extends(record[t], s)
    BY <1>1, <1>2, <2>1, <2>2, <2>3 DEF Sound, Extends
  <2> QED
    BY <2>3, <2>4, FabricWrites
<1>7. CASE ReplaceBody(t)
  <2>1. PICK l \in Leases \ {record[t].lease} :
            FabricWrite(t, [record[t] EXCEPT !.lease = l,
                                 !.status = IF @ = "RUNNING" THEN "PAUSED" ELSE @])
    BY <1>7 DEF ReplaceBody
  <2> DEFINE status == IF record[t].status = "RUNNING" THEN "PAUSED" ELSE record[t].status
             s == [record[t] EXCEPT !.lease = l, !.status = status]
  <2>2. /\ s \in TaskRecords /\ s.status = status /\ s.plan = record[t].plan
        /\ s.cps = record[t].cps /\ s.verified = record[t].verified
    BY <1>1 DEF TaskRecords, Statuses
  <2>3. FabricWrite(t, s)
    BY <2>1
  <2> HIDE DEF s
  <2>4. record[t].status # "NONE" => Sound(s) /\ Extends(record[t], s)
    BY <1>1, <1>2, <2>2 DEF Sound, Extends
  <2> QED
    BY <2>3, <2>4, FabricWrites
<1>8. CASE RecordCheckpoint(t)
  <2> DEFINE s == [record[t] EXCEPT !.cps = @ + 1]
  <2>1. /\ s \in TaskRecords /\ s.cps = record[t].cps + 1 /\ s.status = record[t].status
        /\ s.plan = record[t].plan /\ s.verified = record[t].verified
    BY <1>1 DEF TaskRecords
  <2>2. record[t].status \in {"RUNNING", "PAUSED"} /\ FabricWrite(t, s)
    BY <1>8 DEF RecordCheckpoint, Open
  <2> HIDE DEF s
  <2>3. 1..record[t].cps \subseteq 1..s.cps
    BY <1>2, <2>1
  <2>4. Sound(s)
    BY <1>1, <2>1, <2>2, <2>3 DEF Sound
  <2>5. Extends(record[t], s)
    BY <1>2, <2>1, <2>2 DEF Extends
  <2> QED
    BY <2>2, <2>4, <2>5, FabricWrites
<1> QED
  BY <1>3, <1>4, <1>5, <1>6, <1>7, <1>8 DEF Fabric

-----------------------------------------------------------------------------
(* The invariant and what it gives.                                        *)

LEMMA InitInv == ASSUME Init PROVE GraphInv
<1>3. call \in [Clients -> Calls] /\ record \in [Tasks -> TaskRecords]
  BY NoRecordTyped, NoCallTyped DEF Init
<1>4. GraphTypeOK
  BY <1>3 DEF GraphTypeOK, Calls, Nodes, Init
<1>5. Sound(NoRecord)
  BY DEF Sound, NoRecord, NewPlan
<1>6. \A t \in Tasks : Sound(record[t])
  BY <1>5 DEF Init
<1>7. \A c \in Clients : CallFits(call[c], record)
  BY NoCallTyped DEF Init
<1>8. CreatorsAlone
  BY DEF CreatorsAlone, Init, NoCall, Creating
<1> QED
  BY <1>4, <1>6, <1>7, <1>8 DEF GraphInv

LEMMA NextInv == ASSUME GraphInv, [Next]_vars PROVE GraphInv'
<1>1. ASSUME NEW c \in Clients, NEW t \in Tasks, BeginAny(c, t) PROVE GraphInv'
  BY <1>1, AddBegins, AssignBegins, FailureBegins, RetryBegins, AskBegins, ResolveBegins,
     VerifyBegins, PinBegins, ChainBegins, AdoptBegins DEF BeginAny
<1>2. ASSUME NEW c \in Clients, Proceed(c) PROVE GraphInv'
  BY <1>2, AddLists, AddPuts, AssignLists, ChainGets, AdoptGets, NodeWritten DEF Proceed
<1>3. ASSUME NEW c \in Clients, Fail(c) PROVE GraphInv'
  BY <1>3, CallEnds DEF Fail
<1>4. CASE UNCHANGED vars
  BY <1>4 DEF vars, GraphInv, GraphTypeOK, CreatorsAlone
<1> QED
  BY <1>1, <1>2, <1>3, <1>4, FabricKeeps DEF Next

(* The inductive invariant: every stored record is sound, every node in    *)
(* flight may be written over the record as it is, a creation is alone.    *)
THEOREM GraphInvariance == GraphSpec => []GraphInv
BY InitInv, NextInv, PTL DEF GraphSpec

(* Every reachable state of the graph is well typed.                       *)
THEOREM GraphTyping == GraphSpec => []GraphTypeOK
<1>1. GraphInv => GraphTypeOK
  BY DEF GraphInv
<1> QED
  BY <1>1, GraphInvariance, PTL

(* Status and plan of a record agree, whoever wrote them (G4, G6).         *)
THEOREM StatusAndPlanAgree == GraphSpec => []PlanAgreesWithStatus
<1>1. GraphInv => PlanAgreesWithStatus
  BY DEF GraphInv, Sound, PlanAgreesWithStatus
<1> QED
  BY <1>1, GraphInvariance, PTL

(* Nothing is COMPLETED that was never verified (section 10).              *)
THEOREM CompletionIsVerified == GraphSpec => []CompletedIsVerified
<1>1. GraphInv => CompletedIsVerified
  BY DEF GraphInv, Sound, CompletedIsVerified
<1> QED
  BY <1>1, GraphInvariance, PTL

(* The chain names only checkpoints of the durable record (G5).            *)
THEOREM ChainsAreDurable == GraphSpec => []ChainIsDurable
<1>1. GraphInv => ChainIsDurable
  BY DEF GraphInv, Sound, ChainIsDurable
<1> QED
  BY <1>1, GraphInvariance, PTL
-----------------------------------------------------------------------------
(* Undisturbed writes: as long as nobody has written the record since the  *)
(* call read it, the node the call carries is one legal step away.         *)

Follows(n, b) ==
    /\ n.state # b.state => Legal(b.state, n.state)
    /\ \E a : b.plan.asks \ n.plan.asks \subseteq {a}
    /\ b.plan.chain \subseteq n.plan.chain

Following == {"list", "get", "put"}

UndisturbedFollow ==
    \A c \in Clients :
        call[c].at \in Following /\ c \notin overtaken
            => Follows(call[c].node, Node(call[c].task))

(* Every other call is either overtaken or sees its record stand.          *)
LEMMA OthersFollow ==
  ASSUME UndisturbedFollow, NEW c,
         \A d \in Clients \ {c} :
            /\ call'[d] = call[d] /\ (d \in overtaken => d \in overtaken')
            /\ call[d].at \in Following =>
                  d \in overtaken' \/ record'[call[d].task] = record[call[d].task],
         c \in Clients /\ call'[c].at \in Following /\ c \notin overtaken'
            => Follows(call'[c].node, NodeOf(record'[call'[c].task]))
  PROVE  UndisturbedFollow'
<1> SUFFICES ASSUME NEW d \in Clients, call'[d].at \in Following, d \notin overtaken'
             PROVE  Follows(call'[d].node, NodeOf(record'[call'[d].task]))
  BY DEF UndisturbedFollow, Node
<1>1. CASE d = c
  BY <1>1
<1>2. CASE d # c
  <2>1. call'[d] = call[d] /\ d \notin overtaken /\ record'[call[d].task] = record[call[d].task]
    BY <1>2
  <2>2. Follows(call[d].node, NodeOf(record[call[d].task]))
    BY <2>1 DEF UndisturbedFollow, Node
  <2> QED
    BY <2>1, <2>2
<1> QED
  BY <1>1, <1>2

(* A call that begins follows from the node it read.                       *)
LEMMA BeginFollows ==
  ASSUME GraphInv, UndisturbedFollow, NEW c \in Clients, NEW t, NEW n, NEW o, NEW a,
         Begin(c, o, a, t, n), a \in Following => Follows(n, Node(t))
  PROVE  UndisturbedFollow'
<1> DEFINE k == [op |-> o, at |-> a, task |-> t, node |-> n]
<1>1. call \in [Clients -> Calls]
  BY CallTyped DEF GraphInv
<1>2. call' = [call EXCEPT ![c] = k] /\ record' = record /\ overtaken' = overtaken
  BY DEF Begin
<1>3. k.at = a /\ k.task = t /\ k.node = n
  OBVIOUS
<1> HIDE DEF k
<1>4. call'[c] = k /\ \A d \in Clients \ {c} : call'[d] = call[d]
  BY <1>1, <1>2
<1>5. call'[c].at \in Following => Follows(call'[c].node, NodeOf(record'[call'[c].task]))
  BY <1>2, <1>3, <1>4 DEF Node
<1>6. \A d \in Clients \ {c} :
          /\ call'[d] = call[d] /\ (d \in overtaken => d \in overtaken')
          /\ record'[call[d].task] = record[call[d].task]
  BY <1>2, <1>4
<1> QED
  BY <1>5, <1>6, OthersFollow

(* The graph's operations compute a node one legal step from the one read. *)
LEMMA BeginsFollow ==
  ASSUME GraphInv, UndisturbedFollow, NEW c \in Clients, NEW t \in Tasks, BeginAny(c, t)
  PROVE  UndisturbedFollow'
<1> DEFINE b == Node(t)
<1>1. CASE BeginAdd(c, t)
  BY <1>1, BeginFollows DEF BeginAdd, Following
<1>2. CASE BeginAdopt(c, t)
  BY <1>2, BeginFollows DEF BeginAdopt, Following
<1>3. CASE ~BeginAdd(c, t) /\ ~BeginAdopt(c, t)
  <2>1. Stored(t)
    BY <1>3 DEF BeginAny, BeginAssign, RecordFailure, Retry, RecordAsk, ResolveAsk,
       RecordWorkspaceRevision, RecordVerificationRef, RecordCheckpointRef, BeginWrite
  <2>2. b \in Nodes
    BY <2>1, StoredNode
  <2> HIDE DEF b
  <2>3. CASE BeginAssign(c, t)
    <3>1. PICK l \in Lanes, s \in Leases :
            Begin(c, "assign", "list", t,
                  [b EXCEPT !.state = "RUNNING", !.plan.asg = [lane |-> l, lease |-> s]])
      BY <2>3 DEF BeginAssign, b
    <3>2. Legal(b.state, "RUNNING")
      BY <2>3 DEF BeginAssign, b, Legal, TASK_NODE_TRANSITIONS
    <3>3. Follows([b EXCEPT !.state = "RUNNING", !.plan.asg = [lane |-> l, lease |-> s]], b)
      BY <2>2, <3>2 DEF Follows, Nodes, Plans
    <3> QED
      BY <3>1, <3>3, BeginFollows DEF b
  <2>4. CASE RecordFailure(c, t)
    <3>1. PICK k \in {"RETRYABLE", "TERMINAL"} : Begin(c, "fail", "put", t,
              [b EXCEPT !.state = "FAILED", !.plan.asg = None, !.plan.recovery = k])
      BY <2>4 DEF RecordFailure, BeginWrite, b
    <3>2. Legal(b.state, "FAILED")
      BY <2>4 DEF RecordFailure, b
    <3>3. Follows([b EXCEPT !.state = "FAILED", !.plan.asg = None, !.plan.recovery = k], b)
      BY <2>2, <3>2 DEF Follows, Nodes, Plans
    <3> QED
      BY <3>1, <3>3, BeginFollows DEF b
  <2>5. CASE Retry(c, t)
    <3>1. Begin(c, "retry", "put", t,
              [b EXCEPT !.state = "PENDING", !.plan.asg = None, !.plan.recovery = "NONE"])
      BY <2>5 DEF Retry, BeginWrite, b
    <3>2. Legal(b.state, "PENDING")
      BY <2>5 DEF Retry, b, Legal, TASK_NODE_TRANSITIONS
    <3>3. Follows([b EXCEPT !.state = "PENDING", !.plan.asg = None, !.plan.recovery = "NONE"], b)
      BY <2>2, <3>2 DEF Follows, Nodes, Plans
    <3> QED
      BY <3>1, <3>3, BeginFollows DEF b
  <2>6. CASE RecordAsk(c, t)
    <3>1. PICK a \in Asks : Begin(c, "ask", "put", t,
              [b EXCEPT !.state = "PAUSED", !.plan.asks = @ \cup {a}])
      BY <2>6 DEF RecordAsk, BeginWrite, b
    <3>2. b.state = "PAUSED" \/ Legal(b.state, "PAUSED")
      BY <2>6 DEF RecordAsk, b
    <3>3. Follows([b EXCEPT !.state = "PAUSED", !.plan.asks = @ \cup {a}], b)
      BY <2>2, <3>2 DEF Follows, Nodes, Plans
    <3> QED
      BY <3>1, <3>3, BeginFollows DEF b
  <2>7. CASE ResolveAsk(c, t)
    <3>1. PICK a \in b.plan.asks : Begin(c, "resolve", "put", t, [b EXCEPT !.plan.asks = @ \ {a}])
      BY <2>7 DEF ResolveAsk, BeginWrite, b
    <3>2. Follows([b EXCEPT !.plan.asks = @ \ {a}], b)
      BY <2>2 DEF Follows, Nodes, Plans
    <3> QED
      BY <3>1, <3>2, BeginFollows DEF b
  <2>8. CASE RecordWorkspaceRevision(c, t)
    <3>1. Begin(c, "pin", "put", t, b)
      BY <2>8 DEF RecordWorkspaceRevision, BeginWrite, b
    <3>2. Follows(b, b)
      BY DEF Follows
    <3> QED
      BY <3>1, <3>2, BeginFollows DEF b
  <2>9. CASE RecordVerificationRef(c, t)
    <3>1. Begin(c, "verify", "put", t, [b EXCEPT !.plan.vref = TRUE])
      BY <2>9 DEF RecordVerificationRef, BeginWrite, b
    <3>2. Follows([b EXCEPT !.plan.vref = TRUE], b)
      BY <2>2 DEF Follows, Nodes, Plans
    <3> QED
      BY <3>1, <3>2, BeginFollows DEF b
  <2>10. CASE RecordCheckpointRef(c, t)
    <3>1. PICK k : Begin(c, "chain", "get", t, [b EXCEPT !.plan.chain = @ \cup {k}])
      BY <2>10 DEF RecordCheckpointRef, b
    <3>2. Follows([b EXCEPT !.plan.chain = @ \cup {k}], b)
      BY <2>2 DEF Follows, Nodes, Plans
    <3> QED
      BY <3>1, <3>2, BeginFollows DEF b
  <2> QED
    BY <1>3, <2>3, <2>4, <2>5, <2>6, <2>7, <2>8, <2>9, <2>10 DEF BeginAny
<1> QED
  BY <1>1, <1>2, <1>3

(* A call that goes on carries the node it had, or the one it read again.  *)
LEMMA AwaitFollows ==
  ASSUME GraphInv, UndisturbedFollow, NEW c \in Clients, NEW a, NEW n, Await(c, a, n),
         overtaken' = overtaken \/ overtaken' = overtaken \ {c},
         a \in Following /\ c \notin overtaken' => Follows(n, Node(call[c].task))
  PROVE  UndisturbedFollow'
<1>1. call \in [Clients -> Calls]
  BY CallTyped DEF GraphInv
<1>2. /\ call'[c].at = a /\ call'[c].node = n /\ call'[c].task = call[c].task
      /\ \A d \in Clients \ {c} : call'[d] = call[d]
  BY <1>1 DEF Await, Calls
<1>3. record' = record
  BY DEF Await
<1>4. call'[c].at \in Following /\ c \notin overtaken'
          => Follows(call'[c].node, NodeOf(record'[call'[c].task]))
  BY <1>2, <1>3 DEF Node
<1>5. \A d \in Clients \ {c} :
          /\ call'[d] = call[d] /\ (d \in overtaken => d \in overtaken')
          /\ record'[call[d].task] = record[call[d].task]
  BY <1>2, <1>3
<1> QED
  BY <1>4, <1>5, OthersFollow

(* A call that is over carries nothing.                                    *)
LEMMA OverFollows ==
  ASSUME GraphInv, UndisturbedFollow, NEW c \in Clients, call' = [call EXCEPT ![c] = NoCall],
         \A d \in Clients \ {c} :
            /\ d \in overtaken => d \in overtaken'
            /\ call[d].at \in Following =>
                  d \in overtaken' \/ record'[call[d].task] = record[call[d].task]
  PROVE  UndisturbedFollow'
<1>1. call \in [Clients -> Calls]
  BY CallTyped DEF GraphInv
<1>2. call'[c] = NoCall /\ \A d \in Clients \ {c} : call'[d] = call[d]
  BY <1>1
<1>3. NoCall.at \notin Following
  BY DEF NoCall, Following
<1> QED
  BY <1>2, <1>3, OthersFollow

LEMMA ProceedFollows ==
  ASSUME GraphInv, UndisturbedFollow, NEW c \in Clients, Proceed(c)
  PROVE  UndisturbedFollow'
<1>1. call[c] \in Calls /\ CallFits(call[c], record) /\ record \in [Tasks -> TaskRecords]
  BY CallTyped DEF GraphInv
<1>2. CASE AddList(c)
  BY <1>2, AwaitFollows DEF AddList, Following
<1>3. CASE AddPut(c)
  <2>1. \A d \in Clients \ {c} : call[d].task # call[c].task
    BY <1>3 DEF AddPut, GraphInv, CreatorsAlone, Creating
  <2>2. \A d \in Clients \ {c} : record'[call[d].task] = record[call[d].task]
                                    \/ call[d].at \notin Following
    <3> SUFFICES ASSUME NEW d \in Clients \ {c}, call[d].at \in Following
                 PROVE  record'[call[d].task] = record[call[d].task]
      OBVIOUS
    <3>1. call[d].task \in Tasks
      BY DEF GraphInv, CallFits, Following, Writing
    <3> QED
      BY <1>1, <1>3, <2>1, <3>1 DEF AddPut, Store
  <2> QED
    BY <1>3, <2>2, OverFollows DEF AddPut, Over
<1>4. CASE AssignList(c)
  <2>1. call[c].at \in Following
    BY <1>4 DEF AssignList, Following
  <2> QED
    BY <1>4, <2>1, AwaitFollows DEF AssignList, UndisturbedFollow
<1>5. CASE ChainGet(c)
  <2>1. call[c].at \in Following
    BY <1>5 DEF ChainGet, Following
  <2> QED
    BY <1>5, <2>1, AwaitFollows DEF ChainGet, UndisturbedFollow
<1>6. CASE AdoptGet(c)
  <2> DEFINE b == Node(call[c].task)
  <2>1. CASE Over(c) /\ UNCHANGED record
    BY <2>1, OverFollows DEF Over
  <2>2. CASE Await(c, "put", [b EXCEPT !.plan.asg = None]) /\ overtaken' = overtaken \ {c}
    <3>1. call[c].task \in Tasks /\ Stored(call[c].task)
      BY <1>1, <1>6, StoredStatus DEF AdoptGet, CallFits, Writing
    <3>2. b \in Nodes
      BY <3>1, StoredNode
    <3> HIDE DEF b
    <3>3. Follows([b EXCEPT !.plan.asg = None], b)
      BY <3>2 DEF Follows, Nodes, Plans
    <3> QED
      BY <2>2, <3>3, AwaitFollows DEF b
  <2> QED
    BY <1>6, <2>1, <2>2 DEF AdoptGet
<1>7. CASE WriteNode(c)
  <2>1. \A d \in Clients \ {c} : call[d].task = call[c].task => d \in overtaken'
    BY <1>7 DEF WriteNode, Overtake
  <2>2. \A d \in Clients \ {c} : d \in overtaken => d \in overtaken'
    BY <1>7 DEF WriteNode, Overtake
  <2>3. \A d \in Clients \ {c} : call[d].at \in Following =>
            d \in overtaken' \/ record'[call[d].task] = record[call[d].task]
    <3> SUFFICES ASSUME NEW d \in Clients \ {c}, call[d].at \in Following, d \notin overtaken'
                 PROVE  record'[call[d].task] = record[call[d].task]
      OBVIOUS
    <3>1. call[d].task \in Tasks
      BY DEF GraphInv, CallFits, Following, Writing
    <3> QED
      BY <1>1, <1>7, <2>1, <3>1 DEF WriteNode, Store
  <2> QED
    BY <1>7, <2>2, <2>3, OverFollows DEF WriteNode
<1> QED
  BY <1>2, <1>3, <1>4, <1>5, <1>6, <1>7 DEF Proceed

(* The fabric's writes overtake every call on the task.                    *)
LEMMA FabricFollows ==
  ASSUME GraphInv, UndisturbedFollow, NEW t \in Tasks, NEW s, FabricWrite(t, s)
  PROVE  UndisturbedFollow'
<1>1. record \in [Tasks -> TaskRecords]
  BY CallTyped DEF GraphInv
<1>2. call' = call
  BY DEF FabricWrite
<1>3. \A d \in Clients : call[d].task = t \/ d \in overtaken => d \in overtaken' \/ d = None
  BY DEF FabricWrite, Overtake
<1> SUFFICES ASSUME NEW d \in Clients, call[d].at \in Following, d \notin overtaken'
             PROVE  Follows(call[d].node, NodeOf(record'[call[d].task]))
  BY <1>2 DEF UndisturbedFollow, Node
<1>4. call[d].task \in Tasks
  BY DEF GraphInv, CallFits, Following, Writing
<1>5. d # None
  BY GraphAssumption
<1>6. call[d].task # t /\ d \notin overtaken
  BY <1>3, <1>5
<1>7. record'[call[d].task] = record[call[d].task]
  BY <1>1, <1>4, <1>6 DEF FabricWrite, Store
<1> QED
  BY <1>6, <1>7 DEF UndisturbedFollow, Node

LEMMA NextFollows ==
  ASSUME GraphInv, UndisturbedFollow, [Next]_vars
  PROVE  UndisturbedFollow'
<1>1. ASSUME NEW c \in Clients, Fail(c) PROVE UndisturbedFollow'
  BY <1>1, OverFollows DEF Fail, Over
<1>2. ASSUME NEW t \in Tasks, Fabric(t) PROVE UndisturbedFollow'
  BY <1>2, FabricFollows DEF Fabric, Pause, Resume, Cancel, Complete, ReplaceBody, RecordCheckpoint
<1>3. CASE UNCHANGED vars
  BY <1>3 DEF vars, UndisturbedFollow, Node
<1> QED
  BY <1>1, <1>2, <1>3, BeginsFollow, ProceedFollows DEF Next

(* One write: the record put is the node put, and the node followed from   *)
(* the record it replaces.                                                 *)
LEMMA WriteIsLegal ==
  ASSUME GraphInv, UndisturbedFollow, NEW c \in Clients, WriteNode(c), c \notin overtaken
  PROVE  LET t == call[c].task
             before == Node(t)
             after == NodeOf(record'[t])
         IN  /\ after.state # before.state => Legal(before.state, after.state)
             /\ Cardinality(before.plan.asks \ after.plan.asks) <= 1
             /\ before.plan.chain \subseteq after.plan.chain
<1> DEFINE t == call[c].task
           n == call[c].node
           before == Node(t)
           after == NodeOf(record'[t])
<1>1. call \in [Clients -> Calls] /\ record \in [Tasks -> TaskRecords]
  BY CallTyped DEF GraphInv
<1>2. call[c].at = "put" /\ CallFits(call[c], record) /\ n \in Nodes
  BY <1>1 DEF GraphInv, WriteNode, Calls
<1>3. t \in Tasks /\ record[t].status # "NONE" /\ n.plan.chain \subseteq 1..record[t].cps
  BY <1>2 DEF CallFits, Writing
<1>4. Follows(n, before)
  BY <1>2 DEF UndisturbedFollow, Following
<1>5. record'[t] = Written(record[t], n)
  BY <1>1, <1>3 DEF WriteNode, Store
<1>6. record[t] \in TaskRecords
  BY <1>1, <1>3
<1> DEFINE r == record[t]
           w == Written(r, n)
<1>7. w.status = RecordStatus(n) /\ w.plan = n.plan /\ w.cps = r.cps
  BY <1>6 DEF Written, TaskRecords
<1>8. NodeState(RecordStatus(n)) = n.state
  BY <1>2 DEF Nodes, States, RecordStatus, NodeState
<1> HIDE DEF w, n, r, before
<1>9. /\ after.state = n.state /\ after.plan.asks = n.plan.asks
      /\ after.plan.chain = n.plan.chain \cap 1..r.cps
  BY <1>2, <1>5, <1>7, <1>8 DEF NodeOf, w, r, Nodes, Plans
<1>10. after.state # before.state => Legal(before.state, after.state)
  BY <1>4, <1>9 DEF Follows
<1>11. before.plan.chain \subseteq after.plan.chain
  BY <1>3, <1>4, <1>9 DEF Follows, r
<1>12. Cardinality(before.plan.asks \ after.plan.asks) <= 1
  <2>1. PICK a : before.plan.asks \ after.plan.asks \subseteq {a}
    BY <1>4, <1>9 DEF Follows
  <2>2. CASE before.plan.asks \ after.plan.asks = {}
    BY <2>2, FS_EmptySet
  <2>3. CASE before.plan.asks \ after.plan.asks = {a}
    <3>1. Cardinality({a}) = 1
      BY FS_Singleton
    <3> HIDE DEF after
    <3> QED
      BY <2>3, <3>1
  <2> QED
    BY <2>1, <2>2, <2>3
<1> QED
  BY <1>10, <1>11, <1>12 DEF before

(* A write over the record its call read is one legal typed transition.    *)
THEOREM UndisturbedWritesAreLegal == GraphSpec => UndisturbedWriteIsLegal
<1>1. Init => UndisturbedFollow
  BY DEF Init, UndisturbedFollow, NoCall, Following
<1>2. GraphInv /\ UndisturbedFollow /\ [Next]_vars => UndisturbedFollow'
  BY NextFollows
<1>3. GraphSpec => []UndisturbedFollow
  BY <1>1, <1>2, GraphInvariance, PTL DEF GraphSpec
<1> DEFINE Legally ==
      \A c \in Clients :
          LET t == call[c].task
              before == Node(t)
              after == NodeOf(record'[t]) IN
          WriteNode(c) /\ c \notin overtaken =>
              /\ after.state # before.state => Legal(before.state, after.state)
              /\ Cardinality(before.plan.asks \ after.plan.asks) <= 1
              /\ before.plan.chain \subseteq after.plan.chain
<1>4. GraphInv /\ UndisturbedFollow /\ [Next]_vars => [Legally]_vars
  BY WriteIsLegal
<1>5. GraphSpec => [][Legally]_vars
  BY <1>3, <1>4, GraphInvariance, PTL DEF GraphSpec
<1> QED
  BY <1>5 DEF UndisturbedWriteIsLegal
-----------------------------------------------------------------------------
(***************************************************************************)
(* Owned paths and lanes never overlap silently: unless a write overtook   *)
(* another or two assignments overlapped, every assigned and active node is*)
(* apart from every other.  A call other than an assignment makes no node  *)
(* busy that was not, because it keeps the paths and the assignment it read;*)
(* the one assignment past its check stays clear of the busy nodes, because*)
(* nothing else makes a node busy.                                         *)
(***************************************************************************)

(* An assigned node that is active.                                        *)
Busy(n) == n.state \in {"RUNNING", "PAUSED"} /\ n.plan.asg # None

(* Where n is busy it does the work of b.                                  *)
SameWork(n, b) ==
    Busy(n) => Busy(b) /\ n.plan.paths = b.plan.paths /\ n.plan.asg = b.plan.asg

Apart(rec) ==
    \A t, o \in Tasks :
        t # o /\ Busy(NodeOf(rec[t])) /\ Busy(NodeOf(rec[o]))
            => ~Clash(NodeOf(rec[t]).plan, NodeOf(rec[o]).plan)

(* An assignment that has passed its check.                                *)
Assigning(k) == k.op = "assign" /\ k.at = "put"

Clear(k, rec) ==
    \A o \in Tasks \ {k.task} :
        Busy(NodeOf(rec[o])) => ~Clash(k.node.plan, NodeOf(rec[o]).plan)

OthersKeepTheWork ==
    \A c \in Clients :
        call[c].at \in Following /\ call[c].op # "assign" /\ c \notin overtaken
            => SameWork(call[c].node, Node(call[c].task))

AssignmentsAreClear ==
    \A c \in Clients : Assigning(call[c]) => Clear(call[c], record)

OneAssignment ==
    \A c, d \in Clients : Assigning(call[c]) /\ Assigning(call[d]) => c = d

AssignAwaits ==
    \A c \in Clients : call[c].op = "assign" => call[c].at \in {"list", "put"}

OverlapInv ==
    /\ AssignAwaits
    /\ raced \/ (Apart(record) /\ OthersKeepTheWork /\ AssignmentsAreClear /\ OneAssignment)

-----------------------------------------------------------------------------
(* Facts about nodes.                                                      *)

LEMMA SameAsItself == \A b : SameWork(b, b)
BY DEF SameWork

(* The same work clashes with what it clashed with.                        *)
LEMMA SameClash ==
  ASSUME NEW n, NEW b, NEW p, Busy(n), SameWork(n, b), ~Clash(b.plan, p), ~Clash(p, b.plan)
  PROVE  ~Clash(n.plan, p) /\ ~Clash(p, n.plan)
BY DEF SameWork, Clash

LEMMA ClashBothWays == \A p, q : Clash(p, q) <=> Clash(q, p)
BY DEF Clash

(* A busy node is one assign checks.                                       *)
LEMMA BusyIsActive ==
  ASSUME NEW t \in Tasks, Busy(Node(t))
  PROVE  Active(t)
<1>1. NodeOf(NoRecord).state = "NONE"
  BY DEF NodeOf, NoRecord, NodeState
<1> QED
  BY <1>1 DEF Busy, Active, Stored, Node

(* What nobody made busy stays apart, from records and from assignments.   *)
LEMMA ApartStays ==
  ASSUME Apart(record), \A o \in Tasks : SameWork(NodeOf(record'[o]), Node(o))
  PROVE  Apart(record')
<1> SUFFICES ASSUME NEW t \in Tasks, NEW o \in Tasks, t # o,
                    Busy(NodeOf(record'[t])), Busy(NodeOf(record'[o]))
             PROVE  ~Clash(NodeOf(record'[t]).plan, NodeOf(record'[o]).plan)
  BY DEF Apart
<1> DEFINE nt == NodeOf(record'[t])
           no == NodeOf(record'[o])
<1>1. SameWork(nt, Node(t)) /\ SameWork(no, Node(o))
  OBVIOUS
<1> HIDE DEF nt, no
<1>2. Busy(nt) /\ Busy(no)
  BY DEF nt, no
<1>3. ~Clash(Node(t).plan, Node(o).plan)
  BY <1>1, <1>2 DEF Apart, Node, SameWork
<1>4. ~Clash(nt.plan, no.plan)
  BY <1>1, <1>2, <1>3 DEF SameWork, Clash
<1> QED
  BY <1>4 DEF nt, no

LEMMA ClearStays ==
  ASSUME NEW k, Clear(k, record), \A o \in Tasks : SameWork(NodeOf(record'[o]), Node(o))
  PROVE  Clear(k, record')
<1> SUFFICES ASSUME NEW o \in Tasks \ {k.task}, Busy(NodeOf(record'[o]))
             PROVE  ~Clash(k.node.plan, NodeOf(record'[o]).plan)
  BY DEF Clear
<1> DEFINE no == NodeOf(record'[o])
<1>1. SameWork(no, Node(o))
  OBVIOUS
<1> HIDE DEF no
<1>2. Busy(no)
  BY DEF no
<1>3. ~Clash(k.node.plan, Node(o).plan)
  BY <1>1, <1>2 DEF Clear, Node, SameWork
<1>4. ~Clash(k.node.plan, no.plan)
  BY <1>1, <1>2, <1>3 DEF SameWork, Clash
<1> QED
  BY <1>4 DEF no

-----------------------------------------------------------------------------
(* Facts about one step.                                                   *)

(* A step of c, or of the fabric when c is no client, that makes no node   *)
(* busy: every other call stands, overtaken or on the record it read.      *)
LEMMA QuietStep ==
  ASSUME OverlapInv, raced => raced', NEW c,
         \A o \in Tasks : SameWork(NodeOf(record'[o]), Node(o)),
         \A d \in Clients \ {c} :
            /\ call'[d] = call[d] /\ (d \in overtaken => d \in overtaken')
            /\ call[d].at \in Following =>
                  d \in overtaken' \/ record'[call[d].task] = record[call[d].task],
         c \in Clients =>
            /\ call'[c].op = "assign" => call'[c].at \in {"list", "put"}
            /\ ~raced' /\ call'[c].at \in Following /\ call'[c].op # "assign" /\ c \notin overtaken'
                  => SameWork(call'[c].node, NodeOf(record'[call'[c].task]))
            /\ ~raced' /\ Assigning(call'[c])
                  => Clear(call'[c], record') /\ \A d \in Clients \ {c} : ~Assigning(call[d]),
         raced' \in BOOLEAN
  PROVE  OverlapInv'
<1>1. AssignAwaits'
  BY DEF OverlapInv, AssignAwaits
<1>2. SUFFICES ASSUME ~raced'
               PROVE  Apart(record') /\ OthersKeepTheWork' /\ AssignmentsAreClear' /\ OneAssignment'
  BY <1>1 DEF OverlapInv
<1>3. Apart(record) /\ OthersKeepTheWork /\ AssignmentsAreClear /\ OneAssignment
  BY <1>2 DEF OverlapInv
<1>4. Apart(record')
  BY <1>3, ApartStays
<1>5. OthersKeepTheWork'
  <2> SUFFICES ASSUME NEW d \in Clients, call'[d].at \in Following, call'[d].op # "assign",
                      d \notin overtaken'
               PROVE  SameWork(call'[d].node, NodeOf(record'[call'[d].task]))
    BY DEF OthersKeepTheWork, Node
  <2>1. CASE d = c
    BY <1>2, <2>1
  <2>2. CASE d # c
    <3>1. call'[d] = call[d] /\ d \notin overtaken /\ record'[call[d].task] = record[call[d].task]
      BY <2>2
    <3>2. SameWork(call[d].node, NodeOf(record[call[d].task]))
      BY <1>3, <3>1 DEF OthersKeepTheWork, Node
    <3> QED
      BY <3>1, <3>2
  <2> QED
    BY <2>1, <2>2
<1>6. AssignmentsAreClear'
  <2> SUFFICES ASSUME NEW d \in Clients, Assigning(call'[d])
               PROVE  Clear(call'[d], record')
    BY DEF AssignmentsAreClear
  <2>1. CASE d = c
    BY <1>2, <2>1
  <2>2. CASE d # c
    <3>1. call'[d] = call[d]
      BY <2>2
    <3>2. Clear(call[d], record)
      BY <1>3, <3>1 DEF AssignmentsAreClear
    <3> QED
      BY <3>1, <3>2, ClearStays
  <2> QED
    BY <2>1, <2>2
<1>7. OneAssignment'
  <2> SUFFICES ASSUME NEW d \in Clients, NEW e \in Clients, Assigning(call'[d]), Assigning(call'[e])
               PROVE  d = e
    BY DEF OneAssignment
  <2>1. CASE d # c /\ e # c
    <3>1. call'[d] = call[d] /\ call'[e] = call[e]
      BY <2>1
    <3> QED
      BY <1>3, <3>1 DEF OneAssignment
  <2>2. CASE d = c /\ e # c
    <3>1. call'[e] = call[e]
      BY <2>2
    <3> QED
      BY <1>2, <2>2, <3>1
  <2>3. CASE d # c /\ e = c
    <3>1. call'[d] = call[d]
      BY <2>3
    <3> QED
      BY <1>2, <2>3, <3>1
  <2> QED
    BY <2>1, <2>2, <2>3
<1> QED
  BY <1>4, <1>5, <1>6, <1>7

-----------------------------------------------------------------------------
(* The calls begin.                                                        *)

(* A call that begins holds the work of the node it read.                  *)
LEMMA BeginKeepsWork ==
  ASSUME GraphInv, OverlapInv, NEW c \in Clients, NEW t, NEW n, NEW o, NEW a,
         Begin(c, o, a, t, n),
         o = "assign" => a = "list",
         a \in Following /\ o # "assign" => SameWork(n, Node(t))
  PROVE  OverlapInv'
<1> DEFINE k == [op |-> o, at |-> a, task |-> t, node |-> n]
<1>1. call \in [Clients -> Calls] /\ raced \in BOOLEAN
  BY CallTyped DEF GraphInv
<1>2. call' = [call EXCEPT ![c] = k] /\ record' = record /\ overtaken' = overtaken /\ raced' = raced
  BY DEF Begin
<1>3. k.op = o /\ k.at = a /\ k.task = t /\ k.node = n
  OBVIOUS
<1> HIDE DEF k
<1>4. call'[c] = k /\ \A d \in Clients \ {c} : call'[d] = call[d]
  BY <1>1, <1>2
<1>5. /\ call'[c].op = "assign" => call'[c].at \in {"list", "put"}
      /\ call'[c].at \in Following /\ call'[c].op # "assign"
            => SameWork(call'[c].node, NodeOf(record'[call'[c].task]))
      /\ ~Assigning(call'[c])
  BY <1>2, <1>3, <1>4 DEF Node, Assigning
<1>6. \A p \in Tasks : SameWork(NodeOf(record'[p]), Node(p))
  BY <1>2, SameAsItself DEF Node
<1>7. \A d \in Clients \ {c} :
          /\ call'[d] = call[d] /\ (d \in overtaken => d \in overtaken')
          /\ record'[call[d].task] = record[call[d].task]
  BY <1>2, <1>4
<1> QED
  BY <1>1, <1>2, <1>5, <1>6, <1>7, QuietStep

(* The nodes the graph's operations compute, but for an assignment, do the *)
(* work of the node read or none.                                          *)
LEMMA BeginsKeepWork ==
  ASSUME GraphInv, OverlapInv, NEW c \in Clients, NEW t \in Tasks, BeginAny(c, t)
  PROVE  OverlapInv'
<1> DEFINE b == Node(t)
<1>1. CASE BeginAdd(c, t)
  BY <1>1, BeginKeepsWork DEF BeginAdd, Following
<1>2. CASE BeginAdopt(c, t)
  BY <1>2, BeginKeepsWork DEF BeginAdopt, Following
<1>3. CASE BeginAssign(c, t)
  BY <1>3, BeginKeepsWork DEF BeginAssign
<1>4. CASE ~BeginAdd(c, t) /\ ~BeginAdopt(c, t) /\ ~BeginAssign(c, t)
  <2>1. Stored(t)
    BY <1>4 DEF BeginAny, RecordFailure, Retry, RecordAsk, ResolveAsk,
       RecordWorkspaceRevision, RecordVerificationRef, RecordCheckpointRef, BeginWrite
  <2>2. b \in Nodes /\ Agrees(b)
    BY <2>1, StoredNode DEF Fits
  <2> HIDE DEF b
  <2>3. CASE RecordFailure(c, t)
    <3>1. PICK k \in {"RETRYABLE", "TERMINAL"} : Begin(c, "fail", "put", t,
              [b EXCEPT !.state = "FAILED", !.plan.asg = None, !.plan.recovery = k])
      BY <2>3 DEF RecordFailure, BeginWrite, b
    <3>2. SameWork([b EXCEPT !.state = "FAILED", !.plan.asg = None, !.plan.recovery = k], b)
      BY <2>2 DEF SameWork, Busy, Nodes, Plans
    <3> QED
      BY <3>1, <3>2, BeginKeepsWork DEF b
  <2>4. CASE Retry(c, t)
    <3>1. Begin(c, "retry", "put", t,
              [b EXCEPT !.state = "PENDING", !.plan.asg = None, !.plan.recovery = "NONE"])
      BY <2>4 DEF Retry, BeginWrite, b
    <3>2. SameWork([b EXCEPT !.state = "PENDING", !.plan.asg = None, !.plan.recovery = "NONE"], b)
      BY <2>2 DEF SameWork, Busy, Nodes, Plans
    <3> QED
      BY <3>1, <3>2, BeginKeepsWork DEF b
  <2>5. CASE RecordAsk(c, t)
    <3>1. PICK a \in Asks : Begin(c, "ask", "put", t,
              [b EXCEPT !.state = "PAUSED", !.plan.asks = @ \cup {a}])
      BY <2>5 DEF RecordAsk, BeginWrite, b
    <3>2. b.state \in {"PAUSED", "PENDING", "RUNNING"}
      BY <2>5 DEF RecordAsk, b, Legal, TASK_NODE_TRANSITIONS
    <3>3. b.plan.asg # None => b.state \in {"RUNNING", "PAUSED"}
      BY <2>2, <3>2 DEF Agrees
    <3>4. SameWork([b EXCEPT !.state = "PAUSED", !.plan.asks = @ \cup {a}], b)
      BY <2>2, <3>3 DEF SameWork, Busy, Nodes, Plans
    <3> QED
      BY <3>1, <3>4, BeginKeepsWork DEF b
  <2>6. CASE ResolveAsk(c, t)
    <3>1. PICK a \in b.plan.asks : Begin(c, "resolve", "put", t, [b EXCEPT !.plan.asks = @ \ {a}])
      BY <2>6 DEF ResolveAsk, BeginWrite, b
    <3>2. SameWork([b EXCEPT !.plan.asks = @ \ {a}], b)
      BY <2>2 DEF SameWork, Busy, Nodes, Plans
    <3> QED
      BY <3>1, <3>2, BeginKeepsWork DEF b
  <2>7. CASE RecordWorkspaceRevision(c, t)
    <3>1. Begin(c, "pin", "put", t, b)
      BY <2>7 DEF RecordWorkspaceRevision, BeginWrite, b
    <3> QED
      BY <3>1, SameAsItself, BeginKeepsWork DEF b
  <2>8. CASE RecordVerificationRef(c, t)
    <3>1. Begin(c, "verify", "put", t, [b EXCEPT !.plan.vref = TRUE])
      BY <2>8 DEF RecordVerificationRef, BeginWrite, b
    <3>2. SameWork([b EXCEPT !.plan.vref = TRUE], b)
      BY <2>2 DEF SameWork, Busy, Nodes, Plans
    <3> QED
      BY <3>1, <3>2, BeginKeepsWork DEF b
  <2>9. CASE RecordCheckpointRef(c, t)
    <3>1. PICK k : Begin(c, "chain", "get", t, [b EXCEPT !.plan.chain = @ \cup {k}])
      BY <2>9 DEF RecordCheckpointRef, b
    <3>2. SameWork([b EXCEPT !.plan.chain = @ \cup {k}], b)
      BY <2>2 DEF SameWork, Busy, Nodes, Plans
    <3> QED
      BY <3>1, <3>2, BeginKeepsWork DEF b
  <2> QED
    BY <1>4, <2>3, <2>4, <2>5, <2>6, <2>7, <2>8, <2>9 DEF BeginAny
<1> QED
  BY <1>1, <1>2, <1>3, <1>4

-----------------------------------------------------------------------------
(* The calls go on.                                                        *)

LEMMA AwaitKeepsWork ==
  ASSUME GraphInv, OverlapInv, NEW c \in Clients, NEW a, NEW n, Await(c, a, n),
         raced' \in BOOLEAN, raced => raced',
         overtaken' = overtaken \/ overtaken' = overtaken \ {c},
         call[c].op = "assign" => a \in {"list", "put"},
         ~raced' /\ a \in Following /\ call[c].op # "assign" /\ c \notin overtaken'
            => SameWork(n, Node(call[c].task)),
         ~raced' /\ a = "put" /\ call[c].op = "assign" =>
            /\ \A o \in Tasks \ {call[c].task} : Busy(Node(o)) => ~Clash(n.plan, Node(o).plan)
            /\ \A d \in Clients \ {c} : ~Assigning(call[d])
  PROVE  OverlapInv'
<1>1. call \in [Clients -> Calls]
  BY CallTyped DEF GraphInv
<1>2. /\ call'[c].at = a /\ call'[c].node = n
      /\ call'[c].task = call[c].task /\ call'[c].op = call[c].op
      /\ \A d \in Clients \ {c} : call'[d] = call[d]
  BY <1>1 DEF Await, Calls
<1>3. record' = record
  BY DEF Await
<1>4. ~raced' /\ call'[c].at \in Following /\ call'[c].op # "assign" /\ c \notin overtaken'
          => SameWork(call'[c].node, NodeOf(record'[call'[c].task]))
  BY <1>2, <1>3 DEF Node
<1>5. ~raced' /\ Assigning(call'[c])
          => Clear(call'[c], record') /\ \A d \in Clients \ {c} : ~Assigning(call[d])
  BY <1>2, <1>3 DEF Node, Assigning, Clear
<1>6. \A p \in Tasks : SameWork(NodeOf(record'[p]), Node(p))
  BY <1>3, SameAsItself DEF Node
<1>7. \A d \in Clients \ {c} :
          /\ call'[d] = call[d] /\ (d \in overtaken => d \in overtaken')
          /\ record'[call[d].task] = record[call[d].task]
  BY <1>2, <1>3
<1>8. call'[c].op = "assign" => call'[c].at \in {"list", "put"}
  BY <1>2
<1> QED
  BY <1>4, <1>5, <1>6, <1>7, <1>8, QuietStep

LEMMA OverKeepsWork ==
  ASSUME GraphInv, OverlapInv, NEW c \in Clients, call' = [call EXCEPT ![c] = NoCall],
         raced' \in BOOLEAN, raced => raced',
         \A o \in Tasks : SameWork(NodeOf(record'[o]), Node(o)),
         \A d \in Clients \ {c} :
            /\ d \in overtaken => d \in overtaken'
            /\ call[d].at \in Following =>
                  d \in overtaken' \/ record'[call[d].task] = record[call[d].task]
  PROVE  OverlapInv'
<1>1. call \in [Clients -> Calls]
  BY CallTyped DEF GraphInv
<1>2. call'[c] = NoCall /\ \A d \in Clients \ {c} : call'[d] = call[d]
  BY <1>1
<1>3. NoCall.at \notin Following /\ NoCall.op # "assign" /\ ~Assigning(NoCall)
  BY DEF NoCall, Following, Assigning
<1> QED
  BY <1>2, <1>3, QuietStep

-----------------------------------------------------------------------------
(* The records are written.                                                *)

LEMMA FreshIsIdle == \A n : ~Busy(NodeOf(Fresh(n)))
BY DEF Fresh, NoRecord, NodeOf, NodeState, Busy

(* writeNode: the node read back from the record is the node put.          *)
LEMMA WrittenNode ==
  ASSUME NEW r \in TaskRecords, NEW n \in Nodes
  PROVE  /\ NodeOf(Written(r, n)).state = n.state
         /\ NodeOf(Written(r, n)).plan.paths = n.plan.paths
         /\ NodeOf(Written(r, n)).plan.asg = n.plan.asg
<1> DEFINE w == Written(r, n)
<1>1. w.status = RecordStatus(n) /\ w.plan = n.plan
  BY DEF Written, TaskRecords
<1>2. NodeState(RecordStatus(n)) = n.state
  BY DEF Nodes, States, RecordStatus, NodeState
<1> HIDE DEF w
<1>3. /\ NodeOf(w).state = n.state
      /\ NodeOf(w).plan.paths = n.plan.paths /\ NodeOf(w).plan.asg = n.plan.asg
  BY <1>1, <1>2 DEF NodeOf, Nodes, Plans
<1> QED
  BY <1>3 DEF w

(* What a write of c leaves to the calls of the others.                    *)
LEMMA OthersOfWrite ==
  ASSUME GraphInv, NEW c \in Clients, WriteNode(c)
  PROVE  /\ call[c].task \in Tasks /\ call[c].node \in Nodes
         /\ record[call[c].task] \in TaskRecords
         /\ record'[call[c].task] = Written(record[call[c].task], call[c].node)
         /\ \A o \in Tasks \ {call[c].task} : record'[o] = record[o]
         /\ \A d \in Clients \ {c} :
              /\ d \in overtaken => d \in overtaken'
              /\ call[d].at \in Following =>
                    d \in overtaken' \/ record'[call[d].task] = record[call[d].task]
<1>1. call[c] \in Calls /\ CallFits(call[c], record) /\ record \in [Tasks -> TaskRecords]
  BY CallTyped DEF GraphInv
<1>2. call[c].task \in Tasks /\ call[c].node \in Nodes
  BY <1>1 DEF CallFits, Writing, WriteNode, Calls
<1>3. \A o \in Tasks \ {call[c].task} : record'[o] = record[o]
  BY <1>1, <1>2 DEF WriteNode, Store
<1>4. ASSUME NEW d \in Clients \ {c}, call[d].at \in Following, d \notin overtaken'
      PROVE  record'[call[d].task] = record[call[d].task]
  <2>1. call[d].task \in Tasks
    BY <1>4 DEF GraphInv, CallFits, Following, Writing
  <2>2. call[d].task # call[c].task
    BY <1>4 DEF WriteNode, Overtake
  <2> QED
    BY <1>3, <2>1, <2>2
<1> QED
  BY <1>1, <1>2, <1>3, <1>4 DEF WriteNode, Store, Overtake

(* A write that is no assignment makes nothing busy, unless it overtook.   *)
LEMMA OtherWrites ==
  ASSUME GraphInv, OverlapInv, NEW c \in Clients, WriteNode(c), call[c].op # "assign"
  PROVE  OverlapInv'
<1> DEFINE t == call[c].task
           n == call[c].node
<1>1. raced \in BOOLEAN /\ raced' = (raced \/ c \in overtaken)
  BY CallTyped DEF GraphInv, WriteNode
<1>2. CASE raced'
  <2>1. call \in [Clients -> Calls]
    BY CallTyped DEF GraphInv
  <2>2. \A d \in Clients : call'[d] = call[d] \/ call'[d] = NoCall
    BY <2>1 DEF WriteNode
  <2>3. NoCall.op # "assign"
    BY DEF NoCall
  <2> QED
    BY <1>2, <2>2, <2>3 DEF OverlapInv, AssignAwaits
<1>3. CASE ~raced'
  <2>1. ~raced /\ c \notin overtaken
    BY <1>1, <1>3
  <2>2. SameWork(n, Node(t))
    BY <2>1 DEF OverlapInv, OthersKeepTheWork, WriteNode, Following
  <2> HIDE DEF n, t
  <2>3. SameWork(NodeOf(record'[t]), Node(t))
    BY <2>2, OthersOfWrite, WrittenNode DEF SameWork, Busy, n, t
  <2>4. \A o \in Tasks : SameWork(NodeOf(record'[o]), Node(o))
    BY <2>3, OthersOfWrite, SameAsItself DEF Node, t
  <2>5. call' = [call EXCEPT ![c] = NoCall] /\ raced' \in BOOLEAN /\ (raced => raced')
    BY <1>1 DEF WriteNode
  <2> QED
    BY <2>4, <2>5, OthersOfWrite, OverKeepsWork
<1> QED
  BY <1>2, <1>3

(* The one assignment that has passed its check makes its task busy, clear *)
(* of the others.                                                          *)
LEMMA AssignmentWrites ==
  ASSUME GraphInv, OverlapInv, NEW c \in Clients, WriteNode(c), call[c].op = "assign"
  PROVE  OverlapInv'
<1> DEFINE t == call[c].task
           n == call[c].node
           w == NodeOf(record'[t])
<1>1. raced \in BOOLEAN /\ raced' = (raced \/ c \in overtaken)
  BY CallTyped DEF GraphInv, WriteNode
<1>2. call'[c] = NoCall /\ \A d \in Clients \ {c} : call'[d] = call[d]
  <2>1. call \in [Clients -> Calls]
    BY CallTyped DEF GraphInv
  <2> QED
    BY <2>1 DEF WriteNode
<1>3. NoCall.op # "assign" /\ NoCall.at \notin Following
  BY DEF NoCall, Following
<1>4. AssignAwaits'
  BY <1>2, <1>3 DEF OverlapInv, AssignAwaits
<1> SUFFICES ASSUME ~raced'
             PROVE  Apart(record') /\ OthersKeepTheWork' /\ AssignmentsAreClear' /\ OneAssignment'
  BY <1>4 DEF OverlapInv
<1>5. Apart(record) /\ OthersKeepTheWork /\ AssignmentsAreClear /\ OneAssignment
  BY <1>1 DEF OverlapInv
<1>6. Assigning(call[c]) /\ Clear(call[c], record)
  BY <1>5 DEF Assigning, WriteNode, AssignmentsAreClear
<1>7. \A d \in Clients : ~Assigning(call'[d])
  BY <1>2, <1>3, <1>5, <1>6 DEF OneAssignment, Assigning
<1>8. /\ w.plan.paths = n.plan.paths /\ w.plan.asg = n.plan.asg
      /\ \A o \in Tasks \ {t} : record'[o] = record[o]
  BY OthersOfWrite, WrittenNode
<1>9. \A o \in Tasks \ {t} : Busy(NodeOf(record[o])) => ~Clash(n.plan, NodeOf(record[o]).plan)
  BY <1>6 DEF Clear
<1> HIDE DEF t, n, w
<1>10. \A o \in Tasks \ {t} : Busy(NodeOf(record'[o])) =>
          ~Clash(w.plan, NodeOf(record'[o]).plan) /\ ~Clash(NodeOf(record'[o]).plan, w.plan)
  BY <1>8, <1>9, ClashBothWays DEF Clash
<1>11. Apart(record')
  BY <1>5, <1>8, <1>10 DEF Apart, w
<1>12. OthersKeepTheWork'
  <2> SUFFICES ASSUME NEW d \in Clients, call'[d].at \in Following, call'[d].op # "assign",
                      d \notin overtaken'
               PROVE  SameWork(call'[d].node, NodeOf(record'[call'[d].task]))
    BY DEF OthersKeepTheWork, Node
  <2>1. d # c
    BY <1>2, <1>3
  <2>2. call'[d] = call[d] /\ d \notin overtaken /\ record'[call[d].task] = record[call[d].task]
    BY <1>2, <2>1, OthersOfWrite
  <2> QED
    BY <1>5, <2>2 DEF OthersKeepTheWork, Node
<1> QED
  BY <1>7, <1>11, <1>12 DEF AssignmentsAreClear, OneAssignment

-----------------------------------------------------------------------------
LEMMA ProceedKeepsApart ==
  ASSUME GraphInv, OverlapInv, NEW c \in Clients, Proceed(c)
  PROVE  OverlapInv'
<1>1. /\ call[c] \in Calls /\ CallFits(call[c], record) /\ record \in [Tasks -> TaskRecords]
      /\ raced \in BOOLEAN
  BY CallTyped DEF GraphInv
<1>2. CASE AddList(c)
  <2>1. call[c].op # "assign"
    BY <1>2 DEF AddList, OverlapInv, AssignAwaits
  <2> QED
    BY <1>1, <1>2, <2>1, AwaitKeepsWork DEF AddList, Following
<1>3. CASE AddPut(c)
  <2>1. call[c].task \in Tasks
    BY <1>1, <1>3 DEF AddPut, CallFits, Creating
  <2>2. record' = [record EXCEPT ![call[c].task] = Fresh(call[c].node)]
    BY <1>3 DEF AddPut, Store
  <2>3. \A o \in Tasks : SameWork(NodeOf(record'[o]), Node(o))
    BY <1>1, <2>1, <2>2, FreshIsIdle, SameAsItself DEF Node, SameWork
  <2>4. ASSUME NEW d \in Clients \ {c}, call[d].at \in Following
        PROVE  record'[call[d].task] = record[call[d].task]
    <3>1. call[d].task \in Tasks
      BY <2>4 DEF GraphInv, CallFits, Following, Writing
    <3>2. call[d].task # call[c].task
      BY <1>3 DEF AddPut, GraphInv, CreatorsAlone, Creating
    <3> QED
      BY <1>1, <2>2, <3>1, <3>2
  <2> QED
    BY <1>1, <1>3, <2>3, <2>4, OverKeepsWork DEF AddPut, Over
<1>4. CASE AssignList(c)
  <2> DEFINE n == call[c].node
  <2>1. \A o \in Tasks \ {call[c].task} : Busy(Node(o)) => ~Clash(n.plan, Node(o).plan)
    BY <1>4, BusyIsActive DEF AssignList
  <2>2. /\ Await(c, "put", n) /\ overtaken' = overtaken /\ call[c].at = "list"
        /\ raced' = (raced \/ \E d \in Clients : call[d].op = "assign" /\ call[d].at = "put")
    BY <1>4 DEF AssignList
  <2>3. ~raced' => \A d \in Clients \ {c} : ~Assigning(call[d])
    BY <2>2 DEF Assigning
  <2>4. ~raced' /\ call[c].op # "assign" /\ c \notin overtaken' => SameWork(n, Node(call[c].task))
    BY <2>2 DEF OverlapInv, OthersKeepTheWork, Following
  <2>5. raced' \in BOOLEAN /\ (raced => raced')
    BY <2>2
  <2> QED
    BY <2>1, <2>2, <2>3, <2>4, <2>5, AwaitKeepsWork
<1>5. CASE ChainGet(c)
  <2>1. call[c].op # "assign" /\ call[c].at \in Following
    BY <1>5 DEF ChainGet, OverlapInv, AssignAwaits, Following
  <2>2. ~raced /\ c \notin overtaken => SameWork(call[c].node, Node(call[c].task))
    BY <2>1 DEF OverlapInv, OthersKeepTheWork
  <2> QED
    BY <1>1, <1>5, <2>1, <2>2, AwaitKeepsWork DEF ChainGet
<1>6. CASE AdoptGet(c)
  <2> DEFINE b == Node(call[c].task)
  <2>1. CASE Over(c) /\ UNCHANGED <<record, raced>>
    BY <1>1, <2>1, OverKeepsWork, SameAsItself DEF Over, Node
  <2>2. CASE /\ Await(c, "put", [b EXCEPT !.plan.asg = None]) /\ overtaken' = overtaken \ {c}
             /\ UNCHANGED raced
    <3>1. call[c].task \in Tasks /\ Stored(call[c].task)
      BY <1>1, <1>6, StoredStatus DEF AdoptGet, CallFits, Writing
    <3>2. b \in Nodes
      BY <3>1, StoredNode
    <3>3. call[c].op # "assign"
      BY <1>6 DEF AdoptGet, OverlapInv, AssignAwaits
    <3> HIDE DEF b
    <3>4. SameWork([b EXCEPT !.plan.asg = None], b)
      BY <3>2 DEF SameWork, Busy, Nodes, Plans
    <3> QED
      BY <1>1, <2>2, <3>3, <3>4, AwaitKeepsWork DEF b
  <2> QED
    BY <1>6, <2>1, <2>2 DEF AdoptGet
<1>7. CASE WriteNode(c)
  BY <1>7, OtherWrites, AssignmentWrites
<1> QED
  BY <1>2, <1>3, <1>4, <1>5, <1>6, <1>7 DEF Proceed

(* The fabric keeps the plan, and makes active only what was active.       *)
LEMMA FabricKeepsApart ==
  ASSUME GraphInv, OverlapInv, NEW t \in Tasks, NEW s, FabricWrite(t, s),
         SameWork(NodeOf(s), Node(t))
  PROVE  OverlapInv'
<1>1. record \in [Tasks -> TaskRecords] /\ raced \in BOOLEAN
  BY CallTyped DEF GraphInv
<1>2. record' = [record EXCEPT ![t] = s] /\ call' = call /\ raced' = raced
  BY DEF FabricWrite, Store
<1>3. \A o \in Tasks : SameWork(NodeOf(record'[o]), Node(o))
  BY <1>1, <1>2, SameAsItself DEF Node
<1>4. None \notin Clients
  BY GraphAssumption
<1>5. ASSUME NEW d \in Clients
      PROVE  /\ d \in overtaken => d \in overtaken'
             /\ call[d].at \in Following =>
                   d \in overtaken' \/ record'[call[d].task] = record[call[d].task]
  <2>1. d \in overtaken \/ call[d].task = t => d \in overtaken'
    BY <1>4 DEF FabricWrite, Overtake
  <2>2. call[d].at \in Following => call[d].task \in Tasks
    BY DEF GraphInv, CallFits, Following, Writing
  <2> QED
    BY <1>1, <1>2, <2>1, <2>2
<1> QED
  BY <1>1, <1>2, <1>3, <1>4, <1>5, QuietStep

LEMMA FabricSameWork ==
  ASSUME GraphInv, NEW t \in Tasks, NEW s, record[t].status # "NONE",
         s.plan = record[t].plan,
         s.status \in {"RUNNING", "PAUSED"} => record[t].status \in {"RUNNING", "PAUSED"},
         s.status = "AWAITING_INPUT" => record[t].status = "AWAITING_INPUT",
         s.status \in Statuses
  PROVE  SameWork(NodeOf(s), Node(t))
<1>1. record[t] \in TaskRecords
  BY CallTyped DEF GraphInv
<1> DEFINE r == record[t]
<1>2. r.plan \in Plans
  BY <1>1 DEF TaskRecords
<1>3. /\ NodeOf(s).state = NodeState(s.status) /\ NodeOf(r).state = NodeState(r.status)
      /\ NodeOf(s).plan.paths = r.plan.paths /\ NodeOf(s).plan.asg = r.plan.asg
      /\ NodeOf(r).plan.paths = r.plan.paths /\ NodeOf(r).plan.asg = r.plan.asg
  BY <1>2 DEF NodeOf, Plans
<1>4. NodeState(s.status) \in {"RUNNING", "PAUSED"} => NodeState(r.status) \in {"RUNNING", "PAUSED"}
  BY <1>1 DEF NodeState, Statuses, TaskRecords
<1> QED
  BY <1>3, <1>4 DEF SameWork, Busy, Node

LEMMA FabricApart ==
  ASSUME GraphInv, OverlapInv, NEW t \in Tasks, Fabric(t)
  PROVE  OverlapInv'
<1> DEFINE r == record[t]
<1>1. r \in TaskRecords
  BY CallTyped DEF GraphInv
<1>2. Stored(t) => r.status # "NONE"
  BY StoredStatus
<1>3. r.status \in Statuses \cup {"NONE"}
  BY <1>1 DEF TaskRecords
<1>4. PICK s : /\ FabricWrite(t, s) /\ s.plan = r.plan /\ s.status \in Statuses
               /\ s.status \in {"RUNNING", "PAUSED"} => r.status \in {"RUNNING", "PAUSED"}
               /\ s.status = "AWAITING_INPUT" => r.status = "AWAITING_INPUT"
  <2> HIDE DEF r
  <2>1. CASE Pause(t)
    <3>1. r.status = "RUNNING" /\ FabricWrite(t, [r EXCEPT !.status = "PAUSED"])
      BY <2>1 DEF Pause, r
    <3> WITNESS [r EXCEPT !.status = "PAUSED"]
    <3> QED
      BY <1>1, <3>1 DEF TaskRecords, Statuses
  <2>2. CASE Resume(t)
    <3>1. r.status = "PAUSED" /\ FabricWrite(t, [r EXCEPT !.status = "RUNNING"])
      BY <2>2 DEF Resume, r
    <3> WITNESS [r EXCEPT !.status = "RUNNING"]
    <3> QED
      BY <1>1, <3>1 DEF TaskRecords, Statuses
  <2>3. CASE Cancel(t)
    <3>1. FabricWrite(t, [r EXCEPT !.status = "CANCELLED"])
      BY <2>3 DEF Cancel, r
    <3> WITNESS [r EXCEPT !.status = "CANCELLED"]
    <3> QED
      BY <1>1, <3>1 DEF TaskRecords, Statuses
  <2>4. CASE Complete(t)
    <3>1. FabricWrite(t, [r EXCEPT !.status = "COMPLETED", !.verified = TRUE])
      BY <2>4 DEF Complete, r
    <3> WITNESS [r EXCEPT !.status = "COMPLETED", !.verified = TRUE]
    <3> QED
      BY <1>1, <3>1 DEF TaskRecords, Statuses
  <2>5. CASE ReplaceBody(t)
    <3> DEFINE q == IF r.status = "RUNNING" THEN "PAUSED" ELSE r.status
    <3>1. PICK l : FabricWrite(t, [r EXCEPT !.lease = l, !.status = q])
      BY <2>5 DEF ReplaceBody, r
    <3>2. r.status # "NONE"
      BY <1>2, <3>1 DEF FabricWrite
    <3> DEFINE w == [r EXCEPT !.lease = l, !.status = q]
    <3>3. w.plan = r.plan /\ w.status = q
      BY <1>1 DEF TaskRecords
    <3>4. q \in Statuses /\ (q = "AWAITING_INPUT" => r.status = "AWAITING_INPUT")
      BY <1>3, <3>2 DEF Statuses
    <3>5. q \in {"RUNNING", "PAUSED"} => r.status \in {"RUNNING", "PAUSED"}
      OBVIOUS
    <3>6. FabricWrite(t, w)
      BY <3>1
    <3> HIDE DEF w, q
    <3> QED
      BY <3>3, <3>4, <3>5, <3>6
  <2>6. CASE RecordCheckpoint(t)
    <3>1. Open(t) /\ FabricWrite(t, [r EXCEPT !.cps = @ + 1])
      BY <2>6 DEF RecordCheckpoint, r
    <3> WITNESS [r EXCEPT !.cps = @ + 1]
    <3> QED
      BY <1>1, <3>1 DEF Open, TaskRecords, Statuses, r
  <2> QED
    BY <2>1, <2>2, <2>3, <2>4, <2>5, <2>6 DEF Fabric
<1>5. r.status # "NONE"
  BY <1>2, <1>4 DEF FabricWrite
<1>6. SameWork(NodeOf(s), Node(t))
  BY <1>4, <1>5, FabricSameWork
<1> QED
  BY <1>4, <1>6, FabricKeepsApart

LEMMA NextApart ==
  ASSUME GraphInv, OverlapInv, [Next]_vars
  PROVE  OverlapInv'
<1>1. raced \in BOOLEAN
  BY CallTyped DEF GraphInv
<1>2. ASSUME NEW c \in Clients, Fail(c) PROVE OverlapInv'
  BY <1>1, <1>2, OverKeepsWork, SameAsItself DEF Fail, Over, Node
<1>3. CASE UNCHANGED vars
  BY <1>3, Zenon DEF vars, OverlapInv, AssignAwaits, Apart, OthersKeepTheWork, AssignmentsAreClear,
     OneAssignment, Node
<1> QED
  BY <1>2, <1>3, BeginsKeepWork, ProceedKeepsApart, FabricApart DEF Next

-----------------------------------------------------------------------------
(* "Never a silent overlap" (G3, G4): two assigned nodes are never active  *)
(* on common paths or one lane unless one of the two races has happened,   *)
(* for any number of tasks, paths, lanes and callers.                      *)
THEOREM OverlapsAreRaces == GraphSpec => []OverlapNeedsARace
<1>1. Init => OverlapInv
  <2> SUFFICES ASSUME Init PROVE OverlapInv
    OBVIOUS
  <2>1. \A t \in Tasks : ~Busy(NodeOf(record[t]))
    BY DEF Init, NoRecord, NodeOf, NodeState, Busy
  <2>2. \A c \in Clients : call[c].op = "none" /\ call[c].at = "none"
    BY DEF Init, NoCall
  <2> QED
    BY <2>1, <2>2 DEF OverlapInv, AssignAwaits, Apart, OthersKeepTheWork, AssignmentsAreClear,
       OneAssignment, Assigning, Following
<1>2. GraphInv /\ OverlapInv /\ [Next]_vars => OverlapInv'
  BY NextApart
<1>3. GraphInv /\ OverlapInv => OverlapNeedsARace
  <2> SUFFICES ASSUME GraphInv, Apart(record), NEW t \in Tasks, NEW o \in Tasks, t # o,
                      record[t].status \in {"RUNNING", "PAUSED", "AWAITING_INPUT"},
                      record[o].status \in {"RUNNING", "PAUSED", "AWAITING_INPUT"},
                      record[t].plan.asg # None, record[o].plan.asg # None
               PROVE  ~Clash(record[t].plan, record[o].plan)
    BY DEF OverlapInv, OverlapNeedsARace
  <2>1. record[t] \in TaskRecords /\ record[o] \in TaskRecords
    BY CallTyped DEF GraphInv
  <2>2. \A h \in {t, o} :
          /\ NodeOf(record[h]).state \in {"RUNNING", "PAUSED"}
          /\ NodeOf(record[h]).plan.paths = record[h].plan.paths
          /\ NodeOf(record[h]).plan.asg = record[h].plan.asg
    BY <2>1 DEF NodeOf, NodeState, TaskRecords, Plans
  <2>3. Busy(NodeOf(record[t])) /\ Busy(NodeOf(record[o]))
    BY <2>2 DEF Busy
  <2>4. ~Clash(NodeOf(record[t]).plan, NodeOf(record[o]).plan)
    BY <2>3 DEF Apart
  <2> QED
    BY <2>2, <2>4 DEF Clash
<1> QED
  BY <1>1, <1>2, <1>3, GraphInvariance, PTL DEF GraphSpec
=============================================================================
