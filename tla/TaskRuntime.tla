----------------------------- MODULE TaskRuntime -----------------------------
(***************************************************************************)
(* The task runtime: scripts of gateway-gated lease actions, fabric calls  *)
(* and graph calls on the durable task records.  A step is one of these    *)
(* calls up to its durable write: a graph call reads the node, and writes  *)
(* the new node over the record as it is then (TaskGraph); a fabric call   *)
(* writes only over the record it read (ExecutionFabric).  Callers share   *)
(* one runtime object, whose checkpoint seals are in memory.               *)
(***************************************************************************)
EXTENDS Integers, Sequences, FiniteSets

CONSTANTS
    Callers,
    Tasks,
    Program,       \* each task's steps: "operation", "checkpoint", "uncertainty", "ask"
    None,
    MaxCalls       \* bound: calls of the runtime

ASSUME RuntimeAssumption ==
    /\ Program \in [Tasks -> Seq({"operation", "checkpoint", "uncertainty", "ask"})]
    /\ None \notin Tasks /\ MaxCalls \in Nat

Statuses == {"NONE", "QUEUED", "RUNNING", "PAUSED", "AWAITING_INPUT", "CANCELLED", "COMPLETED",
             "FAILED"}
Finished == {"CANCELLED", "COMPLETED"}
Operations == {"none", "start", "run", "resume", "cancel", "complete", "recover"}
GraphCalls == {"assign", "fail", "retry", "chain", "ask", "adopt", "verify"}
Points == GraphCalls \cup
    {"none", "put", "grant", "step", "dispatch", "capture", "note", "ended", "resume_read",
     "resume_put", "revoke", "finish", "end", "finish_put", "prior", "replace", "swap_end",
     "swap_acquire", "replace_put"}

VARIABLES
    record,       \* the durable records: status, leases bound and assigned, checkpoints, plan
    lease,        \* each task's leases in order of their ids: ACTIVE or not
    sealed,       \* the integrity hashes: the task whose checkpoint a checkpoint id stands for
    call,         \* each caller's call; its ref is the lease or checkpoint it works with
    calls,        \* the calls so far
    overtaken,    \* auxiliary: callers whose task was written since their call read it
    late,         \* auxiliary: finished tasks that were given another body, or whose end an
                  \* overtaken graph call wrote back
    refused       \* auxiliary: the tasks whose checkpoint was refused as a tamper attempt

vars == <<record, lease, sealed, call, calls, overtaken, late, refused>>
aux == <<late, refused>>

NoRecord ==
    [status |-> "NONE", lease |-> 0, asg |-> 0, cps |-> <<>>, chain |-> {}, ask |-> FALSE,
     vref |-> FALSE]

NodeState(status) ==
    CASE status = "QUEUED" -> "PENDING"
      [] status = "AWAITING_INPUT" -> "PAUSED"
      [] OTHER -> status

Node(t) ==
    [state |-> NodeState(record[t].status), asg |-> record[t].asg, chain |-> record[t].chain,
     ask |-> record[t].ask, vref |-> record[t].vref]

NoNode == [state |-> "NONE", asg |-> 0, chain |-> {}, ask |-> FALSE, vref |-> FALSE]

RecordStatus(n) ==
    CASE n.state = "PENDING" -> "QUEUED"
      [] n.state = "PAUSED" /\ n.ask -> "AWAITING_INPUT"
      [] OTHER -> n.state

Written(r, n) ==
    [r EXCEPT !.status = RecordStatus(n), !.asg = n.asg, !.chain = n.chain, !.ask = n.ask,
              !.vref = n.vref, !.lease = IF n.asg = 0 THEN @ ELSE n.asg]

NoCall ==
    [op |-> "none", at |-> "none", task |-> None, graph |-> "none", node |-> NoNode, ref |-> 0,
     step |-> 0, log |-> <<>>]

Init ==
    /\ record = [t \in Tasks |-> NoRecord]
    /\ lease = [t \in Tasks |-> <<>>]
    /\ sealed = <<>>
    /\ call = [c \in Callers |-> NoCall]
    /\ calls = 0 /\ overtaken = {}
    /\ late = {} /\ refused = {}

Task(c) == call[c].task
Live(t, l) == l # 0 /\ lease[t][l]

NewCall(t, op, p) == [NoCall EXCEPT !.op = op, !.task = t, !.at = p]

Begin(c, k) ==
    /\ call[c] = NoCall /\ calls < MaxCalls
    /\ calls' = calls + 1
    /\ call' = [call EXCEPT ![c] = k]
    /\ overtaken' = overtaken \ {c}

Goto(c, p) == call' = [call EXCEPT ![c].at = p]

(* On at p, with the lease or the checkpoint r.                            *)
Hold(c, p, r) == call' = [call EXCEPT ![c] = [@ EXCEPT !.at = p, !.ref = r]]

(* The call has returned or thrown.                                        *)
Leave(c) == call' = [call EXCEPT ![c] = NoCall]
Over(c) == Leave(c) /\ overtaken' = overtaken \ {c}

Read(c) == overtaken' = overtaken \ {c}
Store(c, r) ==
    /\ record' = [record EXCEPT ![Task(c)] = r]
    /\ overtaken' = (overtaken \cup {d \in Callers : Task(d) = Task(c)}) \ {c}

(* The guarded write at the end of a fabric call: r, then on at p, or a    *)
(* lost race, which ends the call.                                         *)
FabricPut(c, r, p) ==
    \/ c \notin overtaken /\ Store(c, r) /\ Goto(c, p)
    \/ c \in overtaken /\ Over(c) /\ UNCHANGED record

NewLease(c) == lease' = [lease EXCEPT ![Task(c)] = Append(@, TRUE)]
Ended(t, l) == lease' = [lease EXCEPT ![t] = [@ EXCEPT ![l] = FALSE]]

EndLease(c, l) ==
    \/ Live(Task(c), l) /\ Ended(Task(c), l)
    \/ ~Live(Task(c), l) /\ UNCHANGED lease

-----------------------------------------------------------------------------
(* Graph calls: read the node and check it, then put the new node.         *)

(* Where the script goes on after graph call g.                            *)
After(op, g) ==
    CASE g = "fail" -> "retry"
      [] g = "retry" -> "assign"
      [] g = "chain" -> "step"
      [] g = "adopt" /\ op = "complete" -> "verify"
      [] OTHER -> "none"

GoOn(c, g) ==
    \/ After(call[c].op, g) = "none" /\ Over(c)
    \/ After(call[c].op, g) # "none" /\ Goto(c, After(call[c].op, g)) /\ Read(c)

(* The new node n of graph call g, on its way to the record.               *)
Send(c, g, n) == call' = [call EXCEPT ![c] = [@ EXCEPT !.at = "put", !.graph = g, !.node = n]]

GraphRead(c, g, legal, writes, n) ==
    /\ call[c].at = g
    /\ \/ legal /\ writes /\ Send(c, g, n) /\ Read(c)
       \/ legal /\ ~writes /\ GoOn(c, g)
       \/ ~legal /\ Over(c)
    /\ UNCHANGED <<record, lease, sealed, calls, aux>>

(* Scope, lane and dependency checks of the assignment may refuse, too.    *)
ReadAssign(c) ==
    LET n == Node(Task(c)) IN
    \E free \in BOOLEAN :
        GraphRead(c, "assign", free /\ n.state = "PENDING", TRUE,
                  [n EXCEPT !.state = "RUNNING", !.asg = call[c].ref])

(* Mutant: any node may fail, a cancelled one too.                         *)
ReadFailAny(c) ==
    GraphRead(c, "fail", TRUE, TRUE, [Node(Task(c)) EXCEPT !.state = "FAILED", !.asg = 0])

ReadFail(c) ==
    LET n == Node(Task(c)) IN
    GraphRead(c, "fail", n.state \in {"RUNNING", "PAUSED"}, TRUE,
              [n EXCEPT !.state = "FAILED", !.asg = 0])

ReadRetry(c) ==
    LET n == Node(Task(c)) IN
    GraphRead(c, "retry", n.state = "FAILED", TRUE, [n EXCEPT !.state = "PENDING", !.asg = 0])

(* Mutant: the chain names the checkpoint after the one captured.          *)
ReadChainNext(c) ==
    LET n == Node(Task(c)) IN
    GraphRead(c, "chain", TRUE, TRUE, [n EXCEPT !.chain = @ \cup {call[c].ref + 1}])

ReadChain(c) ==
    LET n == Node(Task(c)) IN
    GraphRead(c, "chain", TRUE, call[c].ref \notin n.chain, [n EXCEPT !.chain = @ \cup {call[c].ref}])

ReadAsk(c) ==
    LET n == Node(Task(c)) IN
    GraphRead(c, "ask", n.ask \/ n.state \in {"PENDING", "RUNNING", "PAUSED"}, ~n.ask,
              [n EXCEPT !.state = "PAUSED", !.ask = TRUE])

ReadVerify(c) ==
    LET n == Node(Task(c)) IN
    GraphRead(c, "verify", n.state = "COMPLETED", TRUE, [n EXCEPT !.vref = TRUE])

(* The prior node is read after the fabric's write: the adoption sees a    *)
(* transition only when another call made one in between.                  *)
ReadPrior(c) ==
    /\ call[c].at = "prior"
    /\ call' = [call EXCEPT ![c] = [@ EXCEPT !.at = "adopt", !.node = Node(Task(c))]]
    /\ UNCHANGED <<record, lease, sealed, calls, overtaken, aux>>

LegalAdoption(was, now) ==
    \/ now = was
    \/ was \in {"RUNNING", "PAUSED"} /\ now \in Finished \cup {"FAILED", "RUNNING", "PAUSED"}
    \/ was = "PENDING" /\ now \in {"RUNNING", "CANCELLED", "PAUSED"}
    \/ was = "FAILED" /\ now = "PENDING"

ReadAdopt(c) ==
    LET n == Node(Task(c))  was == call[c].node.state IN
    GraphRead(c, "adopt", LegalAdoption(was, n.state),
              n.state # was /\ n.state \in Finished \cup {"FAILED"}, [n EXCEPT !.asg = 0])

PutNode(c) ==
    /\ call[c].at = "put"
    /\ record' = [record EXCEPT ![Task(c)] = Written(@, call[c].node)]
    /\ LET p == After(call[c].op, call[c].graph)
           others == {d \in Callers : Task(d) = Task(c)} \ {c} IN
       /\ IF p = "none" THEN Leave(c) ELSE Goto(c, p)
       /\ overtaken' = (overtaken \cup others) \ {c}
    /\ late' = IF c \in overtaken /\ call[c].node.state \in Finished THEN late \cup {Task(c)} ELSE late
    /\ UNCHANGED <<lease, sealed, calls, refused>>

-----------------------------------------------------------------------------
(* startTask: a new node, a gateway-gated lease, the assignment.           *)

BeginStart(c, t) ==
    /\ record[t] = NoRecord
    /\ Begin(c, NewCall(t, "start", "grant"))
    /\ record' = [record EXCEPT ![t] = [@ EXCEPT !.status = "QUEUED"]]
    /\ UNCHANGED <<lease, sealed, aux>>

Grant(c) ==
    /\ call[c].at = "grant"
    /\ \/ /\ NewLease(c) /\ Hold(c, "assign", Len(lease[Task(c)]) + 1)
          /\ UNCHANGED overtaken
       \/ Over(c) /\ UNCHANGED lease
    /\ UNCHANGED <<record, sealed, calls, aux>>

-----------------------------------------------------------------------------
(* runProgram: from the first step, or from a checkpoint whose seal holds. *)

Verifiable(t, k) == k \in DOMAIN sealed /\ sealed[k] = t

BeginRun(c, t) ==
    \E k \in 0..Len(record[t].cps) :
        /\ record[t] # NoRecord
        /\ k > 0 => Verifiable(t, k)
        /\ Begin(c, [NewCall(t, "run", "step") EXCEPT
                        !.step = IF k = 0 THEN 1 ELSE record[t].cps[k].next,
                        !.log = IF k = 0 THEN <<>> ELSE record[t].cps[k].log])
        /\ UNCHANGED <<record, lease, sealed, aux>>

AtStep(c, kind) ==
    /\ call[c].at = "step" /\ call[c].step <= Len(Program[Task(c)])
    /\ Program[Task(c)][call[c].step] = kind

Advance(c, p) ==
    call' = [call EXCEPT ![c] = [@ EXCEPT !.at = p, !.step = call[c].step + 1,
                                          !.log = Append(call[c].log, call[c].step)]]

Authorize(c) ==
    /\ AtStep(c, "operation")
    /\ \/ /\ record[Task(c)].status = "RUNNING" /\ Live(Task(c), record[Task(c)].lease)
          /\ Goto(c, "dispatch") /\ Read(c)
       \/ Over(c)
    /\ UNCHANGED <<record, lease, sealed, calls, aux>>

(* The observation of the operation is written, or its write lost and not  *)
(* reported; a failed operation ends the run.                              *)
Dispatch(c) ==
    /\ call[c].at = "dispatch"
    /\ Advance(c, "step") \/ Leave(c)
    /\ overtaken' = IF c \in overtaken THEN overtaken \ {c}
                    ELSE overtaken \cup {d \in Callers \ {c} : Task(d) = Task(c)}
    /\ UNCHANGED <<record, lease, sealed, calls, aux>>

Capture(c) ==
    /\ AtStep(c, "checkpoint")
    /\ \/ record[Task(c)].status \in {"RUNNING", "PAUSED"} /\ Advance(c, "capture") /\ Read(c)
       \/ record[Task(c)].status \notin {"RUNNING", "PAUSED"} /\ Over(c)
    /\ UNCHANGED <<record, lease, sealed, calls, aux>>

(* Mutant: the checkpoint keeps the outcomes of this run only.             *)
SnapshotStep(c) == [next |-> call[c].step, log |-> <<call[c].step - 1>>]

Snapshot(c) == [next |-> call[c].step, log |-> call[c].log]

(* The checkpoint is durable before its hash is recorded; an id that is    *)
(* taken by another payload is refused as a tamper attempt.                *)
RecordCheckpoint(c) ==
    LET t == Task(c)  k == Len(record[t].cps) + 1
        taken == k \in DOMAIN sealed /\ sealed[k] # t IN
    /\ call[c].at = "capture"
    /\ \/ /\ c \notin overtaken /\ ~taken
          /\ Store(c, [record[t] EXCEPT !.cps = Append(@, Snapshot(c))])
          /\ sealed' = [i \in DOMAIN sealed \cup {k} |-> IF i = k THEN t ELSE sealed[i]]
          /\ Hold(c, "chain", k) /\ UNCHANGED refused
       \/ /\ c \notin overtaken /\ taken
          /\ Store(c, [record[t] EXCEPT !.cps = Append(@, Snapshot(c))])
          /\ Leave(c) /\ UNCHANGED sealed
          /\ refused' = refused \cup {t}
       \/ c \in overtaken /\ Over(c) /\ UNCHANGED <<record, sealed, refused>>
    /\ UNCHANGED <<lease, calls, late>>

ReadNote(c) ==
    /\ AtStep(c, "uncertainty")
    /\ Goto(c, "note") /\ Read(c)
    /\ UNCHANGED <<record, lease, sealed, calls, aux>>

AppendUncertainty(c) ==
    /\ call[c].at = "note"
    /\ \/ c \notin overtaken /\ Store(c, record[Task(c)]) /\ Advance(c, "step")
       \/ c \in overtaken /\ Over(c) /\ UNCHANGED record
    /\ UNCHANGED <<lease, sealed, calls, aux>>

ParkOnAsk(c) ==
    /\ AtStep(c, "ask")
    /\ Goto(c, "ask")
    /\ UNCHANGED <<record, lease, sealed, calls, overtaken, aux>>

Interrupt(c) ==
    /\ call[c].at = "step"
    /\ Over(c)
    /\ UNCHANGED <<record, lease, sealed, calls, aux>>

ProgramEnds(c) ==
    /\ call[c].at = "step" /\ call[c].step > Len(Program[Task(c)])
    /\ Goto(c, "ended")
    /\ UNCHANGED <<record, lease, sealed, calls, overtaken, aux>>

Return(c) ==
    /\ call[c].at = "ended"
    /\ Over(c)
    /\ UNCHANGED <<record, lease, sealed, calls, aux>>

-----------------------------------------------------------------------------
(* resumeFromCheckpoint.                                                   *)

BeginResume(c, t) ==
    /\ \E k \in 1..Len(record[t].cps) : Verifiable(t, k)
    /\ record[t].status \notin Finished \cup {"FAILED", "RUNNING"}
    /\ Begin(c, NewCall(t, "resume", "resume_read"))
    /\ UNCHANGED <<record, lease, sealed, aux>>

ReadResume(c) ==
    LET r == record[Task(c)] IN
    /\ call[c].at = "resume_read"
    /\ \/ r.status = "PAUSED" /\ Live(Task(c), r.lease) /\ Goto(c, "resume_put") /\ Read(c)
       \/ Over(c)
    /\ UNCHANGED <<record, lease, sealed, calls, aux>>

PutResume(c) ==
    /\ call[c].at = "resume_put"
    /\ FabricPut(c, [record[Task(c)] EXCEPT !.status = "RUNNING"], "prior")
    /\ UNCHANGED <<lease, sealed, calls, aux>>

-----------------------------------------------------------------------------
(* cancelTask revokes the lease of the record it read through the gateway  *)
(* before the fabric's terminal write; completeTask is the terminal write, *)
(* and the verification reference.                                         *)

BeginCancel(c, t) ==
    /\ record[t].status \notin {"NONE", "CANCELLED"} /\ record[t].lease # 0
    /\ Begin(c, [NewCall(t, "cancel", "revoke") EXCEPT !.ref = record[t].lease])
    /\ UNCHANGED <<record, lease, sealed, aux>>

(* The gateway may deny; a revocation of an ended lease is refused.        *)
Revoke(c) ==
    /\ call[c].at = "revoke"
    /\ \/ Live(Task(c), call[c].ref) /\ EndLease(c, call[c].ref) /\ Goto(c, "finish")
          /\ UNCHANGED overtaken
       \/ Over(c) /\ UNCHANGED lease
    /\ UNCHANGED <<record, sealed, calls, aux>>

BeginComplete(c, t) ==
    /\ record[t] # NoRecord
    /\ Begin(c, NewCall(t, "complete", "finish"))
    /\ UNCHANGED <<record, lease, sealed, aux>>

ReadFinish(c) ==
    LET r == record[Task(c)] IN
    /\ call[c].at = "finish"
    /\ \/ r.status \in {"RUNNING", "PAUSED"} /\ Hold(c, "end", r.lease) /\ Read(c)
       \/ r.status \notin {"RUNNING", "PAUSED"} /\ Over(c)
    /\ UNCHANGED <<record, lease, sealed, calls, aux>>

(* Mutant: the lease is released only when the task is cancelled.          *)
FinishLeaseCancelled(c) ==
    /\ call[c].at = "end"
    /\ IF call[c].op = "cancel" THEN EndLease(c, call[c].ref) ELSE UNCHANGED lease
    /\ Goto(c, "finish_put")
    /\ UNCHANGED <<record, sealed, calls, overtaken, aux>>

FinishLease(c) ==
    /\ call[c].at = "end"
    /\ EndLease(c, call[c].ref) /\ Goto(c, "finish_put")
    /\ UNCHANGED <<record, sealed, calls, overtaken, aux>>

PutFinish(c) ==
    /\ call[c].at = "finish_put"
    /\ FabricPut(c, [record[Task(c)] EXCEPT
                        !.status = IF call[c].op = "cancel" THEN "CANCELLED" ELSE "COMPLETED"],
                 "prior")
    /\ UNCHANGED <<lease, sealed, calls, aux>>

-----------------------------------------------------------------------------
(* executeRecoveryPlan: the fabric replaces the body, whatever the status  *)
(* of the record by then; the graph fails, retries and reassigns the task. *)

BeginRecover(c, t) ==
    /\ record[t].status \in {"RUNNING", "PAUSED"}
    /\ Begin(c, NewCall(t, "recover", "replace"))
    /\ UNCHANGED <<record, lease, sealed, aux>>

ReadReplace(c) ==
    /\ call[c].at = "replace"
    /\ \/ record[Task(c)].lease # 0 /\ Hold(c, "swap_end", record[Task(c)].lease) /\ Read(c)
       \/ Over(c)
    /\ UNCHANGED <<record, lease, sealed, calls, aux>>

SwapEnd(c) ==
    /\ call[c].at = "swap_end"
    /\ EndLease(c, call[c].ref) /\ Goto(c, "swap_acquire")
    /\ UNCHANGED <<record, sealed, calls, overtaken, aux>>

SwapAcquire(c) ==
    /\ call[c].at = "swap_acquire"
    /\ \/ /\ NewLease(c) /\ Hold(c, "replace_put", Len(lease[Task(c)]) + 1)
          /\ UNCHANGED overtaken
       \/ Over(c) /\ UNCHANGED lease
    /\ UNCHANGED <<record, sealed, calls, aux>>

(* Mutant: the task is parked whatever its status.                         *)
Parked(status) == "PAUSED"

Replaced(status) == IF status = "RUNNING" THEN "PAUSED" ELSE status

PutReplace(c) ==
    LET t == Task(c) IN
    /\ call[c].at = "replace_put"
    /\ FabricPut(c, [record[t] EXCEPT !.status = Replaced(@), !.lease = call[c].ref], "fail")
    /\ late' = IF c \notin overtaken /\ record[t].status \in Finished THEN late \cup {t} ELSE late
    /\ UNCHANGED <<lease, sealed, calls, refused>>

-----------------------------------------------------------------------------
(* Around the runtime.                                                     *)

(* A lease expires, or is revoked with its body.                           *)
LeaseEnds(t) ==
    /\ \E l \in DOMAIN lease[t] : lease[t][l] /\ Ended(t, l)
    /\ UNCHANGED <<record, sealed, call, calls, overtaken, aux>>

(* An ask is answered through the graph: the task waits for its resume.    *)
Answer(t) ==
    /\ record[t].ask
    /\ record' = [record EXCEPT ![t] = Written(@, [Node(t) EXCEPT !.ask = FALSE])]
    /\ overtaken' = overtaken \cup {c \in Callers : Task(c) = t}
    /\ UNCHANGED <<lease, sealed, call, calls, aux>>

(* The process dies: its calls and its seals are gone.                     *)
Restart ==
    /\ calls > 0 /\ calls < MaxCalls
    /\ call' = [c \in Callers |-> NoCall]
    /\ sealed' = <<>> /\ overtaken' = {}
    /\ UNCHANGED <<record, lease, calls, aux>>

CallerNext(c) ==
    \/ \E t \in Tasks :
          \/ BeginStart(c, t) \/ BeginRun(c, t) \/ BeginResume(c, t)
          \/ BeginCancel(c, t) \/ BeginComplete(c, t) \/ BeginRecover(c, t)
    \/ ReadAssign(c) \/ ReadFail(c) \/ ReadRetry(c) \/ ReadChain(c) \/ ReadAsk(c)
    \/ ReadVerify(c) \/ ReadPrior(c) \/ ReadAdopt(c) \/ PutNode(c)
    \/ Grant(c) \/ Authorize(c) \/ Dispatch(c) \/ Capture(c) \/ RecordCheckpoint(c)
    \/ ReadNote(c) \/ AppendUncertainty(c) \/ ParkOnAsk(c)
    \/ Interrupt(c) \/ ProgramEnds(c) \/ Return(c)
    \/ ReadResume(c) \/ PutResume(c)
    \/ Revoke(c) \/ ReadFinish(c) \/ FinishLease(c) \/ PutFinish(c)
    \/ ReadReplace(c) \/ SwapEnd(c) \/ SwapAcquire(c) \/ PutReplace(c)

TaskRuntimeNext ==
    \/ \E c \in Callers : CallerNext(c)
    \/ \E t \in Tasks : LeaseEnds(t) \/ Answer(t)
    \/ Restart

TaskRuntimeSpec == Init /\ [][TaskRuntimeNext]_vars
-----------------------------------------------------------------------------
Nodes ==
    [state : {"NONE", "PENDING", "RUNNING", "PAUSED", "FAILED"} \cup Finished, asg : Nat,
     chain : SUBSET Nat, ask : BOOLEAN, vref : BOOLEAN]
Checkpoints == [next : Nat, log : Seq(Nat)]
Records ==
    [status : Statuses, lease : Nat, asg : Nat, cps : Seq(Checkpoints), chain : SUBSET Nat,
     ask : BOOLEAN, vref : BOOLEAN]
Calls ==
    [op : Operations, at : Points, task : Tasks \cup {None}, graph : GraphCalls \cup {"none"},
     node : Nodes, ref : Nat, step : Nat, log : Seq(Nat)]

(* The leases a record names were granted, the checkpoints it chains were  *)
(* captured.                                                               *)
TaskRuntimeTypeOK ==
    /\ record \in [Tasks -> Records] /\ lease \in [Tasks -> Seq(BOOLEAN)]
    /\ \A t \in Tasks :
          /\ record[t].lease <= Len(lease[t]) /\ record[t].asg <= Len(lease[t])
          /\ record[t].chain \subseteq DOMAIN record[t].cps
    /\ \A k \in DOMAIN sealed : sealed[k] \in Tasks
    /\ call \in [Callers -> Calls]
    /\ calls \in 0..MaxCalls /\ overtaken \subseteq Callers /\ late \subseteq Tasks
    /\ refused \subseteq Tasks

(* "The combined evidence must equal the uninterrupted run's step for      *)
(* step": a transcript that ends COMPLETED has every step of the program   *)
(* exactly once and in order, whichever checkpoint the run started from,   *)
(* whoever captured it, and whatever became of the task in between.        *)
WholeTranscript ==
    \A c \in Callers :
        call[c].at = "ended" => call[c].log = [i \in 1..Len(Program[Task(c)]) |-> i]

(* A finished task is bound to no ACTIVE lease, whatever recovery or       *)
(* cancellation ran beside its end, unless its body was replaced after it, *)
(* or an overtaken graph call wrote the end back.                          *)
FinishedHoldsNoLease ==
    \A t \in Tasks \ late : record[t].status \in Finished => ~Live(t, record[t].lease)

(* "A cancelled task STAYS cancelled across body replacement", and a       *)
(* completed one completed: nothing takes a finished task back but a graph *)
(* call whose read of the node came before the end.                        *)
FinishedStands ==
    [][\A t \in Tasks :
          record[t].status \in Finished /\ record'[t].status # record[t].status =>
              \E c \in overtaken : Task(c) = t /\ call[c].at = "put" /\ call'[c].at # "put"]_vars

(* integrity.ts: "a different payload under a stored id is a tamper        *)
(* attempt"; no checkpoint the runtime captured itself is refused as one.  *)
NoCaptureIsRefused == refused = {}
=============================================================================
