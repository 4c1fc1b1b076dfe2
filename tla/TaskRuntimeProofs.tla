-------------------------- MODULE TaskRuntimeProofs --------------------------
(***************************************************************************)
(* Proofs about the task runtime: types, transcripts, the end of a task    *)
(* and the lease of the record that ended, for any callers, tasks and      *)
(* programs.                                                               *)
(***************************************************************************)
EXTENDS TaskRuntime, SequenceTheorems, TLAPS

(* The points of each operation; at "put" the graph call is one of them.   *)
Route(op) ==
    CASE op = "start" -> {"grant", "assign", "put"}
      [] op = "run" -> {"step", "dispatch", "capture", "note", "ask", "chain", "put", "ended"}
      [] op = "resume" -> {"resume_read", "resume_put", "prior", "adopt", "put"}
      [] op = "cancel" -> {"revoke", "finish", "end", "finish_put", "prior", "adopt", "put"}
      [] op = "complete" -> {"finish", "end", "finish_put", "prior", "adopt", "verify", "put"}
      [] op = "recover" -> {"replace", "swap_end", "swap_acquire", "replace_put", "fail",
                            "retry", "assign", "put"}
      [] OTHER -> {}

(* A call is of an operation and at one of its points, on a task that has  *)
(* a record; a node in flight is one of a record.                          *)
RouteInv ==
    /\ \A t \in Tasks : record[t].status = "NONE" => record[t] = NoRecord
    /\ \A c \in Callers : call[c].op # "none" =>
          /\ call[c].at \in Route(call[c].op) /\ Task(c) \in Tasks
          /\ record[Task(c)].status # "NONE"
          /\ call[c].at = "put" =>
                /\ call[c].graph \in Route(call[c].op) \cap GraphCalls
                /\ call[c].node.state # "NONE"
    /\ \A c \in Callers : call[c].op = "none" => call[c] = NoCall

(* What a call refers to exists: the lease it works with was granted, the  *)
(* checkpoint it chains captured, and so for the node in flight.           *)
Refers(c) ==
    call[c].op # "none" =>
        /\ call[c].op # "run" => call[c].ref <= Len(lease[Task(c)])
        /\ call[c].at = "chain" => call[c].ref \in DOMAIN record[Task(c)].cps
        /\ call[c].at = "put" => /\ call[c].node.asg <= Len(lease[Task(c)])
                                 /\ call[c].node.chain \subseteq DOMAIN record[Task(c)].cps

RefInv == \A c \in Callers : Refers(c)

Transcript(n) == [i \in 1..n |-> i]

(* The outcomes of a run, and of each checkpoint, are those of the steps   *)
(* before the one it is at.                                                *)
Logged(c) ==
    call[c].op = "run" =>
        /\ call[c].step \in 1..Len(Program[Task(c)]) + 1
        /\ call[c].log = Transcript(call[c].step - 1)
        /\ call[c].at \in {"dispatch", "note"} => call[c].step <= Len(Program[Task(c)])
        /\ call[c].at = "ended" => call[c].step = Len(Program[Task(c)]) + 1

Whole(t, x) == x.next \in 1..Len(Program[t]) + 1 /\ x.log = Transcript(x.next - 1)

LogInv ==
    /\ \A c \in Callers : Logged(c)
    /\ \A t \in Tasks : \A k \in DOMAIN record[t].cps : Whole(t, record[t].cps[k])

(* What a call that was not overtaken knows of the record it read: the     *)
(* node it puts back has the end the record has and its assignment, the    *)
(* task it resumes is parked, the lease it ended is the record's.          *)
SameEnd(r, n) ==
    r.status \in Finished \/ n.state \in Finished =>
        n.state = r.status /\ n.asg \in {0, r.asg}

Reads(c) ==
    c \notin overtaken /\ call[c].op # "none" =>
        LET r == record[Task(c)] IN
        /\ call[c].at = "put" => SameEnd(r, call[c].node)
        /\ call[c].at = "resume_put" => r.status = "PAUSED"
        /\ call[c].at \in {"end", "finish_put"} =>
              r.status \in {"RUNNING", "PAUSED"} /\ call[c].ref = r.lease
        /\ call[c].at = "swap_end" => call[c].ref = r.lease
        /\ call[c].at \in {"finish_put", "swap_acquire", "replace_put"} =>
              ~Live(Task(c), r.lease)

ReadInv == \A c \in Callers : Reads(c)

(* The lease a record is assigned is the one it is bound to, or has ended. *)
Bound(t) == record[t].asg \notin {0, record[t].lease} => ~Live(t, record[t].asg)

BoundInv == \A t \in Tasks : Bound(t)

RuntimeInv ==
    RouteInv /\ RefInv /\ LogInv /\ ReadInv /\ BoundInv /\ FinishedHoldsNoLease


(***************************************************************************)
(* What a move of a call, a put of a record and the end of a lease change. *)
(***************************************************************************)

Others(c) == \A d \in Callers : d # c => call'[d] = call[d]

LEMMA GotoMoves ==
  ASSUME call \in [Callers -> Calls], NEW c \in Callers, NEW p,
         Goto(c, p)
  PROVE  /\ Others(c)
         /\ call'[c].at = p /\ call'[c].op = call[c].op /\ call'[c].task = call[c].task
         /\ call'[c].graph = call[c].graph /\ call'[c].node = call[c].node /\ call'[c].ref =
             call[c].ref
         /\ call'[c].step = call[c].step /\ call'[c].log = call[c].log
BY DEF Goto, Calls, Others

LEMMA HoldMoves ==
  ASSUME call \in [Callers -> Calls], NEW c \in Callers, NEW p, NEW r,
         Hold(c, p, r)
  PROVE  /\ Others(c)
         /\ call'[c].at = p /\ call'[c].op = call[c].op /\ call'[c].task = call[c].task
         /\ call'[c].graph = call[c].graph /\ call'[c].node = call[c].node /\ call'[c].ref = r
         /\ call'[c].step = call[c].step /\ call'[c].log = call[c].log
BY DEF Hold, Calls, Others

LEMMA SendMoves ==
  ASSUME call \in [Callers -> Calls], NEW c \in Callers, NEW g, NEW n,
         Send(c, g, n)
  PROVE  /\ Others(c)
         /\ call'[c].at = "put" /\ call'[c].op = call[c].op /\ call'[c].task = call[c].task
         /\ call'[c].graph = g /\ call'[c].node = n /\ call'[c].ref = call[c].ref
         /\ call'[c].step = call[c].step /\ call'[c].log = call[c].log
BY DEF Send, Calls, Others

LEMMA PriorMoves ==
  ASSUME call \in [Callers -> Calls], NEW c \in Callers, NEW n,
         call' = [call EXCEPT ![c] = [@ EXCEPT !.at = "adopt", !.node = n]]
  PROVE  /\ Others(c)
         /\ call'[c].at = "adopt" /\ call'[c].op = call[c].op /\ call'[c].task = call[c].task
         /\ call'[c].graph = call[c].graph /\ call'[c].node = n /\ call'[c].ref = call[c].ref
         /\ call'[c].step = call[c].step /\ call'[c].log = call[c].log
BY DEF Calls, Others

LEMMA AdvanceMoves ==
  ASSUME call \in [Callers -> Calls], NEW c \in Callers, NEW p,
         Advance(c, p)
  PROVE  /\ Others(c)
         /\ call'[c].at = p /\ call'[c].op = call[c].op /\ call'[c].task = call[c].task
         /\ call'[c].graph = call[c].graph /\ call'[c].node = call[c].node /\ call'[c].ref =
             call[c].ref
         /\ call'[c].step = call[c].step + 1 /\ call'[c].log = Append(call[c].log, call[c].step)
BY DEF Advance, Calls, Others

LEMMA MovesType ==
  ASSUME call \in [Callers -> Calls], NEW c \in Callers
  PROVE  /\ \A p \in Points : Goto(c, p) => call' \in [Callers -> Calls]
         /\ \A p \in Points, r \in Nat : Hold(c, p, r) => call' \in [Callers -> Calls]
         /\ \A g \in GraphCalls, n \in Nodes : Send(c, g, n) => call' \in [Callers -> Calls]
         /\ \A p \in Points : Advance(c, p) => call' \in [Callers -> Calls]
<1>1. "put" \in Points
  BY DEF Points
<1>2. call[c].step \in Nat /\ call[c].log \in Seq(Nat)
  BY DEF Calls
<1>3. Append(call[c].log, call[c].step) \in Seq(Nat) /\ call[c].step + 1 \in Nat
  BY <1>2
<1>4. \A p \in Points : Goto(c, p) => call' \in [Callers -> Calls]
  BY ZenonT(60) DEF Goto, Calls
<1>5. \A p \in Points, r \in Nat : Hold(c, p, r) => call' \in [Callers -> Calls]
  BY ZenonT(60) DEF Hold, Calls
<1>6. ASSUME NEW g \in GraphCalls, NEW n \in Nodes, Send(c, g, n)
      PROVE  call' \in [Callers -> Calls]
  <2>1. [call[c] EXCEPT !.at = "put", !.graph = g, !.node = n] \in Calls
    BY <1>1 DEF Calls
  <2> QED BY <1>6, <2>1 DEF Send
<1>7. ASSUME NEW p \in Points, Advance(c, p)
      PROVE  call' \in [Callers -> Calls]
  <2>1. [call[c] EXCEPT !.at = p, !.step = call[c].step + 1,
                        !.log = Append(call[c].log, call[c].step)] \in Calls
    BY <1>3 DEF Calls
  <2> QED BY <1>7, <2>1 DEF Advance
<1> QED BY <1>4, <1>5, <1>6, <1>7

LEMMA NoCallIs ==
  /\ NoCall \in Calls /\ NoCall.op = "none" /\ NoCall.at = "none" /\ NoCall.task = None
  /\ NoCall.ref = 0 /\ NoNode \in Nodes
BY DEF NoCall, NoNode, Calls, Nodes, Operations, Points

LEMMA LeaveMoves ==
  ASSUME call \in [Callers -> Calls], NEW c \in Callers, Leave(c)
  PROVE  /\ call' \in [Callers -> Calls] /\ Others(c) /\ call'[c] = NoCall
BY NoCallIs DEF Leave, Others

LEMMA BeginMoves ==
  ASSUME call \in [Callers -> Calls], NEW c \in Callers, NEW k, Begin(c, k)
  PROVE  /\ k \in Calls => call' \in [Callers -> Calls]
         /\ Others(c) /\ call'[c] = k /\ call[c] = NoCall
         /\ overtaken' = overtaken \ {c} /\ calls < MaxCalls /\ calls' = calls + 1
BY DEF Begin, Others

LEMMA NewCallIs ==
  ASSUME NEW t \in Tasks, NEW o \in Operations, NEW p \in Points
  PROVE  LET k == NewCall(t, o, p) IN
         /\ k \in Calls /\ k.op = o /\ k.at = p /\ k.task = t /\ k.graph = "none"
         /\ k.node = NoNode /\ k.ref = 0 /\ k.step = 0 /\ k.log = <<>>
BY NoCallIs DEF NewCall, NoCall, Calls

LEMMA RunCallIs ==
  ASSUME NEW k \in Calls, NEW s \in Nat, NEW l \in Seq(Nat)
  PROVE  LET q == [k EXCEPT !.step = s, !.log = l] IN
         /\ q \in Calls /\ q.op = k.op /\ q.at = k.at /\ q.task = k.task /\ q.graph = k.graph
         /\ q.node = k.node /\ q.ref = k.ref /\ q.step = s /\ q.log = l
BY DEF Calls

LEMMA CancelCallIs ==
  ASSUME NEW k \in Calls, NEW r \in Nat
  PROVE  LET q == [k EXCEPT !.ref = r] IN
         /\ q \in Calls /\ q.op = k.op /\ q.at = k.at /\ q.task = k.task /\ q.graph = k.graph
         /\ q.node = k.node /\ q.ref = r /\ q.step = k.step /\ q.log = k.log
BY DEF Calls

LEMMA StoreIs ==
  ASSUME record \in [Tasks -> Records], NEW c \in Callers, Task(c) \in Tasks, NEW r \in Records,
         Store(c, r)
  PROVE  /\ record' \in [Tasks -> Records] /\ record'[Task(c)] = r
         /\ \A t \in Tasks : t # Task(c) => record'[t] = record[t]
         /\ overtaken' = (overtaken \cup {d \in Callers : Task(d) = Task(c)}) \ {c}
BY DEF Store

LEMMA StatusIs ==
  ASSUME NEW r \in Records, NEW s \in Statuses
  PROVE  LET q == [r EXCEPT !.status = s] IN
         /\ q \in Records /\ q.status = s /\ q.lease = r.lease /\ q.asg = r.asg /\ q.cps = r.cps
         /\ q.chain = r.chain /\ q.ask = r.ask /\ q.vref = r.vref
BY DEF Records

LEMMA ReplacedIs ==
  ASSUME NEW r \in Records, NEW l \in Nat
  PROVE  LET q == [r EXCEPT !.status = Replaced(@), !.lease = l] IN
         /\ q \in Records /\ q.status = Replaced(r.status) /\ q.lease = l /\ q.asg = r.asg
         /\ q.cps = r.cps /\ q.chain = r.chain /\ q.ask = r.ask /\ q.vref = r.vref
         /\ Replaced(r.status) = "NONE" => r.status = "NONE"
         /\ Replaced(r.status) \in Finished \/ r.status \in Finished => Replaced(r.status) =
             r.status
<1>1. Replaced(r.status) \in Statuses
  BY DEF Replaced, Statuses, Records
<1>2. r \in Records /\ r.status \in Statuses
  BY DEF Records
<1> QED BY <1>1, <1>2 DEF Records, Replaced, Finished

LEMMA SnapshotIs ==
  ASSUME call \in [Callers -> Calls], NEW c \in Callers
  PROVE  /\ Snapshot(c) \in Checkpoints
         /\ Snapshot(c).next = call[c].step /\ Snapshot(c).log = call[c].log
BY DEF Snapshot, Checkpoints, Calls

LEMMA CapturedIs ==
  ASSUME NEW r \in Records, NEW x \in Checkpoints
  PROVE  LET q == [r EXCEPT !.cps = Append(@, x)] IN
         /\ q \in Records /\ q.status = r.status /\ q.lease = r.lease /\ q.asg = r.asg
         /\ q.cps = Append(r.cps, x) /\ Len(q.cps) = Len(r.cps) + 1
         /\ DOMAIN q.cps = 1..Len(r.cps) + 1
         /\ q.cps[Len(r.cps) + 1] = x /\ \A k \in 1..Len(r.cps) : q.cps[k] = r.cps[k]
         /\ q.chain = r.chain /\ q.ask = r.ask /\ q.vref = r.vref
<1>1. r.cps \in Seq(Checkpoints)
  BY DEF Records
<1>2. /\ Append(r.cps, x) \in Seq(Checkpoints) /\ Len(Append(r.cps, x)) = Len(r.cps) + 1
      /\ DOMAIN Append(r.cps, x) = 1..Len(r.cps) + 1 /\ Append(r.cps, x)[Len(r.cps) + 1] = x
      /\ \A k \in 1..Len(r.cps) : Append(r.cps, x)[k] = r.cps[k]
  BY <1>1
<1> DEFINE q == [r EXCEPT !.cps = Append(@, x)]
<1>3. /\ q \in Records /\ q.status = r.status /\ q.lease = r.lease /\ q.asg = r.asg
      /\ q.chain = r.chain /\ q.ask = r.ask /\ q.vref = r.vref /\ q.cps = Append(r.cps, x)
  BY <1>2 DEF Records
<1> QED BY <1>2, <1>3

LEMMA RecordStatusIs ==
  ASSUME NEW n \in Nodes
  PROVE  /\ RecordStatus(n) \in Statuses
         /\ RecordStatus(n) = "NONE" => n.state = "NONE"
         /\ RecordStatus(n) \in Finished \/ n.state \in Finished => RecordStatus(n) = n.state
BY DEF RecordStatus, Nodes, Statuses, Finished

LEMMA WrittenIs ==
  ASSUME NEW r \in Records, NEW n \in Nodes
  PROVE  LET q == Written(r, n) IN
         /\ q \in Records /\ q.status = RecordStatus(n) /\ q.asg = n.asg /\ q.cps = r.cps
         /\ q.chain = n.chain /\ q.ask = n.ask /\ q.vref = n.vref
         /\ n.asg = 0 => q.lease = r.lease
         /\ n.asg # 0 => q.lease = n.asg
<1>1. RecordStatus(n) \in Statuses
  BY RecordStatusIs
<1> QED BY <1>1 DEF Written, Records, Nodes

LEMMA NodeIs ==
  ASSUME record \in [Tasks -> Records], NEW t \in Tasks
  PROVE  LET n == Node(t) IN
         /\ n \in Nodes /\ n.asg = record[t].asg /\ n.chain = record[t].chain
         /\ n.ask = record[t].ask /\ n.vref = record[t].vref
         /\ n.state = NodeState(record[t].status)
         /\ n.state = "NONE" => record[t].status = "NONE"
         /\ n.state \in Finished \/ record[t].status \in Finished => n.state = record[t].status
         /\ n.state \in {"RUNNING", "PAUSED"} =>
               record[t].status \in {"RUNNING", "PAUSED", "AWAITING_INPUT"}
BY DEF Node, NodeState, Nodes, Records, Statuses, Finished

LEMMA BoundNodeIs ==
  ASSUME NEW n \in Nodes, NEW a \in Nat, NEW s \in {"PENDING", "RUNNING", "FAILED"}
  PROVE  LET q == [n EXCEPT !.state = s, !.asg = a] IN
         /\ q \in Nodes /\ q.state = s /\ q.asg = a /\ q.chain = n.chain
BY DEF Nodes

LEMMA ChainedNodeIs ==
  ASSUME NEW n \in Nodes, NEW k \in SUBSET Nat
  PROVE  LET q == [n EXCEPT !.chain = k] IN
         /\ q \in Nodes /\ q.state = n.state /\ q.asg = n.asg /\ q.chain = k
BY DEF Nodes

LEMMA AskedNodeIs ==
  ASSUME NEW n \in Nodes, NEW s \in {"PENDING", "RUNNING", "PAUSED", "FAILED"}
  PROVE  LET q == [n EXCEPT !.state = s, !.ask = TRUE] IN
         /\ q \in Nodes /\ q.state = s /\ q.asg = n.asg /\ q.chain = n.chain
BY DEF Nodes

LEMMA PinnedNodeIs ==
  ASSUME NEW n \in Nodes
  PROVE  LET q == [n EXCEPT !.vref = TRUE] IN
         /\ q \in Nodes /\ q.state = n.state /\ q.asg = n.asg /\ q.chain = n.chain
BY DEF Nodes

LEMMA FreedNodeIs ==
  ASSUME NEW n \in Nodes
  PROVE  LET q == [n EXCEPT !.asg = 0] IN
         /\ q \in Nodes /\ q.state = n.state /\ q.asg = 0 /\ q.chain = n.chain
BY DEF Nodes

LEMMA ResolvedNodeIs ==
  ASSUME NEW n \in Nodes
  PROVE  LET q == [n EXCEPT !.ask = FALSE] IN
         /\ q \in Nodes /\ q.state = n.state /\ q.asg = n.asg /\ q.chain = n.chain
BY DEF Nodes

LEMMA NewLeaseIs ==
  ASSUME lease \in [Tasks -> Seq(BOOLEAN)], NEW c \in Callers, Task(c) \in Tasks, NewLease(c)
  PROVE  /\ lease' \in [Tasks -> Seq(BOOLEAN)]
         /\ Len(lease'[Task(c)]) = Len(lease[Task(c)]) + 1
         /\ \A t \in Tasks : t # Task(c) => lease'[t] = lease[t]
         /\ \A t \in Tasks : \A l \in 1..Len(lease[t]) : lease'[t][l] = lease[t][l]
<1> DEFINE s == lease[Task(c)]
<1>1. s \in Seq(BOOLEAN) /\ Append(s, TRUE) \in Seq(BOOLEAN) /\ Len(Append(s, TRUE)) = Len(s) +
      1
  OBVIOUS
<1>2. \A l \in 1..Len(s) : Append(s, TRUE)[l] = s[l]
  BY <1>1, AppendProperties
<1> HIDE DEF s
<1>3. lease' = [lease EXCEPT ![Task(c)] = Append(s, TRUE)]
  BY DEF NewLease, s
<1>4. lease'[Task(c)] = Append(s, TRUE)
  BY <1>3
<1>5. \A t \in Tasks : t # Task(c) => lease'[t] = lease[t]
  BY <1>3
<1>6. lease' \in [Tasks -> Seq(BOOLEAN)]
  BY <1>1, <1>3
<1>7. \A t \in Tasks : \A l \in 1..Len(lease[t]) : lease'[t][l] = lease[t][l]
  BY <1>2, <1>4, <1>5 DEF s
<1>8. Len(lease'[Task(c)]) = Len(lease[Task(c)]) + 1
  BY <1>1, <1>4 DEF s
<1> QED BY <1>5, <1>6, <1>7, <1>8

LEMMA LiveIs ==
  ASSUME NEW t \in Tasks, NEW l \in Nat, l <= Len(lease[t]), Live(t, l)
  PROVE  l \in 1..Len(lease[t])
BY DEF Live

LEMMA EndedIs ==
  ASSUME lease \in [Tasks -> Seq(BOOLEAN)], NEW t \in Tasks, NEW l \in 1..Len(lease[t]),
         Ended(t, l)
  PROVE  /\ lease' \in [Tasks -> Seq(BOOLEAN)] /\ lease'[t][l] = FALSE
         /\ \A u \in Tasks : Len(lease'[u]) = Len(lease[u])
         /\ \A u \in Tasks : \A k \in 1..Len(lease[u]) :
               lease'[u][k] = FALSE \/ lease'[u][k] = lease[u][k]
<1> DEFINE s == lease[t]  d == [s EXCEPT ![l] = FALSE]
<1>1. s \in Seq(BOOLEAN)
  OBVIOUS
<1>2. d \in Seq(BOOLEAN) /\ Len(d) = Len(s) /\ d[l] = FALSE
  BY <1>1, ExceptSeq
<1>3. \A k \in 1..Len(s) : d[k] = FALSE \/ d[k] = s[k]
  <2>1. \A k \in 1..Len(s) : k # l => d[k] = s[k]
    BY <1>1
  <2> QED BY <1>2, <2>1
<1> HIDE DEF d
<1>4. lease' = [lease EXCEPT ![t] = d]
  BY DEF Ended, d
<1>5. lease'[t] = d /\ \A u \in Tasks : u # t => lease'[u] = lease[u]
  BY <1>4
<1>6. lease' \in [Tasks -> Seq(BOOLEAN)]
  BY <1>2, <1>4
<1>7. \A u \in Tasks : Len(lease'[u]) = Len(lease[u])
  BY <1>2, <1>5
<1>8. \A u \in Tasks : \A k \in 1..Len(lease[u]) : lease'[u][k] = FALSE \/ lease'[u][k] =
      lease[u][k]
  BY <1>3, <1>5
<1> QED BY <1>2, <1>5, <1>6, <1>7, <1>8

(* Every field of a call and of a record has its type.                     *)
LEMMA Typed ==
  ASSUME TaskRuntimeTypeOK
  PROVE  /\ record \in [Tasks -> Records] /\ lease \in [Tasks -> Seq(BOOLEAN)]
         /\ call \in [Callers -> Calls]
         /\ \A c \in Callers :
               /\ call[c] \in Calls /\ call[c].op \in Operations /\ call[c].at \in Points
               /\ call[c].graph \in GraphCalls \cup {"none"} /\ call[c].node \in Nodes
               /\ call[c].ref \in Nat /\ call[c].step \in Nat /\ call[c].log \in Seq(Nat)
         /\ \A t \in Tasks :
               /\ record[t] \in Records /\ record[t].status \in Statuses /\ record[t].lease \in
                   Nat
               /\ record[t].asg \in Nat /\ record[t].cps \in Seq(Checkpoints)
               /\ Len(record[t].cps) \in Nat /\ DOMAIN record[t].cps = 1..Len(record[t].cps)
               /\ record[t].chain \subseteq Nat /\ Len(lease[t]) \in Nat
         /\ \A n \in Nodes : n.asg \in Nat /\ n.chain \subseteq Nat
BY DEF TaskRuntimeTypeOK, Records, Calls, Nodes

(* A call that is somewhere is of the operation the point belongs to.      *)
LEMMA Placed ==
  ASSUME RouteInv, NEW c \in Callers, call[c].at # "none"
  PROVE  /\ call[c].op # "none" /\ Task(c) \in Tasks /\ record[Task(c)].status # "NONE"
         /\ call[c].at \in {"step", "dispatch", "capture", "note", "ask", "chain", "ended"}
               => call[c].op = "run"
         /\ call[c].at \in {"grant", "assign", "resume_read", "resume_put", "revoke", "finish",
                            "end", "finish_put", "prior", "adopt", "verify", "replace",
                            "swap_end", "swap_acquire", "replace_put", "fail", "retry"}
               => call[c].op # "run"
         /\ call[c].at = "verify" => call[c].op = "complete"
         /\ call[c].at = "prior" => call[c].op \in {"resume", "cancel", "complete"}
         /\ call[c].at \in {"finish", "end", "finish_put"} => call[c].op \in {"cancel",
             "complete"}
         /\ call[c].at = "assign" => call[c].op \in {"start", "recover"}
         /\ call[c].at = "grant" => call[c].op = "start"
         /\ call[c].at \in {"resume_read", "resume_put"} => call[c].op = "resume"
         /\ call[c].at = "revoke" => call[c].op = "cancel"
         /\ call[c].at = "adopt" => call[c].op \in {"resume", "cancel", "complete"}
         /\ call[c].at \in {"replace", "swap_end", "swap_acquire", "replace_put", "fail",
             "retry"}
               => call[c].op = "recover"
BY DEF RouteInv, NoCall, Route

LEMMA Names ==
  /\ "none" \in Points /\ "put" \in Points /\ "grant" \in Points /\ "step" \in Points
  /\ "dispatch" \in Points /\ "capture" \in Points /\ "note" \in Points /\ "ended" \in Points
  /\ "resume_read" \in Points /\ "resume_put" \in Points /\ "revoke" \in Points /\ "finish" \in
      Points
  /\ "end" \in Points /\ "finish_put" \in Points /\ "prior" \in Points /\ "replace" \in Points
  /\ "swap_end" \in Points /\ "swap_acquire" \in Points /\ "replace_put" \in Points /\ "assign"
      \in Points
  /\ "fail" \in Points /\ "retry" \in Points /\ "chain" \in Points /\ "ask" \in Points
  /\ "adopt" \in Points /\ "verify" \in Points
  /\ "assign" \in GraphCalls /\ "fail" \in GraphCalls /\ "retry" \in GraphCalls /\ "chain" \in
      GraphCalls
  /\ "ask" \in GraphCalls /\ "adopt" \in GraphCalls /\ "verify" \in GraphCalls
  /\ "none" \in Operations /\ "start" \in Operations /\ "run" \in Operations /\ "resume" \in
      Operations
  /\ "cancel" \in Operations /\ "complete" \in Operations /\ "recover" \in Operations
BY DEF Points, GraphCalls, Operations


(***************************************************************************)
(* What the steps of one caller leave to the calls they do not move.       *)
(***************************************************************************)

(* A lease is granted or ends, or the leases stay.                         *)
LeaseChange ==
    \/ UNCHANGED lease
    \/ \E c \in Callers : Task(c) \in Tasks /\ NewLease(c)
    \/ \E t \in Tasks : \E l \in 1..Len(lease[t]) : Ended(t, l)

LEMMA CallsLast ==
  ASSUME TaskRuntimeTypeOK, NEW c \in Callers, CallerNext(c)
  PROVE  Others(c)
<1>1. ASSUME NEW t \in Tasks, BeginStart(c, t) PROVE Others(c)
  BY <1>1, Typed, BeginMoves, NewCallIs DEF BeginStart, aux
<1>2. ASSUME NEW t \in Tasks, BeginRun(c, t) PROVE Others(c)
  BY <1>2, Typed, BeginMoves, NewCallIs, RunCallIs DEF BeginRun, aux
<1>3. ASSUME NEW t \in Tasks, BeginResume(c, t) PROVE Others(c)
  BY <1>3, Typed, BeginMoves, NewCallIs DEF BeginResume, aux
<1>4. ASSUME NEW t \in Tasks, BeginCancel(c, t) PROVE Others(c)
  BY <1>4, Typed, BeginMoves, NewCallIs, CancelCallIs DEF BeginCancel, aux
<1>5. ASSUME NEW t \in Tasks, BeginComplete(c, t) PROVE Others(c)
  BY <1>5, Typed, BeginMoves, NewCallIs DEF BeginComplete, aux
<1>6. ASSUME NEW t \in Tasks, BeginRecover(c, t) PROVE Others(c)
  BY <1>6, Typed, BeginMoves, NewCallIs DEF BeginRecover, aux
<1>7. ASSUME ReadAssign(c) PROVE Others(c)
  BY <1>7, Typed, SendMoves, GotoMoves, LeaveMoves DEF ReadAssign, GraphRead, GoOn, Read, Over,
       aux
<1>8. ASSUME ReadFail(c) PROVE Others(c)
  BY <1>8, Typed, SendMoves, GotoMoves, LeaveMoves DEF ReadFail, GraphRead, GoOn, Read, Over,
       aux
<1>9. ASSUME ReadRetry(c) PROVE Others(c)
  BY <1>9, Typed, SendMoves, GotoMoves, LeaveMoves DEF ReadRetry, GraphRead, GoOn, Read, Over,
       aux
<1>10. ASSUME ReadChain(c) PROVE Others(c)
  BY <1>10, Typed, SendMoves, GotoMoves, LeaveMoves DEF ReadChain, GraphRead, GoOn, Read, Over,
       aux
<1>11. ASSUME ReadAsk(c) PROVE Others(c)
  BY <1>11, Typed, SendMoves, GotoMoves, LeaveMoves DEF ReadAsk, GraphRead, GoOn, Read, Over,
       aux
<1>12. ASSUME ReadVerify(c) PROVE Others(c)
  BY <1>12, Typed, SendMoves, GotoMoves, LeaveMoves DEF ReadVerify, GraphRead, GoOn, Read, Over,
       aux
<1>13. ASSUME ReadPrior(c) PROVE Others(c)
  BY <1>13, Typed, PriorMoves DEF ReadPrior, aux
<1>14. ASSUME ReadAdopt(c) PROVE Others(c)
  BY <1>14, Typed, SendMoves, GotoMoves, LeaveMoves DEF ReadAdopt, GraphRead, GoOn, Read, Over,
       aux
<1>15. ASSUME PutNode(c) PROVE Others(c)
  BY <1>15, Typed, GotoMoves, LeaveMoves DEF PutNode
<1>16. ASSUME Grant(c) PROVE Others(c)
  BY <1>16, Typed, HoldMoves, LeaveMoves DEF Grant, Over, aux
<1>17. ASSUME Authorize(c) PROVE Others(c)
  BY <1>17, Typed, GotoMoves, LeaveMoves DEF Authorize, AtStep, Read, Over, aux
<1>18. ASSUME Dispatch(c) PROVE Others(c)
  BY <1>18, Typed, AdvanceMoves, LeaveMoves DEF Dispatch, aux
<1>19. ASSUME Capture(c) PROVE Others(c)
  BY <1>19, Typed, AdvanceMoves, LeaveMoves DEF Capture, AtStep, Read, Over, aux
<1>20. ASSUME RecordCheckpoint(c) PROVE Others(c)
  BY <1>20, Typed, HoldMoves, LeaveMoves DEF RecordCheckpoint, Over
<1>21. ASSUME ReadNote(c) PROVE Others(c)
  BY <1>21, Typed, GotoMoves DEF ReadNote, AtStep, Read, aux
<1>22. ASSUME AppendUncertainty(c) PROVE Others(c)
  BY <1>22, Typed, AdvanceMoves, LeaveMoves DEF AppendUncertainty, Over, aux
<1>23. ASSUME ParkOnAsk(c) PROVE Others(c)
  BY <1>23, Typed, GotoMoves DEF ParkOnAsk, AtStep, aux
<1>24. ASSUME Interrupt(c) PROVE Others(c)
  BY <1>24, Typed, LeaveMoves DEF Interrupt, Over, aux
<1>25. ASSUME ProgramEnds(c) PROVE Others(c)
  BY <1>25, Typed, GotoMoves DEF ProgramEnds, aux
<1>26. ASSUME Return(c) PROVE Others(c)
  BY <1>26, Typed, LeaveMoves DEF Return, Over, aux
<1>27. ASSUME ReadResume(c) PROVE Others(c)
  BY <1>27, Typed, GotoMoves, LeaveMoves DEF ReadResume, Read, Over, aux
<1>28. ASSUME PutResume(c) PROVE Others(c)
  BY <1>28, Typed, GotoMoves, LeaveMoves DEF PutResume, FabricPut, Over, aux
<1>29. ASSUME Revoke(c) PROVE Others(c)
  BY <1>29, Typed, GotoMoves, LeaveMoves DEF Revoke, EndLease, Over, aux
<1>30. ASSUME ReadFinish(c) PROVE Others(c)
  BY <1>30, Typed, HoldMoves, LeaveMoves DEF ReadFinish, Read, Over, aux
<1>31. ASSUME FinishLease(c) PROVE Others(c)
  BY <1>31, Typed, GotoMoves DEF FinishLease, EndLease, aux
<1>32. ASSUME PutFinish(c) PROVE Others(c)
  BY <1>32, Typed, GotoMoves, LeaveMoves DEF PutFinish, FabricPut, Over, aux
<1>33. ASSUME ReadReplace(c) PROVE Others(c)
  BY <1>33, Typed, HoldMoves, LeaveMoves DEF ReadReplace, Read, Over, aux
<1>34. ASSUME SwapEnd(c) PROVE Others(c)
  BY <1>34, Typed, GotoMoves DEF SwapEnd, EndLease, aux
<1>35. ASSUME SwapAcquire(c) PROVE Others(c)
  BY <1>35, Typed, HoldMoves, LeaveMoves DEF SwapAcquire, Over, aux
<1>36. ASSUME PutReplace(c) PROVE Others(c)
  BY <1>36, Typed, GotoMoves, LeaveMoves DEF PutReplace, FabricPut, Over
<1> QED BY <1>1, <1>2, <1>3, <1>4, <1>5, <1>6, <1>7, <1>8, <1>9, <1>10, <1>11, <1>12, <1>13,
      <1>14, <1>15, <1>16, <1>17, <1>18, <1>19, <1>20, <1>21, <1>22, <1>23, <1>24, <1>25, <1>26,
      <1>27, <1>28, <1>29, <1>30, <1>31, <1>32, <1>33, <1>34, <1>35, <1>36 DEF CallerNext

LEMMA LeaseStep ==
  ASSUME TaskRuntimeTypeOK, RouteInv, RefInv, NEW c \in Callers, CallerNext(c)
  PROVE  LeaseChange
<1> USE DEF LeaseChange
<1>1. ASSUME NEW t \in Tasks, BeginStart(c, t) PROVE LeaseChange
  BY <1>1 DEF BeginStart, aux
<1>2. ASSUME NEW t \in Tasks, BeginRun(c, t) PROVE LeaseChange
  BY <1>2 DEF BeginRun, aux
<1>3. ASSUME NEW t \in Tasks, BeginResume(c, t) PROVE LeaseChange
  BY <1>3 DEF BeginResume, aux
<1>4. ASSUME NEW t \in Tasks, BeginCancel(c, t) PROVE LeaseChange
  BY <1>4 DEF BeginCancel, aux
<1>5. ASSUME NEW t \in Tasks, BeginComplete(c, t) PROVE LeaseChange
  BY <1>5 DEF BeginComplete, aux
<1>6. ASSUME NEW t \in Tasks, BeginRecover(c, t) PROVE LeaseChange
  BY <1>6 DEF BeginRecover, aux
<1>7. ASSUME ReadAssign(c) PROVE LeaseChange
  BY <1>7 DEF ReadAssign, GraphRead, GoOn, Read, Over, aux
<1>8. ASSUME ReadFail(c) PROVE LeaseChange
  BY <1>8 DEF ReadFail, GraphRead, GoOn, Read, Over, aux
<1>9. ASSUME ReadRetry(c) PROVE LeaseChange
  BY <1>9 DEF ReadRetry, GraphRead, GoOn, Read, Over, aux
<1>10. ASSUME ReadChain(c) PROVE LeaseChange
  BY <1>10 DEF ReadChain, GraphRead, GoOn, Read, Over, aux
<1>11. ASSUME ReadAsk(c) PROVE LeaseChange
  BY <1>11 DEF ReadAsk, GraphRead, GoOn, Read, Over, aux
<1>12. ASSUME ReadVerify(c) PROVE LeaseChange
  BY <1>12 DEF ReadVerify, GraphRead, GoOn, Read, Over, aux
<1>13. ASSUME ReadPrior(c) PROVE LeaseChange
  BY <1>13 DEF ReadPrior, aux
<1>14. ASSUME ReadAdopt(c) PROVE LeaseChange
  BY <1>14 DEF ReadAdopt, GraphRead, GoOn, Read, Over, aux
<1>15. ASSUME PutNode(c) PROVE LeaseChange
  BY <1>15 DEF PutNode
<1>16. ASSUME Grant(c) PROVE LeaseChange
  BY <1>16, Typed, LiveIs, Placed DEF Grant, Over, aux
<1>17. ASSUME Authorize(c) PROVE LeaseChange
  BY <1>17 DEF Authorize, AtStep, Read, Over, aux
<1>18. ASSUME Dispatch(c) PROVE LeaseChange
  BY <1>18 DEF Dispatch, aux
<1>19. ASSUME Capture(c) PROVE LeaseChange
  BY <1>19 DEF Capture, AtStep, Read, Over, aux
<1>20. ASSUME RecordCheckpoint(c) PROVE LeaseChange
  BY <1>20 DEF RecordCheckpoint, Over
<1>21. ASSUME ReadNote(c) PROVE LeaseChange
  BY <1>21 DEF ReadNote, AtStep, Read, aux
<1>22. ASSUME AppendUncertainty(c) PROVE LeaseChange
  BY <1>22 DEF AppendUncertainty, Over, aux
<1>23. ASSUME ParkOnAsk(c) PROVE LeaseChange
  BY <1>23 DEF ParkOnAsk, AtStep, aux
<1>24. ASSUME Interrupt(c) PROVE LeaseChange
  BY <1>24 DEF Interrupt, Over, aux
<1>25. ASSUME ProgramEnds(c) PROVE LeaseChange
  BY <1>25 DEF ProgramEnds, aux
<1>26. ASSUME Return(c) PROVE LeaseChange
  BY <1>26 DEF Return, Over, aux
<1>27. ASSUME ReadResume(c) PROVE LeaseChange
  BY <1>27 DEF ReadResume, Read, Over, aux
<1>28. ASSUME PutResume(c) PROVE LeaseChange
  BY <1>28 DEF PutResume, FabricPut, Over, aux
<1>29. ASSUME Revoke(c) PROVE LeaseChange
  BY <1>29, Typed, LiveIs, Placed DEF RefInv, Refers, Revoke, EndLease, Over, aux
<1>30. ASSUME ReadFinish(c) PROVE LeaseChange
  BY <1>30 DEF ReadFinish, Read, Over, aux
<1>31. ASSUME FinishLease(c) PROVE LeaseChange
  BY <1>31, Typed, LiveIs, Placed DEF RefInv, Refers, FinishLease, EndLease, aux
<1>32. ASSUME PutFinish(c) PROVE LeaseChange
  BY <1>32 DEF PutFinish, FabricPut, Over, aux
<1>33. ASSUME ReadReplace(c) PROVE LeaseChange
  BY <1>33 DEF ReadReplace, Read, Over, aux
<1>34. ASSUME SwapEnd(c) PROVE LeaseChange
  BY <1>34, Typed, LiveIs, Placed DEF RefInv, Refers, SwapEnd, EndLease, aux
<1>35. ASSUME SwapAcquire(c) PROVE LeaseChange
  BY <1>35, Typed, LiveIs, Placed DEF SwapAcquire, Over, aux
<1>36. ASSUME PutReplace(c) PROVE LeaseChange
  BY <1>36 DEF PutReplace, FabricPut, Over
<1> QED BY <1>1, <1>2, <1>3, <1>4, <1>5, <1>6, <1>7, <1>8, <1>9, <1>10, <1>11, <1>12, <1>13,
      <1>14, <1>15, <1>16, <1>17, <1>18, <1>19, <1>20, <1>21, <1>22, <1>23, <1>24, <1>25, <1>26,
      <1>27, <1>28, <1>29, <1>30, <1>31, <1>32, <1>33, <1>34, <1>35, <1>36 DEF CallerNext


Extends(s, q) == Len(s) <= Len(q) /\ \A k \in 1..Len(s) : q[k] = s[k]

(* Its leases were granted, the checkpoints it chains are in it.           *)
Fits(t, r) ==
    r.lease <= Len(lease[t]) /\ r.asg <= Len(lease[t]) /\ r.chain \subseteq DOMAIN r.cps

(* A record is written, with the checkpoints it has, or the records stay.  *)
RecordChange ==
    \/ UNCHANGED record
    \/ \E t \in Tasks : \E r \in Records :
          /\ record' = [record EXCEPT ![t] = r] /\ r.status # "NONE"
          /\ Extends(record[t].cps, r.cps) /\ Fits(t, r)

LEMMA OneRecord ==
  ASSUME NEW t \in Tasks, NEW r \in Records,
         UNCHANGED record \/ record' = [record EXCEPT ![t] = r], r.status # "NONE",
         Extends(record[t].cps, r.cps), Fits(t, r)
  PROVE  RecordChange
BY DEF RecordChange

LEMMA SameCheckpoints ==
  ASSUME NEW r \in Records, NEW q \in Records, r.cps = q.cps
  PROVE  Extends(q.cps, r.cps)
<1>1. q.cps \in Seq(Checkpoints)
  BY DEF Records
<1> QED BY <1>1 DEF Extends

LEMMA RecordStep ==
  ASSUME TaskRuntimeTypeOK, RouteInv, RefInv, NEW c \in Callers, CallerNext(c)
  PROVE  RecordChange
<1>1. ASSUME NEW t \in Tasks, BeginStart(c, t) PROVE RecordChange
  <2>1. record' = [record EXCEPT ![t] = [record[t] EXCEPT !.status = "QUEUED"]]
    BY <1>1 DEF BeginStart
  <2>2. "QUEUED" \in Statuses
    BY DEF Statuses
  <2> DEFINE r == [record[t] EXCEPT !.status = "QUEUED"]
  <2>3. /\ r \in Records /\ r.status = "QUEUED" /\ r.cps = record[t].cps
        /\ r.lease = record[t].lease /\ r.asg = record[t].asg /\ r.chain = record[t].chain
    BY <2>2, Typed, StatusIs
  <2> HIDE DEF r
  <2>4. record' = [record EXCEPT ![t] = r]
    BY <2>1 DEF r
  <2>5. Fits(t, r)
    BY <2>3 DEF Fits, TaskRuntimeTypeOK
  <2> QED BY <2>3, <2>4, <2>5, Typed, SameCheckpoints, OneRecord
<1>2. ASSUME NEW t \in Tasks, BeginRun(c, t) PROVE RecordChange
  BY <1>2 DEF RecordChange, BeginRun, aux
<1>3. ASSUME NEW t \in Tasks, BeginResume(c, t) PROVE RecordChange
  BY <1>3 DEF RecordChange, BeginResume, aux
<1>4. ASSUME NEW t \in Tasks, BeginCancel(c, t) PROVE RecordChange
  BY <1>4 DEF RecordChange, BeginCancel, aux
<1>5. ASSUME NEW t \in Tasks, BeginComplete(c, t) PROVE RecordChange
  BY <1>5 DEF RecordChange, BeginComplete, aux
<1>6. ASSUME NEW t \in Tasks, BeginRecover(c, t) PROVE RecordChange
  BY <1>6 DEF RecordChange, BeginRecover, aux
<1>7. ASSUME ReadAssign(c) PROVE RecordChange
  BY <1>7 DEF RecordChange, ReadAssign, GraphRead, GoOn, Read, Over, aux
<1>8. ASSUME ReadFail(c) PROVE RecordChange
  BY <1>8 DEF RecordChange, ReadFail, GraphRead, GoOn, Read, Over, aux
<1>9. ASSUME ReadRetry(c) PROVE RecordChange
  BY <1>9 DEF RecordChange, ReadRetry, GraphRead, GoOn, Read, Over, aux
<1>10. ASSUME ReadChain(c) PROVE RecordChange
  BY <1>10 DEF RecordChange, ReadChain, GraphRead, GoOn, Read, Over, aux
<1>11. ASSUME ReadAsk(c) PROVE RecordChange
  BY <1>11 DEF RecordChange, ReadAsk, GraphRead, GoOn, Read, Over, aux
<1>12. ASSUME ReadVerify(c) PROVE RecordChange
  BY <1>12 DEF RecordChange, ReadVerify, GraphRead, GoOn, Read, Over, aux
<1>13. ASSUME ReadPrior(c) PROVE RecordChange
  BY <1>13 DEF RecordChange, ReadPrior, aux
<1>14. ASSUME ReadAdopt(c) PROVE RecordChange
  BY <1>14 DEF RecordChange, ReadAdopt, GraphRead, GoOn, Read, Over, aux
<1>15. ASSUME PutNode(c) PROVE RecordChange
  <2>1. Task(c) \in Tasks /\ call[c].op # "none" /\ call[c].node.state # "NONE"
    BY <1>15, Placed DEF PutNode, RouteInv
  <2> DEFINE r == Written(record[Task(c)], call[c].node)
  <2>2. record' = [record EXCEPT ![Task(c)] = r]
    BY <1>15 DEF PutNode
  <2>3. /\ r \in Records /\ r.status = RecordStatus(call[c].node) /\ r.cps = record[Task(c)].cps
        /\ r.asg = call[c].node.asg /\ r.chain = call[c].node.chain
        /\ r.lease \in {record[Task(c)].lease, call[c].node.asg}
    BY <2>1, Typed, WrittenIs
  <2>4. r.status # "NONE"
    BY <2>1, <2>3, Typed, RecordStatusIs
  <2> HIDE DEF r
  <2>5. Fits(Task(c), r)
    BY <1>15, <2>1, <2>3 DEF Fits, RefInv, Refers, TaskRuntimeTypeOK, PutNode
  <2> QED BY <2>1, <2>2, <2>3, <2>4, <2>5, Typed, SameCheckpoints, OneRecord
<1>16. ASSUME Grant(c) PROVE RecordChange
  BY <1>16 DEF RecordChange, Grant, Over, aux
<1>17. ASSUME Authorize(c) PROVE RecordChange
  BY <1>17 DEF RecordChange, Authorize, AtStep, Read, Over, aux
<1>18. ASSUME Dispatch(c) PROVE RecordChange
  BY <1>18 DEF RecordChange, Dispatch, aux
<1>19. ASSUME Capture(c) PROVE RecordChange
  BY <1>19 DEF RecordChange, Capture, AtStep, Read, Over, aux
<1>20. ASSUME RecordCheckpoint(c) PROVE RecordChange
  <2> DEFINE r == [record[Task(c)] EXCEPT !.cps = Append(@, Snapshot(c))]
  <2>1. Task(c) \in Tasks /\ record[Task(c)].status # "NONE"
    BY <1>20, Placed DEF RecordCheckpoint
  <2>2. UNCHANGED record \/ record' = [record EXCEPT ![Task(c)] = r]
    BY <1>20 DEF RecordCheckpoint, Store
  <2>5. Snapshot(c) \in Checkpoints /\ record[Task(c)] \in Records
    BY <2>1, Typed, SnapshotIs
  <2>3. /\ r \in Records /\ r.status = record[Task(c)].status
        /\ Len(r.cps) = Len(record[Task(c)].cps) + 1
        /\ \A k \in 1..Len(record[Task(c)].cps) : r.cps[k] = record[Task(c)].cps[k]
        /\ DOMAIN r.cps = 1..Len(record[Task(c)].cps) + 1 /\ r.lease = record[Task(c)].lease
        /\ r.asg = record[Task(c)].asg /\ r.chain = record[Task(c)].chain
    BY <2>5, CapturedIs
  <2> HIDE DEF r
  <2>4. Extends(record[Task(c)].cps, r.cps)
    BY <2>1, <2>3, Typed DEF Extends
  <2>6. Fits(Task(c), r)
    BY <2>1, <2>3, Typed DEF Fits, TaskRuntimeTypeOK
  <2> QED BY <2>1, <2>2, <2>3, <2>4, <2>6, OneRecord
<1>21. ASSUME ReadNote(c) PROVE RecordChange
  BY <1>21 DEF RecordChange, ReadNote, AtStep, Read, aux
<1>22. ASSUME AppendUncertainty(c) PROVE RecordChange
  <2>1. Task(c) \in Tasks /\ record[Task(c)].status # "NONE"
    BY <1>22, Placed DEF AppendUncertainty
  <2>2. UNCHANGED record
    BY <1>22, <2>1, Typed DEF AppendUncertainty, Store
  <2> QED BY <2>2 DEF RecordChange
<1>23. ASSUME ParkOnAsk(c) PROVE RecordChange
  BY <1>23 DEF RecordChange, ParkOnAsk, AtStep, aux
<1>24. ASSUME Interrupt(c) PROVE RecordChange
  BY <1>24 DEF RecordChange, Interrupt, Over, aux
<1>25. ASSUME ProgramEnds(c) PROVE RecordChange
  BY <1>25 DEF RecordChange, ProgramEnds, aux
<1>26. ASSUME Return(c) PROVE RecordChange
  BY <1>26 DEF RecordChange, Return, Over, aux
<1>27. ASSUME ReadResume(c) PROVE RecordChange
  BY <1>27 DEF RecordChange, ReadResume, Read, Over, aux
<1>28. ASSUME PutResume(c) PROVE RecordChange
  <2> DEFINE r == [record[Task(c)] EXCEPT !.status = "RUNNING"]
  <2>1. Task(c) \in Tasks /\ record[Task(c)].status # "NONE"
    BY <1>28, Placed DEF PutResume
  <2>2. UNCHANGED record \/ record' = [record EXCEPT ![Task(c)] = r]
    BY <1>28 DEF PutResume, FabricPut, Store
  <2>3. /\ r \in Records /\ r.status # "NONE" /\ r.cps = record[Task(c)].cps
        /\ r.lease = record[Task(c)].lease /\ r.asg = record[Task(c)].asg
        /\ r.chain = record[Task(c)].chain
    BY <2>1, Typed, StatusIs DEF Statuses
  <2> HIDE DEF r
  <2>4. Fits(Task(c), r)
    BY <1>28, <2>1, <2>3 DEF Fits, TaskRuntimeTypeOK
  <2> QED BY <2>1, <2>2, <2>3, <2>4, Typed, SameCheckpoints, OneRecord
<1>29. ASSUME Revoke(c) PROVE RecordChange
  BY <1>29 DEF RecordChange, Revoke, EndLease, Over, aux
<1>30. ASSUME ReadFinish(c) PROVE RecordChange
  BY <1>30 DEF RecordChange, ReadFinish, Read, Over, aux
<1>31. ASSUME FinishLease(c) PROVE RecordChange
  BY <1>31 DEF RecordChange, FinishLease, EndLease, aux
<1>32. ASSUME PutFinish(c) PROVE RecordChange
  <2> DEFINE r == [record[Task(c)] EXCEPT !.status = IF call[c].op = "cancel" THEN "CANCELLED"
        ELSE "COMPLETED"]
  <2>1. Task(c) \in Tasks /\ record[Task(c)].status # "NONE"
    BY <1>32, Placed DEF PutFinish
  <2>2. UNCHANGED record \/ record' = [record EXCEPT ![Task(c)] = r]
    BY <1>32 DEF PutFinish, FabricPut, Store
  <2>a. /\ (IF call[c].op = "cancel" THEN "CANCELLED" ELSE "COMPLETED") \in Statuses
        /\ (IF call[c].op = "cancel" THEN "CANCELLED" ELSE "COMPLETED") # "NONE"
    BY DEF Statuses
  <2>3. /\ r \in Records /\ r.status # "NONE" /\ r.cps = record[Task(c)].cps
        /\ r.lease = record[Task(c)].lease /\ r.asg = record[Task(c)].asg
        /\ r.chain = record[Task(c)].chain
    BY <2>1, <2>a, Typed, StatusIs
  <2> HIDE DEF r
  <2>4. Fits(Task(c), r)
    BY <1>32, <2>1, <2>3 DEF Fits, TaskRuntimeTypeOK
  <2> QED BY <2>1, <2>2, <2>3, <2>4, Typed, SameCheckpoints, OneRecord
<1>33. ASSUME ReadReplace(c) PROVE RecordChange
  BY <1>33 DEF RecordChange, ReadReplace, Read, Over, aux
<1>34. ASSUME SwapEnd(c) PROVE RecordChange
  BY <1>34 DEF RecordChange, SwapEnd, EndLease, aux
<1>35. ASSUME SwapAcquire(c) PROVE RecordChange
  BY <1>35 DEF RecordChange, SwapAcquire, Over, aux
<1>36. ASSUME PutReplace(c) PROVE RecordChange
  <2> DEFINE r == [record[Task(c)] EXCEPT !.status = Replaced(@), !.lease = call[c].ref]
  <2>1. Task(c) \in Tasks /\ record[Task(c)].status # "NONE"
    BY <1>36, Placed DEF PutReplace
  <2>2. UNCHANGED record \/ record' = [record EXCEPT ![Task(c)] = r]
    BY <1>36 DEF PutReplace, FabricPut, Store
  <2>a. record[Task(c)] \in Records /\ call[c].ref \in Nat
    BY <2>1, Typed
  <2>3. /\ r \in Records /\ r.status # "NONE" /\ r.cps = record[Task(c)].cps
        /\ r.lease = call[c].ref /\ r.asg = record[Task(c)].asg
        /\ r.chain = record[Task(c)].chain
    BY <2>1, <2>a, ReplacedIs
  <2> HIDE DEF r
  <2>4. Fits(Task(c), r)
    BY <1>36, <2>1, <2>3, Placed DEF Fits, TaskRuntimeTypeOK, RefInv, Refers, PutReplace
  <2> QED BY <2>1, <2>2, <2>3, <2>4, Typed, SameCheckpoints, OneRecord
<1> QED BY <1>1, <1>2, <1>3, <1>4, <1>5, <1>6, <1>7, <1>8, <1>9, <1>10, <1>11, <1>12, <1>13,
      <1>14, <1>15, <1>16, <1>17, <1>18, <1>19, <1>20, <1>21, <1>22, <1>23, <1>24, <1>25, <1>26,
      <1>27, <1>28, <1>29, <1>30, <1>31, <1>32, <1>33, <1>34, <1>35, <1>36 DEF CallerNext


(* A write of a record is known to every other call on its task.           *)
Untouched(c) ==
    \A d \in Callers : d # c /\ call[d].op # "none" /\ d \notin overtaken' =>
        d \notin overtaken /\ record'[Task(d)] = record[Task(d)]

LEMMA StoreTells ==
  ASSUME TaskRuntimeTypeOK, RouteInv, NEW c \in Callers, NEW r, Store(c, r)
  PROVE  Untouched(c)
<1>1. /\ record' = [record EXCEPT ![Task(c)] = r]
      /\ overtaken' = (overtaken \cup {d \in Callers : Task(d) = Task(c)}) \ {c}
  BY DEF Store
<1>2. \A d \in Callers : call[d].op # "none" => Task(d) \in Tasks
  BY DEF RouteInv
<1> QED BY <1>1, <1>2, Typed DEF Untouched

LEMMA OthersAreTold ==
  ASSUME TaskRuntimeTypeOK, RouteInv, NEW c \in Callers, CallerNext(c)
  PROVE  Untouched(c)
<1>1. ASSUME NEW t \in Tasks, BeginStart(c, t) PROVE Untouched(c)
  <2>1. \A d \in Callers : call[d].op # "none" => Task(d) \in Tasks /\ Task(d) # t
    BY <1>1 DEF RouteInv, BeginStart, NoRecord
  <2>2. record' = [record EXCEPT ![t] = [@ EXCEPT !.status = "QUEUED"]] /\ overtaken' =
        overtaken \ {c}
    BY <1>1 DEF BeginStart, Begin
  <2> QED BY <2>1, <2>2, Typed DEF Untouched
<1>2. ASSUME NEW t \in Tasks, BeginRun(c, t) PROVE Untouched(c)
  BY <1>2 DEF BeginRun, aux, Begin, Untouched
<1>3. ASSUME NEW t \in Tasks, BeginResume(c, t) PROVE Untouched(c)
  BY <1>3 DEF BeginResume, aux, Begin, Untouched
<1>4. ASSUME NEW t \in Tasks, BeginCancel(c, t) PROVE Untouched(c)
  BY <1>4 DEF BeginCancel, aux, Begin, Untouched
<1>5. ASSUME NEW t \in Tasks, BeginComplete(c, t) PROVE Untouched(c)
  BY <1>5 DEF BeginComplete, aux, Begin, Untouched
<1>6. ASSUME NEW t \in Tasks, BeginRecover(c, t) PROVE Untouched(c)
  BY <1>6 DEF BeginRecover, aux, Begin, Untouched
<1>7. ASSUME ReadAssign(c) PROVE Untouched(c)
  BY <1>7 DEF ReadAssign, GraphRead, GoOn, Read, Over, aux, Begin, Untouched
<1>8. ASSUME ReadFail(c) PROVE Untouched(c)
  BY <1>8 DEF ReadFail, GraphRead, GoOn, Read, Over, aux, Begin, Untouched
<1>9. ASSUME ReadRetry(c) PROVE Untouched(c)
  BY <1>9 DEF ReadRetry, GraphRead, GoOn, Read, Over, aux, Begin, Untouched
<1>10. ASSUME ReadChain(c) PROVE Untouched(c)
  BY <1>10 DEF ReadChain, GraphRead, GoOn, Read, Over, aux, Begin, Untouched
<1>11. ASSUME ReadAsk(c) PROVE Untouched(c)
  BY <1>11 DEF ReadAsk, GraphRead, GoOn, Read, Over, aux, Begin, Untouched
<1>12. ASSUME ReadVerify(c) PROVE Untouched(c)
  BY <1>12 DEF ReadVerify, GraphRead, GoOn, Read, Over, aux, Begin, Untouched
<1>13. ASSUME ReadPrior(c) PROVE Untouched(c)
  BY <1>13 DEF ReadPrior, aux, Begin, Untouched
<1>14. ASSUME ReadAdopt(c) PROVE Untouched(c)
  BY <1>14 DEF ReadAdopt, GraphRead, GoOn, Read, Over, aux, Begin, Untouched
<1>15. ASSUME PutNode(c) PROVE Untouched(c)
  BY <1>15, Typed, Placed DEF PutNode, Begin, Untouched
<1>16. ASSUME Grant(c) PROVE Untouched(c)
  BY <1>16 DEF Grant, Over, aux, Begin, Untouched
<1>17. ASSUME Authorize(c) PROVE Untouched(c)
  BY <1>17 DEF Authorize, AtStep, Read, Over, aux, Begin, Untouched
<1>18. ASSUME Dispatch(c) PROVE Untouched(c)
  BY <1>18 DEF Dispatch, aux, Begin, Untouched
<1>19. ASSUME Capture(c) PROVE Untouched(c)
  BY <1>19 DEF Capture, AtStep, Read, Over, aux, Begin, Untouched
<1>20. ASSUME RecordCheckpoint(c) PROVE Untouched(c)
  <2>1. CASE \E r : Store(c, r)
    BY <2>1, StoreTells
  <2>2. CASE UNCHANGED record /\ overtaken' = overtaken \ {c}
    BY <2>2 DEF Untouched
  <2> QED BY <1>20, <2>1, <2>2 DEF RecordCheckpoint, Over
<1>21. ASSUME ReadNote(c) PROVE Untouched(c)
  BY <1>21 DEF ReadNote, AtStep, Read, aux, Begin, Untouched
<1>22. ASSUME AppendUncertainty(c) PROVE Untouched(c)
  <2>1. CASE \E r : Store(c, r)
    BY <2>1, StoreTells
  <2>2. CASE UNCHANGED record /\ overtaken' = overtaken \ {c}
    BY <2>2 DEF Untouched
  <2> QED BY <1>22, <2>1, <2>2 DEF AppendUncertainty, Over, aux
<1>23. ASSUME ParkOnAsk(c) PROVE Untouched(c)
  BY <1>23 DEF ParkOnAsk, AtStep, aux, Begin, Untouched
<1>24. ASSUME Interrupt(c) PROVE Untouched(c)
  BY <1>24 DEF Interrupt, Over, aux, Begin, Untouched
<1>25. ASSUME ProgramEnds(c) PROVE Untouched(c)
  BY <1>25 DEF ProgramEnds, aux, Begin, Untouched
<1>26. ASSUME Return(c) PROVE Untouched(c)
  BY <1>26 DEF Return, Over, aux, Begin, Untouched
<1>27. ASSUME ReadResume(c) PROVE Untouched(c)
  BY <1>27 DEF ReadResume, Read, Over, aux, Begin, Untouched
<1>28. ASSUME PutResume(c) PROVE Untouched(c)
  <2>1. CASE \E r : Store(c, r)
    BY <2>1, StoreTells
  <2>2. CASE UNCHANGED record /\ overtaken' = overtaken \ {c}
    BY <2>2 DEF Untouched
  <2> QED BY <1>28, <2>1, <2>2 DEF PutResume, FabricPut, Over, aux
<1>29. ASSUME Revoke(c) PROVE Untouched(c)
  BY <1>29 DEF Revoke, EndLease, Over, aux, Begin, Untouched
<1>30. ASSUME ReadFinish(c) PROVE Untouched(c)
  BY <1>30 DEF ReadFinish, Read, Over, aux, Begin, Untouched
<1>31. ASSUME FinishLease(c) PROVE Untouched(c)
  BY <1>31 DEF FinishLease, EndLease, aux, Begin, Untouched
<1>32. ASSUME PutFinish(c) PROVE Untouched(c)
  <2>1. CASE \E r : Store(c, r)
    BY <2>1, StoreTells
  <2>2. CASE UNCHANGED record /\ overtaken' = overtaken \ {c}
    BY <2>2 DEF Untouched
  <2> QED BY <1>32, <2>1, <2>2 DEF PutFinish, FabricPut, Over, aux
<1>33. ASSUME ReadReplace(c) PROVE Untouched(c)
  BY <1>33 DEF ReadReplace, Read, Over, aux, Begin, Untouched
<1>34. ASSUME SwapEnd(c) PROVE Untouched(c)
  BY <1>34 DEF SwapEnd, EndLease, aux, Begin, Untouched
<1>35. ASSUME SwapAcquire(c) PROVE Untouched(c)
  BY <1>35 DEF SwapAcquire, Over, aux, Begin, Untouched
<1>36. ASSUME PutReplace(c) PROVE Untouched(c)
  <2>1. CASE \E r : Store(c, r)
    BY <2>1, StoreTells
  <2>2. CASE UNCHANGED record /\ overtaken' = overtaken \ {c}
    BY <2>2 DEF Untouched
  <2> QED BY <1>36, <2>1, <2>2 DEF PutReplace, FabricPut, Over
<1> QED BY <1>1, <1>2, <1>3, <1>4, <1>5, <1>6, <1>7, <1>8, <1>9, <1>10, <1>11, <1>12, <1>13,
      <1>14, <1>15, <1>16, <1>17, <1>18, <1>19, <1>20, <1>21, <1>22, <1>23, <1>24, <1>25, <1>26,
      <1>27, <1>28, <1>29, <1>30, <1>31, <1>32, <1>33, <1>34, <1>35, <1>36 DEF CallerNext


(* Leases are granted and end: none is forgotten, none comes back.         *)
LeasesLast ==
    /\ lease' \in [Tasks -> Seq(BOOLEAN)]
    /\ \A t \in Tasks : Len(lease[t]) <= Len(lease'[t])
    /\ \A t \in Tasks : \A l \in 1..Len(lease[t]) : lease[t][l] = FALSE => lease'[t][l] = FALSE

LEMMA LeasesStay ==
  ASSUME TaskRuntimeTypeOK, RouteInv, RefInv, TaskRuntimeNext
  PROVE  LeasesLast
<1>1. LeaseChange
  <2>1. ASSUME NEW c \in Callers, CallerNext(c) PROVE LeaseChange
    BY <2>1, LeaseStep
  <2>2. ASSUME NEW t \in Tasks, LeaseEnds(t) PROVE LeaseChange
    BY <2>2, Typed DEF LeaseEnds, LeaseChange
  <2>3. ASSUME NEW t \in Tasks, Answer(t) PROVE LeaseChange
    BY <2>3 DEF Answer, LeaseChange
  <2>4. ASSUME Restart PROVE LeaseChange
    BY <2>4 DEF Restart, LeaseChange
  <2> QED BY <2>1, <2>2, <2>3, <2>4 DEF TaskRuntimeNext
<1>2. lease \in [Tasks -> Seq(BOOLEAN)] /\ \A t \in Tasks : Len(lease[t]) \in Nat
  BY Typed
<1>3. CASE UNCHANGED lease
  BY <1>2, <1>3 DEF LeasesLast
<1>4. ASSUME NEW c \in Callers, Task(c) \in Tasks, NewLease(c) PROVE LeasesLast
  <2>1. /\ lease' \in [Tasks -> Seq(BOOLEAN)]
        /\ Len(lease'[Task(c)]) = Len(lease[Task(c)]) + 1
        /\ \A t \in Tasks : t # Task(c) => lease'[t] = lease[t]
    BY <1>2, <1>4, NewLeaseIs
  <2>2. \A t \in Tasks : \A l \in 1..Len(lease[t]) : lease'[t][l] = lease[t][l]
    BY <1>2, <1>4, NewLeaseIs
  <2>3. \A t \in Tasks : \A l \in 1..Len(lease[t]) : lease[t][l] = FALSE => lease'[t][l] = FALSE
    BY <2>2, Zenon
  <2>4. ASSUME NEW t \in Tasks PROVE Len(lease[t]) <= Len(lease'[t])
    <3>1. Len(lease[t]) \in Nat
      BY <1>2
    <3>2. CASE t = Task(c)
      BY <2>1, <3>1, <3>2
    <3>3. CASE t # Task(c)
      BY <2>1, <3>1, <3>3
    <3> QED BY <3>2, <3>3
  <2> QED BY <2>1, <2>3, <2>4 DEF LeasesLast
<1>5. ASSUME NEW t \in Tasks, NEW l \in 1..Len(lease[t]), Ended(t, l) PROVE LeasesLast
  <2>1. /\ lease' \in [Tasks -> Seq(BOOLEAN)]
        /\ \A u \in Tasks : Len(lease'[u]) = Len(lease[u])
    BY <1>2, <1>5, EndedIs
  <2>2. \A u \in Tasks : \A k \in 1..Len(lease[u]) :
           lease'[u][k] = FALSE \/ lease'[u][k] = lease[u][k]
    BY <1>2, <1>5, EndedIs
  <2>3. \A u \in Tasks : \A k \in 1..Len(lease[u]) : lease[u][k] = FALSE => lease'[u][k] = FALSE
    BY <2>2, Zenon
  <2>4. \A u \in Tasks : Len(lease[u]) <= Len(lease'[u])
    BY <1>2, <2>1
  <2> QED BY <2>1, <2>3, <2>4 DEF LeasesLast
<1> QED BY <1>1, <1>3, <1>4, <1>5 DEF LeaseChange

(* Records stay, with the checkpoints they have.                           *)
RecordsLast ==
    /\ record' \in [Tasks -> Records]
    /\ \A t \in Tasks : record'[t].status = "NONE" => record'[t] = record[t]
    /\ \A t \in Tasks : Extends(record[t].cps, record'[t].cps)
    /\ \A t \in Tasks : record'[t] = record[t] \/ Fits(t, record'[t])

LEMMA RecordsStay ==
  ASSUME TaskRuntimeTypeOK, RouteInv, RefInv, TaskRuntimeNext
  PROVE  RecordsLast
<1>1. RecordChange
  <2>1. ASSUME NEW c \in Callers, CallerNext(c) PROVE RecordChange
    BY <2>1, RecordStep
  <2>2. ASSUME NEW t \in Tasks, LeaseEnds(t) PROVE RecordChange
    BY <2>2 DEF LeaseEnds, RecordChange
  <2>3. ASSUME NEW t \in Tasks, Answer(t) PROVE RecordChange
    <3> DEFINE n == [Node(t) EXCEPT !.ask = FALSE]  r == Written(record[t], n)
    <3>1. n \in Nodes /\ n.asg = record[t].asg /\ n.chain = record[t].chain
      BY Typed, NodeIs, ResolvedNodeIs
    <3>2. record[t].status # "NONE"
      BY <2>3 DEF RouteInv, Answer, NoRecord
    <3>3. n.state # "NONE"
      BY <3>2, Typed, NodeIs, ResolvedNodeIs
    <3>4. record' = [record EXCEPT ![t] = r]
      BY <2>3 DEF Answer
    <3> HIDE DEF n
    <3>5. /\ r \in Records /\ r.status = RecordStatus(n) /\ r.cps = record[t].cps
          /\ r.asg = n.asg /\ r.chain = n.chain /\ r.lease \in {record[t].lease, n.asg}
      BY <3>1, Typed, WrittenIs
    <3>6. r.status # "NONE"
      BY <3>1, <3>3, <3>5, RecordStatusIs
    <3>7. Fits(t, r)
      BY <3>1, <3>5 DEF Fits, TaskRuntimeTypeOK
    <3> HIDE DEF r
    <3> QED BY <3>4, <3>5, <3>6, <3>7, Typed, SameCheckpoints, OneRecord
  <2>4. ASSUME Restart PROVE RecordChange
    BY <2>4 DEF Restart, RecordChange
  <2> QED BY <2>1, <2>2, <2>3, <2>4 DEF TaskRuntimeNext
<1>2. /\ record \in [Tasks -> Records]
      /\ \A t \in Tasks : Extends(record[t].cps, record[t].cps)
  BY Typed, SameCheckpoints
<1>3. CASE UNCHANGED record
  BY <1>2, <1>3 DEF RecordsLast
<1>4. ASSUME NEW t \in Tasks, NEW r \in Records, record' = [record EXCEPT ![t] = r],
             r.status # "NONE", Extends(record[t].cps, r.cps), Fits(t, r)
      PROVE  RecordsLast
  BY <1>2, <1>4 DEF RecordsLast
<1> QED BY <1>1, <1>3, <1>4 DEF RecordChange

LEMMA CallsTyped ==
  ASSUME TaskRuntimeTypeOK, RouteInv, NEW c \in Callers, CallerNext(c)
  PROVE  call' \in [Callers -> Calls]
<1>1. ASSUME NEW t \in Tasks, BeginStart(c, t) PROVE call' \in [Callers -> Calls]
  BY <1>1, Typed, Names, BeginMoves, NewCallIs DEF BeginStart, aux
<1>2. ASSUME NEW t \in Tasks, BeginRun(c, t) PROVE call' \in [Callers -> Calls]
  <2>1. PICK k \in 0..Len(record[t].cps) :
           Begin(c, [NewCall(t, "run", "step") EXCEPT
                        !.step = IF k = 0 THEN 1 ELSE record[t].cps[k].next,
                        !.log = IF k = 0 THEN <<>> ELSE record[t].cps[k].log])
    BY <1>2 DEF BeginRun
  <2> DEFINE s == IF k = 0 THEN 1 ELSE record[t].cps[k].next
             l == IF k = 0 THEN <<>> ELSE record[t].cps[k].log
  <2>2. k # 0 => record[t].cps[k] \in Checkpoints
    BY Typed
  <2>3. s \in Nat /\ l \in Seq(Nat)
    BY <2>2 DEF Checkpoints
  <2>4. NewCall(t, "run", "step") \in Calls
    BY Names, NewCallIs
  <2>5. Begin(c, [NewCall(t, "run", "step") EXCEPT !.step = s, !.log = l])
    BY <2>1
  <2> HIDE DEF s, l
  <2>6. [NewCall(t, "run", "step") EXCEPT !.step = s, !.log = l] \in Calls
    BY <2>3, <2>4, RunCallIs
  <2> QED BY <2>5, <2>6, Typed, BeginMoves
<1>3. ASSUME NEW t \in Tasks, BeginResume(c, t) PROVE call' \in [Callers -> Calls]
  BY <1>3, Typed, Names, BeginMoves, NewCallIs DEF BeginResume, aux
<1>4. ASSUME NEW t \in Tasks, BeginCancel(c, t) PROVE call' \in [Callers -> Calls]
  BY <1>4, Typed, Names, BeginMoves, NewCallIs, CancelCallIs DEF BeginCancel, aux
<1>5. ASSUME NEW t \in Tasks, BeginComplete(c, t) PROVE call' \in [Callers -> Calls]
  BY <1>5, Typed, Names, BeginMoves, NewCallIs DEF BeginComplete, aux
<1>6. ASSUME NEW t \in Tasks, BeginRecover(c, t) PROVE call' \in [Callers -> Calls]
  BY <1>6, Typed, Names, BeginMoves, NewCallIs DEF BeginRecover, aux
<1>7. ASSUME ReadAssign(c) PROVE call' \in [Callers -> Calls]
  <2> DEFINE n == [Node(Task(c)) EXCEPT !.state = "RUNNING", !.asg = call[c].ref]
  <2>1. Task(c) \in Tasks /\ call[c].at = "assign"
    BY <1>7, Placed DEF ReadAssign, GraphRead
  <2>2. n \in Nodes
    BY <2>1, Typed, NodeIs, BoundNodeIs
  <2> HIDE DEF n
  <2>3. \/ Send(c, "assign", n) \/ Leave(c)
        \/ After(call[c].op, "assign") # "none" /\ Goto(c, After(call[c].op, "assign"))
    BY <1>7 DEF ReadAssign, GraphRead, GoOn, Over, n
  <2>4. After(call[c].op, "assign") \in Points
    BY Names DEF After
  <2> QED BY <2>2, <2>3, <2>4, Typed, Names, MovesType, LeaveMoves
<1>8. ASSUME ReadFail(c) PROVE call' \in [Callers -> Calls]
  <2> DEFINE n == [Node(Task(c)) EXCEPT !.state = "FAILED", !.asg = 0]
  <2>1. Task(c) \in Tasks /\ call[c].at = "fail"
    BY <1>8, Placed DEF ReadFail, GraphRead
  <2>2. n \in Nodes
    BY <2>1, Typed, NodeIs, BoundNodeIs
  <2> HIDE DEF n
  <2>3. \/ Send(c, "fail", n) \/ Leave(c)
        \/ After(call[c].op, "fail") # "none" /\ Goto(c, After(call[c].op, "fail"))
    BY <1>8 DEF ReadFail, GraphRead, GoOn, Over, n
  <2>4. After(call[c].op, "fail") \in Points
    BY Names DEF After
  <2> QED BY <2>2, <2>3, <2>4, Typed, Names, MovesType, LeaveMoves
<1>9. ASSUME ReadRetry(c) PROVE call' \in [Callers -> Calls]
  <2> DEFINE n == [Node(Task(c)) EXCEPT !.state = "PENDING", !.asg = 0]
  <2>1. Task(c) \in Tasks /\ call[c].at = "retry"
    BY <1>9, Placed DEF ReadRetry, GraphRead
  <2>2. n \in Nodes
    BY <2>1, Typed, NodeIs, BoundNodeIs
  <2> HIDE DEF n
  <2>3. \/ Send(c, "retry", n) \/ Leave(c)
        \/ After(call[c].op, "retry") # "none" /\ Goto(c, After(call[c].op, "retry"))
    BY <1>9 DEF ReadRetry, GraphRead, GoOn, Over, n
  <2>4. After(call[c].op, "retry") \in Points
    BY Names DEF After
  <2> QED BY <2>2, <2>3, <2>4, Typed, Names, MovesType, LeaveMoves
<1>10. ASSUME ReadChain(c) PROVE call' \in [Callers -> Calls]
  <2> DEFINE n == [Node(Task(c)) EXCEPT !.chain = @ \cup {call[c].ref}]
  <2>1. Task(c) \in Tasks /\ call[c].at = "chain"
    BY <1>10, Placed DEF ReadChain, GraphRead
  <2>0. Node(Task(c)).chain \cup {call[c].ref} \in SUBSET Nat
    BY <2>1, Typed, NodeIs
  <2>2. n \in Nodes
    BY <2>0, <2>1, Typed, NodeIs, ChainedNodeIs
  <2> HIDE DEF n
  <2>3. \/ Send(c, "chain", n) \/ Leave(c)
        \/ After(call[c].op, "chain") # "none" /\ Goto(c, After(call[c].op, "chain"))
    BY <1>10 DEF ReadChain, GraphRead, GoOn, Over, n
  <2>4. After(call[c].op, "chain") \in Points
    BY Names DEF After
  <2> QED BY <2>2, <2>3, <2>4, Typed, Names, MovesType, LeaveMoves
<1>11. ASSUME ReadAsk(c) PROVE call' \in [Callers -> Calls]
  <2> DEFINE n == [Node(Task(c)) EXCEPT !.state = "PAUSED", !.ask = TRUE]
  <2>1. Task(c) \in Tasks /\ call[c].at = "ask"
    BY <1>11, Placed DEF ReadAsk, GraphRead
  <2>2. n \in Nodes
    BY <2>1, Typed, NodeIs, AskedNodeIs
  <2> HIDE DEF n
  <2>3. \/ Send(c, "ask", n) \/ Leave(c)
        \/ After(call[c].op, "ask") # "none" /\ Goto(c, After(call[c].op, "ask"))
    BY <1>11 DEF ReadAsk, GraphRead, GoOn, Over, n
  <2>4. After(call[c].op, "ask") \in Points
    BY Names DEF After
  <2> QED BY <2>2, <2>3, <2>4, Typed, Names, MovesType, LeaveMoves
<1>12. ASSUME ReadVerify(c) PROVE call' \in [Callers -> Calls]
  <2> DEFINE n == [Node(Task(c)) EXCEPT !.vref = TRUE]
  <2>1. Task(c) \in Tasks /\ call[c].at = "verify"
    BY <1>12, Placed DEF ReadVerify, GraphRead
  <2>2. n \in Nodes
    BY <2>1, Typed, NodeIs, PinnedNodeIs
  <2> HIDE DEF n
  <2>3. \/ Send(c, "verify", n) \/ Leave(c)
        \/ After(call[c].op, "verify") # "none" /\ Goto(c, After(call[c].op, "verify"))
    BY <1>12 DEF ReadVerify, GraphRead, GoOn, Over, n
  <2>4. After(call[c].op, "verify") \in Points
    BY Names DEF After
  <2> QED BY <2>2, <2>3, <2>4, Typed, Names, MovesType, LeaveMoves
<1>13. ASSUME ReadPrior(c) PROVE call' \in [Callers -> Calls]
  <2> DEFINE n == Node(Task(c))  k == [call[c] EXCEPT !.at = "adopt", !.node = n]
  <2>1. n \in Nodes
    BY <1>13, Typed, Placed, NodeIs DEF ReadPrior
  <2> HIDE DEF n
  <2>2. k \in Calls
    BY <2>1, Typed, Names DEF Calls
  <2>3. call' = [call EXCEPT ![c] = k]
    BY <1>13 DEF ReadPrior, n
  <2> QED BY <2>2, <2>3, Typed
<1>14. ASSUME ReadAdopt(c) PROVE call' \in [Callers -> Calls]
  <2> DEFINE n == [Node(Task(c)) EXCEPT !.asg = 0]
  <2>1. Task(c) \in Tasks /\ call[c].at = "adopt"
    BY <1>14, Placed DEF ReadAdopt, GraphRead
  <2>2. n \in Nodes
    BY <2>1, Typed, NodeIs, FreedNodeIs
  <2> HIDE DEF n
  <2>3. \/ Send(c, "adopt", n) \/ Leave(c)
        \/ After(call[c].op, "adopt") # "none" /\ Goto(c, After(call[c].op, "adopt"))
    BY <1>14 DEF ReadAdopt, GraphRead, GoOn, Over, n
  <2>4. After(call[c].op, "adopt") \in Points
    BY Names DEF After
  <2> QED BY <2>2, <2>3, <2>4, Typed, Names, MovesType, LeaveMoves
<1>15. ASSUME PutNode(c) PROVE call' \in [Callers -> Calls]
  BY <1>15, Typed, Names, MovesType, LeaveMoves DEF After, PutNode
<1>16. ASSUME Grant(c) PROVE call' \in [Callers -> Calls]
  BY <1>16, Typed, Names, MovesType, LeaveMoves, Placed DEF Grant, Over, aux
<1>17. ASSUME Authorize(c) PROVE call' \in [Callers -> Calls]
  BY <1>17, Typed, Names, MovesType, LeaveMoves DEF Authorize, AtStep, Read, Over, aux
<1>18. ASSUME Dispatch(c) PROVE call' \in [Callers -> Calls]
  BY <1>18, Typed, Names, MovesType, LeaveMoves DEF Dispatch, aux
<1>19. ASSUME Capture(c) PROVE call' \in [Callers -> Calls]
  BY <1>19, Typed, Names, MovesType, LeaveMoves DEF Capture, AtStep, Read, Over, aux
<1>20. ASSUME RecordCheckpoint(c) PROVE call' \in [Callers -> Calls]
  <2> DEFINE k == Len(record[Task(c)].cps) + 1
  <2>1. k \in Nat
    BY <1>20, Typed, Placed DEF RecordCheckpoint
  <2>2. Hold(c, "chain", k) \/ Leave(c)
    BY <1>20 DEF RecordCheckpoint, Over
  <2> HIDE DEF k
  <2> QED BY <2>1, <2>2, Typed, Names, MovesType, LeaveMoves
<1>21. ASSUME ReadNote(c) PROVE call' \in [Callers -> Calls]
  BY <1>21, Typed, Names, MovesType, LeaveMoves DEF ReadNote, AtStep, Read, aux
<1>22. ASSUME AppendUncertainty(c) PROVE call' \in [Callers -> Calls]
  BY <1>22, Typed, Names, MovesType, LeaveMoves DEF AppendUncertainty, Over, aux
<1>23. ASSUME ParkOnAsk(c) PROVE call' \in [Callers -> Calls]
  BY <1>23, Typed, Names, MovesType, LeaveMoves DEF ParkOnAsk, AtStep, aux
<1>24. ASSUME Interrupt(c) PROVE call' \in [Callers -> Calls]
  BY <1>24, Typed, Names, MovesType, LeaveMoves DEF Interrupt, Over, aux
<1>25. ASSUME ProgramEnds(c) PROVE call' \in [Callers -> Calls]
  BY <1>25, Typed, Names, MovesType, LeaveMoves DEF ProgramEnds, aux
<1>26. ASSUME Return(c) PROVE call' \in [Callers -> Calls]
  BY <1>26, Typed, Names, MovesType, LeaveMoves DEF Return, Over, aux
<1>27. ASSUME ReadResume(c) PROVE call' \in [Callers -> Calls]
  BY <1>27, Typed, Names, MovesType, LeaveMoves DEF ReadResume, Read, Over, aux
<1>28. ASSUME PutResume(c) PROVE call' \in [Callers -> Calls]
  BY <1>28, Typed, Names, MovesType, LeaveMoves DEF PutResume, FabricPut, Over, aux
<1>29. ASSUME Revoke(c) PROVE call' \in [Callers -> Calls]
  BY <1>29, Typed, Names, MovesType, LeaveMoves DEF Revoke, EndLease, Over, aux
<1>30. ASSUME ReadFinish(c) PROVE call' \in [Callers -> Calls]
  BY <1>30, Typed, Names, MovesType, LeaveMoves, Placed DEF ReadFinish, Read, Over, aux
<1>31. ASSUME FinishLease(c) PROVE call' \in [Callers -> Calls]
  BY <1>31, Typed, Names, MovesType, LeaveMoves DEF FinishLease, EndLease, aux
<1>32. ASSUME PutFinish(c) PROVE call' \in [Callers -> Calls]
  BY <1>32, Typed, Names, MovesType, LeaveMoves DEF PutFinish, FabricPut, Over, aux
<1>33. ASSUME ReadReplace(c) PROVE call' \in [Callers -> Calls]
  BY <1>33, Typed, Names, MovesType, LeaveMoves, Placed DEF ReadReplace, Read, Over, aux
<1>34. ASSUME SwapEnd(c) PROVE call' \in [Callers -> Calls]
  BY <1>34, Typed, Names, MovesType, LeaveMoves DEF SwapEnd, EndLease, aux
<1>35. ASSUME SwapAcquire(c) PROVE call' \in [Callers -> Calls]
  BY <1>35, Typed, Names, MovesType, LeaveMoves, Placed DEF SwapAcquire, Over, aux
<1>36. ASSUME PutReplace(c) PROVE call' \in [Callers -> Calls]
  BY <1>36, Typed, Names, MovesType, LeaveMoves DEF PutReplace, FabricPut, Over
<1> QED BY <1>1, <1>2, <1>3, <1>4, <1>5, <1>6, <1>7, <1>8, <1>9, <1>10, <1>11, <1>12, <1>13,
      <1>14, <1>15, <1>16, <1>17, <1>18, <1>19, <1>20, <1>21, <1>22, <1>23, <1>24, <1>25, <1>26,
      <1>27, <1>28, <1>29, <1>30, <1>31, <1>32, <1>33, <1>34, <1>35, <1>36 DEF CallerNext


(* The counters and the marks of a step.                                   *)
Marks ==
    /\ calls' \in 0..MaxCalls /\ overtaken' \subseteq Callers /\ late' \subseteq Tasks
    /\ refused' \subseteq Tasks /\ \A k \in DOMAIN sealed' : sealed'[k] \in Tasks

LEMMA MarksStep ==
  ASSUME TaskRuntimeTypeOK, RouteInv, NEW c \in Callers, CallerNext(c)
  PROVE  Marks
<1> USE DEF TaskRuntimeTypeOK, Marks
<1>1. ASSUME NEW t \in Tasks, BeginStart(c, t) PROVE Marks
  BY <1>1, RuntimeAssumption DEF BeginStart, aux, Begin, Store
<1>2. ASSUME NEW t \in Tasks, BeginRun(c, t) PROVE Marks
  BY <1>2, RuntimeAssumption DEF BeginRun, aux, Begin, Store
<1>3. ASSUME NEW t \in Tasks, BeginResume(c, t) PROVE Marks
  BY <1>3, RuntimeAssumption DEF BeginResume, aux, Begin, Store
<1>4. ASSUME NEW t \in Tasks, BeginCancel(c, t) PROVE Marks
  BY <1>4, RuntimeAssumption DEF BeginCancel, aux, Begin, Store
<1>5. ASSUME NEW t \in Tasks, BeginComplete(c, t) PROVE Marks
  BY <1>5, RuntimeAssumption DEF BeginComplete, aux, Begin, Store
<1>6. ASSUME NEW t \in Tasks, BeginRecover(c, t) PROVE Marks
  BY <1>6, RuntimeAssumption DEF BeginRecover, aux, Begin, Store
<1>7. ASSUME ReadAssign(c) PROVE Marks
  BY <1>7 DEF ReadAssign, GraphRead, GoOn, Read, Over, aux, Begin, Store
<1>8. ASSUME ReadFail(c) PROVE Marks
  BY <1>8 DEF ReadFail, GraphRead, GoOn, Read, Over, aux, Begin, Store
<1>9. ASSUME ReadRetry(c) PROVE Marks
  BY <1>9 DEF ReadRetry, GraphRead, GoOn, Read, Over, aux, Begin, Store
<1>10. ASSUME ReadChain(c) PROVE Marks
  BY <1>10 DEF ReadChain, GraphRead, GoOn, Read, Over, aux, Begin, Store
<1>11. ASSUME ReadAsk(c) PROVE Marks
  BY <1>11 DEF ReadAsk, GraphRead, GoOn, Read, Over, aux, Begin, Store
<1>12. ASSUME ReadVerify(c) PROVE Marks
  BY <1>12 DEF ReadVerify, GraphRead, GoOn, Read, Over, aux, Begin, Store
<1>13. ASSUME ReadPrior(c) PROVE Marks
  BY <1>13 DEF ReadPrior, aux, Begin, Store
<1>14. ASSUME ReadAdopt(c) PROVE Marks
  BY <1>14 DEF ReadAdopt, GraphRead, GoOn, Read, Over, aux, Begin, Store
<1>15. ASSUME PutNode(c) PROVE Marks
  BY <1>15, Placed DEF PutNode, Begin, Store
<1>16. ASSUME Grant(c) PROVE Marks
  BY <1>16 DEF Grant, Over, aux, Begin, Store
<1>17. ASSUME Authorize(c) PROVE Marks
  BY <1>17 DEF Authorize, AtStep, Read, Over, aux, Begin, Store
<1>18. ASSUME Dispatch(c) PROVE Marks
  BY <1>18 DEF Dispatch, aux, Begin, Store
<1>19. ASSUME Capture(c) PROVE Marks
  BY <1>19 DEF Capture, AtStep, Read, Over, aux, Begin, Store
<1>20. ASSUME RecordCheckpoint(c) PROVE Marks
  BY <1>20, Placed DEF RecordCheckpoint, Over, Begin, Store
<1>21. ASSUME ReadNote(c) PROVE Marks
  BY <1>21 DEF ReadNote, AtStep, Read, aux, Begin, Store
<1>22. ASSUME AppendUncertainty(c) PROVE Marks
  BY <1>22 DEF AppendUncertainty, Over, aux, Begin, Store
<1>23. ASSUME ParkOnAsk(c) PROVE Marks
  BY <1>23 DEF ParkOnAsk, AtStep, aux, Begin, Store
<1>24. ASSUME Interrupt(c) PROVE Marks
  BY <1>24 DEF Interrupt, Over, aux, Begin, Store
<1>25. ASSUME ProgramEnds(c) PROVE Marks
  BY <1>25 DEF ProgramEnds, aux, Begin, Store
<1>26. ASSUME Return(c) PROVE Marks
  BY <1>26 DEF Return, Over, aux, Begin, Store
<1>27. ASSUME ReadResume(c) PROVE Marks
  BY <1>27 DEF ReadResume, Read, Over, aux, Begin, Store
<1>28. ASSUME PutResume(c) PROVE Marks
  BY <1>28 DEF PutResume, FabricPut, Over, aux, Begin, Store
<1>29. ASSUME Revoke(c) PROVE Marks
  BY <1>29 DEF Revoke, EndLease, Over, aux, Begin, Store
<1>30. ASSUME ReadFinish(c) PROVE Marks
  BY <1>30 DEF ReadFinish, Read, Over, aux, Begin, Store
<1>31. ASSUME FinishLease(c) PROVE Marks
  BY <1>31 DEF FinishLease, EndLease, aux, Begin, Store
<1>32. ASSUME PutFinish(c) PROVE Marks
  BY <1>32 DEF PutFinish, FabricPut, Over, aux, Begin, Store
<1>33. ASSUME ReadReplace(c) PROVE Marks
  BY <1>33 DEF ReadReplace, Read, Over, aux, Begin, Store
<1>34. ASSUME SwapEnd(c) PROVE Marks
  BY <1>34 DEF SwapEnd, EndLease, aux, Begin, Store
<1>35. ASSUME SwapAcquire(c) PROVE Marks
  BY <1>35 DEF SwapAcquire, Over, aux, Begin, Store
<1>36. ASSUME PutReplace(c) PROVE Marks
  BY <1>36, Placed DEF PutReplace, FabricPut, Over, Begin, Store
<1> QED BY <1>1, <1>2, <1>3, <1>4, <1>5, <1>6, <1>7, <1>8, <1>9, <1>10, <1>11, <1>12, <1>13,
      <1>14, <1>15, <1>16, <1>17, <1>18, <1>19, <1>20, <1>21, <1>22, <1>23, <1>24, <1>25, <1>26,
      <1>27, <1>28, <1>29, <1>30, <1>31, <1>32, <1>33, <1>34, <1>35, <1>36 DEF CallerNext

LEMMA TypeStep ==
  ASSUME TaskRuntimeTypeOK, RouteInv, RefInv, TaskRuntimeNext
  PROVE  TaskRuntimeTypeOK'
<1>1. LeasesLast /\ RecordsLast
  BY LeasesStay, RecordsStay
<1>2. call' \in [Callers -> Calls] /\ Marks
  <2>1. ASSUME NEW c \in Callers, CallerNext(c)
        PROVE  call' \in [Callers -> Calls] /\ Marks
    BY <2>1, CallsTyped, MarksStep
  <2>2. ASSUME NEW t \in Tasks, LeaseEnds(t) \/ Answer(t)
        PROVE  call' \in [Callers -> Calls] /\ Marks
    BY <2>2 DEF LeaseEnds, Answer, Marks, TaskRuntimeTypeOK, aux
  <2>3. ASSUME Restart
        PROVE  call' \in [Callers -> Calls] /\ Marks
    BY <2>3, NoCallIs DEF Restart, Marks, TaskRuntimeTypeOK, aux
  <2> QED BY <2>1, <2>2, <2>3 DEF TaskRuntimeNext
<1>3. ASSUME NEW t \in Tasks
      PROVE  /\ record'[t].lease <= Len(lease'[t]) /\ record'[t].asg <= Len(lease'[t])
             /\ record'[t].chain \subseteq DOMAIN record'[t].cps
  <2>1. Fits(t, record'[t])
    BY <1>1 DEF RecordsLast, Fits, TaskRuntimeTypeOK
  <2>2. record'[t].lease \in Nat /\ record'[t].asg \in Nat
    BY <1>1 DEF RecordsLast, Records
  <2>3. Len(lease[t]) \in Nat /\ Len(lease'[t]) \in Nat /\ Len(lease[t]) <= Len(lease'[t])
    BY <1>1, Typed DEF LeasesLast
  <2> QED BY <2>1, <2>2, <2>3 DEF Fits
<1> QED BY <1>1, <1>2, <1>3 DEF TaskRuntimeTypeOK, LeasesLast, RecordsLast, Marks


LEMMA ClearedNodeIs ==
  ASSUME NEW n \in Nodes
  PROVE  /\ LET q == [n EXCEPT !.state = "FAILED", !.asg = 0] IN
            q \in Nodes /\ q.state = "FAILED" /\ q.asg = 0 /\ q.chain = n.chain
         /\ LET q == [n EXCEPT !.state = "PENDING", !.asg = 0] IN
            q \in Nodes /\ q.state = "PENDING" /\ q.asg = 0 /\ q.chain = n.chain
BY DEF Nodes

(***************************************************************************)
(* What the calls do.                                                      *)
(***************************************************************************)

(* A graph call at g reads its node: it sends node n, or goes on without a *)
(* write, or is over.  What is sent has the end of the record it was read  *)
(* from, and its assignment or none, but for the assignment itself.        *)
GraphDoes(c, g, n) ==
    LET r == record[Task(c)] IN
    /\ call[c].at = g /\ Task(c) \in Tasks /\ n.state # "NONE"
    /\ UNCHANGED <<record, lease, sealed, calls, late, refused>> /\ overtaken' = overtaken \ {c}
    /\ \/ Send(c, g, n) /\ SameEnd(r, n)
       \/ Leave(c)
       \/ After(call[c].op, g) # "none" /\ Goto(c, After(call[c].op, g))
    /\ n.asg \in {0, r.asg} \/ (g = "assign" /\ n.asg = call[c].ref)
    /\ n.chain \subseteq r.chain \/ (g = "chain" /\ n.chain = r.chain \cup {call[c].ref})

GraphStep(c) == \E g \in GraphCalls : \E n \in Nodes : GraphDoes(c, g, n)

LEMMA GraphReads ==
  ASSUME TaskRuntimeTypeOK, RouteInv, NEW c \in Callers,
         \/ ReadAssign(c) \/ ReadFail(c) \/ ReadRetry(c) \/ ReadChain(c) \/ ReadAsk(c)
         \/ ReadVerify(c) \/ ReadAdopt(c)
  PROVE  GraphStep(c)
<1>1. ASSUME ReadAssign(c) PROVE GraphStep(c)
  <2> DEFINE m == Node(Task(c))  n == [m EXCEPT !.state = "RUNNING", !.asg = call[c].ref]
             r == record[Task(c)]
  <2>1. Task(c) \in Tasks /\ r.status # "NONE" /\ call[c].at = "assign" /\ "assign" \in
        GraphCalls
    BY <1>1, Placed, Names DEF ReadAssign, GraphRead
  <2>2. /\ m \in Nodes /\ m.asg = r.asg /\ m.chain = r.chain /\ m.state # "NONE"
        /\ m.state \in Finished \/ r.status \in Finished => m.state = r.status
    BY <2>1, Typed, NodeIs
  <2>3. \/ Send(c, "assign", n) /\ m.state = "PENDING"
        \/ Leave(c)
        \/ After(call[c].op, "assign") # "none" /\ Goto(c, After(call[c].op, "assign"))
    BY <1>1 DEF ReadAssign, GraphRead, GoOn, Over
  <2>4. /\ UNCHANGED <<record, lease, sealed, calls, late, refused>>
        /\ overtaken' = overtaken \ {c}
    BY <1>1 DEF ReadAssign, GraphRead, GoOn, Over, Read, aux
  <2>5. call[c].ref \in Nat
    BY Typed
  <2> HIDE DEF m
  <2>6. n \in Nodes /\ n.state = "RUNNING" /\ n.asg = call[c].ref /\ n.chain = m.chain
    BY <2>2, <2>5, BoundNodeIs
  <2> HIDE DEF n
  <2>7. GraphDoes(c, "assign", n)
    BY <2>1, <2>2, <2>3, <2>4, <2>6 DEF GraphDoes, SameEnd, Finished
  <2> QED BY <2>1, <2>6, <2>7 DEF GraphStep
<1>2. ASSUME ReadFail(c) PROVE GraphStep(c)
  <2> DEFINE m == Node(Task(c))  n == [m EXCEPT !.state = "FAILED", !.asg = 0]
             r == record[Task(c)]
  <2>1. Task(c) \in Tasks /\ r.status # "NONE" /\ call[c].at = "fail" /\ "fail" \in GraphCalls
    BY <1>2, Placed, Names DEF ReadFail, GraphRead
  <2>2. /\ m \in Nodes /\ m.asg = r.asg /\ m.chain = r.chain /\ m.state # "NONE"
        /\ m.state \in Finished \/ r.status \in Finished => m.state = r.status
    BY <2>1, Typed, NodeIs
  <2>3. \/ Send(c, "fail", n) /\ m.state \in {"RUNNING", "PAUSED"}
        \/ Leave(c)
        \/ After(call[c].op, "fail") # "none" /\ Goto(c, After(call[c].op, "fail"))
    BY <1>2 DEF ReadFail, GraphRead, GoOn, Over
  <2>4. /\ UNCHANGED <<record, lease, sealed, calls, late, refused>>
        /\ overtaken' = overtaken \ {c}
    BY <1>2 DEF ReadFail, GraphRead, GoOn, Over, Read, aux
  <2>5. call[c].ref \in Nat
    BY Typed
  <2> HIDE DEF m
  <2>6. n \in Nodes /\ n.state = "FAILED" /\ n.asg = 0 /\ n.chain = m.chain
    BY <2>2, <2>5, ClearedNodeIs
  <2> HIDE DEF n
  <2>7. GraphDoes(c, "fail", n)
    BY <2>1, <2>2, <2>3, <2>4, <2>6 DEF GraphDoes, SameEnd, Finished
  <2> QED BY <2>1, <2>6, <2>7 DEF GraphStep
<1>3. ASSUME ReadRetry(c) PROVE GraphStep(c)
  <2> DEFINE m == Node(Task(c))  n == [m EXCEPT !.state = "PENDING", !.asg = 0]
             r == record[Task(c)]
  <2>1. Task(c) \in Tasks /\ r.status # "NONE" /\ call[c].at = "retry" /\ "retry" \in GraphCalls
    BY <1>3, Placed, Names DEF ReadRetry, GraphRead
  <2>2. /\ m \in Nodes /\ m.asg = r.asg /\ m.chain = r.chain /\ m.state # "NONE"
        /\ m.state \in Finished \/ r.status \in Finished => m.state = r.status
    BY <2>1, Typed, NodeIs
  <2>3. \/ Send(c, "retry", n) /\ m.state = "FAILED"
        \/ Leave(c)
        \/ After(call[c].op, "retry") # "none" /\ Goto(c, After(call[c].op, "retry"))
    BY <1>3 DEF ReadRetry, GraphRead, GoOn, Over
  <2>4. /\ UNCHANGED <<record, lease, sealed, calls, late, refused>>
        /\ overtaken' = overtaken \ {c}
    BY <1>3 DEF ReadRetry, GraphRead, GoOn, Over, Read, aux
  <2>5. call[c].ref \in Nat
    BY Typed
  <2> HIDE DEF m
  <2>6. n \in Nodes /\ n.state = "PENDING" /\ n.asg = 0 /\ n.chain = m.chain
    BY <2>2, <2>5, ClearedNodeIs
  <2> HIDE DEF n
  <2>7. GraphDoes(c, "retry", n)
    BY <2>1, <2>2, <2>3, <2>4, <2>6 DEF GraphDoes, SameEnd, Finished
  <2> QED BY <2>1, <2>6, <2>7 DEF GraphStep
<1>4. ASSUME ReadChain(c) PROVE GraphStep(c)
  <2> DEFINE m == Node(Task(c))  n == [m EXCEPT !.chain = m.chain \cup {call[c].ref}]
             r == record[Task(c)]
  <2>1. Task(c) \in Tasks /\ r.status # "NONE" /\ call[c].at = "chain" /\ "chain" \in GraphCalls
    BY <1>4, Placed, Names DEF ReadChain, GraphRead
  <2>2. /\ m \in Nodes /\ m.asg = r.asg /\ m.chain = r.chain /\ m.state # "NONE"
        /\ m.state \in Finished \/ r.status \in Finished => m.state = r.status
    BY <2>1, Typed, NodeIs
  <2>0. m.chain \cup {call[c].ref} \in SUBSET Nat
    BY <2>1, Typed, NodeIs
  <2>3. \/ Send(c, "chain", n)
        \/ Leave(c)
        \/ After(call[c].op, "chain") # "none" /\ Goto(c, After(call[c].op, "chain"))
    BY <1>4 DEF ReadChain, GraphRead, GoOn, Over
  <2>4. /\ UNCHANGED <<record, lease, sealed, calls, late, refused>>
        /\ overtaken' = overtaken \ {c}
    BY <1>4 DEF ReadChain, GraphRead, GoOn, Over, Read, aux
  <2>5. call[c].ref \in Nat
    BY Typed
  <2> HIDE DEF m
  <2>6. n \in Nodes /\ n.state = m.state /\ n.asg = m.asg /\ n.chain = m.chain \cup
        {call[c].ref}
    BY <2>2, <2>5, <2>0, ChainedNodeIs
  <2> HIDE DEF n
  <2>7. GraphDoes(c, "chain", n)
    BY <2>1, <2>2, <2>3, <2>4, <2>6 DEF GraphDoes, SameEnd, Finished
  <2> QED BY <2>1, <2>6, <2>7 DEF GraphStep
<1>5. ASSUME ReadAsk(c) PROVE GraphStep(c)
  <2> DEFINE m == Node(Task(c))  n == [m EXCEPT !.state = "PAUSED", !.ask = TRUE]
             r == record[Task(c)]
  <2>1. Task(c) \in Tasks /\ r.status # "NONE" /\ call[c].at = "ask" /\ "ask" \in GraphCalls
    BY <1>5, Placed, Names DEF ReadAsk, GraphRead
  <2>2. /\ m \in Nodes /\ m.asg = r.asg /\ m.chain = r.chain /\ m.state # "NONE"
        /\ m.state \in Finished \/ r.status \in Finished => m.state = r.status
    BY <2>1, Typed, NodeIs
  <2>3. \/ Send(c, "ask", n) /\ m.state \in {"PENDING", "RUNNING", "PAUSED"}
        \/ Leave(c)
        \/ After(call[c].op, "ask") # "none" /\ Goto(c, After(call[c].op, "ask"))
    BY <1>5 DEF ReadAsk, GraphRead, GoOn, Over
  <2>4. /\ UNCHANGED <<record, lease, sealed, calls, late, refused>>
        /\ overtaken' = overtaken \ {c}
    BY <1>5 DEF ReadAsk, GraphRead, GoOn, Over, Read, aux
  <2>5. call[c].ref \in Nat
    BY Typed
  <2> HIDE DEF m
  <2>6. n \in Nodes /\ n.state = "PAUSED" /\ n.asg = m.asg /\ n.chain = m.chain
    BY <2>2, <2>5, AskedNodeIs
  <2> HIDE DEF n
  <2>7. GraphDoes(c, "ask", n)
    BY <2>1, <2>2, <2>3, <2>4, <2>6 DEF GraphDoes, SameEnd, Finished
  <2> QED BY <2>1, <2>6, <2>7 DEF GraphStep
<1>6. ASSUME ReadVerify(c) PROVE GraphStep(c)
  <2> DEFINE m == Node(Task(c))  n == [m EXCEPT !.vref = TRUE]
             r == record[Task(c)]
  <2>1. Task(c) \in Tasks /\ r.status # "NONE" /\ call[c].at = "verify" /\ "verify" \in
        GraphCalls
    BY <1>6, Placed, Names DEF ReadVerify, GraphRead
  <2>2. /\ m \in Nodes /\ m.asg = r.asg /\ m.chain = r.chain /\ m.state # "NONE"
        /\ m.state \in Finished \/ r.status \in Finished => m.state = r.status
    BY <2>1, Typed, NodeIs
  <2>3. \/ Send(c, "verify", n)
        \/ Leave(c)
        \/ After(call[c].op, "verify") # "none" /\ Goto(c, After(call[c].op, "verify"))
    BY <1>6 DEF ReadVerify, GraphRead, GoOn, Over
  <2>4. /\ UNCHANGED <<record, lease, sealed, calls, late, refused>>
        /\ overtaken' = overtaken \ {c}
    BY <1>6 DEF ReadVerify, GraphRead, GoOn, Over, Read, aux
  <2>5. call[c].ref \in Nat
    BY Typed
  <2> HIDE DEF m
  <2>6. n \in Nodes /\ n.state = m.state /\ n.asg = m.asg /\ n.chain = m.chain
    BY <2>2, <2>5, PinnedNodeIs
  <2> HIDE DEF n
  <2>7. GraphDoes(c, "verify", n)
    BY <2>1, <2>2, <2>3, <2>4, <2>6 DEF GraphDoes, SameEnd, Finished
  <2> QED BY <2>1, <2>6, <2>7 DEF GraphStep
<1>7. ASSUME ReadAdopt(c) PROVE GraphStep(c)
  <2> DEFINE m == Node(Task(c))  n == [m EXCEPT !.asg = 0]
             r == record[Task(c)]
  <2>1. Task(c) \in Tasks /\ r.status # "NONE" /\ call[c].at = "adopt" /\ "adopt" \in GraphCalls
    BY <1>7, Placed, Names DEF ReadAdopt, GraphRead
  <2>2. /\ m \in Nodes /\ m.asg = r.asg /\ m.chain = r.chain /\ m.state # "NONE"
        /\ m.state \in Finished \/ r.status \in Finished => m.state = r.status
    BY <2>1, Typed, NodeIs
  <2>3. \/ Send(c, "adopt", n)
        \/ Leave(c)
        \/ After(call[c].op, "adopt") # "none" /\ Goto(c, After(call[c].op, "adopt"))
    BY <1>7 DEF ReadAdopt, GraphRead, GoOn, Over
  <2>4. /\ UNCHANGED <<record, lease, sealed, calls, late, refused>>
        /\ overtaken' = overtaken \ {c}
    BY <1>7 DEF ReadAdopt, GraphRead, GoOn, Over, Read, aux
  <2>5. call[c].ref \in Nat
    BY Typed
  <2> HIDE DEF m
  <2>6. n \in Nodes /\ n.state = m.state /\ n.asg = 0 /\ n.chain = m.chain
    BY <2>2, <2>5, FreedNodeIs
  <2> HIDE DEF n
  <2>7. GraphDoes(c, "adopt", n)
    BY <2>1, <2>2, <2>3, <2>4, <2>6 DEF GraphDoes, SameEnd, Finished
  <2> QED BY <2>1, <2>6, <2>7 DEF GraphStep
<1> QED BY <1>1, <1>2, <1>3, <1>4, <1>5, <1>6, <1>7


LEMMA RunBegins ==
  ASSUME TaskRuntimeTypeOK, NEW c \in Callers, NEW t \in Tasks, BeginRun(c, t)
  PROVE  \E s \in Nat, l \in Seq(Nat) :
            /\ Begin(c, [NewCall(t, "run", "step") EXCEPT !.step = s, !.log = l])
            /\ \/ s = 1 /\ l = <<>>
               \/ \E k \in DOMAIN record[t].cps :
                     s = record[t].cps[k].next /\ l = record[t].cps[k].log
<1>1. PICK k \in 0..Len(record[t].cps) :
         Begin(c, [NewCall(t, "run", "step") EXCEPT
                      !.step = IF k = 0 THEN 1 ELSE record[t].cps[k].next,
                      !.log = IF k = 0 THEN <<>> ELSE record[t].cps[k].log])
  BY DEF BeginRun
<1> DEFINE s == IF k = 0 THEN 1 ELSE record[t].cps[k].next
           l == IF k = 0 THEN <<>> ELSE record[t].cps[k].log
<1>2. k # 0 => k \in DOMAIN record[t].cps /\ record[t].cps[k] \in Checkpoints
  BY Typed
<1>3. <<>> \in Seq(Nat)
  OBVIOUS
<1>4. s \in Nat /\ l \in Seq(Nat)
  BY <1>2, <1>3 DEF Checkpoints
<1>5. \/ s = 1 /\ l = <<>>
      \/ \E j \in DOMAIN record[t].cps : s = record[t].cps[j].next /\ l = record[t].cps[j].log
  BY <1>2
<1>6. Begin(c, [NewCall(t, "run", "step") EXCEPT !.step = s, !.log = l])
  BY <1>1
<1> HIDE DEF s, l
<1> QED BY <1>4, <1>5, <1>6


(* The call of c, and its route after the step.                            *)
Routed(c) ==
    \/ call'[c] = NoCall
    \/ LET k == call'[c] IN
       /\ k.op # "none" /\ k.at \in Route(k.op) /\ k.task \in Tasks
       /\ record[k.task].status # "NONE" \/ record'[k.task].status # "NONE"
       /\ k.at = "put" => k.graph \in Route(k.op) \cap GraphCalls /\ k.node.state # "NONE"

LEMMA RouteIs ==
  /\ Route("start") = {"grant", "assign", "put"}
  /\ Route("run") = {"step", "dispatch", "capture", "note", "ask", "chain", "put", "ended"}
  /\ Route("resume") = {"resume_read", "resume_put", "prior", "adopt", "put"}
  /\ Route("cancel") = {"revoke", "finish", "end", "finish_put", "prior", "adopt", "put"}
  /\ Route("complete") = {"finish", "end", "finish_put", "prior", "adopt", "verify", "put"}
  /\ Route("recover") = {"replace", "swap_end", "swap_acquire", "replace_put", "fail", "retry",
                         "assign", "put"}
BY DEF Route

LEMMA AfterRoutes ==
  ASSUME NEW o \in Operations \ {"none"}, NEW g \in Route(o) \cap GraphCalls,
         After(o, g) # "none"
  PROVE  After(o, g) \in Route(o) /\ After(o, g) # "put" /\ After(o, g) \in Points
<1>0. After(o, g) \in {"retry", "assign", "step", "verify"} /\ g \in {"fail", "retry", "chain",
      "adopt"}
  BY DEF After
<1>1. After(o, g) # "put" /\ After(o, g) \in Points
  BY <1>0, Names
<1>2. CASE g \in {"fail", "retry"}
  <2>1. o = "recover"
    BY <1>2, RouteIs DEF Operations
  <2> QED BY <1>1, <1>2, <2>1, RouteIs DEF After
<1>3. CASE g = "chain"
  <2>1. o = "run"
    BY <1>3, RouteIs DEF Operations
  <2> QED BY <1>1, <1>3, <2>1, RouteIs DEF After
<1>4. CASE g = "adopt"
  <2>1. o = "complete"
    BY <1>4 DEF After
  <2> QED BY <1>1, <1>4, <2>1, RouteIs DEF After
<1> QED BY <1>0, <1>2, <1>3, <1>4

LEMMA LeaveRoutes ==
  ASSUME TaskRuntimeTypeOK, NEW c \in Callers, Leave(c)
  PROVE  Routed(c)
BY Typed, LeaveMoves DEF Routed

LEMMA MoveRoutes ==
  ASSUME RouteInv, NEW c \in Callers, call[c].at # "none", NEW p, p \in Route(call[c].op),
         p # "put", call'[c].at = p, call'[c].op = call[c].op, call'[c].task = call[c].task
  PROVE  Routed(c)
BY Placed DEF Routed, Task

LEMMA BeginRoutes ==
  ASSUME TaskRuntimeTypeOK, RouteInv, NEW c \in Callers, NEW t \in Tasks, NEW o \in Operations,
         o # "none", NEW p \in Route(o), p # "put", NEW k,
         k.op = o, k.at = p, k.task = t, Begin(c, k),
         record[t].status # "NONE" \/ record'[t].status # "NONE"
  PROVE  Routed(c)
BY Typed, BeginMoves DEF Routed

LEMMA RouteStep ==
  ASSUME TaskRuntimeTypeOK, RouteInv, NEW c \in Callers, CallerNext(c)
  PROVE  Routed(c)
<1>0. ASSUME GraphStep(c) PROVE Routed(c)
  <2>1. PICK g \in GraphCalls, n \in Nodes : GraphDoes(c, g, n)
    BY <1>0 DEF GraphStep
  <2>2. /\ call[c].at = g /\ n.state # "NONE"
        /\ \/ Send(c, g, n)
           \/ Leave(c)
           \/ After(call[c].op, g) # "none" /\ Goto(c, After(call[c].op, g))
    BY <2>1 DEF GraphDoes
  <2>3. g # "none" /\ g # "put"
    BY DEF GraphCalls
  <2>4. /\ call[c].op # "none" /\ Task(c) \in Tasks /\ record[Task(c)].status # "NONE"
        /\ call[c].op \in Operations /\ g \in Route(call[c].op)
    BY <2>2, <2>3, Placed, Typed DEF RouteInv
  <2>5. "put" \in Route(call[c].op)
    BY <2>4, RouteIs DEF Operations
  <2>6. CASE Send(c, g, n)
    BY <2>2, <2>4, <2>5, <2>6, Typed, SendMoves DEF Routed, Task
  <2>7. CASE After(call[c].op, g) # "none" /\ Goto(c, After(call[c].op, g))
    <3> DEFINE p == After(call[c].op, g)
    <3>1. p \in Route(call[c].op) /\ p # "put" /\ Goto(c, p)
      BY <2>4, <2>7, AfterRoutes
    <3> HIDE DEF p
    <3> QED BY <2>2, <2>3, <3>1, Typed, GotoMoves, MoveRoutes, SMTT(30)
  <2> QED BY <2>2, <2>6, <2>7, LeaveRoutes
<1>1. ASSUME NEW t \in Tasks, BeginStart(c, t) PROVE Routed(c)
  <2>1. /\ NewCall(t, "start", "grant") \in Calls
        /\ NewCall(t, "start", "grant").op = "start"
        /\ NewCall(t, "start", "grant").at = "grant"
        /\ NewCall(t, "start", "grant").task = t
    BY Names, NewCallIs
  <2>2. record'[t].status = "QUEUED"
    BY <1>1, Typed DEF BeginStart, Records
  <2> DEFINE k == NewCall(t, "start", "grant")
  <2>3. k.op = "start" /\ k.at = "grant" /\ k.task = t /\ Begin(c, k)
    BY <1>1, <2>1 DEF BeginStart
  <2>4. "grant" \in Route("start") /\ "start" \in Operations
    BY RouteIs, Names
  <2> HIDE DEF k
  <2> QED BY <2>2, <2>3, <2>4, BeginRoutes
<1>2. ASSUME NEW t \in Tasks, BeginRun(c, t) PROVE Routed(c)
  <2>1. /\ NewCall(t, "run", "step") \in Calls
        /\ NewCall(t, "run", "step").op = "run"
        /\ NewCall(t, "run", "step").at = "step"
        /\ NewCall(t, "run", "step").task = t
    BY Names, NewCallIs
  <2>2. record[t].status # "NONE"
    BY <1>2 DEF BeginRun, RouteInv, NoRecord
  <2>a. PICK s \in Nat, l \in Seq(Nat) :
           Begin(c, [NewCall(t, "run", "step") EXCEPT !.step = s, !.log = l])
    BY <1>2, RunBegins
  <2> DEFINE k == [NewCall(t, "run", "step") EXCEPT !.step = s, !.log = l]
  <2>b. Begin(c, k)
    BY <2>a
  <2>c. s \in Nat /\ l \in Seq(Nat)
    OBVIOUS
  <2>d. k.op = NewCall(t, "run", "step").op /\ k.at = NewCall(t, "run", "step").at /\ k.task =
        NewCall(t, "run", "step").task
    BY <2>c, <2>1 DEF Calls
  <2> HIDE DEF k
  <2>3. k.op = "run" /\ k.at = "step" /\ k.task = t /\ Begin(c, k)
    BY <2>b, <2>d, <2>1
  <2>4. "step" \in Route("run") /\ "run" \in Operations
    BY RouteIs, Names
  <2> HIDE DEF k
  <2> QED BY <2>2, <2>3, <2>4, BeginRoutes
<1>3. ASSUME NEW t \in Tasks, BeginResume(c, t) PROVE Routed(c)
  <2>1. /\ NewCall(t, "resume", "resume_read") \in Calls
        /\ NewCall(t, "resume", "resume_read").op = "resume"
        /\ NewCall(t, "resume", "resume_read").at = "resume_read"
        /\ NewCall(t, "resume", "resume_read").task = t
    BY Names, NewCallIs
  <2>2. record[t].status # "NONE"
    BY <1>3 DEF BeginResume, RouteInv, NoRecord
  <2> DEFINE k == NewCall(t, "resume", "resume_read")
  <2>3. k.op = "resume" /\ k.at = "resume_read" /\ k.task = t /\ Begin(c, k)
    BY <1>3, <2>1 DEF BeginResume
  <2>4. "resume_read" \in Route("resume") /\ "resume" \in Operations
    BY RouteIs, Names
  <2> HIDE DEF k
  <2> QED BY <2>2, <2>3, <2>4, BeginRoutes
<1>4. ASSUME NEW t \in Tasks, BeginCancel(c, t) PROVE Routed(c)
  <2>1. /\ NewCall(t, "cancel", "revoke") \in Calls
        /\ NewCall(t, "cancel", "revoke").op = "cancel"
        /\ NewCall(t, "cancel", "revoke").at = "revoke"
        /\ NewCall(t, "cancel", "revoke").task = t
    BY Names, NewCallIs
  <2>2. record[t].status # "NONE"
    BY <1>4 DEF BeginCancel, RouteInv, NoRecord
  <2> DEFINE k == [NewCall(t, "cancel", "revoke") EXCEPT !.ref = record[t].lease]
  <2>3. k.op = "cancel" /\ k.at = "revoke" /\ k.task = t /\ Begin(c, k)
    BY <1>4, <2>1, Typed, CancelCallIs DEF BeginCancel
  <2>4. "revoke" \in Route("cancel") /\ "cancel" \in Operations
    BY RouteIs, Names
  <2> HIDE DEF k
  <2> QED BY <2>2, <2>3, <2>4, BeginRoutes
<1>5. ASSUME NEW t \in Tasks, BeginComplete(c, t) PROVE Routed(c)
  <2>1. /\ NewCall(t, "complete", "finish") \in Calls
        /\ NewCall(t, "complete", "finish").op = "complete"
        /\ NewCall(t, "complete", "finish").at = "finish"
        /\ NewCall(t, "complete", "finish").task = t
    BY Names, NewCallIs
  <2>2. record[t].status # "NONE"
    BY <1>5 DEF BeginComplete, RouteInv, NoRecord
  <2> DEFINE k == NewCall(t, "complete", "finish")
  <2>3. k.op = "complete" /\ k.at = "finish" /\ k.task = t /\ Begin(c, k)
    BY <1>5, <2>1 DEF BeginComplete
  <2>4. "finish" \in Route("complete") /\ "complete" \in Operations
    BY RouteIs, Names
  <2> HIDE DEF k
  <2> QED BY <2>2, <2>3, <2>4, BeginRoutes
<1>6. ASSUME NEW t \in Tasks, BeginRecover(c, t) PROVE Routed(c)
  <2>1. /\ NewCall(t, "recover", "replace") \in Calls
        /\ NewCall(t, "recover", "replace").op = "recover"
        /\ NewCall(t, "recover", "replace").at = "replace"
        /\ NewCall(t, "recover", "replace").task = t
    BY Names, NewCallIs
  <2>2. record[t].status # "NONE"
    BY <1>6 DEF BeginRecover, RouteInv, NoRecord
  <2> DEFINE k == NewCall(t, "recover", "replace")
  <2>3. k.op = "recover" /\ k.at = "replace" /\ k.task = t /\ Begin(c, k)
    BY <1>6, <2>1 DEF BeginRecover
  <2>4. "replace" \in Route("recover") /\ "recover" \in Operations
    BY RouteIs, Names
  <2> HIDE DEF k
  <2> QED BY <2>2, <2>3, <2>4, BeginRoutes
<1>7. ASSUME ReadAssign(c) PROVE Routed(c)
  BY <1>7, GraphReads, <1>0
<1>8. ASSUME ReadFail(c) PROVE Routed(c)
  BY <1>8, GraphReads, <1>0
<1>9. ASSUME ReadRetry(c) PROVE Routed(c)
  BY <1>9, GraphReads, <1>0
<1>10. ASSUME ReadChain(c) PROVE Routed(c)
  BY <1>10, GraphReads, <1>0
<1>11. ASSUME ReadAsk(c) PROVE Routed(c)
  BY <1>11, GraphReads, <1>0
<1>12. ASSUME ReadVerify(c) PROVE Routed(c)
  BY <1>12, GraphReads, <1>0
<1>13. ASSUME ReadPrior(c) PROVE Routed(c)
  <2>1. call[c].at = "prior" /\ (call' = [call EXCEPT ![c] = [@ EXCEPT !.at = "adopt", !.node =
        Node(Task(c))]])
    BY <1>13 DEF ReadPrior
  <2>2. "adopt" \in Route(call[c].op)
    BY <2>1, Placed, RouteIs
  <2>3. CASE call' = [call EXCEPT ![c] = [@ EXCEPT !.at = "adopt", !.node = Node(Task(c))]]
    BY <2>1, <2>2, <2>3, Typed, PriorMoves, MoveRoutes, ZenonT(60)
  <2> QED BY <2>1, <2>3, LeaveRoutes
<1>14. ASSUME ReadAdopt(c) PROVE Routed(c)
  BY <1>14, GraphReads, <1>0
<1>15. ASSUME PutNode(c) PROVE Routed(c)
  <2> DEFINE p == After(call[c].op, call[c].graph)
  <2>1. /\ call[c].at = "put" /\ call[c].op # "none"
        /\ call[c].graph \in Route(call[c].op) \cap GraphCalls
    BY <1>15, Placed DEF PutNode, RouteInv
  <2>2. IF p = "none" THEN Leave(c) ELSE Goto(c, p)
    BY <1>15 DEF PutNode
  <2>3. p # "none" => p \in Route(call[c].op) /\ p # "put"
    BY <2>1, Typed, AfterRoutes
  <2> HIDE DEF p
  <2>4. CASE p # "none"
    BY <2>1, <2>2, <2>3, <2>4, Typed, GotoMoves, MoveRoutes, SMTT(30)
  <2> QED BY <2>2, <2>4, LeaveRoutes
<1>16. ASSUME Grant(c) PROVE Routed(c)
  <2>1. call[c].at = "grant" /\ (Hold(c, "assign", Len(lease[Task(c)]) + 1) \/ Leave(c))
    BY <1>16 DEF Grant, Over
  <2>2. "assign" \in Route(call[c].op)
    BY <2>1, Placed, RouteIs
  <2>3. CASE Hold(c, "assign", Len(lease[Task(c)]) + 1)
    BY <2>1, <2>2, <2>3, Typed, HoldMoves, MoveRoutes, SMTT(30)
  <2> QED BY <2>1, <2>3, LeaveRoutes
<1>17. ASSUME Authorize(c) PROVE Routed(c)
  <2>1. call[c].at = "step" /\ (Goto(c, "dispatch") \/ Leave(c))
    BY <1>17 DEF Authorize, AtStep, Over
  <2>2. "dispatch" \in Route(call[c].op)
    BY <2>1, Placed, RouteIs
  <2>3. CASE Goto(c, "dispatch")
    BY <2>1, <2>2, <2>3, Typed, GotoMoves, MoveRoutes, SMTT(30)
  <2> QED BY <2>1, <2>3, LeaveRoutes
<1>18. ASSUME Dispatch(c) PROVE Routed(c)
  <2>1. call[c].at = "dispatch" /\ (Advance(c, "step") \/ Leave(c))
    BY <1>18 DEF Dispatch
  <2>2. "step" \in Route(call[c].op)
    BY <2>1, Placed, RouteIs
  <2>3. CASE Advance(c, "step")
    BY <2>1, <2>2, <2>3, Typed, AdvanceMoves, MoveRoutes, SMTT(30)
  <2> QED BY <2>1, <2>3, LeaveRoutes
<1>19. ASSUME Capture(c) PROVE Routed(c)
  <2>1. call[c].at = "step" /\ (Advance(c, "capture") \/ Leave(c))
    BY <1>19 DEF Capture, AtStep, Over
  <2>2. "capture" \in Route(call[c].op)
    BY <2>1, Placed, RouteIs
  <2>3. CASE Advance(c, "capture")
    BY <2>1, <2>2, <2>3, Typed, AdvanceMoves, MoveRoutes, SMTT(30)
  <2> QED BY <2>1, <2>3, LeaveRoutes
<1>20. ASSUME RecordCheckpoint(c) PROVE Routed(c)
  <2>1. call[c].at = "capture" /\ (Hold(c, "chain", Len(record[Task(c)].cps) + 1) \/ Leave(c))
    BY <1>20 DEF RecordCheckpoint, Over
  <2>2. "chain" \in Route(call[c].op)
    BY <2>1, Placed, RouteIs
  <2>3. CASE Hold(c, "chain", Len(record[Task(c)].cps) + 1)
    BY <2>1, <2>2, <2>3, Typed, HoldMoves, MoveRoutes, SMTT(30)
  <2> QED BY <2>1, <2>3, LeaveRoutes
<1>21. ASSUME ReadNote(c) PROVE Routed(c)
  <2>1. call[c].at = "step" /\ (Goto(c, "note"))
    BY <1>21 DEF ReadNote, AtStep
  <2>2. "note" \in Route(call[c].op)
    BY <2>1, Placed, RouteIs
  <2>3. CASE Goto(c, "note")
    BY <2>1, <2>2, <2>3, Typed, GotoMoves, MoveRoutes, SMTT(30)
  <2> QED BY <2>1, <2>3, LeaveRoutes
<1>22. ASSUME AppendUncertainty(c) PROVE Routed(c)
  <2>1. call[c].at = "note" /\ (Advance(c, "step") \/ Leave(c))
    BY <1>22 DEF AppendUncertainty, Over
  <2>2. "step" \in Route(call[c].op)
    BY <2>1, Placed, RouteIs
  <2>3. CASE Advance(c, "step")
    BY <2>1, <2>2, <2>3, Typed, AdvanceMoves, MoveRoutes, SMTT(30)
  <2> QED BY <2>1, <2>3, LeaveRoutes
<1>23. ASSUME ParkOnAsk(c) PROVE Routed(c)
  <2>1. call[c].at = "step" /\ (Goto(c, "ask"))
    BY <1>23 DEF ParkOnAsk, AtStep
  <2>2. "ask" \in Route(call[c].op)
    BY <2>1, Placed, RouteIs
  <2>3. CASE Goto(c, "ask")
    BY <2>1, <2>2, <2>3, Typed, GotoMoves, MoveRoutes, SMTT(30)
  <2> QED BY <2>1, <2>3, LeaveRoutes
<1>24. ASSUME Interrupt(c) PROVE Routed(c)
  BY <1>24, LeaveRoutes DEF Interrupt, Over
<1>25. ASSUME ProgramEnds(c) PROVE Routed(c)
  <2>1. call[c].at = "step" /\ (Goto(c, "ended"))
    BY <1>25 DEF ProgramEnds
  <2>2. "ended" \in Route(call[c].op)
    BY <2>1, Placed, RouteIs
  <2>3. CASE Goto(c, "ended")
    BY <2>1, <2>2, <2>3, Typed, GotoMoves, MoveRoutes, SMTT(30)
  <2> QED BY <2>1, <2>3, LeaveRoutes
<1>26. ASSUME Return(c) PROVE Routed(c)
  BY <1>26, LeaveRoutes DEF Return, Over
<1>27. ASSUME ReadResume(c) PROVE Routed(c)
  <2>1. call[c].at = "resume_read" /\ (Goto(c, "resume_put") \/ Leave(c))
    BY <1>27 DEF ReadResume, Over
  <2>2. "resume_put" \in Route(call[c].op)
    BY <2>1, Placed, RouteIs
  <2>3. CASE Goto(c, "resume_put")
    BY <2>1, <2>2, <2>3, Typed, GotoMoves, MoveRoutes, SMTT(30)
  <2> QED BY <2>1, <2>3, LeaveRoutes
<1>28. ASSUME PutResume(c) PROVE Routed(c)
  <2>1. call[c].at = "resume_put" /\ (Goto(c, "prior") \/ Leave(c))
    BY <1>28 DEF PutResume, Over, FabricPut
  <2>2. "prior" \in Route(call[c].op)
    BY <2>1, Placed, RouteIs
  <2>3. CASE Goto(c, "prior")
    BY <2>1, <2>2, <2>3, Typed, GotoMoves, MoveRoutes, SMTT(30)
  <2> QED BY <2>1, <2>3, LeaveRoutes
<1>29. ASSUME Revoke(c) PROVE Routed(c)
  <2>1. call[c].at = "revoke" /\ (Goto(c, "finish") \/ Leave(c))
    BY <1>29 DEF Revoke, Over
  <2>2. "finish" \in Route(call[c].op)
    BY <2>1, Placed, RouteIs
  <2>3. CASE Goto(c, "finish")
    BY <2>1, <2>2, <2>3, Typed, GotoMoves, MoveRoutes, SMTT(30)
  <2> QED BY <2>1, <2>3, LeaveRoutes
<1>30. ASSUME ReadFinish(c) PROVE Routed(c)
  <2>1. call[c].at = "finish" /\ (Hold(c, "end", record[Task(c)].lease) \/ Leave(c))
    BY <1>30 DEF ReadFinish, Over
  <2>2. "end" \in Route(call[c].op)
    BY <2>1, Placed, RouteIs
  <2>3. CASE Hold(c, "end", record[Task(c)].lease)
    BY <2>1, <2>2, <2>3, Typed, HoldMoves, MoveRoutes, SMTT(30)
  <2> QED BY <2>1, <2>3, LeaveRoutes
<1>31. ASSUME FinishLease(c) PROVE Routed(c)
  <2>1. call[c].at = "end" /\ (Goto(c, "finish_put"))
    BY <1>31 DEF FinishLease
  <2>2. "finish_put" \in Route(call[c].op)
    BY <2>1, Placed, RouteIs
  <2>3. CASE Goto(c, "finish_put")
    BY <2>1, <2>2, <2>3, Typed, GotoMoves, MoveRoutes, SMTT(30)
  <2> QED BY <2>1, <2>3, LeaveRoutes
<1>32. ASSUME PutFinish(c) PROVE Routed(c)
  <2>1. call[c].at = "finish_put" /\ (Goto(c, "prior") \/ Leave(c))
    BY <1>32 DEF PutFinish, Over, FabricPut
  <2>2. "prior" \in Route(call[c].op)
    BY <2>1, Placed, RouteIs
  <2>3. CASE Goto(c, "prior")
    BY <2>1, <2>2, <2>3, Typed, GotoMoves, MoveRoutes, SMTT(30)
  <2> QED BY <2>1, <2>3, LeaveRoutes
<1>33. ASSUME ReadReplace(c) PROVE Routed(c)
  <2>1. call[c].at = "replace" /\ (Hold(c, "swap_end", record[Task(c)].lease) \/ Leave(c))
    BY <1>33 DEF ReadReplace, Over
  <2>2. "swap_end" \in Route(call[c].op)
    BY <2>1, Placed, RouteIs
  <2>3. CASE Hold(c, "swap_end", record[Task(c)].lease)
    BY <2>1, <2>2, <2>3, Typed, HoldMoves, MoveRoutes, SMTT(30)
  <2> QED BY <2>1, <2>3, LeaveRoutes
<1>34. ASSUME SwapEnd(c) PROVE Routed(c)
  <2>1. call[c].at = "swap_end" /\ (Goto(c, "swap_acquire"))
    BY <1>34 DEF SwapEnd
  <2>2. "swap_acquire" \in Route(call[c].op)
    BY <2>1, Placed, RouteIs
  <2>3. CASE Goto(c, "swap_acquire")
    BY <2>1, <2>2, <2>3, Typed, GotoMoves, MoveRoutes, SMTT(30)
  <2> QED BY <2>1, <2>3, LeaveRoutes
<1>35. ASSUME SwapAcquire(c) PROVE Routed(c)
  <2>1. call[c].at = "swap_acquire" /\ (Hold(c, "replace_put", Len(lease[Task(c)]) + 1) \/
        Leave(c))
    BY <1>35 DEF SwapAcquire, Over
  <2>2. "replace_put" \in Route(call[c].op)
    BY <2>1, Placed, RouteIs
  <2>3. CASE Hold(c, "replace_put", Len(lease[Task(c)]) + 1)
    BY <2>1, <2>2, <2>3, Typed, HoldMoves, MoveRoutes, SMTT(30)
  <2> QED BY <2>1, <2>3, LeaveRoutes
<1>36. ASSUME PutReplace(c) PROVE Routed(c)
  <2>1. call[c].at = "replace_put" /\ (Goto(c, "fail") \/ Leave(c))
    BY <1>36 DEF PutReplace, Over, FabricPut
  <2>2. "fail" \in Route(call[c].op)
    BY <2>1, Placed, RouteIs
  <2>3. CASE Goto(c, "fail")
    BY <2>1, <2>2, <2>3, Typed, GotoMoves, MoveRoutes, SMTT(30)
  <2> QED BY <2>1, <2>3, LeaveRoutes
<1> QED BY <1>1, <1>2, <1>3, <1>4, <1>5, <1>6, <1>7, <1>8, <1>9, <1>10, <1>11, <1>12, <1>13,
      <1>14, <1>15, <1>16, <1>17, <1>18, <1>19, <1>20, <1>21, <1>22, <1>23, <1>24, <1>25, <1>26,
      <1>27, <1>28, <1>29, <1>30, <1>31, <1>32, <1>33, <1>34, <1>35, <1>36 DEF CallerNext

LEMMA RouteNext ==
  ASSUME TaskRuntimeTypeOK, RouteInv, RefInv, TaskRuntimeNext
  PROVE  RouteInv'
<1>1. RecordsLast
  BY RecordsStay
<1>2. \A t \in Tasks : record'[t].status = "NONE" => record'[t] = NoRecord
  BY <1>1 DEF RecordsLast, RouteInv
<1>3. \A t \in Tasks : record[t].status # "NONE" => record'[t].status # "NONE"
  BY <1>1 DEF RecordsLast
<1> DEFINE Good(k) ==
       /\ k.op # "none" =>
             /\ k.at \in Route(k.op) /\ k.task \in Tasks /\ record'[k.task].status # "NONE"
             /\ k.at = "put" => k.graph \in Route(k.op) \cap GraphCalls /\ k.node.state # "NONE"
       /\ k.op = "none" => k = NoCall
<1>4. \A d \in Callers : Good(call[d])
  BY <1>3 DEF RouteInv, Task
<1>5. Good(NoCall)
  BY NoCallIs
<1>6. \A d \in Callers : Good(call'[d])
  <2>1. ASSUME NEW c \in Callers, CallerNext(c), NEW d \in Callers PROVE Good(call'[d])
    <3>1. Others(c) /\ Routed(c)
      BY <2>1, CallsLast, RouteStep
    <3>2. CASE d # c
      BY <3>1, <3>2, <1>4 DEF Others
    <3>3. CASE d = c
      BY <3>1, <3>3, <1>3, <1>5 DEF Routed
    <3> QED BY <3>2, <3>3
  <2>2. CASE \E t \in Tasks : LeaseEnds(t) \/ Answer(t)
    <3>1. UNCHANGED call
      BY <2>2 DEF LeaseEnds, Answer
    <3> QED BY <3>1, <1>4
  <2>3. CASE Restart
    BY <2>3, <1>5 DEF Restart
  <2> QED BY <2>1, <2>2, <2>3 DEF TaskRuntimeNext
<1> QED BY <1>2, <1>6 DEF RouteInv, Task

(***************************************************************************)
(* What the calls refer to.                                                *)
(***************************************************************************)

LEMMA RefKept ==
  ASSUME TaskRuntimeTypeOK, RouteInv, RefInv, LeasesLast, NEW c \in Callers,
         call[c].at # "none", call'[c].op = call[c].op, call'[c].task = call[c].task,
         \/ call'[c].ref = call[c].ref
         \/ call'[c].ref \in Nat /\ call'[c].ref <= Len(lease'[Task(c)]),
         call'[c].at \notin {"put", "chain"}
  PROVE  Refers(c)'
<1>1. Task(c) \in Tasks /\ call[c].op # "none"
  BY Placed
<1>2. /\ Len(lease[Task(c)]) \in Nat /\ Len(lease'[Task(c)]) \in Nat /\ call[c].ref \in Nat
      /\ Len(lease[Task(c)]) <= Len(lease'[Task(c)])
  BY <1>1, Typed DEF LeasesLast
<1>3. call[c].op # "run" => call[c].ref <= Len(lease[Task(c)])
  BY <1>1 DEF RefInv, Refers
<1> QED BY <1>2, <1>3 DEF Refers, Task

LEMMA RefBegun ==
  ASSUME TaskRuntimeTypeOK, LeasesLast, NEW c \in Callers, NEW t \in Tasks, NEW k, Begin(c, k),
         k.task = t, k.ref \in {0, record[t].lease}, k.at \notin {"put", "chain"}
  PROVE  Refers(c)'
<1>1. call'[c] = k
  BY Typed, BeginMoves
<1>2. /\ Len(lease[t]) \in Nat /\ Len(lease'[t]) \in Nat /\ record[t].lease \in Nat
      /\ Len(lease[t]) <= Len(lease'[t]) /\ record[t].lease <= Len(lease[t])
  BY Typed DEF LeasesLast, TaskRuntimeTypeOK
<1> QED BY <1>1, <1>2 DEF Refers, Task

LEMMA RefGone ==
  ASSUME TaskRuntimeTypeOK, NEW c \in Callers, Leave(c)
  PROVE  Refers(c)'
BY Typed, LeaveMoves, NoCallIs DEF Refers

LEMMA RefStep ==
  ASSUME TaskRuntimeTypeOK, RouteInv, RefInv, LeasesLast, NEW c \in Callers, CallerNext(c)
  PROVE  Refers(c)'
<1>0. ASSUME GraphStep(c) PROVE Refers(c)'
  <2>1. PICK g \in GraphCalls, n \in Nodes : GraphDoes(c, g, n)
    BY <1>0 DEF GraphStep
  <2> DEFINE r == record[Task(c)]
  <2>2. /\ call[c].at = g /\ UNCHANGED <<record, lease>>
        /\ \/ Send(c, g, n)
           \/ Leave(c)
           \/ After(call[c].op, g) # "none" /\ Goto(c, After(call[c].op, g))
        /\ n.asg \in {0, r.asg} \/ (g = "assign" /\ n.asg = call[c].ref)
        /\ n.chain \subseteq r.chain \/ (g = "chain" /\ n.chain = r.chain \cup {call[c].ref})
    BY <2>1 DEF GraphDoes
  <2>3. g # "none"
    BY DEF GraphCalls
  <2>4. Task(c) \in Tasks /\ call[c].op # "none" /\ (g = "assign" => call[c].op # "run")
    BY <2>2, <2>3, Placed
  <2>5. /\ r.asg \in Nat /\ r.asg <= Len(lease[Task(c)]) /\ r.chain \subseteq DOMAIN r.cps
        /\ Len(lease[Task(c)]) \in Nat
    BY <2>4, Typed DEF TaskRuntimeTypeOK
  <2>6. /\ g = "assign" => call[c].ref <= Len(lease[Task(c)])
        /\ g = "chain" => call[c].ref \in DOMAIN r.cps
        /\ call[c].op # "run" => call[c].ref <= Len(lease[Task(c)])
    BY <2>2, <2>4 DEF RefInv, Refers
  <2>7. n.asg <= Len(lease[Task(c)]) /\ n.chain \subseteq DOMAIN r.cps
    BY <2>2, <2>5, <2>6
  <2>8. CASE Send(c, g, n)
    <3>1. /\ call'[c].at = "put" /\ call'[c].op = call[c].op /\ call'[c].task = call[c].task
          /\ call'[c].node = n /\ call'[c].ref = call[c].ref
      BY <2>8, Typed, SendMoves
    <3> QED BY <3>1, <2>2, <2>6, <2>7 DEF Refers, Task
  <2>9. CASE Goto(c, After(call[c].op, g))
    <3> DEFINE p == After(call[c].op, g)
    <3>1. p \notin {"put", "chain"} /\ Goto(c, p)
      BY <2>9 DEF After
    <3> HIDE DEF p
    <3> QED BY <2>2, <2>3, <3>1, Typed, GotoMoves, RefKept, SMTT(30)
  <2> QED BY <2>2, <2>8, <2>9, RefGone
<1>1. ASSUME NEW t \in Tasks, BeginStart(c, t) PROVE Refers(c)'
  <2>1. /\ NewCall(t, "start", "grant") \in Calls
        /\ NewCall(t, "start", "grant").ref = 0
        /\ NewCall(t, "start", "grant").at = "grant"
        /\ NewCall(t, "start", "grant").task = t
    BY Names, NewCallIs
  <2> DEFINE k == NewCall(t, "start", "grant")
  <2>2. k.ref = 0 /\ k.at = "grant" /\ k.task = t /\ Begin(c, k)
    BY <1>1, <2>1 DEF BeginStart
  <2> HIDE DEF k
  <2> QED BY <2>2, RefBegun
<1>2. ASSUME NEW t \in Tasks, BeginRun(c, t) PROVE Refers(c)'
  <2>1. /\ NewCall(t, "run", "step") \in Calls
        /\ NewCall(t, "run", "step").ref = 0
        /\ NewCall(t, "run", "step").at = "step"
        /\ NewCall(t, "run", "step").task = t
    BY Names, NewCallIs
  <2>a. PICK s \in Nat, l \in Seq(Nat) :
           Begin(c, [NewCall(t, "run", "step") EXCEPT !.step = s, !.log = l])
    BY <1>2, RunBegins
  <2> DEFINE k == [NewCall(t, "run", "step") EXCEPT !.step = s, !.log = l]
  <2>b. k.ref = NewCall(t, "run", "step").ref /\ k.at = NewCall(t, "run", "step").at /\ k.task =
        NewCall(t, "run", "step").task
    BY <2>1 DEF Calls
  <2>c. Begin(c, k)
    BY <2>a
  <2> HIDE DEF k
  <2>2. k.ref = 0 /\ k.at = "step" /\ k.task = t /\ Begin(c, k)
    BY <2>b, <2>c, <2>1
  <2> HIDE DEF k
  <2> QED BY <2>2, RefBegun
<1>3. ASSUME NEW t \in Tasks, BeginResume(c, t) PROVE Refers(c)'
  <2>1. /\ NewCall(t, "resume", "resume_read") \in Calls
        /\ NewCall(t, "resume", "resume_read").ref = 0
        /\ NewCall(t, "resume", "resume_read").at = "resume_read"
        /\ NewCall(t, "resume", "resume_read").task = t
    BY Names, NewCallIs
  <2> DEFINE k == NewCall(t, "resume", "resume_read")
  <2>2. k.ref = 0 /\ k.at = "resume_read" /\ k.task = t /\ Begin(c, k)
    BY <1>3, <2>1 DEF BeginResume
  <2> HIDE DEF k
  <2> QED BY <2>2, RefBegun
<1>4. ASSUME NEW t \in Tasks, BeginCancel(c, t) PROVE Refers(c)'
  <2>1. /\ NewCall(t, "cancel", "revoke") \in Calls
        /\ NewCall(t, "cancel", "revoke").ref = 0
        /\ NewCall(t, "cancel", "revoke").at = "revoke"
        /\ NewCall(t, "cancel", "revoke").task = t
    BY Names, NewCallIs
  <2> DEFINE k == [NewCall(t, "cancel", "revoke") EXCEPT !.ref = record[t].lease]
  <2>2. k.ref = record[t].lease /\ k.at = "revoke" /\ k.task = t /\ Begin(c, k)
    BY <1>4, <2>1, Typed, CancelCallIs DEF BeginCancel
  <2> HIDE DEF k
  <2> QED BY <2>2, RefBegun
<1>5. ASSUME NEW t \in Tasks, BeginComplete(c, t) PROVE Refers(c)'
  <2>1. /\ NewCall(t, "complete", "finish") \in Calls
        /\ NewCall(t, "complete", "finish").ref = 0
        /\ NewCall(t, "complete", "finish").at = "finish"
        /\ NewCall(t, "complete", "finish").task = t
    BY Names, NewCallIs
  <2> DEFINE k == NewCall(t, "complete", "finish")
  <2>2. k.ref = 0 /\ k.at = "finish" /\ k.task = t /\ Begin(c, k)
    BY <1>5, <2>1 DEF BeginComplete
  <2> HIDE DEF k
  <2> QED BY <2>2, RefBegun
<1>6. ASSUME NEW t \in Tasks, BeginRecover(c, t) PROVE Refers(c)'
  <2>1. /\ NewCall(t, "recover", "replace") \in Calls
        /\ NewCall(t, "recover", "replace").ref = 0
        /\ NewCall(t, "recover", "replace").at = "replace"
        /\ NewCall(t, "recover", "replace").task = t
    BY Names, NewCallIs
  <2> DEFINE k == NewCall(t, "recover", "replace")
  <2>2. k.ref = 0 /\ k.at = "replace" /\ k.task = t /\ Begin(c, k)
    BY <1>6, <2>1 DEF BeginRecover
  <2> HIDE DEF k
  <2> QED BY <2>2, RefBegun
<1>7. ASSUME ReadAssign(c) PROVE Refers(c)'
  BY <1>7, GraphReads, <1>0
<1>8. ASSUME ReadFail(c) PROVE Refers(c)'
  BY <1>8, GraphReads, <1>0
<1>9. ASSUME ReadRetry(c) PROVE Refers(c)'
  BY <1>9, GraphReads, <1>0
<1>10. ASSUME ReadChain(c) PROVE Refers(c)'
  BY <1>10, GraphReads, <1>0
<1>11. ASSUME ReadAsk(c) PROVE Refers(c)'
  BY <1>11, GraphReads, <1>0
<1>12. ASSUME ReadVerify(c) PROVE Refers(c)'
  BY <1>12, GraphReads, <1>0
<1>13. ASSUME ReadPrior(c) PROVE Refers(c)'
  <2>1. call[c].at = "prior" /\ ((call' = [call EXCEPT ![c] = [@ EXCEPT !.at = "adopt", !.node =
        Node(Task(c))]]))
    BY <1>13 DEF ReadPrior
  <2>4. CASE call' = [call EXCEPT ![c] = [@ EXCEPT !.at = "adopt", !.node = Node(Task(c))]]
    BY <2>1, <2>4, Typed, PriorMoves, RefKept, ZenonT(60)
  <2> QED BY <2>1, <2>4, RefGone
<1>14. ASSUME ReadAdopt(c) PROVE Refers(c)'
  BY <1>14, GraphReads, <1>0
<1>15. ASSUME PutNode(c) PROVE Refers(c)'
  <2> DEFINE p == After(call[c].op, call[c].graph)
  <2>1. /\ call[c].at = "put" /\ call[c].op # "none"
        /\ call[c].graph \in Route(call[c].op) \cap GraphCalls
    BY <1>15, Placed DEF PutNode, RouteInv
  <2>2. IF p = "none" THEN Leave(c) ELSE Goto(c, p)
    BY <1>15 DEF PutNode
  <2>3. p \notin {"put", "chain"}
    BY DEF After
  <2> HIDE DEF p
  <2>4. CASE p # "none"
    BY <2>1, <2>2, <2>3, <2>4, Typed, GotoMoves, RefKept, SMTT(30)
  <2> QED BY <2>2, <2>4, RefGone
<1>16. ASSUME Grant(c) PROVE Refers(c)'
  <2>1. call[c].at = "grant" /\ ((Hold(c, "assign", Len(lease[Task(c)]) + 1) /\ NewLease(c)) \/
        Leave(c))
    BY <1>16 DEF Grant, Over
  <2>3. ASSUME Hold(c, "assign", Len(lease[Task(c)]) + 1), NewLease(c)
        PROVE  call'[c].ref \in Nat /\ call'[c].ref <= Len(lease'[Task(c)])
    BY <2>1, <2>3, Typed, Placed, HoldMoves, NewLeaseIs
  <2>4. CASE Hold(c, "assign", Len(lease[Task(c)]) + 1) /\ NewLease(c)
    <3>1. /\ call'[c].at = "assign" /\ call'[c].op = call[c].op
          /\ call'[c].task = call[c].task
      BY <2>4, Typed, HoldMoves
    <3> QED BY <2>1, <2>3, <2>4, <3>1, RefKept
  <2> QED BY <2>1, <2>4, RefGone
<1>17. ASSUME Authorize(c) PROVE Refers(c)'
  <2>1. call[c].at = "step" /\ ((Goto(c, "dispatch")) \/ Leave(c))
    BY <1>17 DEF Authorize, AtStep, Over
  <2>4. CASE Goto(c, "dispatch")
    BY <2>1, <2>4, Typed, GotoMoves, RefKept, SMTT(30)
  <2> QED BY <2>1, <2>4, RefGone
<1>18. ASSUME Dispatch(c) PROVE Refers(c)'
  <2>1. call[c].at = "dispatch" /\ ((Advance(c, "step")) \/ Leave(c))
    BY <1>18 DEF Dispatch
  <2>4. CASE Advance(c, "step")
    BY <2>1, <2>4, Typed, AdvanceMoves, RefKept, SMTT(30)
  <2> QED BY <2>1, <2>4, RefGone
<1>19. ASSUME Capture(c) PROVE Refers(c)'
  <2>1. call[c].at = "step" /\ ((Advance(c, "capture")) \/ Leave(c))
    BY <1>19 DEF Capture, AtStep, Over
  <2>4. CASE Advance(c, "capture")
    BY <2>1, <2>4, Typed, AdvanceMoves, RefKept, SMTT(30)
  <2> QED BY <2>1, <2>4, RefGone
<1>20. ASSUME RecordCheckpoint(c) PROVE Refers(c)'
  <2>1. call[c].at = "capture" /\ ((Hold(c, "chain", Len(record[Task(c)].cps) + 1)) \/ Leave(c))
    BY <1>20 DEF RecordCheckpoint, Over
  <2> DEFINE k == Len(record[Task(c)].cps) + 1
             r == [record[Task(c)] EXCEPT !.cps = Append(@, Snapshot(c))]
  <2>2. Task(c) \in Tasks /\ call[c].op = "run"
    BY <2>1, Placed
  <2>3. r.cps = Append(record[Task(c)].cps, Snapshot(c)) /\ DOMAIN r.cps = 1..k /\ k \in Nat /\
        r \in Records
    BY <2>2, Typed, SnapshotIs, CapturedIs, SMTT(30)
  <2>5. Leave(c) \/ (Hold(c, "chain", k) /\ Store(c, r)) \/ Leave(c)
    BY <1>20 DEF RecordCheckpoint, Over
  <2> HIDE DEF r
  <2>6. ASSUME Hold(c, "chain", k), Store(c, r) PROVE Refers(c)'
    <3>1. record'[Task(c)] = r
      BY <2>2, <2>3, <2>6, Typed, StoreIs
    <3>2. k \in DOMAIN record'[Task(c)].cps
      BY <2>3, <3>1
    <3> HIDE DEF k
    <3> QED BY <2>2, <2>6, <3>2, Typed, HoldMoves DEF Refers, Task
  <2> QED BY <2>5, <2>6, RefGone
<1>21. ASSUME ReadNote(c) PROVE Refers(c)'
  <2>1. call[c].at = "step" /\ ((Goto(c, "note")))
    BY <1>21 DEF ReadNote, AtStep
  <2>4. CASE Goto(c, "note")
    BY <2>1, <2>4, Typed, GotoMoves, RefKept, SMTT(30)
  <2> QED BY <2>1, <2>4, RefGone
<1>22. ASSUME AppendUncertainty(c) PROVE Refers(c)'
  <2>1. call[c].at = "note" /\ ((Advance(c, "step")) \/ Leave(c))
    BY <1>22 DEF AppendUncertainty, Over
  <2>4. CASE Advance(c, "step")
    BY <2>1, <2>4, Typed, AdvanceMoves, RefKept, SMTT(30)
  <2> QED BY <2>1, <2>4, RefGone
<1>23. ASSUME ParkOnAsk(c) PROVE Refers(c)'
  <2>1. call[c].at = "step" /\ ((Goto(c, "ask")))
    BY <1>23 DEF ParkOnAsk, AtStep
  <2>4. CASE Goto(c, "ask")
    BY <2>1, <2>4, Typed, GotoMoves, RefKept, SMTT(30)
  <2> QED BY <2>1, <2>4, RefGone
<1>24. ASSUME Interrupt(c) PROVE Refers(c)'
  BY <1>24, RefGone DEF Interrupt, Over
<1>25. ASSUME ProgramEnds(c) PROVE Refers(c)'
  <2>1. call[c].at = "step" /\ ((Goto(c, "ended")))
    BY <1>25 DEF ProgramEnds
  <2>4. CASE Goto(c, "ended")
    BY <2>1, <2>4, Typed, GotoMoves, RefKept, SMTT(30)
  <2> QED BY <2>1, <2>4, RefGone
<1>26. ASSUME Return(c) PROVE Refers(c)'
  BY <1>26, RefGone DEF Return, Over
<1>27. ASSUME ReadResume(c) PROVE Refers(c)'
  <2>1. call[c].at = "resume_read" /\ ((Goto(c, "resume_put")) \/ Leave(c))
    BY <1>27 DEF ReadResume, Over
  <2>4. CASE Goto(c, "resume_put")
    BY <2>1, <2>4, Typed, GotoMoves, RefKept, SMTT(30)
  <2> QED BY <2>1, <2>4, RefGone
<1>28. ASSUME PutResume(c) PROVE Refers(c)'
  <2>1. call[c].at = "resume_put" /\ ((Goto(c, "prior")) \/ Leave(c))
    BY <1>28 DEF PutResume, Over, FabricPut
  <2>4. CASE Goto(c, "prior")
    BY <2>1, <2>4, Typed, GotoMoves, RefKept, SMTT(30)
  <2> QED BY <2>1, <2>4, RefGone
<1>29. ASSUME Revoke(c) PROVE Refers(c)'
  <2>1. call[c].at = "revoke" /\ ((Goto(c, "finish")) \/ Leave(c))
    BY <1>29 DEF Revoke, Over
  <2>4. CASE Goto(c, "finish")
    BY <2>1, <2>4, Typed, GotoMoves, RefKept, SMTT(30)
  <2> QED BY <2>1, <2>4, RefGone
<1>30. ASSUME ReadFinish(c) PROVE Refers(c)'
  <2>1. call[c].at = "finish" /\ ((Hold(c, "end", record[Task(c)].lease)) \/ Leave(c))
    BY <1>30 DEF ReadFinish, Over
  <2>2. /\ record[Task(c)].lease \in Nat /\ Task(c) \in Tasks
        /\ record[Task(c)].lease <= Len(lease[Task(c)])
    BY <2>1, Typed, Placed DEF TaskRuntimeTypeOK
  <2>3. UNCHANGED lease
    BY <1>30 DEF ReadFinish
  <2>4. CASE Hold(c, "end", record[Task(c)].lease)
    <3>1. /\ call'[c].at = "end" /\ call'[c].op = call[c].op
          /\ call'[c].task = call[c].task /\ call'[c].ref = record[Task(c)].lease
      BY <2>4, Typed, HoldMoves
    <3>2. call'[c].ref \in Nat /\ call'[c].ref <= Len(lease'[Task(c)])
      BY <2>2, <2>3, <3>1
    <3> QED BY <2>1, <3>1, <3>2, RefKept
  <2> QED BY <2>1, <2>4, RefGone
<1>31. ASSUME FinishLease(c) PROVE Refers(c)'
  <2>1. call[c].at = "end" /\ ((Goto(c, "finish_put")))
    BY <1>31 DEF FinishLease
  <2>4. CASE Goto(c, "finish_put")
    BY <2>1, <2>4, Typed, GotoMoves, RefKept, SMTT(30)
  <2> QED BY <2>1, <2>4, RefGone
<1>32. ASSUME PutFinish(c) PROVE Refers(c)'
  <2>1. call[c].at = "finish_put" /\ ((Goto(c, "prior")) \/ Leave(c))
    BY <1>32 DEF PutFinish, Over, FabricPut
  <2>4. CASE Goto(c, "prior")
    BY <2>1, <2>4, Typed, GotoMoves, RefKept, SMTT(30)
  <2> QED BY <2>1, <2>4, RefGone
<1>33. ASSUME ReadReplace(c) PROVE Refers(c)'
  <2>1. call[c].at = "replace" /\ ((Hold(c, "swap_end", record[Task(c)].lease)) \/ Leave(c))
    BY <1>33 DEF ReadReplace, Over
  <2>2. /\ record[Task(c)].lease \in Nat /\ Task(c) \in Tasks
        /\ record[Task(c)].lease <= Len(lease[Task(c)])
    BY <2>1, Typed, Placed DEF TaskRuntimeTypeOK
  <2>3. UNCHANGED lease
    BY <1>33 DEF ReadReplace
  <2>4. CASE Hold(c, "swap_end", record[Task(c)].lease)
    <3>1. /\ call'[c].at = "swap_end" /\ call'[c].op = call[c].op
          /\ call'[c].task = call[c].task /\ call'[c].ref = record[Task(c)].lease
      BY <2>4, Typed, HoldMoves
    <3>2. call'[c].ref \in Nat /\ call'[c].ref <= Len(lease'[Task(c)])
      BY <2>2, <2>3, <3>1
    <3> QED BY <2>1, <3>1, <3>2, RefKept
  <2> QED BY <2>1, <2>4, RefGone
<1>34. ASSUME SwapEnd(c) PROVE Refers(c)'
  <2>1. call[c].at = "swap_end" /\ ((Goto(c, "swap_acquire")))
    BY <1>34 DEF SwapEnd
  <2>4. CASE Goto(c, "swap_acquire")
    BY <2>1, <2>4, Typed, GotoMoves, RefKept, SMTT(30)
  <2> QED BY <2>1, <2>4, RefGone
<1>35. ASSUME SwapAcquire(c) PROVE Refers(c)'
  <2>1. call[c].at = "swap_acquire" /\ ((Hold(c, "replace_put", Len(lease[Task(c)]) + 1) /\
        NewLease(c)) \/ Leave(c))
    BY <1>35 DEF SwapAcquire, Over
  <2>3. ASSUME Hold(c, "replace_put", Len(lease[Task(c)]) + 1), NewLease(c)
        PROVE  call'[c].ref \in Nat /\ call'[c].ref <= Len(lease'[Task(c)])
    BY <2>1, <2>3, Typed, Placed, HoldMoves, NewLeaseIs
  <2>4. CASE Hold(c, "replace_put", Len(lease[Task(c)]) + 1) /\ NewLease(c)
    <3>1. /\ call'[c].at = "replace_put" /\ call'[c].op = call[c].op
          /\ call'[c].task = call[c].task
      BY <2>4, Typed, HoldMoves
    <3> QED BY <2>1, <2>3, <2>4, <3>1, RefKept
  <2> QED BY <2>1, <2>4, RefGone
<1>36. ASSUME PutReplace(c) PROVE Refers(c)'
  <2>1. call[c].at = "replace_put" /\ ((Goto(c, "fail")) \/ Leave(c))
    BY <1>36 DEF PutReplace, Over, FabricPut
  <2>4. CASE Goto(c, "fail")
    BY <2>1, <2>4, Typed, GotoMoves, RefKept, SMTT(30)
  <2> QED BY <2>1, <2>4, RefGone
<1> QED BY <1>1, <1>2, <1>3, <1>4, <1>5, <1>6, <1>7, <1>8, <1>9, <1>10, <1>11, <1>12, <1>13,
      <1>14, <1>15, <1>16, <1>17, <1>18, <1>19, <1>20, <1>21, <1>22, <1>23, <1>24, <1>25, <1>26,
      <1>27, <1>28, <1>29, <1>30, <1>31, <1>32, <1>33, <1>34, <1>35, <1>36 DEF CallerNext

LEMMA RefNext ==
  ASSUME TaskRuntimeTypeOK, RouteInv, RefInv, TaskRuntimeNext
  PROVE  RefInv'
<1>1. LeasesLast /\ RecordsLast
  BY LeasesStay, RecordsStay
<1>2. ASSUME NEW d \in Callers, call'[d] = call[d] PROVE Refers(d)'
  <2>1. CASE call[d].op = "none"
    BY <1>2, <2>1 DEF Refers
  <2>2. CASE call[d].op # "none"
    <3> DEFINE t == Task(d)
    <3>1. t \in Tasks
      BY <2>2 DEF RouteInv
    <3>2. Len(lease[t]) \in Nat /\ Len(lease'[t]) \in Nat /\ Len(lease[t]) <= Len(lease'[t])
      BY <3>1, <1>1, Typed DEF LeasesLast
    <3>3. DOMAIN record[t].cps \subseteq DOMAIN record'[t].cps
      <4>1. record[t].cps \in Seq(Checkpoints) /\ record'[t].cps \in Seq(Checkpoints)
        BY <3>1, <1>1, Typed DEF RecordsLast, Records
      <4>2. Len(record[t].cps) <= Len(record'[t].cps)
        BY <3>1, <1>1 DEF RecordsLast, Extends
      <4> QED BY <4>1, <4>2
    <3>4. call[d].ref \in Nat /\ call[d].node.asg \in Nat
      BY Typed
    <3>5. /\ call[d].op # "run" => call[d].ref <= Len(lease[t])
          /\ call[d].at = "chain" => call[d].ref \in DOMAIN record[t].cps
          /\ call[d].at = "put" => /\ call[d].node.asg <= Len(lease[t])
                                   /\ call[d].node.chain \subseteq DOMAIN record[t].cps
      BY <2>2 DEF RefInv, Refers
    <3>6. /\ call[d].op # "run" => call[d].ref <= Len(lease'[t])
          /\ call[d].at = "put" => call[d].node.asg <= Len(lease'[t])
      BY <3>2, <3>4, <3>5
    <3> QED BY <1>2, <3>3, <3>5, <3>6 DEF Refers, Task
  <2> QED BY <2>1, <2>2
<1>3. ASSUME NEW c \in Callers, CallerNext(c), NEW d \in Callers PROVE Refers(d)'
  <2>1. Others(c) /\ Refers(c)'
    BY <1>1, <1>3, CallsLast, RefStep
  <2> QED BY <2>1, <1>2 DEF Others
<1>4. ASSUME NEW t \in Tasks, LeaseEnds(t) \/ Answer(t), NEW d \in Callers PROVE Refers(d)'
  <2>1. UNCHANGED call
    BY <1>4 DEF LeaseEnds, Answer
  <2> QED BY <2>1, <1>2
<1>5. ASSUME Restart, NEW d \in Callers PROVE Refers(d)'
  BY <1>5, NoCallIs DEF Restart, Refers
<1> QED BY <1>3, <1>4, <1>5 DEF RefInv, TaskRuntimeNext


(***************************************************************************)
(* What the calls record of the steps they ran.                            *)
(***************************************************************************)

LEMMA TranscriptGrows ==
  ASSUME NEW n \in Nat \ {0}
  PROVE  Append(Transcript(n - 1), n) = Transcript(n)
<1>1. Transcript(n - 1) \in Seq(Nat) /\ Len(Transcript(n - 1)) = n - 1
  BY DEF Transcript
<1>2. Transcript(n) \in Seq(Nat) /\ Len(Transcript(n)) = n
  BY DEF Transcript
<1>3. Append(Transcript(n - 1), n) \in Seq(Nat) /\ Len(Append(Transcript(n - 1), n)) = n
  BY <1>1
<1>4. \A i \in 1..n : Append(Transcript(n - 1), n)[i] = Transcript(n)[i]
  BY <1>1 DEF Transcript
<1> HIDE DEF Transcript
<1> QED BY <1>2, <1>3, <1>4

LEMMA LogKept ==
  ASSUME RouteInv, LogInv, NEW c \in Callers, call[c].at # "none",
         call'[c].op = call[c].op, call'[c].task = call[c].task, call'[c].step = call[c].step,
         call'[c].log = call[c].log,
         call'[c].at \in {"dispatch", "note"} => call[c].step <= Len(Program[Task(c)]),
         call'[c].at = "ended" => call[c].step > Len(Program[Task(c)])
  PROVE  Logged(c)'
<1>1. CASE call[c].op # "run"
  BY <1>1 DEF Logged
<1>2. CASE call[c].op = "run"
  <2>1. Task(c) \in Tasks
    BY Placed
  <2>2. Len(Program[Task(c)]) \in Nat
    BY <2>1, RuntimeAssumption
  <2>3. /\ call[c].step \in 1..Len(Program[Task(c)]) + 1
        /\ call[c].log = Transcript(call[c].step - 1)
    BY <1>2 DEF LogInv, Logged
  <2> QED BY <2>2, <2>3 DEF Logged, Task
<1> QED BY <1>1, <1>2

LEMMA LogGrown ==
  ASSUME TaskRuntimeTypeOK, RouteInv, LogInv, NEW c \in Callers, call[c].at # "none",
         call[c].op = "run", call[c].step <= Len(Program[Task(c)]),
         NEW p \in {"step", "capture"}, Advance(c, p)
  PROVE  Logged(c)'
<1> DEFINE n == call[c].step
<1>1. Task(c) \in Tasks
  BY Placed
<1>2. Len(Program[Task(c)]) \in Nat
  BY <1>1, RuntimeAssumption
<1>3. n \in 1..Len(Program[Task(c)]) + 1 /\ call[c].log = Transcript(n - 1)
  BY DEF LogInv, Logged
<1>4. /\ call'[c].at = p /\ call'[c].task = call[c].task /\ call'[c].step = n + 1
      /\ call'[c].log = Append(Transcript(n - 1), n)
  BY <1>3, Typed, AdvanceMoves
<1>5. n \in Nat \ {0} /\ n + 1 \in 1..Len(Program[Task(c)]) + 1 /\ n + 1 - 1 = n
  BY <1>2, <1>3
<1> HIDE DEF n
<1>6. Append(Transcript(n - 1), n) = Transcript(n)
  BY <1>5, TranscriptGrows
<1>7. call'[c].log = Transcript(call'[c].step - 1)
  BY <1>4, <1>5, <1>6
<1> QED BY <1>4, <1>5, <1>7 DEF Logged, Task

LEMMA LogGone ==
  ASSUME TaskRuntimeTypeOK, NEW c \in Callers, Leave(c)
  PROVE  Logged(c)'
BY Typed, LeaveMoves, NoCallIs DEF Logged

LEMMA LogBegun ==
  ASSUME TaskRuntimeTypeOK, NEW c \in Callers, NEW k, Begin(c, k), k.op # "run"
  PROVE  Logged(c)'
BY Typed, BeginMoves DEF Logged

LEMMA LogStep ==
  ASSUME TaskRuntimeTypeOK, RouteInv, LogInv, NEW c \in Callers, CallerNext(c)
  PROVE  Logged(c)'
<1>0. ASSUME GraphStep(c) PROVE Logged(c)'
  <2>1. PICK g \in GraphCalls, n \in Nodes : GraphDoes(c, g, n)
    BY <1>0 DEF GraphStep
  <2>2. /\ call[c].at = g
        /\ \/ Send(c, g, n)
           \/ Leave(c)
           \/ Goto(c, After(call[c].op, g))
    BY <2>1 DEF GraphDoes
  <2>3. g # "none"
    BY DEF GraphCalls
  <2>4. CASE Send(c, g, n)
    <3>1. /\ call'[c].at = "put" /\ call'[c].op = call[c].op /\ call'[c].task = call[c].task
          /\ call'[c].step = call[c].step /\ call'[c].log = call[c].log
      BY <2>4, Typed, SendMoves
    <3> QED BY <2>2, <2>3, <3>1, LogKept
  <2>5. CASE Goto(c, After(call[c].op, g))
    <3> DEFINE p == After(call[c].op, g)
    <3>1. p \notin {"dispatch", "note", "ended"} /\ Goto(c, p)
      BY <2>5 DEF After
    <3> HIDE DEF p
    <3> QED BY <2>2, <2>3, <3>1, Typed, GotoMoves, LogKept
  <2> QED BY <2>2, <2>4, <2>5, LogGone
<1>1. ASSUME NEW t \in Tasks, BeginStart(c, t) PROVE Logged(c)'
  <2>1. NewCall(t, "start", "grant") \in Calls /\ NewCall(t, "start", "grant").op = "start"
    BY Names, NewCallIs
  <2> DEFINE k == NewCall(t, "start", "grant")
  <2>2. k.op # "run" /\ Begin(c, k)
    BY <1>1, <2>1 DEF BeginStart
  <2> HIDE DEF k
  <2> QED BY <2>2, LogBegun
<1>2. ASSUME NEW t \in Tasks, BeginRun(c, t) PROVE Logged(c)'
  <2>1. PICK s \in Nat, l \in Seq(Nat) :
           /\ Begin(c, [NewCall(t, "run", "step") EXCEPT !.step = s, !.log = l])
           /\ \/ s = 1 /\ l = <<>>
              \/ \E k \in DOMAIN record[t].cps :
                    s = record[t].cps[k].next /\ l = record[t].cps[k].log
    BY <1>2, RunBegins
  <2>2. s \in 1..Len(Program[t]) + 1 /\ l = Transcript(s - 1)
    <3>1. Len(Program[t]) \in Nat
      BY RuntimeAssumption
    <3>2. Transcript(0) = <<>>
      BY DEF Transcript
    <3>3. CASE s = 1 /\ l = <<>>
      BY <3>1, <3>2, <3>3
    <3>4. CASE \E k \in DOMAIN record[t].cps :
                  s = record[t].cps[k].next /\ l = record[t].cps[k].log
      BY <3>4 DEF LogInv, Whole
    <3> QED BY <2>1, <3>3, <3>4
  <2> DEFINE k == [NewCall(t, "run", "step") EXCEPT !.step = s, !.log = l]
  <2>3. /\ NewCall(t, "run", "step") \in Calls
        /\ NewCall(t, "run", "step").at = "step"
        /\ NewCall(t, "run", "step").task = t
    BY Names, NewCallIs
  <2>4. /\ k.at = NewCall(t, "run", "step").at
        /\ k.task = NewCall(t, "run", "step").task
        /\ k.step = s /\ k.log = l
    BY <2>3 DEF Calls
  <2>5. call'[c] = k
    BY <2>1, Typed, BeginMoves
  <2> HIDE DEF k
  <2> QED BY <2>2, <2>3, <2>4, <2>5 DEF Logged, Task
<1>3. ASSUME NEW t \in Tasks, BeginResume(c, t) PROVE Logged(c)'
  <2>1. NewCall(t, "resume", "resume_read") \in Calls /\ NewCall(t, "resume", "resume_read").op
        = "resume"
    BY Names, NewCallIs
  <2> DEFINE k == NewCall(t, "resume", "resume_read")
  <2>2. k.op # "run" /\ Begin(c, k)
    BY <1>3, <2>1 DEF BeginResume
  <2> HIDE DEF k
  <2> QED BY <2>2, LogBegun
<1>4. ASSUME NEW t \in Tasks, BeginCancel(c, t) PROVE Logged(c)'
  <2>1. NewCall(t, "cancel", "revoke") \in Calls /\ NewCall(t, "cancel", "revoke").op = "cancel"
    BY Names, NewCallIs
  <2> DEFINE k == [NewCall(t, "cancel", "revoke") EXCEPT !.ref = record[t].lease]
  <2>2. k.op # "run" /\ Begin(c, k)
    BY <1>4, <2>1, Typed, CancelCallIs DEF BeginCancel
  <2> HIDE DEF k
  <2> QED BY <2>2, LogBegun
<1>5. ASSUME NEW t \in Tasks, BeginComplete(c, t) PROVE Logged(c)'
  <2>1. NewCall(t, "complete", "finish") \in Calls /\ NewCall(t, "complete", "finish").op =
        "complete"
    BY Names, NewCallIs
  <2> DEFINE k == NewCall(t, "complete", "finish")
  <2>2. k.op # "run" /\ Begin(c, k)
    BY <1>5, <2>1 DEF BeginComplete
  <2> HIDE DEF k
  <2> QED BY <2>2, LogBegun
<1>6. ASSUME NEW t \in Tasks, BeginRecover(c, t) PROVE Logged(c)'
  <2>1. NewCall(t, "recover", "replace") \in Calls /\ NewCall(t, "recover", "replace").op =
        "recover"
    BY Names, NewCallIs
  <2> DEFINE k == NewCall(t, "recover", "replace")
  <2>2. k.op # "run" /\ Begin(c, k)
    BY <1>6, <2>1 DEF BeginRecover
  <2> HIDE DEF k
  <2> QED BY <2>2, LogBegun
<1>7. ASSUME ReadAssign(c) PROVE Logged(c)'
  BY <1>7, GraphReads, <1>0
<1>8. ASSUME ReadFail(c) PROVE Logged(c)'
  BY <1>8, GraphReads, <1>0
<1>9. ASSUME ReadRetry(c) PROVE Logged(c)'
  BY <1>9, GraphReads, <1>0
<1>10. ASSUME ReadChain(c) PROVE Logged(c)'
  BY <1>10, GraphReads, <1>0
<1>11. ASSUME ReadAsk(c) PROVE Logged(c)'
  BY <1>11, GraphReads, <1>0
<1>12. ASSUME ReadVerify(c) PROVE Logged(c)'
  BY <1>12, GraphReads, <1>0
<1>13. ASSUME ReadPrior(c) PROVE Logged(c)'
  <2>1. call[c].at = "prior" /\ (call' = [call EXCEPT ![c] = [@ EXCEPT !.at = "adopt", !.node =
        Node(Task(c))]])
    BY <1>13 DEF ReadPrior
  <2>4. CASE call' = [call EXCEPT ![c] = [@ EXCEPT !.at = "adopt", !.node = Node(Task(c))]]
    <3>1. /\ call'[c].at = "adopt" /\ call'[c].op = call[c].op
          /\ call'[c].task = call[c].task
          /\ call'[c].step = call[c].step /\ call'[c].log = call[c].log
      BY <2>4, Typed, PriorMoves
    <3> QED BY <2>1, <3>1, LogKept
  <2> QED BY <2>1, <2>4, LogGone
<1>14. ASSUME ReadAdopt(c) PROVE Logged(c)'
  BY <1>14, GraphReads, <1>0
<1>15. ASSUME PutNode(c) PROVE Logged(c)'
  <2> DEFINE p == After(call[c].op, call[c].graph)
  <2>1. call[c].at = "put" /\ IF p = "none" THEN Leave(c) ELSE Goto(c, p)
    BY <1>15 DEF PutNode
  <2>2. p \notin {"dispatch", "note", "ended"}
    BY DEF After
  <2> HIDE DEF p
  <2>3. CASE Goto(c, p)
    BY <2>1, <2>2, <2>3, Typed, GotoMoves, LogKept
  <2> QED BY <2>1, <2>3, LogGone
<1>16. ASSUME Grant(c) PROVE Logged(c)'
  <2>1. call[c].at = "grant" /\ (Hold(c, "assign", Len(lease[Task(c)]) + 1) \/ Leave(c))
    BY <1>16 DEF Grant, Over
  <2>4. CASE Hold(c, "assign", Len(lease[Task(c)]) + 1)
    <3>1. /\ call'[c].at = "assign" /\ call'[c].op = call[c].op
          /\ call'[c].task = call[c].task
          /\ call'[c].step = call[c].step /\ call'[c].log = call[c].log
      BY <2>4, Typed, HoldMoves
    <3> QED BY <2>1, <3>1, LogKept
  <2> QED BY <2>1, <2>4, LogGone
<1>17. ASSUME Authorize(c) PROVE Logged(c)'
  <2>1. call[c].at = "step" /\ (Goto(c, "dispatch") \/ Leave(c))
    BY <1>17 DEF Authorize, AtStep, Over
  <2>3. call[c].step <= Len(Program[Task(c)])
    BY <1>17 DEF Authorize, AtStep
  <2>4. CASE Goto(c, "dispatch")
    <3>1. /\ call'[c].at = "dispatch" /\ call'[c].op = call[c].op
          /\ call'[c].task = call[c].task
          /\ call'[c].step = call[c].step /\ call'[c].log = call[c].log
      BY <2>4, Typed, GotoMoves
    <3> QED BY <2>1, <2>3, <3>1, LogKept
  <2> QED BY <2>1, <2>4, LogGone
<1>18. ASSUME Dispatch(c) PROVE Logged(c)'
  <2>1. call[c].at = "dispatch" /\ (Advance(c, "step") \/ Leave(c))
    BY <1>18 DEF Dispatch
  <2>2. call[c].op = "run"
    BY <2>1, Placed
  <2>3. call[c].step <= Len(Program[Task(c)])
    BY <1>18, <2>1, <2>2 DEF LogInv, Logged
  <2>4. CASE Advance(c, "step")
    BY <2>1, <2>2, <2>3, <2>4, LogGrown
  <2> QED BY <2>1, <2>4, LogGone
<1>19. ASSUME Capture(c) PROVE Logged(c)'
  <2>1. call[c].at = "step" /\ (Advance(c, "capture") \/ Leave(c))
    BY <1>19 DEF Capture, AtStep, Over
  <2>2. call[c].op = "run"
    BY <2>1, Placed
  <2>3. call[c].step <= Len(Program[Task(c)])
    BY <1>19 DEF Capture, AtStep
  <2>4. CASE Advance(c, "capture")
    BY <2>1, <2>2, <2>3, <2>4, LogGrown
  <2> QED BY <2>1, <2>4, LogGone
<1>20. ASSUME RecordCheckpoint(c) PROVE Logged(c)'
  <2>1. call[c].at = "capture" /\ (Hold(c, "chain", Len(record[Task(c)].cps) + 1) \/ Leave(c))
    BY <1>20 DEF RecordCheckpoint, Over
  <2>4. CASE Hold(c, "chain", Len(record[Task(c)].cps) + 1)
    <3>1. /\ call'[c].at = "chain" /\ call'[c].op = call[c].op
          /\ call'[c].task = call[c].task
          /\ call'[c].step = call[c].step /\ call'[c].log = call[c].log
      BY <2>4, Typed, HoldMoves
    <3> QED BY <2>1, <3>1, LogKept
  <2> QED BY <2>1, <2>4, LogGone
<1>21. ASSUME ReadNote(c) PROVE Logged(c)'
  <2>1. call[c].at = "step" /\ (Goto(c, "note"))
    BY <1>21 DEF ReadNote, AtStep
  <2>3. call[c].step <= Len(Program[Task(c)])
    BY <1>21 DEF ReadNote, AtStep
  <2>4. CASE Goto(c, "note")
    <3>1. /\ call'[c].at = "note" /\ call'[c].op = call[c].op
          /\ call'[c].task = call[c].task
          /\ call'[c].step = call[c].step /\ call'[c].log = call[c].log
      BY <2>4, Typed, GotoMoves
    <3> QED BY <2>1, <2>3, <3>1, LogKept
  <2> QED BY <2>1, <2>4, LogGone
<1>22. ASSUME AppendUncertainty(c) PROVE Logged(c)'
  <2>1. call[c].at = "note" /\ (Advance(c, "step") \/ Leave(c))
    BY <1>22 DEF AppendUncertainty, Over
  <2>2. call[c].op = "run"
    BY <2>1, Placed
  <2>3. call[c].step <= Len(Program[Task(c)])
    BY <1>22, <2>1, <2>2 DEF LogInv, Logged
  <2>4. CASE Advance(c, "step")
    BY <2>1, <2>2, <2>3, <2>4, LogGrown
  <2> QED BY <2>1, <2>4, LogGone
<1>23. ASSUME ParkOnAsk(c) PROVE Logged(c)'
  <2>1. call[c].at = "step" /\ (Goto(c, "ask"))
    BY <1>23 DEF ParkOnAsk, AtStep
  <2>4. CASE Goto(c, "ask")
    <3>1. /\ call'[c].at = "ask" /\ call'[c].op = call[c].op
          /\ call'[c].task = call[c].task
          /\ call'[c].step = call[c].step /\ call'[c].log = call[c].log
      BY <2>4, Typed, GotoMoves
    <3> QED BY <2>1, <3>1, LogKept
  <2> QED BY <2>1, <2>4, LogGone
<1>24. ASSUME Interrupt(c) PROVE Logged(c)'
  BY <1>24, LogGone DEF Interrupt, Over
<1>25. ASSUME ProgramEnds(c) PROVE Logged(c)'
  <2>1. call[c].at = "step" /\ (Goto(c, "ended"))
    BY <1>25 DEF ProgramEnds
  <2>3. call[c].step > Len(Program[Task(c)])
    BY <1>25 DEF ProgramEnds
  <2>4. CASE Goto(c, "ended")
    <3>1. /\ call'[c].at = "ended" /\ call'[c].op = call[c].op
          /\ call'[c].task = call[c].task
          /\ call'[c].step = call[c].step /\ call'[c].log = call[c].log
      BY <2>4, Typed, GotoMoves
    <3> QED BY <2>1, <2>3, <3>1, LogKept
  <2> QED BY <2>1, <2>4, LogGone
<1>26. ASSUME Return(c) PROVE Logged(c)'
  BY <1>26, LogGone DEF Return, Over
<1>27. ASSUME ReadResume(c) PROVE Logged(c)'
  <2>1. call[c].at = "resume_read" /\ (Goto(c, "resume_put") \/ Leave(c))
    BY <1>27 DEF ReadResume, Over
  <2>4. CASE Goto(c, "resume_put")
    <3>1. /\ call'[c].at = "resume_put" /\ call'[c].op = call[c].op
          /\ call'[c].task = call[c].task
          /\ call'[c].step = call[c].step /\ call'[c].log = call[c].log
      BY <2>4, Typed, GotoMoves
    <3> QED BY <2>1, <3>1, LogKept
  <2> QED BY <2>1, <2>4, LogGone
<1>28. ASSUME PutResume(c) PROVE Logged(c)'
  <2>1. call[c].at = "resume_put" /\ (Goto(c, "prior") \/ Leave(c))
    BY <1>28 DEF PutResume, Over, FabricPut
  <2>4. CASE Goto(c, "prior")
    <3>1. /\ call'[c].at = "prior" /\ call'[c].op = call[c].op
          /\ call'[c].task = call[c].task
          /\ call'[c].step = call[c].step /\ call'[c].log = call[c].log
      BY <2>4, Typed, GotoMoves
    <3> QED BY <2>1, <3>1, LogKept
  <2> QED BY <2>1, <2>4, LogGone
<1>29. ASSUME Revoke(c) PROVE Logged(c)'
  <2>1. call[c].at = "revoke" /\ (Goto(c, "finish") \/ Leave(c))
    BY <1>29 DEF Revoke, Over
  <2>4. CASE Goto(c, "finish")
    <3>1. /\ call'[c].at = "finish" /\ call'[c].op = call[c].op
          /\ call'[c].task = call[c].task
          /\ call'[c].step = call[c].step /\ call'[c].log = call[c].log
      BY <2>4, Typed, GotoMoves
    <3> QED BY <2>1, <3>1, LogKept
  <2> QED BY <2>1, <2>4, LogGone
<1>30. ASSUME ReadFinish(c) PROVE Logged(c)'
  <2>1. call[c].at = "finish" /\ (Hold(c, "end", record[Task(c)].lease) \/ Leave(c))
    BY <1>30 DEF ReadFinish, Over
  <2>4. CASE Hold(c, "end", record[Task(c)].lease)
    <3>1. /\ call'[c].at = "end" /\ call'[c].op = call[c].op
          /\ call'[c].task = call[c].task
          /\ call'[c].step = call[c].step /\ call'[c].log = call[c].log
      BY <2>4, Typed, HoldMoves
    <3> QED BY <2>1, <3>1, LogKept
  <2> QED BY <2>1, <2>4, LogGone
<1>31. ASSUME FinishLease(c) PROVE Logged(c)'
  <2>1. call[c].at = "end" /\ (Goto(c, "finish_put"))
    BY <1>31 DEF FinishLease
  <2>4. CASE Goto(c, "finish_put")
    <3>1. /\ call'[c].at = "finish_put" /\ call'[c].op = call[c].op
          /\ call'[c].task = call[c].task
          /\ call'[c].step = call[c].step /\ call'[c].log = call[c].log
      BY <2>4, Typed, GotoMoves
    <3> QED BY <2>1, <3>1, LogKept
  <2> QED BY <2>1, <2>4, LogGone
<1>32. ASSUME PutFinish(c) PROVE Logged(c)'
  <2>1. call[c].at = "finish_put" /\ (Goto(c, "prior") \/ Leave(c))
    BY <1>32 DEF PutFinish, Over, FabricPut
  <2>4. CASE Goto(c, "prior")
    <3>1. /\ call'[c].at = "prior" /\ call'[c].op = call[c].op
          /\ call'[c].task = call[c].task
          /\ call'[c].step = call[c].step /\ call'[c].log = call[c].log
      BY <2>4, Typed, GotoMoves
    <3> QED BY <2>1, <3>1, LogKept
  <2> QED BY <2>1, <2>4, LogGone
<1>33. ASSUME ReadReplace(c) PROVE Logged(c)'
  <2>1. call[c].at = "replace" /\ (Hold(c, "swap_end", record[Task(c)].lease) \/ Leave(c))
    BY <1>33 DEF ReadReplace, Over
  <2>4. CASE Hold(c, "swap_end", record[Task(c)].lease)
    <3>1. /\ call'[c].at = "swap_end" /\ call'[c].op = call[c].op
          /\ call'[c].task = call[c].task
          /\ call'[c].step = call[c].step /\ call'[c].log = call[c].log
      BY <2>4, Typed, HoldMoves
    <3> QED BY <2>1, <3>1, LogKept
  <2> QED BY <2>1, <2>4, LogGone
<1>34. ASSUME SwapEnd(c) PROVE Logged(c)'
  <2>1. call[c].at = "swap_end" /\ (Goto(c, "swap_acquire"))
    BY <1>34 DEF SwapEnd
  <2>4. CASE Goto(c, "swap_acquire")
    <3>1. /\ call'[c].at = "swap_acquire" /\ call'[c].op = call[c].op
          /\ call'[c].task = call[c].task
          /\ call'[c].step = call[c].step /\ call'[c].log = call[c].log
      BY <2>4, Typed, GotoMoves
    <3> QED BY <2>1, <3>1, LogKept
  <2> QED BY <2>1, <2>4, LogGone
<1>35. ASSUME SwapAcquire(c) PROVE Logged(c)'
  <2>1. call[c].at = "swap_acquire" /\ (Hold(c, "replace_put", Len(lease[Task(c)]) + 1) \/
        Leave(c))
    BY <1>35 DEF SwapAcquire, Over
  <2>4. CASE Hold(c, "replace_put", Len(lease[Task(c)]) + 1)
    <3>1. /\ call'[c].at = "replace_put" /\ call'[c].op = call[c].op
          /\ call'[c].task = call[c].task
          /\ call'[c].step = call[c].step /\ call'[c].log = call[c].log
      BY <2>4, Typed, HoldMoves
    <3> QED BY <2>1, <3>1, LogKept
  <2> QED BY <2>1, <2>4, LogGone
<1>36. ASSUME PutReplace(c) PROVE Logged(c)'
  <2>1. call[c].at = "replace_put" /\ (Goto(c, "fail") \/ Leave(c))
    BY <1>36 DEF PutReplace, Over, FabricPut
  <2>4. CASE Goto(c, "fail")
    <3>1. /\ call'[c].at = "fail" /\ call'[c].op = call[c].op
          /\ call'[c].task = call[c].task
          /\ call'[c].step = call[c].step /\ call'[c].log = call[c].log
      BY <2>4, Typed, GotoMoves
    <3> QED BY <2>1, <3>1, LogKept
  <2> QED BY <2>1, <2>4, LogGone
<1> QED BY <1>1, <1>2, <1>3, <1>4, <1>5, <1>6, <1>7, <1>8, <1>9, <1>10, <1>11, <1>12, <1>13,
      <1>14, <1>15, <1>16, <1>17, <1>18, <1>19, <1>20, <1>21, <1>22, <1>23, <1>24, <1>25, <1>26,
      <1>27, <1>28, <1>29, <1>30, <1>31, <1>32, <1>33, <1>34, <1>35, <1>36 DEF CallerNext


(* The checkpoints of the records, after a step.                           *)
WholeCheckpoints ==
    \A t \in Tasks : \A k \in DOMAIN record'[t].cps : Whole(t, record'[t].cps[k])

LEMMA CheckpointsKept ==
  ASSUME TaskRuntimeTypeOK, LogInv, NEW t \in Tasks, NEW r, r.cps = record[t].cps,
         UNCHANGED record \/ record' = [record EXCEPT ![t] = r]
  PROVE  WholeCheckpoints
BY Typed DEF LogInv, WholeCheckpoints

(* A step of a caller that writes no record, or one that does.              *)
Writes(c) ==
    \/ UNCHANGED record
    \/ \E t \in Tasks : BeginStart(c, t)
    \/ PutNode(c) \/ RecordCheckpoint(c) \/ AppendUncertainty(c)
    \/ PutResume(c) \/ PutFinish(c) \/ PutReplace(c)

LEMMA Writers ==
  ASSUME NEW c \in Callers, CallerNext(c)
  PROVE  Writes(c)
<1>1. ASSUME NEW t \in Tasks, BeginStart(c, t) PROVE Writes(c)
  BY <1>1 DEF Writes
<1>2. ASSUME NEW t \in Tasks, BeginRun(c, t) PROVE Writes(c)
  <2>1. UNCHANGED record
    BY <1>2 DEF BeginRun
  <2> QED BY <2>1 DEF Writes
<1>3. ASSUME NEW t \in Tasks, BeginResume(c, t) PROVE Writes(c)
  <2>1. UNCHANGED record
    BY <1>3 DEF BeginResume
  <2> QED BY <2>1 DEF Writes
<1>4. ASSUME NEW t \in Tasks, BeginCancel(c, t) PROVE Writes(c)
  <2>1. UNCHANGED record
    BY <1>4 DEF BeginCancel
  <2> QED BY <2>1 DEF Writes
<1>5. ASSUME NEW t \in Tasks, BeginComplete(c, t) PROVE Writes(c)
  <2>1. UNCHANGED record
    BY <1>5 DEF BeginComplete
  <2> QED BY <2>1 DEF Writes
<1>6. ASSUME NEW t \in Tasks, BeginRecover(c, t) PROVE Writes(c)
  <2>1. UNCHANGED record
    BY <1>6 DEF BeginRecover
  <2> QED BY <2>1 DEF Writes
<1>7. ASSUME ReadAssign(c) PROVE Writes(c)
  <2>1. UNCHANGED record
    BY <1>7 DEF ReadAssign, GraphRead
  <2> QED BY <2>1 DEF Writes
<1>8. ASSUME ReadFail(c) PROVE Writes(c)
  <2>1. UNCHANGED record
    BY <1>8 DEF ReadFail, GraphRead
  <2> QED BY <2>1 DEF Writes
<1>9. ASSUME ReadRetry(c) PROVE Writes(c)
  <2>1. UNCHANGED record
    BY <1>9 DEF ReadRetry, GraphRead
  <2> QED BY <2>1 DEF Writes
<1>10. ASSUME ReadChain(c) PROVE Writes(c)
  <2>1. UNCHANGED record
    BY <1>10 DEF ReadChain, GraphRead
  <2> QED BY <2>1 DEF Writes
<1>11. ASSUME ReadAsk(c) PROVE Writes(c)
  <2>1. UNCHANGED record
    BY <1>11 DEF ReadAsk, GraphRead
  <2> QED BY <2>1 DEF Writes
<1>12. ASSUME ReadVerify(c) PROVE Writes(c)
  <2>1. UNCHANGED record
    BY <1>12 DEF ReadVerify, GraphRead
  <2> QED BY <2>1 DEF Writes
<1>13. ASSUME ReadPrior(c) PROVE Writes(c)
  <2>1. UNCHANGED record
    BY <1>13 DEF ReadPrior
  <2> QED BY <2>1 DEF Writes
<1>14. ASSUME ReadAdopt(c) PROVE Writes(c)
  <2>1. UNCHANGED record
    BY <1>14 DEF ReadAdopt, GraphRead
  <2> QED BY <2>1 DEF Writes
<1>15. ASSUME PutNode(c) PROVE Writes(c)
  BY <1>15 DEF Writes
<1>16. ASSUME Grant(c) PROVE Writes(c)
  <2>1. UNCHANGED record
    BY <1>16 DEF Grant
  <2> QED BY <2>1 DEF Writes
<1>17. ASSUME Authorize(c) PROVE Writes(c)
  <2>1. UNCHANGED record
    BY <1>17 DEF Authorize
  <2> QED BY <2>1 DEF Writes
<1>18. ASSUME Dispatch(c) PROVE Writes(c)
  <2>1. UNCHANGED record
    BY <1>18 DEF Dispatch
  <2> QED BY <2>1 DEF Writes
<1>19. ASSUME Capture(c) PROVE Writes(c)
  <2>1. UNCHANGED record
    BY <1>19 DEF Capture
  <2> QED BY <2>1 DEF Writes
<1>20. ASSUME RecordCheckpoint(c) PROVE Writes(c)
  BY <1>20 DEF Writes
<1>21. ASSUME ReadNote(c) PROVE Writes(c)
  <2>1. UNCHANGED record
    BY <1>21 DEF ReadNote
  <2> QED BY <2>1 DEF Writes
<1>22. ASSUME AppendUncertainty(c) PROVE Writes(c)
  BY <1>22 DEF Writes
<1>23. ASSUME ParkOnAsk(c) PROVE Writes(c)
  <2>1. UNCHANGED record
    BY <1>23 DEF ParkOnAsk
  <2> QED BY <2>1 DEF Writes
<1>24. ASSUME Interrupt(c) PROVE Writes(c)
  <2>1. UNCHANGED record
    BY <1>24 DEF Interrupt
  <2> QED BY <2>1 DEF Writes
<1>25. ASSUME ProgramEnds(c) PROVE Writes(c)
  <2>1. UNCHANGED record
    BY <1>25 DEF ProgramEnds
  <2> QED BY <2>1 DEF Writes
<1>26. ASSUME Return(c) PROVE Writes(c)
  <2>1. UNCHANGED record
    BY <1>26 DEF Return
  <2> QED BY <2>1 DEF Writes
<1>27. ASSUME ReadResume(c) PROVE Writes(c)
  <2>1. UNCHANGED record
    BY <1>27 DEF ReadResume
  <2> QED BY <2>1 DEF Writes
<1>28. ASSUME PutResume(c) PROVE Writes(c)
  BY <1>28 DEF Writes
<1>29. ASSUME Revoke(c) PROVE Writes(c)
  <2>1. UNCHANGED record
    BY <1>29 DEF Revoke
  <2> QED BY <2>1 DEF Writes
<1>30. ASSUME ReadFinish(c) PROVE Writes(c)
  <2>1. UNCHANGED record
    BY <1>30 DEF ReadFinish
  <2> QED BY <2>1 DEF Writes
<1>31. ASSUME FinishLease(c) PROVE Writes(c)
  <2>1. UNCHANGED record
    BY <1>31 DEF FinishLease
  <2> QED BY <2>1 DEF Writes
<1>32. ASSUME PutFinish(c) PROVE Writes(c)
  BY <1>32 DEF Writes
<1>33. ASSUME ReadReplace(c) PROVE Writes(c)
  <2>1. UNCHANGED record
    BY <1>33 DEF ReadReplace
  <2> QED BY <2>1 DEF Writes
<1>34. ASSUME SwapEnd(c) PROVE Writes(c)
  <2>1. UNCHANGED record
    BY <1>34 DEF SwapEnd
  <2> QED BY <2>1 DEF Writes
<1>35. ASSUME SwapAcquire(c) PROVE Writes(c)
  <2>1. UNCHANGED record
    BY <1>35 DEF SwapAcquire
  <2> QED BY <2>1 DEF Writes
<1>36. ASSUME PutReplace(c) PROVE Writes(c)
  BY <1>36 DEF Writes
<1> QED BY <1>1, <1>2, <1>3, <1>4, <1>5, <1>6, <1>7, <1>8, <1>9, <1>10, <1>11, <1>12, <1>13,
      <1>14, <1>15, <1>16, <1>17, <1>18, <1>19, <1>20, <1>21, <1>22, <1>23, <1>24, <1>25, <1>26,
      <1>27, <1>28, <1>29, <1>30, <1>31, <1>32, <1>33, <1>34, <1>35, <1>36 DEF CallerNext

LEMMA CheckpointStep ==
  ASSUME TaskRuntimeTypeOK, RouteInv, LogInv, NEW c \in Callers, CallerNext(c)
  PROVE  WholeCheckpoints
<1>1. ASSUME NEW t \in Tasks, BeginStart(c, t) PROVE WholeCheckpoints
  <2> DEFINE r == [record[t] EXCEPT !.status = "QUEUED"]
  <2>1. record' = [record EXCEPT ![t] = r]
    BY <1>1 DEF BeginStart
  <2>2. r.cps = record[t].cps
    BY Typed DEF Records
  <2> HIDE DEF r
  <2> QED BY <2>1, <2>2, CheckpointsKept
<1>2. ASSUME PutNode(c) PROVE WholeCheckpoints
  <2> DEFINE r == Written(record[Task(c)], call[c].node)
  <2>1. Task(c) \in Tasks /\ record' = [record EXCEPT ![Task(c)] = r]
    BY <1>2, Placed DEF PutNode
  <2>2. r.cps = record[Task(c)].cps
    BY <2>1, Typed, WrittenIs
  <2> HIDE DEF r
  <2> QED BY <2>1, <2>2, CheckpointsKept
<1>3. ASSUME RecordCheckpoint(c) PROVE WholeCheckpoints
  <2> DEFINE t == Task(c)  n == Len(record[t].cps)
             r == [record[t] EXCEPT !.cps = Append(@, Snapshot(c))]
  <2>1. t \in Tasks /\ call[c].op = "run"
    BY <1>3, Placed DEF RecordCheckpoint
  <2>2. CASE UNCHANGED record
    BY <2>2 DEF LogInv, WholeCheckpoints
  <2>3. CASE record' = [record EXCEPT ![t] = r]
    <3>1. /\ DOMAIN r.cps = 1..n + 1 /\ r.cps[n + 1] = Snapshot(c)
          /\ \A k \in 1..n : r.cps[k] = record[t].cps[k]
          /\ Snapshot(c).next = call[c].step /\ Snapshot(c).log = call[c].log
      BY <2>1, Typed, SnapshotIs, CapturedIs
    <3>2. Whole(t, Snapshot(c))
      BY <2>1, <3>1 DEF LogInv, Logged, Whole
    <3>3. n \in Nat /\ DOMAIN record[t].cps = 1..n
      BY <2>1, Typed
    <3> HIDE DEF n, r
    <3>4. \A k \in DOMAIN r.cps : Whole(t, r.cps[k])
      <4>1. \A k \in 1..n : Whole(t, record[t].cps[k])
        BY <2>1, <3>3 DEF LogInv
      <4> QED BY <3>1, <3>2, <3>3, <4>1
    <3>5. record'[t] = r /\ \A u \in Tasks : u # t => record'[u] = record[u]
      BY <2>1, <2>3, Typed
    <3> QED BY <3>4, <3>5 DEF LogInv, WholeCheckpoints
  <2>4. UNCHANGED record \/ record' = [record EXCEPT ![t] = r]
    BY <1>3 DEF RecordCheckpoint, Store
  <2> QED BY <2>2, <2>3, <2>4
<1>4. ASSUME AppendUncertainty(c) PROVE WholeCheckpoints
  <2> DEFINE r == record[Task(c)]
  <2>1. Task(c) \in Tasks
    BY <1>4, Placed DEF AppendUncertainty
  <2>2. UNCHANGED record \/ record' = [record EXCEPT ![Task(c)] = r]
    BY <1>4 DEF AppendUncertainty, FabricPut, Store
  <2>3. r.cps = record[Task(c)].cps
    BY <2>1, Typed DEF Records
  <2> HIDE DEF r
  <2> QED BY <2>1, <2>2, <2>3, CheckpointsKept
<1>5. ASSUME PutResume(c) PROVE WholeCheckpoints
  <2> DEFINE r == [record[Task(c)] EXCEPT !.status = "RUNNING"]
  <2>1. Task(c) \in Tasks
    BY <1>5, Placed DEF PutResume
  <2>2. UNCHANGED record \/ record' = [record EXCEPT ![Task(c)] = r]
    BY <1>5 DEF PutResume, FabricPut, Store
  <2>3. r.cps = record[Task(c)].cps
    BY <2>1, Typed DEF Records
  <2> HIDE DEF r
  <2> QED BY <2>1, <2>2, <2>3, CheckpointsKept
<1>6. ASSUME PutFinish(c) PROVE WholeCheckpoints
  <2> DEFINE r == [record[Task(c)] EXCEPT !.status = IF call[c].op = "cancel" THEN "CANCELLED"
        ELSE "COMPLETED"]
  <2>1. Task(c) \in Tasks
    BY <1>6, Placed DEF PutFinish
  <2>2. UNCHANGED record \/ record' = [record EXCEPT ![Task(c)] = r]
    BY <1>6 DEF PutFinish, FabricPut, Store
  <2>3. r.cps = record[Task(c)].cps
    BY <2>1, Typed DEF Records
  <2> HIDE DEF r
  <2> QED BY <2>1, <2>2, <2>3, CheckpointsKept
<1>7. ASSUME PutReplace(c) PROVE WholeCheckpoints
  <2> DEFINE r == [record[Task(c)] EXCEPT !.status = Replaced(@), !.lease = call[c].ref]
  <2>1. Task(c) \in Tasks
    BY <1>7, Placed DEF PutReplace
  <2>2. UNCHANGED record \/ record' = [record EXCEPT ![Task(c)] = r]
    BY <1>7 DEF PutReplace, FabricPut, Store
  <2>3. r.cps = record[Task(c)].cps
    BY <2>1, Typed DEF Records
  <2> HIDE DEF r
  <2> QED BY <2>1, <2>2, <2>3, CheckpointsKept
<1>8. CASE UNCHANGED record
  BY <1>8 DEF LogInv, WholeCheckpoints
<1> QED BY <1>1, <1>2, <1>3, <1>4, <1>5, <1>6, <1>7, <1>8, Writers DEF Writes

LEMMA LogNext ==
  ASSUME TaskRuntimeTypeOK, RouteInv, LogInv, TaskRuntimeNext
  PROVE  LogInv'
<1>1. ASSUME NEW d \in Callers, call'[d] = call[d] PROVE Logged(d)'
  BY <1>1 DEF LogInv, Logged, Task
<1>2. ASSUME NEW c \in Callers, CallerNext(c)
      PROVE  WholeCheckpoints /\ \A d \in Callers : Logged(d)'
  <2>1. Others(c) /\ Logged(c)' /\ WholeCheckpoints
    BY <1>2, CallsLast, LogStep, CheckpointStep
  <2> QED BY <2>1, <1>1 DEF Others
<1>3. ASSUME NEW t \in Tasks, LeaseEnds(t)
      PROVE  WholeCheckpoints /\ \A d \in Callers : Logged(d)'
  <2>1. UNCHANGED <<call, record>>
    BY <1>3 DEF LeaseEnds
  <2> QED BY <2>1, <1>1 DEF LogInv, WholeCheckpoints
<1>4. ASSUME NEW t \in Tasks, Answer(t)
      PROVE  WholeCheckpoints /\ \A d \in Callers : Logged(d)'
  <2> DEFINE n == [Node(t) EXCEPT !.ask = FALSE]  r == Written(record[t], n)
  <2>1. UNCHANGED call /\ record' = [record EXCEPT ![t] = r]
    BY <1>4 DEF Answer
  <2>2. n \in Nodes
    BY Typed, NodeIs, ResolvedNodeIs
  <2> HIDE DEF n
  <2>3. r.cps = record[t].cps
    BY <2>2, Typed, WrittenIs
  <2> HIDE DEF r
  <2>4. WholeCheckpoints
    BY <2>1, <2>3, CheckpointsKept
  <2> QED BY <2>1, <2>4, <1>1
<1>5. ASSUME Restart
      PROVE  WholeCheckpoints /\ \A d \in Callers : Logged(d)'
  <2>1. UNCHANGED record /\ \A d \in Callers : call'[d] = NoCall
    BY <1>5 DEF Restart
  <2> QED BY <2>1, NoCallIs DEF LogInv, Logged, WholeCheckpoints
<1>6. WholeCheckpoints /\ \A d \in Callers : Logged(d)'
  BY <1>2, <1>3, <1>4, <1>5 DEF TaskRuntimeNext
<1> QED BY <1>6 DEF LogInv, WholeCheckpoints, Whole


(***************************************************************************)
(* What the calls know of the record they read.                            *)
(***************************************************************************)

LEMMA DeadStays ==
  ASSUME TaskRuntimeTypeOK, LeasesLast, NEW t \in Tasks, NEW l \in Nat, l <= Len(lease[t]),
         ~Live(t, l)
  PROVE  ~(l # 0 /\ lease'[t][l])
<1>1. CASE l = 0
  BY <1>1
<1>2. CASE l # 0
  <2>1. l \in 1..Len(lease[t]) /\ lease[t] \in Seq(BOOLEAN)
    BY <1>2, Typed
  <2>2. lease[t][l] = FALSE
    BY <1>2, <2>1 DEF Live
  <2>3. lease'[t][l] = FALSE
    BY <2>1, <2>2 DEF LeasesLast
  <2> QED BY <2>3
<1> QED BY <1>1, <1>2

(* The points at which a call relies on what it read.                      *)
Informed ==
    {"put", "resume_put", "end", "finish_put", "swap_end", "swap_acquire", "replace_put"}

LEMMA ReadFree ==
  ASSUME NEW c \in Callers, call'[c].at \notin Informed
  PROVE  Reads(c)'
BY DEF Reads, Informed

LEMMA ReadGone ==
  ASSUME TaskRuntimeTypeOK, NEW c \in Callers, Leave(c)
  PROVE  Reads(c)'
BY Typed, LeaveMoves, NoCallIs DEF Reads

LEMMA ReadKept ==
  ASSUME TaskRuntimeTypeOK, RouteInv, ReadInv, LeasesLast, NEW d \in Callers,
         call'[d] = call[d],
         call[d].op # "none" /\ d \notin overtaken' =>
             d \notin overtaken /\ record'[Task(d)] = record[Task(d)]
  PROVE  Reads(d)'
<1> SUFFICES ASSUME d \notin overtaken', call[d].op # "none" PROVE Reads(d)'
  BY DEF Reads
<1> DEFINE t == Task(d)  r == record[t]
<1>1. d \notin overtaken /\ record'[t] = r /\ t \in Tasks
  BY DEF RouteInv
<1>2. r.lease \in Nat /\ r.lease <= Len(lease[t])
  BY <1>1, Typed DEF TaskRuntimeTypeOK
<1>3. ~Live(t, r.lease) => ~(r.lease # 0 /\ lease'[t][r.lease])
  <2> HIDE DEF t, r
  <2> QED BY <1>1, <1>2, DeadStays
<1>4. /\ call[d].at = "put" => SameEnd(r, call[d].node)
      /\ call[d].at = "resume_put" => r.status = "PAUSED"
      /\ call[d].at \in {"end", "finish_put"} =>
            r.status \in {"RUNNING", "PAUSED"} /\ call[d].ref = r.lease
      /\ call[d].at = "swap_end" => call[d].ref = r.lease
      /\ call[d].at \in {"finish_put", "swap_acquire", "replace_put"} => ~Live(t, r.lease)
  BY <1>1 DEF ReadInv, Reads
<1>5. call'[d].task = t
  BY DEF Task
<1> HIDE DEF r, t
<1> QED BY <1>1, <1>3, <1>4, <1>5 DEF Reads, Task, Live

LEMMA ReadStep ==
  ASSUME TaskRuntimeTypeOK, RouteInv, ReadInv, LeasesLast, NEW c \in Callers, CallerNext(c)
  PROVE  Reads(c)'
<1>0. ASSUME GraphStep(c) PROVE Reads(c)'
  <2>1. PICK g \in GraphCalls, n \in Nodes : GraphDoes(c, g, n)
    BY <1>0 DEF GraphStep
  <2>2. /\ UNCHANGED record
        /\ \/ Send(c, g, n) /\ SameEnd(record[Task(c)], n)
           \/ Leave(c)
           \/ Goto(c, After(call[c].op, g))
    BY <2>1 DEF GraphDoes
  <2>3. CASE Send(c, g, n) /\ SameEnd(record[Task(c)], n)
    <3>1. call'[c].at = "put" /\ call'[c].task = call[c].task /\ call'[c].node = n
      BY <2>3, Typed, SendMoves
    <3>2. SameEnd(record'[call'[c].task], call'[c].node)
      BY <2>2, <2>3, <3>1 DEF Task
    <3>3. SameEnd(record[Task(c)], call[c].node)'
      BY <3>2 DEF SameEnd, Task
    <3> QED BY <3>1, <3>3 DEF Reads
  <2>4. CASE Goto(c, After(call[c].op, g))
    <3> DEFINE p == After(call[c].op, g)
    <3>1. p \notin Informed /\ Goto(c, p)
      BY <2>4 DEF After, Informed
    <3> HIDE DEF p
    <3> QED BY <3>1, Typed, GotoMoves, ReadFree
  <2> QED BY <2>2, <2>3, <2>4, ReadGone
<1>1. ASSUME NEW t \in Tasks, BeginStart(c, t) PROVE Reads(c)'
  <2>1. NewCall(t, "start", "grant") \in Calls /\ NewCall(t, "start", "grant").at = "grant"
    BY Names, NewCallIs
  <2> DEFINE k == NewCall(t, "start", "grant")
  <2>2. k.at = "grant" /\ Begin(c, k)
    BY <1>1, <2>1 DEF BeginStart
  <2> HIDE DEF k
  <2>3. call'[c] = k
    BY <2>2, Typed, BeginMoves
  <2> QED BY <2>2, <2>3, ReadFree DEF Informed
<1>2. ASSUME NEW t \in Tasks, BeginRun(c, t) PROVE Reads(c)'
  <2>1. PICK s \in Nat, l \in Seq(Nat) :
           Begin(c, [NewCall(t, "run", "step") EXCEPT !.step = s, !.log = l])
    BY <1>2, RunBegins
  <2> DEFINE k == [NewCall(t, "run", "step") EXCEPT !.step = s, !.log = l]
  <2>2. NewCall(t, "run", "step") \in Calls /\ NewCall(t, "run", "step").at = "step"
    BY Names, NewCallIs
  <2>3. k.at = NewCall(t, "run", "step").at
    BY <2>2 DEF Calls
  <2>4. call'[c] = k
    BY <2>1, Typed, BeginMoves
  <2> HIDE DEF k
  <2> QED BY <2>2, <2>3, <2>4, ReadFree DEF Informed
<1>3. ASSUME NEW t \in Tasks, BeginResume(c, t) PROVE Reads(c)'
  <2>1. NewCall(t, "resume", "resume_read") \in Calls /\ NewCall(t, "resume", "resume_read").at
        = "resume_read"
    BY Names, NewCallIs
  <2> DEFINE k == NewCall(t, "resume", "resume_read")
  <2>2. k.at = "resume_read" /\ Begin(c, k)
    BY <1>3, <2>1 DEF BeginResume
  <2> HIDE DEF k
  <2>3. call'[c] = k
    BY <2>2, Typed, BeginMoves
  <2> QED BY <2>2, <2>3, ReadFree DEF Informed
<1>4. ASSUME NEW t \in Tasks, BeginCancel(c, t) PROVE Reads(c)'
  <2>1. NewCall(t, "cancel", "revoke") \in Calls /\ NewCall(t, "cancel", "revoke").at = "revoke"
    BY Names, NewCallIs
  <2> DEFINE k == [NewCall(t, "cancel", "revoke") EXCEPT !.ref = record[t].lease]
  <2>2. k.at = "revoke" /\ Begin(c, k)
    BY <1>4, <2>1, Typed, CancelCallIs DEF BeginCancel
  <2> HIDE DEF k
  <2>3. call'[c] = k
    BY <2>2, Typed, BeginMoves
  <2> QED BY <2>2, <2>3, ReadFree DEF Informed
<1>5. ASSUME NEW t \in Tasks, BeginComplete(c, t) PROVE Reads(c)'
  <2>1. NewCall(t, "complete", "finish") \in Calls /\ NewCall(t, "complete", "finish").at =
        "finish"
    BY Names, NewCallIs
  <2> DEFINE k == NewCall(t, "complete", "finish")
  <2>2. k.at = "finish" /\ Begin(c, k)
    BY <1>5, <2>1 DEF BeginComplete
  <2> HIDE DEF k
  <2>3. call'[c] = k
    BY <2>2, Typed, BeginMoves
  <2> QED BY <2>2, <2>3, ReadFree DEF Informed
<1>6. ASSUME NEW t \in Tasks, BeginRecover(c, t) PROVE Reads(c)'
  <2>1. NewCall(t, "recover", "replace") \in Calls /\ NewCall(t, "recover", "replace").at =
        "replace"
    BY Names, NewCallIs
  <2> DEFINE k == NewCall(t, "recover", "replace")
  <2>2. k.at = "replace" /\ Begin(c, k)
    BY <1>6, <2>1 DEF BeginRecover
  <2> HIDE DEF k
  <2>3. call'[c] = k
    BY <2>2, Typed, BeginMoves
  <2> QED BY <2>2, <2>3, ReadFree DEF Informed
<1>7. ASSUME ReadAssign(c) PROVE Reads(c)'
  BY <1>7, GraphReads, <1>0
<1>8. ASSUME ReadFail(c) PROVE Reads(c)'
  BY <1>8, GraphReads, <1>0
<1>9. ASSUME ReadRetry(c) PROVE Reads(c)'
  BY <1>9, GraphReads, <1>0
<1>10. ASSUME ReadChain(c) PROVE Reads(c)'
  BY <1>10, GraphReads, <1>0
<1>11. ASSUME ReadAsk(c) PROVE Reads(c)'
  BY <1>11, GraphReads, <1>0
<1>12. ASSUME ReadVerify(c) PROVE Reads(c)'
  BY <1>12, GraphReads, <1>0
<1>13. ASSUME ReadPrior(c) PROVE Reads(c)'
  <2>1. call' = [call EXCEPT ![c] = [@ EXCEPT !.at = "adopt", !.node = Node(Task(c))]]
    BY <1>13 DEF ReadPrior
  <2>2. CASE call' = [call EXCEPT ![c] = [@ EXCEPT !.at = "adopt", !.node = Node(Task(c))]]
    <3>1. call'[c].at = "adopt"
      BY <2>2, Typed, PriorMoves
    <3> QED BY <3>1, ReadFree DEF Informed
  <2> QED BY <2>1, <2>2, ReadGone
<1>14. ASSUME ReadAdopt(c) PROVE Reads(c)'
  BY <1>14, GraphReads, <1>0
<1>15. ASSUME PutNode(c) PROVE Reads(c)'
  <2> DEFINE p == After(call[c].op, call[c].graph)
  <2>1. IF p = "none" THEN Leave(c) ELSE Goto(c, p)
    BY <1>15 DEF PutNode
  <2>2. p \notin Informed
    BY DEF After, Informed
  <2> HIDE DEF p
  <2>3. CASE Goto(c, p)
    BY <2>2, <2>3, Typed, GotoMoves, ReadFree
  <2> QED BY <2>1, <2>3, ReadGone
<1>16. ASSUME Grant(c) PROVE Reads(c)'
  <2>1. Hold(c, "assign", Len(lease[Task(c)]) + 1) \/ Leave(c)
    BY <1>16 DEF Grant, Over
  <2>2. CASE Hold(c, "assign", Len(lease[Task(c)]) + 1)
    <3>1. call'[c].at = "assign"
      BY <2>2, Typed, HoldMoves
    <3> QED BY <3>1, ReadFree DEF Informed
  <2> QED BY <2>1, <2>2, ReadGone
<1>17. ASSUME Authorize(c) PROVE Reads(c)'
  <2>1. Goto(c, "dispatch") \/ Leave(c)
    BY <1>17 DEF Authorize, AtStep, Over
  <2>2. CASE Goto(c, "dispatch")
    <3>1. call'[c].at = "dispatch"
      BY <2>2, Typed, GotoMoves
    <3> QED BY <3>1, ReadFree DEF Informed
  <2> QED BY <2>1, <2>2, ReadGone
<1>18. ASSUME Dispatch(c) PROVE Reads(c)'
  <2>1. Advance(c, "step") \/ Leave(c)
    BY <1>18 DEF Dispatch
  <2>2. CASE Advance(c, "step")
    <3>1. call'[c].at = "step"
      BY <2>2, Typed, AdvanceMoves
    <3> QED BY <3>1, ReadFree DEF Informed
  <2> QED BY <2>1, <2>2, ReadGone
<1>19. ASSUME Capture(c) PROVE Reads(c)'
  <2>1. Advance(c, "capture") \/ Leave(c)
    BY <1>19 DEF Capture, AtStep, Over
  <2>2. CASE Advance(c, "capture")
    <3>1. call'[c].at = "capture"
      BY <2>2, Typed, AdvanceMoves
    <3> QED BY <3>1, ReadFree DEF Informed
  <2> QED BY <2>1, <2>2, ReadGone
<1>20. ASSUME RecordCheckpoint(c) PROVE Reads(c)'
  <2>1. Hold(c, "chain", Len(record[Task(c)].cps) + 1) \/ Leave(c)
    BY <1>20 DEF RecordCheckpoint, Over
  <2>2. CASE Hold(c, "chain", Len(record[Task(c)].cps) + 1)
    <3>1. call'[c].at = "chain"
      BY <2>2, Typed, HoldMoves
    <3> QED BY <3>1, ReadFree DEF Informed
  <2> QED BY <2>1, <2>2, ReadGone
<1>21. ASSUME ReadNote(c) PROVE Reads(c)'
  <2>1. Goto(c, "note")
    BY <1>21 DEF ReadNote, AtStep
  <2>2. CASE Goto(c, "note")
    <3>1. call'[c].at = "note"
      BY <2>2, Typed, GotoMoves
    <3> QED BY <3>1, ReadFree DEF Informed
  <2> QED BY <2>1, <2>2, ReadGone
<1>22. ASSUME AppendUncertainty(c) PROVE Reads(c)'
  <2>1. Advance(c, "step") \/ Leave(c)
    BY <1>22 DEF AppendUncertainty, Over
  <2>2. CASE Advance(c, "step")
    <3>1. call'[c].at = "step"
      BY <2>2, Typed, AdvanceMoves
    <3> QED BY <3>1, ReadFree DEF Informed
  <2> QED BY <2>1, <2>2, ReadGone
<1>23. ASSUME ParkOnAsk(c) PROVE Reads(c)'
  <2>1. Goto(c, "ask")
    BY <1>23 DEF ParkOnAsk, AtStep
  <2>2. CASE Goto(c, "ask")
    <3>1. call'[c].at = "ask"
      BY <2>2, Typed, GotoMoves
    <3> QED BY <3>1, ReadFree DEF Informed
  <2> QED BY <2>1, <2>2, ReadGone
<1>24. ASSUME Interrupt(c) PROVE Reads(c)'
  BY <1>24, ReadGone DEF Interrupt, Over
<1>25. ASSUME ProgramEnds(c) PROVE Reads(c)'
  <2>1. Goto(c, "ended")
    BY <1>25 DEF ProgramEnds
  <2>2. CASE Goto(c, "ended")
    <3>1. call'[c].at = "ended"
      BY <2>2, Typed, GotoMoves
    <3> QED BY <3>1, ReadFree DEF Informed
  <2> QED BY <2>1, <2>2, ReadGone
<1>26. ASSUME Return(c) PROVE Reads(c)'
  BY <1>26, ReadGone DEF Return, Over
<1>27. ASSUME ReadResume(c) PROVE Reads(c)'
  <2>1. CASE Leave(c)
    BY <2>1, ReadGone
  <2>2. CASE record[Task(c)].status = "PAUSED" /\ Goto(c, "resume_put")
    <3>1. call'[c].at = "resume_put" /\ call'[c].task = call[c].task
      BY <2>2, Typed, GotoMoves
    <3>2. UNCHANGED record
      BY <1>27 DEF ReadResume
    <3> QED BY <2>2, <3>1, <3>2 DEF Reads, Task
  <2> QED BY <1>27, <2>1, <2>2 DEF ReadResume, Over
<1>28. ASSUME PutResume(c) PROVE Reads(c)'
  <2>1. Goto(c, "prior") \/ Leave(c)
    BY <1>28 DEF PutResume, Over, FabricPut
  <2>2. CASE Goto(c, "prior")
    <3>1. call'[c].at = "prior"
      BY <2>2, Typed, GotoMoves
    <3> QED BY <3>1, ReadFree DEF Informed
  <2> QED BY <2>1, <2>2, ReadGone
<1>29. ASSUME Revoke(c) PROVE Reads(c)'
  <2>1. Goto(c, "finish") \/ Leave(c)
    BY <1>29 DEF Revoke, Over
  <2>2. CASE Goto(c, "finish")
    <3>1. call'[c].at = "finish"
      BY <2>2, Typed, GotoMoves
    <3> QED BY <3>1, ReadFree DEF Informed
  <2> QED BY <2>1, <2>2, ReadGone
<1>30. ASSUME ReadFinish(c) PROVE Reads(c)'
  <2>1. CASE Leave(c)
    BY <2>1, ReadGone
  <2>2. CASE record[Task(c)].status \in {"RUNNING", "PAUSED"} /\ Hold(c, "end",
        record[Task(c)].lease)
    <3>1. /\ call'[c].at = "end" /\ call'[c].task = call[c].task
          /\ call'[c].ref = record[Task(c)].lease
      BY <2>2, Typed, HoldMoves
    <3>2. UNCHANGED record
      BY <1>30 DEF ReadFinish
    <3> QED BY <2>2, <3>1, <3>2 DEF Reads, Task
  <2> QED BY <1>30, <2>1, <2>2 DEF ReadFinish, Over
<1>31. ASSUME FinishLease(c) PROVE Reads(c)'
  <2> DEFINE t == Task(c)  l == call[c].ref
  <2>1. /\ call[c].at = "end" /\ EndLease(c, l) /\ Goto(c, "finish_put")
        /\ UNCHANGED <<record, overtaken>>
    BY <1>31 DEF FinishLease
  <2>2. t \in Tasks /\ call[c].op # "none"
    BY <2>1, Placed
  <2>3. /\ call'[c].at = "finish_put" /\ call'[c].task = call[c].task
        /\ call'[c].ref = call[c].ref
    BY <2>1, Typed, GotoMoves
  <2>4. c \notin overtaken => l = record[t].lease /\ record[t].status \in {"RUNNING", "PAUSED"}
    BY <2>1, <2>2 DEF ReadInv, Reads
  <2>5. ASSUME l = record[t].lease PROVE ~(l # 0 /\ lease'[t][l])
    <3>1. l \in Nat /\ l <= Len(lease[t])
      BY <2>2, <2>5, Typed DEF TaskRuntimeTypeOK
    <3>2. CASE Live(t, l) /\ Ended(t, l)
      <4>1. l \in 1..Len(lease[t])
        BY <3>1, <3>2, <2>2, LiveIs
      <4> HIDE DEF t, l
      <4>2. lease'[t][l] = FALSE
        BY <2>2, <3>2, <4>1, Typed, EndedIs
      <4> QED BY <4>2
    <3>3. CASE ~Live(t, l) /\ UNCHANGED lease
      BY <3>3 DEF Live
    <3> QED BY <2>1, <3>2, <3>3 DEF EndLease
  <2>6. call'[c].task = t
    BY <2>3 DEF Task
  <2>7. c \notin overtaken => ~(record'[t].lease # 0 /\ lease'[t][record'[t].lease])
    BY <2>1, <2>4, <2>5
  <2> HIDE DEF t, l
  <2>8. c \notin overtaken => call'[c].ref = record'[t].lease /\ record[t].status \in
        {"RUNNING", "PAUSED"}
    BY <2>1, <2>3, <2>4 DEF l
  <2> QED BY <2>1, <2>3, <2>6, <2>7, <2>8 DEF Reads, Task, Live
<1>32. ASSUME PutFinish(c) PROVE Reads(c)'
  <2>1. Goto(c, "prior") \/ Leave(c)
    BY <1>32 DEF PutFinish, Over, FabricPut
  <2>2. CASE Goto(c, "prior")
    <3>1. call'[c].at = "prior"
      BY <2>2, Typed, GotoMoves
    <3> QED BY <3>1, ReadFree DEF Informed
  <2> QED BY <2>1, <2>2, ReadGone
<1>33. ASSUME ReadReplace(c) PROVE Reads(c)'
  <2>1. CASE Leave(c)
    BY <2>1, ReadGone
  <2>2. CASE Hold(c, "swap_end", record[Task(c)].lease)
    <3>1. /\ call'[c].at = "swap_end" /\ call'[c].task = call[c].task
          /\ call'[c].ref = record[Task(c)].lease
      BY <2>2, Typed, HoldMoves
    <3>2. UNCHANGED record
      BY <1>33 DEF ReadReplace
    <3> QED BY <3>1, <3>2 DEF Reads, Task
  <2> QED BY <1>33, <2>1, <2>2 DEF ReadReplace, Over
<1>34. ASSUME SwapEnd(c) PROVE Reads(c)'
  <2> DEFINE t == Task(c)  l == call[c].ref
  <2>1. /\ call[c].at = "swap_end" /\ EndLease(c, l) /\ Goto(c, "swap_acquire")
        /\ UNCHANGED <<record, overtaken>>
    BY <1>34 DEF SwapEnd
  <2>2. t \in Tasks /\ call[c].op # "none"
    BY <2>1, Placed
  <2>3. /\ call'[c].at = "swap_acquire" /\ call'[c].task = call[c].task
        /\ call'[c].ref = call[c].ref
    BY <2>1, Typed, GotoMoves
  <2>4. c \notin overtaken => l = record[t].lease
    BY <2>1, <2>2 DEF ReadInv, Reads
  <2>5. ASSUME l = record[t].lease PROVE ~(l # 0 /\ lease'[t][l])
    <3>1. l \in Nat /\ l <= Len(lease[t])
      BY <2>2, <2>5, Typed DEF TaskRuntimeTypeOK
    <3>2. CASE Live(t, l) /\ Ended(t, l)
      <4>1. l \in 1..Len(lease[t])
        BY <3>1, <3>2, <2>2, LiveIs
      <4> HIDE DEF t, l
      <4>2. lease'[t][l] = FALSE
        BY <2>2, <3>2, <4>1, Typed, EndedIs
      <4> QED BY <4>2
    <3>3. CASE ~Live(t, l) /\ UNCHANGED lease
      BY <3>3 DEF Live
    <3> QED BY <2>1, <3>2, <3>3 DEF EndLease
  <2>6. call'[c].task = t
    BY <2>3 DEF Task
  <2>7. c \notin overtaken => ~(record'[t].lease # 0 /\ lease'[t][record'[t].lease])
    BY <2>1, <2>4, <2>5
  <2> HIDE DEF t, l
  <2>8. c \notin overtaken => call'[c].ref = record'[t].lease
    BY <2>1, <2>3, <2>4 DEF l
  <2> QED BY <2>1, <2>3, <2>6, <2>7, <2>8 DEF Reads, Task, Live
<1>35. ASSUME SwapAcquire(c) PROVE Reads(c)'
  <2> DEFINE t == Task(c)
  <2>1. CASE Leave(c)
    BY <2>1, ReadGone
  <2>2. CASE Hold(c, "replace_put", Len(lease[t]) + 1) /\ UNCHANGED <<record, overtaken>>
    <3>1. t \in Tasks /\ call[c].op # "none" /\ call[c].at = "swap_acquire"
      BY <1>35, Placed DEF SwapAcquire
    <3>2. call'[c].at = "replace_put" /\ call'[c].task = t
      BY <2>2, Typed, HoldMoves DEF Task
    <3>3. record[t].lease \in Nat /\ record[t].lease <= Len(lease[t])
      BY <3>1, Typed DEF TaskRuntimeTypeOK
    <3>4. c \notin overtaken => ~Live(t, record[t].lease)
      BY <3>1 DEF ReadInv, Reads
    <3> DEFINE l == record[t].lease
    <3>5. c \notin overtaken => ~(l # 0 /\ lease'[t][l])
      <4> HIDE DEF t, l
      <4> QED BY <3>1, <3>3, <3>4, DeadStays DEF l
    <3> HIDE DEF t
    <3> QED BY <2>2, <3>2, <3>5 DEF Reads, Task, Live
  <2> QED BY <1>35, <2>1, <2>2 DEF SwapAcquire, Over
<1>36. ASSUME PutReplace(c) PROVE Reads(c)'
  <2>1. Goto(c, "fail") \/ Leave(c)
    BY <1>36 DEF PutReplace, Over, FabricPut
  <2>2. CASE Goto(c, "fail")
    <3>1. call'[c].at = "fail"
      BY <2>2, Typed, GotoMoves
    <3> QED BY <3>1, ReadFree DEF Informed
  <2> QED BY <2>1, <2>2, ReadGone
<1> QED BY <1>1, <1>2, <1>3, <1>4, <1>5, <1>6, <1>7, <1>8, <1>9, <1>10, <1>11, <1>12, <1>13,
      <1>14, <1>15, <1>16, <1>17, <1>18, <1>19, <1>20, <1>21, <1>22, <1>23, <1>24, <1>25, <1>26,
      <1>27, <1>28, <1>29, <1>30, <1>31, <1>32, <1>33, <1>34, <1>35, <1>36 DEF CallerNext

LEMMA ReadNext ==
  ASSUME TaskRuntimeTypeOK, RouteInv, RefInv, ReadInv, TaskRuntimeNext
  PROVE  ReadInv'
<1>1. LeasesLast
  BY LeasesStay
<1>2. ASSUME NEW c \in Callers, CallerNext(c), NEW d \in Callers PROVE Reads(d)'
  <2>1. Others(c) /\ Untouched(c) /\ Reads(c)'
    BY <1>1, <1>2, CallsLast, OthersAreTold, ReadStep
  <2>2. CASE d # c
    <3>1. /\ call'[d] = call[d]
          /\ call[d].op # "none" /\ d \notin overtaken' =>
                d \notin overtaken /\ record'[Task(d)] = record[Task(d)]
      BY <2>1, <2>2 DEF Others, Untouched
    <3> QED BY <1>1, <3>1, ReadKept
  <2> QED BY <2>1, <2>2
<1>3. ASSUME NEW t \in Tasks, LeaseEnds(t), NEW d \in Callers PROVE Reads(d)'
  <2>1. UNCHANGED <<call, record, overtaken>>
    BY <1>3 DEF LeaseEnds
  <2> QED BY <1>1, <2>1, ReadKept
<1>4. ASSUME NEW t \in Tasks, Answer(t), NEW d \in Callers PROVE Reads(d)'
  <2>1. /\ call' = call /\ overtaken' = overtaken \cup {c \in Callers : Task(c) = t}
        /\ \A u \in Tasks : u # t => record'[u] = record[u]
    BY <1>4, Typed DEF Answer
  <2>2. call[d].op # "none" => Task(d) \in Tasks
    BY DEF RouteInv
  <2> QED BY <1>1, <2>1, <2>2, ReadKept
<1>5. ASSUME Restart, NEW d \in Callers PROVE Reads(d)'
  BY <1>5, NoCallIs DEF Restart, Reads
<1> QED BY <1>2, <1>3, <1>4, <1>5 DEF ReadInv, TaskRuntimeNext


(***************************************************************************)
(* The end of a task, and the lease of the record that ended.              *)
(***************************************************************************)

LEMMA LateStep ==
  ASSUME NEW c \in Callers, CallerNext(c)
  PROVE  late \subseteq late'
<1>1. ASSUME NEW t \in Tasks, BeginStart(c, t) PROVE late \subseteq late'
  BY <1>1 DEF BeginStart, aux
<1>2. ASSUME NEW t \in Tasks, BeginRun(c, t) PROVE late \subseteq late'
  BY <1>2 DEF BeginRun, aux
<1>3. ASSUME NEW t \in Tasks, BeginResume(c, t) PROVE late \subseteq late'
  BY <1>3 DEF BeginResume, aux
<1>4. ASSUME NEW t \in Tasks, BeginCancel(c, t) PROVE late \subseteq late'
  BY <1>4 DEF BeginCancel, aux
<1>5. ASSUME NEW t \in Tasks, BeginComplete(c, t) PROVE late \subseteq late'
  BY <1>5 DEF BeginComplete, aux
<1>6. ASSUME NEW t \in Tasks, BeginRecover(c, t) PROVE late \subseteq late'
  BY <1>6 DEF BeginRecover, aux
<1>7. ASSUME ReadAssign(c) PROVE late \subseteq late'
  BY <1>7 DEF ReadAssign, GraphRead, GoOn, Read, Over, aux
<1>8. ASSUME ReadFail(c) PROVE late \subseteq late'
  BY <1>8 DEF ReadFail, GraphRead, GoOn, Read, Over, aux
<1>9. ASSUME ReadRetry(c) PROVE late \subseteq late'
  BY <1>9 DEF ReadRetry, GraphRead, GoOn, Read, Over, aux
<1>10. ASSUME ReadChain(c) PROVE late \subseteq late'
  BY <1>10 DEF ReadChain, GraphRead, GoOn, Read, Over, aux
<1>11. ASSUME ReadAsk(c) PROVE late \subseteq late'
  BY <1>11 DEF ReadAsk, GraphRead, GoOn, Read, Over, aux
<1>12. ASSUME ReadVerify(c) PROVE late \subseteq late'
  BY <1>12 DEF ReadVerify, GraphRead, GoOn, Read, Over, aux
<1>13. ASSUME ReadPrior(c) PROVE late \subseteq late'
  BY <1>13 DEF ReadPrior, aux
<1>14. ASSUME ReadAdopt(c) PROVE late \subseteq late'
  BY <1>14 DEF ReadAdopt, GraphRead, GoOn, Read, Over, aux
<1>15. ASSUME PutNode(c) PROVE late \subseteq late'
  BY <1>15 DEF PutNode
<1>16. ASSUME Grant(c) PROVE late \subseteq late'
  BY <1>16 DEF Grant, Over, aux
<1>17. ASSUME Authorize(c) PROVE late \subseteq late'
  BY <1>17 DEF Authorize, AtStep, Read, Over, aux
<1>18. ASSUME Dispatch(c) PROVE late \subseteq late'
  BY <1>18 DEF Dispatch, aux
<1>19. ASSUME Capture(c) PROVE late \subseteq late'
  BY <1>19 DEF Capture, AtStep, Read, Over, aux
<1>20. ASSUME RecordCheckpoint(c) PROVE late \subseteq late'
  BY <1>20 DEF RecordCheckpoint, Over
<1>21. ASSUME ReadNote(c) PROVE late \subseteq late'
  BY <1>21 DEF ReadNote, AtStep, Read, aux
<1>22. ASSUME AppendUncertainty(c) PROVE late \subseteq late'
  BY <1>22 DEF AppendUncertainty, Over, aux
<1>23. ASSUME ParkOnAsk(c) PROVE late \subseteq late'
  BY <1>23 DEF ParkOnAsk, AtStep, aux
<1>24. ASSUME Interrupt(c) PROVE late \subseteq late'
  BY <1>24 DEF Interrupt, Over, aux
<1>25. ASSUME ProgramEnds(c) PROVE late \subseteq late'
  BY <1>25 DEF ProgramEnds, aux
<1>26. ASSUME Return(c) PROVE late \subseteq late'
  BY <1>26 DEF Return, Over, aux
<1>27. ASSUME ReadResume(c) PROVE late \subseteq late'
  BY <1>27 DEF ReadResume, Read, Over, aux
<1>28. ASSUME PutResume(c) PROVE late \subseteq late'
  BY <1>28 DEF PutResume, FabricPut, Over, aux
<1>29. ASSUME Revoke(c) PROVE late \subseteq late'
  BY <1>29 DEF Revoke, EndLease, Over, aux
<1>30. ASSUME ReadFinish(c) PROVE late \subseteq late'
  BY <1>30 DEF ReadFinish, Read, Over, aux
<1>31. ASSUME FinishLease(c) PROVE late \subseteq late'
  BY <1>31 DEF FinishLease, EndLease, aux
<1>32. ASSUME PutFinish(c) PROVE late \subseteq late'
  BY <1>32 DEF PutFinish, FabricPut, Over, aux
<1>33. ASSUME ReadReplace(c) PROVE late \subseteq late'
  BY <1>33 DEF ReadReplace, Read, Over, aux
<1>34. ASSUME SwapEnd(c) PROVE late \subseteq late'
  BY <1>34 DEF SwapEnd, EndLease, aux
<1>35. ASSUME SwapAcquire(c) PROVE late \subseteq late'
  BY <1>35 DEF SwapAcquire, Over, aux
<1>36. ASSUME PutReplace(c) PROVE late \subseteq late'
  BY <1>36 DEF PutReplace, FabricPut, Over
<1> QED BY <1>1, <1>2, <1>3, <1>4, <1>5, <1>6, <1>7, <1>8, <1>9, <1>10, <1>11, <1>12, <1>13,
      <1>14, <1>15, <1>16, <1>17, <1>18, <1>19, <1>20, <1>21, <1>22, <1>23, <1>24, <1>25, <1>26,
      <1>27, <1>28, <1>29, <1>30, <1>31, <1>32, <1>33, <1>34, <1>35, <1>36 DEF CallerNext

LEMMA LateGrows ==
  ASSUME TaskRuntimeNext
  PROVE  late \subseteq late'
BY LateStep DEF TaskRuntimeNext, LeaseEnds, Answer, Restart, aux

(* What BoundInv and FinishedHoldsNoLease say of a record r of task t,     *)
(* after a step.                                                           *)
EndOf(t, r) ==
    /\ r.asg \notin {0, r.lease} => ~(r.asg # 0 /\ lease'[t][r.asg])
    /\ t \notin late' /\ r.status \in Finished => ~(r.lease # 0 /\ lease'[t][r.lease])

Settled == \A t \in Tasks : EndOf(t, record'[t])

LEMMA EndsBefore ==
  ASSUME TaskRuntimeTypeOK, BoundInv, FinishedHoldsNoLease, LeasesLast, late \subseteq late',
         NEW t \in Tasks
  PROVE  LET r == record[t] IN
         /\ r.asg \notin {0, r.lease} => ~(r.asg # 0 /\ lease'[t][r.asg])
         /\ t \notin late' /\ r.status \in Finished => ~(r.lease # 0 /\ lease'[t][r.lease])
         /\ ~Live(t, r.lease) => ~(r.lease # 0 /\ lease'[t][r.lease])
<1> DEFINE l == record[t].lease  a == record[t].asg
<1>1. l \in Nat /\ l <= Len(lease[t]) /\ a \in Nat /\ a <= Len(lease[t])
  BY Typed DEF TaskRuntimeTypeOK
<1>2. a \notin {0, l} => ~Live(t, a)
  BY DEF BoundInv, Bound
<1>3. t \notin late' /\ record[t].status \in Finished => ~Live(t, l)
  BY DEF FinishedHoldsNoLease
<1> HIDE DEF l, a
<1>4. /\ ~Live(t, l) => ~(l # 0 /\ lease'[t][l])
      /\ ~Live(t, a) => ~(a # 0 /\ lease'[t][a])
  BY <1>1, DeadStays
<1>5. /\ a \notin {0, l} => ~(a # 0 /\ lease'[t][a])
      /\ t \notin late' /\ record[t].status \in Finished => ~(l # 0 /\ lease'[t][l])
  BY <1>2, <1>3, <1>4
<1> QED BY <1>4, <1>5 DEF l, a

LEMMA EndKept ==
  ASSUME TaskRuntimeTypeOK, BoundInv, FinishedHoldsNoLease, LeasesLast, late \subseteq late',
         NEW t \in Tasks, NEW r, r.lease = record[t].lease, r.asg = record[t].asg,
         r.status \in Finished => r.status = record[t].status
  PROVE  EndOf(t, r)
BY EndsBefore DEF EndOf

LEMMA EndWritten ==
  ASSUME TaskRuntimeTypeOK, BoundInv, FinishedHoldsNoLease, LeasesLast, late \subseteq late',
         NEW t \in Tasks, NEW r, record' = [record EXCEPT ![t] = r], EndOf(t, r)
  PROVE  Settled
<1>1. record'[t] = r /\ \A u \in Tasks : u # t => record'[u] = record[u]
  BY Typed
<1>2. \A u \in Tasks : EndOf(u, record[u])
  BY EndKept
<1> QED BY <1>1, <1>2 DEF Settled

LEMMA EndUnwritten ==
  ASSUME TaskRuntimeTypeOK, BoundInv, FinishedHoldsNoLease, LeasesLast, late \subseteq late',
         UNCHANGED record
  PROVE  Settled
<1>1. \A u \in Tasks : EndOf(u, record[u])
  BY EndKept
<1> QED BY <1>1 DEF Settled

LEMMA EndOfNode ==
  ASSUME TaskRuntimeTypeOK, BoundInv, FinishedHoldsNoLease, LeasesLast, late \subseteq late',
         NEW t \in Tasks, NEW n \in Nodes,
         t \in late' \/ n.state \notin Finished \/ SameEnd(record[t], n)
  PROVE  EndOf(t, Written(record[t], n))
<1> DEFINE r == Written(record[t], n)
<1>1. /\ r.status = RecordStatus(n) /\ r.asg = n.asg
      /\ n.asg = 0 => r.lease = record[t].lease
      /\ n.asg # 0 => r.lease = n.asg
  BY Typed, WrittenIs
<1>2. RecordStatus(n) \in Finished => n.state \in Finished
  BY RecordStatusIs
<1> HIDE DEF r
<1>3. r.asg \notin {0, r.lease} => ~(r.asg # 0 /\ lease'[t][r.asg])
  BY <1>1
<1>4. ASSUME t \notin late', r.status \in Finished
      PROVE  ~(r.lease # 0 /\ lease'[t][r.lease])
  <2>1. n.state = record[t].status /\ n.asg \in {0, record[t].asg} /\ record[t].status \in
        Finished
    BY <1>1, <1>2, <1>4 DEF SameEnd
  <2>2. ~(record[t].lease # 0 /\ lease'[t][record[t].lease])
    BY <1>4, <2>1, EndsBefore
  <2>3. CASE n.asg = 0
    BY <1>1, <2>2, <2>3
  <2>4. CASE n.asg # 0
    <3>1. record[t].asg \notin {0, record[t].lease} =>
             ~(record[t].asg # 0 /\ lease'[t][record[t].asg])
      BY EndsBefore
    <3> QED BY <1>1, <2>1, <2>2, <2>4, <3>1
  <2> QED BY <2>3, <2>4
<1> QED BY <1>3, <1>4 DEF EndOf, r

LEMMA EndStep ==
  ASSUME TaskRuntimeTypeOK, RouteInv, ReadInv, BoundInv, FinishedHoldsNoLease,
         LeasesLast, late \subseteq late', NEW c \in Callers, CallerNext(c)
  PROVE  Settled
<1>1. ASSUME NEW t \in Tasks, BeginStart(c, t) PROVE Settled
  <2> DEFINE r == [record[t] EXCEPT !.status = "QUEUED"]
  <2>1. record' = [record EXCEPT ![t] = r]
    BY <1>1 DEF BeginStart
  <2>2. r.lease = record[t].lease /\ r.asg = record[t].asg /\ r.status = "QUEUED"
    BY Typed DEF Records
  <2> HIDE DEF r
  <2>3. EndOf(t, r)
    BY <2>2, EndKept DEF Finished
  <2> QED BY <2>1, <2>3, EndWritten
<1>2. ASSUME PutNode(c) PROVE Settled
  <2> DEFINE t == Task(c)  n == call[c].node
  <2>1. /\ call[c].at = "put" /\ record' = [record EXCEPT ![t] = Written(record[t], n)]
        /\ late' = IF c \in overtaken /\ n.state \in Finished THEN late \cup {t} ELSE late
    BY <1>2 DEF PutNode
  <2>2. t \in Tasks /\ call[c].op # "none" /\ n \in Nodes
    BY <2>1, Placed, Typed
  <2>3. c \notin overtaken => SameEnd(record[t], n)
    BY <2>1, <2>2 DEF ReadInv, Reads
  <2>4. t \in late' \/ n.state \notin Finished \/ SameEnd(record[t], n)
    BY <2>1, <2>3
  <2> HIDE DEF t, n
  <2>5. EndOf(t, Written(record[t], n))
    BY <2>2, <2>4, EndOfNode
  <2> QED BY <2>1, <2>2, <2>5, EndWritten
<1>3. ASSUME RecordCheckpoint(c) PROVE Settled
  <2> DEFINE t == Task(c)  r == [record[t] EXCEPT !.cps = Append(@, Snapshot(c))]
  <2>1. t \in Tasks
    BY <1>3, Placed DEF RecordCheckpoint
  <2>2. UNCHANGED record \/ record' = [record EXCEPT ![t] = r]
    BY <1>3 DEF RecordCheckpoint, FabricPut, Store
  <2>3. r.lease = record[t].lease /\ r.asg = record[t].asg /\ r.status = record[t].status
    BY <2>1, Typed DEF Records
  <2> HIDE DEF t, r
  <2>4. EndOf(t, r)
    BY <2>1, <2>3, EndKept DEF Finished
  <2> QED BY <2>1, <2>2, <2>4, EndWritten, EndUnwritten
<1>4. ASSUME AppendUncertainty(c) PROVE Settled
  <2> DEFINE t == Task(c)  r == record[t]
  <2>1. t \in Tasks
    BY <1>4, Placed DEF AppendUncertainty
  <2>2. UNCHANGED record \/ record' = [record EXCEPT ![t] = r]
    BY <1>4 DEF AppendUncertainty, FabricPut, Store
  <2>3. r.lease = record[t].lease /\ r.asg = record[t].asg /\ r.status = record[t].status
    BY <2>1, Typed DEF Records
  <2> HIDE DEF t, r
  <2>4. EndOf(t, r)
    BY <2>1, <2>3, EndKept DEF Finished
  <2> QED BY <2>1, <2>2, <2>4, EndWritten, EndUnwritten
<1>5. ASSUME PutResume(c) PROVE Settled
  <2> DEFINE t == Task(c)  r == [record[t] EXCEPT !.status = "RUNNING"]
  <2>1. t \in Tasks
    BY <1>5, Placed DEF PutResume
  <2>2. UNCHANGED record \/ record' = [record EXCEPT ![t] = r]
    BY <1>5 DEF PutResume, FabricPut, Store
  <2>3. r.lease = record[t].lease /\ r.asg = record[t].asg /\ r.status = "RUNNING"
    BY <2>1, Typed DEF Records
  <2> HIDE DEF t, r
  <2>4. EndOf(t, r)
    BY <2>1, <2>3, EndKept DEF Finished
  <2> QED BY <2>1, <2>2, <2>4, EndWritten, EndUnwritten
<1>6. ASSUME PutFinish(c) PROVE Settled
  <2> DEFINE t == Task(c) r == [record[t] EXCEPT !.status = IF call[c].op = "cancel" THEN
        "CANCELLED" ELSE "COMPLETED"]
  <2>1. t \in Tasks /\ call[c].at = "finish_put" /\ call[c].op # "none"
    BY <1>6, Placed DEF PutFinish
  <2>2. UNCHANGED record \/ (c \notin overtaken /\ record' = [record EXCEPT ![t] = r])
    BY <1>6 DEF PutFinish, FabricPut, Store
  <2>3. r.lease = record[t].lease /\ r.asg = record[t].asg
    BY <2>1, Typed DEF Records
  <2>4. c \notin overtaken => ~Live(t, record[t].lease)
    BY <2>1 DEF ReadInv, Reads
  <2> HIDE DEF t, r
  <2>5. c \notin overtaken => EndOf(t, r)
    BY <2>1, <2>3, <2>4, EndsBefore DEF EndOf
  <2> QED BY <2>1, <2>2, <2>5, EndWritten, EndUnwritten
<1>7. ASSUME PutReplace(c) PROVE Settled
  <2> DEFINE t == Task(c)  r == [record[t] EXCEPT !.status = Replaced(@), !.lease = call[c].ref]
  <2>1. t \in Tasks /\ call[c].at = "replace_put" /\ call[c].op # "none"
    BY <1>7, Placed DEF PutReplace
  <2>2. /\ UNCHANGED record \/ (c \notin overtaken /\ record' = [record EXCEPT ![t] = r])
        /\ c \notin overtaken /\ record[t].status \in Finished => t \in late'
    BY <1>7 DEF PutReplace, FabricPut, Store
  <2>3. /\ r.asg = record[t].asg /\ r.status = Replaced(record[t].status)
        /\ Replaced(record[t].status) \in Finished => record[t].status \in Finished
    BY <2>1, Typed DEF Records, Replaced, Finished
  <2>4. c \notin overtaken => ~Live(t, record[t].lease)
    BY <2>1 DEF ReadInv, Reads
  <2> HIDE DEF t, r
  <2>5. /\ record[t].asg \notin {0, record[t].lease} =>
              ~(record[t].asg # 0 /\ lease'[t][record[t].asg])
        /\ ~Live(t, record[t].lease) => ~(record[t].lease # 0 /\ lease'[t][record[t].lease])
    BY <2>1, EndsBefore
  <2>6. c \notin overtaken => EndOf(t, r)
    BY <2>2, <2>3, <2>4, <2>5 DEF EndOf
  <2> QED BY <2>1, <2>2, <2>6, EndWritten, EndUnwritten
<1>8. CASE UNCHANGED record
  BY <1>8, EndUnwritten
<1> QED BY <1>1, <1>2, <1>3, <1>4, <1>5, <1>6, <1>7, <1>8, Writers DEF Writes

LEMMA EndNext ==
  ASSUME TaskRuntimeTypeOK, RouteInv, RefInv, ReadInv, BoundInv, FinishedHoldsNoLease,
         TaskRuntimeNext
  PROVE  BoundInv' /\ FinishedHoldsNoLease'
<1>1. LeasesLast /\ late \subseteq late'
  BY LeasesStay, LateGrows
<1>2. ASSUME NEW c \in Callers, CallerNext(c) PROVE Settled
  BY <1>1, <1>2, EndStep
<1>3. ASSUME NEW t \in Tasks, LeaseEnds(t) PROVE Settled
  <2>1. UNCHANGED record
    BY <1>3 DEF LeaseEnds
  <2> QED BY <1>1, <2>1, EndUnwritten
<1>4. ASSUME NEW t \in Tasks, Answer(t) PROVE Settled
  <2> DEFINE n == [Node(t) EXCEPT !.ask = FALSE]
  <2>1. record' = [record EXCEPT ![t] = Written(record[t], n)]
    BY <1>4 DEF Answer
  <2>2. n \in Nodes /\ n.state = Node(t).state /\ n.asg = Node(t).asg
    BY Typed, NodeIs, ResolvedNodeIs
  <2>3. /\ Node(t).asg = record[t].asg
        /\ Node(t).state \in Finished \/ record[t].status \in Finished =>
              Node(t).state = record[t].status
    BY Typed, NodeIs
  <2> HIDE DEF n
  <2>4. SameEnd(record[t], n)
    BY <2>2, <2>3 DEF SameEnd
  <2>5. EndOf(t, Written(record[t], n))
    BY <1>1, <2>2, <2>4, EndOfNode
  <2> QED BY <1>1, <2>1, <2>5, EndWritten
<1>5. ASSUME Restart PROVE Settled
  <2>1. UNCHANGED record
    BY <1>5 DEF Restart
  <2> QED BY <1>1, <2>1, EndUnwritten
<1>6. Settled
  BY <1>2, <1>3, <1>4, <1>5 DEF TaskRuntimeNext
<1> QED BY <1>6 DEF Settled, EndOf, BoundInv, Bound, FinishedHoldsNoLease, Live


(* What FinishedStands says of a step.                                     *)
Stands ==
    \A t \in Tasks :
       record[t].status \in Finished /\ record'[t].status # record[t].status =>
           \E c \in overtaken : Task(c) = t /\ call[c].at = "put" /\ call'[c].at # "put"

LEMMA StandsWritten ==
  ASSUME TaskRuntimeTypeOK, NEW t \in Tasks, NEW r,
         UNCHANGED record \/ record' = [record EXCEPT ![t] = r],
         record[t].status \in Finished => r.status = record[t].status
  PROVE  Stands
<1>1. record' = [record EXCEPT ![t] = r] =>
         record'[t] = r /\ \A u \in Tasks : u # t => record'[u] = record[u]
  BY Typed
<1> QED BY <1>1 DEF Stands

LEMMA StandStep ==
  ASSUME TaskRuntimeTypeOK, RouteInv, ReadInv, NEW c \in Callers, CallerNext(c)
  PROVE  Stands
<1>1. ASSUME NEW t \in Tasks, BeginStart(c, t) PROVE Stands
  <2> DEFINE r == [record[t] EXCEPT !.status = "QUEUED"]
  <2>1. record' = [record EXCEPT ![t] = r] /\ record[t].status = "NONE"
    BY <1>1 DEF BeginStart, NoRecord
  <2> HIDE DEF r
  <2> QED BY <2>1, StandsWritten DEF Finished
<1>2. ASSUME PutNode(c) PROVE Stands
  <2> DEFINE t == Task(c)  n == call[c].node  r == Written(record[t], n)
             p == After(call[c].op, call[c].graph)
  <2>1. /\ call[c].at = "put" /\ record' = [record EXCEPT ![t] = r]
        /\ IF p = "none" THEN Leave(c) ELSE Goto(c, p)
    BY <1>2 DEF PutNode
  <2>2. t \in Tasks /\ call[c].op # "none" /\ n \in Nodes
    BY <2>1, Placed, Typed
  <2>3. p # "put"
    BY DEF After
  <2> HIDE DEF p
  <2>4. call'[c].at # "put"
    BY <2>1, <2>3, Typed, GotoMoves, LeaveMoves, NoCallIs
  <2>5. CASE c \in overtaken
    <3>1. \A u \in Tasks : u # t => record'[u] = record[u]
      BY <2>1, <2>2, Typed
    <3> QED BY <2>1, <2>4, <2>5, <3>1 DEF Stands
  <2>6. CASE c \notin overtaken
    <3>1. SameEnd(record[t], n)
      BY <2>1, <2>2, <2>6 DEF ReadInv, Reads
    <3>2. r.status = RecordStatus(n)
      BY <2>2, Typed, WrittenIs
    <3>3. n.state \in Finished => RecordStatus(n) = n.state
      BY <2>2, RecordStatusIs
    <3> HIDE DEF t, n, r
    <3>4. record[t].status \in Finished => r.status = record[t].status
      BY <3>1, <3>2, <3>3 DEF SameEnd
    <3> QED BY <2>1, <2>2, <3>4, StandsWritten
  <2> QED BY <2>5, <2>6
<1>3. ASSUME RecordCheckpoint(c) PROVE Stands
  <2> DEFINE t == Task(c)  r == [record[t] EXCEPT !.cps = Append(@, Snapshot(c))]
  <2>1. t \in Tasks
    BY <1>3, Placed DEF RecordCheckpoint
  <2>2. UNCHANGED record \/ record' = [record EXCEPT ![t] = r]
    BY <1>3 DEF RecordCheckpoint, FabricPut, Store
  <2>3. record[t].status \in Finished => r.status = record[t].status
    BY <2>1, Typed DEF Records
  <2> HIDE DEF t, r
  <2> QED BY <2>1, <2>2, <2>3, StandsWritten
<1>4. ASSUME AppendUncertainty(c) PROVE Stands
  <2> DEFINE t == Task(c)  r == record[t]
  <2>1. t \in Tasks
    BY <1>4, Placed DEF AppendUncertainty
  <2>2. UNCHANGED record \/ record' = [record EXCEPT ![t] = r]
    BY <1>4 DEF AppendUncertainty, FabricPut, Store
  <2>3. record[t].status \in Finished => r.status = record[t].status
    BY <2>1, Typed DEF Records
  <2> HIDE DEF t, r
  <2> QED BY <2>1, <2>2, <2>3, StandsWritten
<1>5. ASSUME PutResume(c) PROVE Stands
  <2> DEFINE t == Task(c)  r == [record[t] EXCEPT !.status = "RUNNING"]
  <2>1. t \in Tasks /\ call[c].at = "resume_put" /\ call[c].op # "none"
    BY <1>5, Placed DEF PutResume
  <2>2. UNCHANGED record \/ (c \notin overtaken /\ record' = [record EXCEPT ![t] = r])
    BY <1>5 DEF PutResume, FabricPut, Store
  <2>3. c \notin overtaken => record[t].status = "PAUSED"
    BY <2>1 DEF ReadInv, Reads
  <2>4. CASE UNCHANGED record
    BY <2>4 DEF Stands
  <2> HIDE DEF t, r
  <2>5. CASE c \notin overtaken /\ record' = [record EXCEPT ![t] = r]
    BY <2>1, <2>3, <2>5, StandsWritten DEF Finished
  <2> QED BY <2>2, <2>4, <2>5
<1>6. ASSUME PutFinish(c) PROVE Stands
  <2> DEFINE t == Task(c) r == [record[t] EXCEPT !.status = IF call[c].op = "cancel" THEN
        "CANCELLED" ELSE "COMPLETED"]
  <2>1. t \in Tasks /\ call[c].at = "finish_put" /\ call[c].op # "none"
    BY <1>6, Placed DEF PutFinish
  <2>2. UNCHANGED record \/ (c \notin overtaken /\ record' = [record EXCEPT ![t] = r])
    BY <1>6 DEF PutFinish, FabricPut, Store
  <2>3. c \notin overtaken => record[t].status \in {"RUNNING", "PAUSED"}
    BY <2>1 DEF ReadInv, Reads
  <2>4. CASE UNCHANGED record
    BY <2>4 DEF Stands
  <2> HIDE DEF t, r
  <2>5. CASE c \notin overtaken /\ record' = [record EXCEPT ![t] = r]
    BY <2>1, <2>3, <2>5, StandsWritten DEF Finished
  <2> QED BY <2>2, <2>4, <2>5
<1>7. ASSUME PutReplace(c) PROVE Stands
  <2> DEFINE t == Task(c)  r == [record[t] EXCEPT !.status = Replaced(@), !.lease = call[c].ref]
  <2>1. t \in Tasks
    BY <1>7, Placed DEF PutReplace
  <2>2. UNCHANGED record \/ record' = [record EXCEPT ![t] = r]
    BY <1>7 DEF PutReplace, FabricPut, Store
  <2>3. record[t].status \in Finished => r.status = record[t].status
    BY <2>1, Typed DEF Records, Replaced, Finished
  <2> HIDE DEF t, r
  <2> QED BY <2>1, <2>2, <2>3, StandsWritten
<1>8. CASE UNCHANGED record
  BY <1>8 DEF Stands
<1> QED BY <1>1, <1>2, <1>3, <1>4, <1>5, <1>6, <1>7, <1>8, Writers DEF Writes

LEMMA StandNext ==
  ASSUME TaskRuntimeTypeOK, RouteInv, ReadInv, TaskRuntimeNext
  PROVE  Stands
<1>1. ASSUME NEW c \in Callers, CallerNext(c) PROVE Stands
  BY <1>1, StandStep
<1>2. ASSUME NEW t \in Tasks, LeaseEnds(t) PROVE Stands
  BY <1>2 DEF LeaseEnds, Stands
<1>3. ASSUME NEW t \in Tasks, Answer(t) PROVE Stands
  <2> DEFINE n == [Node(t) EXCEPT !.ask = FALSE]  r == Written(record[t], n)
  <2>1. record' = [record EXCEPT ![t] = r]
    BY <1>3 DEF Answer
  <2>2. n \in Nodes /\ n.state = Node(t).state
    BY Typed, NodeIs, ResolvedNodeIs
  <2>3. record[t].status \in Finished => Node(t).state = record[t].status
    BY Typed, NodeIs
  <2> HIDE DEF n
  <2>4. r.status = RecordStatus(n) /\ (n.state \in Finished => RecordStatus(n) = n.state)
    BY <2>2, Typed, WrittenIs, RecordStatusIs
  <2> HIDE DEF r
  <2> QED BY <2>1, <2>2, <2>3, <2>4, StandsWritten
<1>4. ASSUME Restart PROVE Stands
  BY <1>4 DEF Restart, Stands
<1> QED BY <1>1, <1>2, <1>3, <1>4 DEF TaskRuntimeNext

(***************************************************************************)
(* The theorems.                                                           *)
(***************************************************************************)

LEMMA RuntimeBegins ==
  ASSUME Init
  PROVE  TaskRuntimeTypeOK /\ RuntimeInv
<1>1. \A t \in Tasks : record[t] = NoRecord /\ lease[t] = <<>>
  BY DEF Init
<1>2. NoRecord \in Records /\ NoRecord.cps = <<>> /\ NoRecord.lease = 0 /\ NoRecord.asg = 0
      /\ NoRecord.chain = {} /\ NoRecord.status = "NONE"
  BY DEF NoRecord, Records, Statuses
<1>3. \A c \in Callers : call[c] = NoCall
  BY DEF Init
<1>4. Len(<<>>) = 0 /\ <<>> \in Seq(BOOLEAN) /\ DOMAIN <<>> = {}
  OBVIOUS
<1>5. TaskRuntimeTypeOK
  <2>1. record \in [Tasks -> Records] /\ lease \in [Tasks -> Seq(BOOLEAN)]
    BY <1>2, <1>4 DEF Init
  <2>2. call \in [Callers -> Calls]
    BY NoCallIs DEF Init
  <2>3. \A t \in Tasks :
           /\ record[t].lease <= Len(lease[t]) /\ record[t].asg <= Len(lease[t])
           /\ record[t].chain \subseteq DOMAIN record[t].cps
    BY <1>1, <1>2, <1>4
  <2>4. /\ \A k \in DOMAIN sealed : sealed[k] \in Tasks
        /\ calls \in 0..MaxCalls /\ overtaken \subseteq Callers /\ late \subseteq Tasks
        /\ refused \subseteq Tasks
    BY <1>4, RuntimeAssumption DEF Init
  <2> QED BY <2>1, <2>2, <2>3, <2>4 DEF TaskRuntimeTypeOK
<1>6. RouteInv /\ RefInv /\ ReadInv
  BY <1>1, <1>3, NoCallIs DEF RouteInv, RefInv, Refers, ReadInv, Reads
<1>7. LogInv
  BY <1>1, <1>2, <1>3, <1>4, NoCallIs DEF LogInv, Logged
<1>8. BoundInv /\ FinishedHoldsNoLease
  BY <1>1, <1>2 DEF BoundInv, Bound, FinishedHoldsNoLease, Finished
<1> QED BY <1>5, <1>6, <1>7, <1>8 DEF RuntimeInv

LEMMA RuntimeNext ==
  ASSUME TaskRuntimeTypeOK, RuntimeInv, [TaskRuntimeNext]_vars
  PROVE  TaskRuntimeTypeOK' /\ RuntimeInv'
<1>1. CASE TaskRuntimeNext
  BY <1>1, TypeStep, RouteNext, RefNext, LogNext, ReadNext, EndNext DEF RuntimeInv
<1>2. CASE UNCHANGED vars
  BY <1>2 DEF vars, TaskRuntimeTypeOK, RuntimeInv, RouteInv, RefInv, Refers, LogInv, Logged,
              Whole, ReadInv, Reads, BoundInv, Bound, FinishedHoldsNoLease, Task, Live
<1> QED BY <1>1, <1>2

(* The inductive invariant: where a call is, what it refers to, what it ran *)
(* and what it knows of the record it read, in every reachable state.      *)
THEOREM RuntimeInvariance == TaskRuntimeSpec => [](TaskRuntimeTypeOK /\ RuntimeInv)
<1>1. Init => TaskRuntimeTypeOK /\ RuntimeInv
  BY RuntimeBegins
<1>2. TaskRuntimeTypeOK /\ RuntimeInv /\ [TaskRuntimeNext]_vars =>
         TaskRuntimeTypeOK' /\ RuntimeInv'
  BY RuntimeNext
<1> QED BY <1>1, <1>2, PTL DEF TaskRuntimeSpec

(* Records, calls and leases keep their types, and the leases and the      *)
(* checkpoints a record names exist: nothing the runtime writes back, even *)
(* late, refers to a lease that was never granted or a checkpoint that was *)
(* never captured.                                                         *)
THEOREM RuntimeTyping == TaskRuntimeSpec => []TaskRuntimeTypeOK
BY RuntimeInvariance, PTL

(* A run that ends has run every step of its program exactly once and in   *)
(* order, over any number of captures, crashes and resumptions.            *)
THEOREM TranscriptsAreWhole == TaskRuntimeSpec => []WholeTranscript
<1>1. TaskRuntimeTypeOK /\ RuntimeInv => WholeTranscript
  <2> SUFFICES ASSUME TaskRuntimeTypeOK, RuntimeInv, NEW c \in Callers, call[c].at = "ended"
               PROVE  call[c].log = [i \in 1..Len(Program[Task(c)]) |-> i]
    BY DEF WholeTranscript
  <2>1. call[c].op = "run" /\ Task(c) \in Tasks
    BY Placed DEF RuntimeInv
  <2>2. Len(Program[Task(c)]) \in Nat
    BY <2>1, RuntimeAssumption
  <2>3. call[c].log = Transcript(call[c].step - 1) /\ call[c].step = Len(Program[Task(c)]) + 1
    BY <2>1 DEF RuntimeInv, LogInv, Logged
  <2>4. call[c].step - 1 = Len(Program[Task(c)])
    BY <2>2, <2>3
  <2> QED BY <2>3, <2>4 DEF Transcript
<1> QED BY <1>1, RuntimeInvariance, PTL

(* A task that ended holds no ACTIVE lease, unless a replacement or an     *)
(* overtaken graph call wrote its record after the end.                    *)
THEOREM FinishedTasksHoldNoLease == TaskRuntimeSpec => []FinishedHoldsNoLease
<1>1. RuntimeInv => FinishedHoldsNoLease
  BY DEF RuntimeInv
<1> QED BY <1>1, RuntimeInvariance, PTL

(* Nothing takes a finished task back but a graph call that was overtaken. *)
THEOREM FinishedTasksStand == TaskRuntimeSpec => FinishedStands
<1>1. TaskRuntimeTypeOK /\ RuntimeInv /\ [TaskRuntimeNext]_vars => [Stands]_vars
  <2>1. ASSUME TaskRuntimeTypeOK, RuntimeInv, TaskRuntimeNext PROVE Stands
    BY <2>1, StandNext DEF RuntimeInv
  <2> QED BY <2>1
<1>2. [Stands]_vars =>
         [\A t \in Tasks :
            record[t].status \in Finished /\ record'[t].status # record[t].status =>
                \E c \in overtaken : Task(c) = t /\ call[c].at = "put" /\ call'[c].at #
                    "put"]_vars
  BY DEF Stands
<1> QED BY <1>1, <1>2, RuntimeInvariance, PTL DEF TaskRuntimeSpec, FinishedStands

=============================================================================
