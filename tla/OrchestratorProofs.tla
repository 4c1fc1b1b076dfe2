-------------------------- MODULE OrchestratorProofs --------------------------
(***************************************************************************)
(* Proofs about the orchestrator, for any tasks, programs, dependencies,   *)
(* collisions, bodies, lanes, retry budget and bound.  Three things carry  *)
(* them: what a tick holds to be true of the tasks of its phase (nobody    *)
(* else moves them), the exact states in which a task holds a lane, and    *)
(* what the session of a body has done of the program by the checkpoint.   *)
(***************************************************************************)
EXTENDS Orchestrator, WellFoundedInduction, NaturalsInduction, SequenceTheorems, TLAPS

Recovery == {"recover", "retry"}
Dispatching == {"dispatch", "acquire", "assign", "unassign"}
Executing == {"execute", "step", "chain"}
Ingesting == {"ingest", "park", "release", "complete", "adopt", "pin"}
InHand == {"retry", "acquire", "assign", "unassign", "step", "chain",
           "park", "release", "complete", "adopt", "pin"}
Completing == {"adopt", "pin"}

(* The tasks a phase has left are as its reading of the graph found them.  *)
PhaseInv ==
    /\ pc \in InHand => cur \in todo
    /\ \A t \in todo :
          /\ pc \in Recovery => node[t].state = "FAILED" /\ node[t].retries < RetryBudget
          /\ pc \in Dispatching => node[t].state = "PENDING"
          /\ pc \in Executing => node[t].state = "RUNNING" /\ result[t] = "none"
          /\ pc \in Ingesting /\ ~(pc \in Completing /\ t = cur) => node[t].state = "RUNNING"
          /\ pc \in Completing /\ t = cur => node[t].state = "COMPLETED"
    /\ \A t \in Tasks :
          /\ pc \in Executing /\ result[t] # "none" => node[t].state = "RUNNING"
          /\ pc \in {"idle"} \cup Recovery \cup Dispatching => result[t] = "none"
          /\ node[t].ask => node[t].state = "PAUSED"

(* Who holds a lane, and who is pinned to its verification.                *)
LaneInv ==
    \A t \in Tasks :
        /\ node[t].state \in {"PENDING", "FAILED"} => node[t].lane = 0
        /\ node[t].state \in {"RUNNING", "PAUSED"} => node[t].lane # 0
        /\ node[t].state = "COMPLETED" =>
              /\ node[t].lane = 0 \/ t \in cut \/ (pc = "adopt" /\ t = cur)
              /\ node[t].vref \/ t \in cut \/ (pc \in Completing /\ t = cur)

(* A task in line for a lease has none; the tick's own is on a body.       *)
LeaseInv ==
    /\ \A t \in Tasks :
          /\ node[t].state = "PENDING" => ~lease[t].live
          /\ node[t].state \in {"RUNNING", "PAUSED"} => lease[t].body # 0
          /\ lease[t].live \/ result[t] # "none" => lease[t].body # 0
    /\ pc = "retry" => ~lease[cur].live
    /\ pc \in {"acquire", "assign", "unassign"} => fresh.body # 0
    /\ fresh.live => pc \in {"assign", "unassign"}
    /\ pc \in {"acquire", "assign"} => FreeLanes # {}

(* The operations of the program up to step k are done on body b.          *)
DoneUpTo(t, b, k) == \A i \in Operations(t) : i <= k => i \in env[b][t]

(* A home of a task has done what lies before its checkpoint, and the body *)
(* that runs it what lies behind the worker.                               *)
HomeInv == \A t \in Tasks \ moved : \A b \in home[t] : DoneUpTo(t, b, node[t].chain)

StepInv ==
    /\ pc \in {"step", "chain"} /\ cur \notin moved => DoneUpTo(cur, lease[cur].body, at)
    /\ pc = "chain" => at < Len(Program[cur]) /\ Program[cur][at + 1] = "checkpoint"

(* The inductive invariant.                                                *)
OrchestratorInv ==
    /\ PhaseInv /\ LaneInv /\ LeaseInv /\ HomeInv /\ StepInv
    /\ NoOverlap /\ StrayLeasesNeedADeath /\ WholeProgramRan
-----------------------------------------------------------------------------
(* The least element of a set of numbers, and the recency list.            *)

NatLess == {p \in Nat \X Nat : p[1] < p[2]}

LEMMA NatLessWellFounded == IsWellFoundedOn(NatLess, Nat)
<1>1. OpToRel(<, Nat) = NatLess
  BY DEF OpToRel, NatLess
<1> QED BY <1>1, NatLessThanWellFounded

LEMMA MinIsLeast ==
  ASSUME NEW S \in SUBSET Nat, S # {}
  PROVE  Min(S) \in S
<1>1. PICK x \in S : \A y \in S : ~(<<y, x>> \in NatLess)
  BY NatLessWellFounded, WFMin, Zenon
<1>2. ASSUME NEW y \in S, y < x PROVE FALSE
  <2>1. <<y, x>> \in Nat \X Nat /\ <<y, x>>[1] < <<y, x>>[2]
    BY <1>2
  <2> QED BY <2>1, <1>1 DEF NatLess
<1>3. \A y \in S : x <= y
  BY <1>2
<1> QED BY <1>3 DEF Min

LEMMA RemoveFirstType ==
  ASSUME NEW S, NEW q \in Seq(S), NEW e
  PROVE  RemoveFirst(q, e) \in Seq(S)
<1>1. CASE \E i \in 1..Len(q) : q[i] = e
  <2> DEFINE I == {i \in 1..Len(q) : q[i] = e}
  <2>1. I # {} /\ I \in SUBSET Nat
    BY <1>1
  <2>2. Min(I) \in I
    BY <2>1, MinIsLeast
  <2>3. SelectInSeq(q, LAMBDA v : v = e) = Min(I)
    BY <2>1 DEF SelectInSeq
  <2>4. ASSUME NEW i \in 1..Len(q) PROVE RemoveAt(q, i) \in Seq(S)
    <3>1. SubSeq(q, 1, i - 1) \in Seq(S) /\ SubSeq(q, i + 1, Len(q)) \in Seq(S)
      BY SubSeqProperties
    <3> QED BY <3>1 DEF RemoveAt
  <2> QED BY <1>1, <2>2, <2>3, <2>4 DEF RemoveFirst
<1>2. CASE ~(\E i \in 1..Len(q) : q[i] = e)
  BY <1>2 DEF RemoveFirst
<1> QED BY <1>1, <1>2

-----------------------------------------------------------------------------
(* Types.                                                                  *)

LEMMA NoLeaseType == NoLease \in Leases
BY OrchestratorAssumption DEF NoLease, Leases

LEMMA RetriedType ==
  ASSUME NEW n \in Nodes, n.retries < RetryBudget
  PROVE  RetriedNode(n) \in Nodes
<1>1. n.retries + 1 \in 0..RetryBudget /\ 0 \in 0..NumLanes /\ "PENDING" \in States
  BY OrchestratorAssumption DEF Nodes, States
<1> QED BY <1>1 DEF Nodes, RetriedNode

LEMMA AssignedType ==
  ASSUME NEW n \in Nodes, NEW l \in Lanes
  PROVE  [n EXCEPT !.state = "RUNNING", !.lane = l] \in Nodes
<1>1. l \in 0..NumLanes /\ "RUNNING" \in States
  BY OrchestratorAssumption DEF Lanes, States
<1> QED BY <1>1 DEF Nodes

LEMMA FailedType ==
  ASSUME NEW n \in Nodes
  PROVE  FailedNode(n) \in Nodes
<1>1. 0 \in 0..NumLanes /\ "FAILED" \in States
  BY OrchestratorAssumption DEF States
<1> QED BY <1>1 DEF Nodes, FailedNode

LEMMA ParkedType ==
  ASSUME NEW n \in Nodes
  PROVE  [n EXCEPT !.state = "PAUSED", !.ask = TRUE] \in Nodes
BY DEF Nodes, States

LEMMA AnsweredType ==
  ASSUME NEW n \in Nodes, NEW b \in BOOLEAN
  PROVE  AnsweredNode(n, b) \in Nodes
BY DEF Nodes, States, AnsweredNode

LEMMA EndedType ==
  ASSUME NEW l \in Leases
  PROVE  [l EXCEPT !.live = FALSE] \in Leases
BY DEF Leases

LEMMA SuspendedType ==
  ASSUME NEW l \in Leases, NEW b
  PROVE  [l EXCEPT !.live = @ /\ l.body # b] \in Leases
BY DEF Leases

LEMMA CompletedType ==
  ASSUME NEW n \in Nodes, NEW k \in Nat
  PROVE  /\ [n EXCEPT !.state = "COMPLETED"] \in Nodes
         /\ [n EXCEPT !.lane = 0] \in Nodes
         /\ [n EXCEPT !.vref = TRUE] \in Nodes
         /\ [n EXCEPT !.chain = k] \in Nodes
<1>1. 0 \in 0..NumLanes /\ "COMPLETED" \in States
  BY OrchestratorAssumption DEF States
<1> QED BY <1>1 DEF Nodes

(* One node written, whoever writes it.                                    *)
LEMMA NodeWritten ==
  ASSUME node \in [Tasks -> Nodes], NEW t, NEW n, t \in Tasks => n \in Nodes,
         node' = [node EXCEPT ![t] = n]
  PROVE  node' \in [Tasks -> Nodes]
OBVIOUS

LEMMA SettleType ==
  ASSUME OrchestratorTypeOK, NEW p \in Points, Settle(p)
  PROVE  /\ pc' \in Points /\ todo' \subseteq Tasks /\ cur' \in Tasks \cup {None}
         /\ fresh' \in Leases /\ at' \in Nat
BY NoLeaseType DEF OrchestratorTypeOK, Settle

LEMMA ReportType ==
  ASSUME OrchestratorTypeOK, NEW r \in Results, Report(r)
  PROVE  /\ pc' \in Points /\ todo' \subseteq Tasks /\ cur' \in Tasks \cup {None}
         /\ fresh' \in Leases /\ at' \in Nat /\ result' \in [Tasks -> Results]
<1>1. Settle("execute") /\ "execute" \in Points
  BY DEF Report, Points
<1>2. result' \in [Tasks -> Results]
  BY DEF OrchestratorTypeOK, Report
<1> QED BY <1>1, <1>2, SettleType

LEMMA SelectType ==
  ASSUME OrchestratorTypeOK, available # {}, NEW t \in Tasks
  PROVE  Select(t) \in Bodies
<1> DEFINE back == {i \in DOMAIN recent[t] :
                        recent[t][i] \in available /\ LeasedTo(recent[t][i]) \subseteq {t}}
           idle == {b \in available : LeasedTo(b) = {}}
<1>1. back \in SUBSET Nat /\ idle \in SUBSET Nat /\ available \in SUBSET Nat
  <2>1. recent[t] \in Seq(Bodies) /\ available \subseteq Bodies /\ Bodies \subseteq Nat
    BY DEF OrchestratorTypeOK, Bodies
  <2>2. DOMAIN recent[t] \subseteq Nat
    BY <2>1
  <2> QED BY <2>1, <2>2
<1>2. back # {} => Min(back) \in back
  BY <1>1, MinIsLeast
<1>3. idle # {} => Min(idle) \in idle
  BY <1>1, MinIsLeast
<1>4. Min(available) \in available
  BY <1>1, MinIsLeast
<1>5. available \subseteq Bodies
  BY DEF OrchestratorTypeOK
<1> DEFINE back2 == node[t].retries > 0 /\ back # {}
<1>6. Select(t) = CASE back2 -> recent[t][Min(back)] [] ~back2 /\ idle # {} -> Min(idle)
                    [] OTHER -> Min(available)
  BY DEF Select
<1>7. back # {} => recent[t][Min(back)] \in available
  BY <1>2
<1>8. idle # {} => Min(idle) \in available
  BY <1>3
<1> HIDE DEF back, idle
<1> QED BY <1>4, <1>5, <1>6, <1>7, <1>8

LEMMA InHandType ==
  ASSUME OrchestratorTypeOK, PhaseInv, pc \in InHand
  PROVE  cur \in Tasks
BY DEF OrchestratorTypeOK, PhaseInv

LEMMA NestedUpdate ==
  ASSUME NEW A, NEW B, NEW V, NEW f \in [A -> [B -> V]], NEW a, NEW b, NEW v,
         a \in A /\ b \in B => v \in V
  PROVE  [f EXCEPT ![a][b] = v] \in [A -> [B -> V]]
<1>1. a \in A => [f[a] EXCEPT ![b] = v] \in [B -> V]
  OBVIOUS
<1> QED BY <1>1

(* The body of a task that runs.                                           *)
LEMMA BodyInHand ==
  ASSUME OrchestratorTypeOK, LeaseInv, NEW t \in Tasks, node[t].state = "RUNNING"
  PROVE  lease[t].body \in Bodies
<1>1. lease[t].body \in 0..NumBodies /\ lease[t].body # 0
  BY DEF OrchestratorTypeOK, LeaseInv, Leases
<1> QED BY <1>1, OrchestratorAssumption DEF Bodies

LEMMA LanesAreNumbers == FreeLanes \in SUBSET Nat /\ FreeLanes \subseteq Lanes
BY OrchestratorAssumption DEF FreeLanes, Lanes

LEMMA EffectType ==
  ASSUME OrchestratorTypeOK
  PROVE  Effect \in [Bodies -> [Tasks -> SUBSET Nat]]
<1> DEFINE b == lease[cur].body
           v == env[b][cur] \cup {at + 1}
<1>1. env \in [Bodies -> [Tasks -> SUBSET Nat]] /\ at \in Nat
  BY DEF OrchestratorTypeOK
<1>2. b \in Bodies /\ cur \in Tasks => v \in SUBSET Nat
  BY <1>1
<1>3. Effect = [env EXCEPT ![b][cur] = v]
  BY DEF Effect
<1> HIDE DEF b, v
<1> QED BY <1>1, <1>2, <1>3, NestedUpdate

LEMMA TickGoneType ==
  ASSUME OrchestratorTypeOK, PhaseInv, LeaseInv, TickGone
  PROVE  /\ stray' \in [Tasks -> [Bodies -> Nat]] /\ died' \in [Tasks -> [Bodies -> Nat]]
         /\ cut' \subseteq Tasks
<1>1. fresh.live => cur \in Tasks
  BY InHandType DEF LeaseInv, InHand
<1>2. pc \in {"adopt", "pin"} => cur \in Tasks
  BY InHandType DEF InHand
<1>3. fresh.live => fresh.body \in Bodies
  BY DEF LeaseInv, OrchestratorTypeOK, Leases, Bodies
<1>4. ASSUME NEW f \in [Tasks -> [Bodies -> Nat]]
      PROVE  [f EXCEPT ![cur][fresh.body] = @ + 1] \in [Tasks -> [Bodies -> Nat]]
  <2>1. cur \in Tasks /\ fresh.body \in Bodies => f[cur][fresh.body] + 1 \in Nat
    OBVIOUS
  <2> QED BY <2>1, NestedUpdate
<1>5. cut' \subseteq Tasks
  BY <1>2 DEF TickGone, OrchestratorTypeOK
<1> QED BY <1>4, <1>5 DEF TickGone, OrchestratorTypeOK

LEMMA TypeStep ==
  ASSUME OrchestratorTypeOK, OrchestratorInv, OrchestratorNext
  PROVE  OrchestratorTypeOK'
<1> USE DEF OrchestratorTypeOK, OrchestratorInv, Points, Results
<1>1. ASSUME StartTick PROVE OrchestratorTypeOK'
  BY SettleType, NoLeaseType, <1>1 DEF StartTick, Phase, InState, durable, memory, aux
<1>2. ASSUME NEW t \in Tasks, RecoverLease(t) PROVE OrchestratorTypeOK'
  <2>1. lease' \in [Tasks -> Leases]
    BY <1>2, EndedType DEF RecoverLease
  <2> QED BY <1>2, <2>1 DEF RecoverLease, memory, aux
<1>3. ASSUME Retry PROVE OrchestratorTypeOK'
  <2> DEFINE n == RetriedNode(node[cur])
  <2>1. cur \in Tasks
    BY <1>3, InHandType DEF Retry, memory, aux, InHand, OrchestratorInv
  <2>2. n \in Nodes
    BY <2>1, <1>3, RetriedType DEF Retry, memory, aux, OrchestratorTypeOK, OrchestratorInv,
         PhaseInv, Recovery, InHand
  <2>3. node' = [node EXCEPT ![cur] = n]
    BY <1>3 DEF Retry, memory, aux
  <2>4. node' \in [Tasks -> Nodes]
    BY <2>2, <2>3, NodeWritten DEF OrchestratorTypeOK
  <2> QED BY <1>3, <2>4, SettleType DEF OrchestratorTypeOK, Points, Retry, memory, aux
<1>4. ASSUME Recovered PROVE OrchestratorTypeOK'
  BY SettleType, NoLeaseType, <1>4 DEF Recovered, Phase, InState, durable, memory, aux
<1>5. ASSUME NEW t \in Tasks, Dispatch(t) PROVE OrchestratorTypeOK'
  <2>1. CASE Ready(t)
    <3>1. Select(t) \in Bodies
      BY <2>1, SelectType DEF Ready
    <3>2. [body |-> Select(t), live |-> FALSE] \in Leases
      BY <3>1 DEF Bodies, Leases
    <3> QED BY <1>5, <2>1, <3>2 DEF Dispatch, durable, memory, aux
  <2>2. CASE ~Ready(t)
    BY <1>5, <2>2 DEF Dispatch, durable, memory, aux
  <2> QED BY <2>1, <2>2
<1>6. ASSUME Acquire PROVE OrchestratorTypeOK'
  <2>1. CASE fresh.body \in available
    <3>1. cur \in Tasks
      BY <1>6, InHandType DEF Acquire, InHand
    <3> DEFINE rest == RemoveFirst(recent[cur], fresh.body)
    <3>2. fresh.body \in Bodies /\ recent[cur] \in Seq(Bodies) /\ rest \in Seq(Bodies)
      BY <2>1, <3>1, RemoveFirstType
    <3>3. <<fresh.body>> \o rest \in Seq(Bodies)
      BY <3>2
    <3>4. recent' = [recent EXCEPT ![cur] = <<fresh.body>> \o rest]
      BY <1>6, <2>1 DEF Acquire, Settle
    <3>5. recent' \in [Tasks -> Seq(Bodies)]
      BY <3>3, <3>4
    <3>6. [fresh EXCEPT !.live = TRUE] \in Leases
      BY DEF Leases
    <3> QED BY <1>6, <2>1, <3>5, <3>6 DEF Acquire, memory, aux
  <2>2. CASE fresh.body \notin available
    BY <1>6, <2>2, SettleType DEF Acquire, memory, aux
  <2> QED BY <1>6, <2>1, <2>2 DEF Acquire
<1>7. ASSUME Assign PROVE OrchestratorTypeOK'
  <2> DEFINE n == [node[cur] EXCEPT !.state = "RUNNING", !.lane = Min(FreeLanes)]
  <2>1. cur \in Tasks /\ FreeLanes # {}
    BY <1>7, InHandType DEF Assign, InHand, LeaseInv
  <2>2. Min(FreeLanes) \in Lanes
    BY <2>1, MinIsLeast, LanesAreNumbers
  <2>3. n \in Nodes
    BY <2>1, <2>2, AssignedType
  <2>4. node' = [node EXCEPT ![cur] = n]
    BY <1>7 DEF Assign
  <2>5. node' \in [Tasks -> Nodes] /\ lease' \in [Tasks -> Leases]
    BY <2>3, <2>4, NodeWritten, <1>7 DEF Assign
  <2>6. stray' = stray
    BY <1>7, <2>1 DEF Assign, LeaseInv, PhaseInv, InHand, Dispatching
  <2> QED BY <1>7, <2>5, <2>6, SettleType DEF Assign, memory, aux
<1>8. ASSUME AssignRefused PROVE OrchestratorTypeOK'
  BY SettleType, NoLeaseType, <1>8 DEF AssignRefused, Proceed, durable, memory, aux
<1>9. ASSUME Unassign PROVE OrchestratorTypeOK'
  BY SettleType, NoLeaseType, <1>9 DEF Unassign, durable, memory, aux, Settle
<1>10. ASSUME Dispatched PROVE OrchestratorTypeOK'
  BY SettleType, NoLeaseType, <1>10 DEF Dispatched, Phase, InState, durable, memory, aux
<1>11. ASSUME NEW t \in Tasks, Session(t) PROVE OrchestratorTypeOK'
  <2>1. env' \in [Bodies -> [Tasks -> SUBSET Nat]]
    <3>1. [env EXCEPT ![lease[t].body][t] = {0}] \in [Bodies -> [Tasks -> SUBSET Nat]]
      <4>1. {0} \in SUBSET Nat
        OBVIOUS
      <4> QED BY <4>1, NestedUpdate, ZenonT(60)
    <3> QED BY <1>11, <3>1 DEF Session
  <2>4. home' \in [Tasks -> SUBSET Bodies]
    BY <1>11 DEF Session
  <2>2. at' \in Nat
    BY <1>11 DEF Session, StartAt, Nodes
  <2>3. moved' \subseteq Tasks
    BY <1>11 DEF Session
  <2> QED BY <1>11, <2>1, <2>2, <2>3, <2>4 DEF Session, durable
<1>12. ASSUME Operate PROVE OrchestratorTypeOK'
  <2>1. CASE lease[cur].live /\ env' = Effect /\ at' = at + 1 /\ UNCHANGED <<pc, todo, cur,
        fresh, result>>
    <3>1. env' \in [Bodies -> [Tasks -> SUBSET Nat]] /\ at' \in Nat
      BY <2>1, EffectType
    <3> QED BY <1>12, <2>1, <3>1 DEF Operate, durable, aux
  <2>2. CASE Report("FAILED") /\ UNCHANGED env
    BY <1>12, <2>2, ReportType DEF Operate, durable, aux
  <2> QED BY <1>12, <2>1, <2>2 DEF Operate
<1>13. ASSUME Checkpoint PROVE OrchestratorTypeOK'
  BY SettleType, NoLeaseType, <1>13 DEF Checkpoint, Running, Proceed, durable, memory, aux
<1>14. ASSUME Chain PROVE OrchestratorTypeOK'
  <2>1. cur \in Tasks /\ node[cur].state = "RUNNING"
    BY <1>14, InHandType DEF Chain, InHand, PhaseInv, Executing
  <2> DEFINE n == [node[cur] EXCEPT !.chain = at + 1]
  <2>2. n \in Nodes
    <3>1. node[cur] \in Nodes /\ at + 1 \in Nat
      BY <2>1
    <3> QED BY <3>1, CompletedType
  <2>3. node' = [node EXCEPT ![cur] = n]
    BY <1>14 DEF Chain
  <2>4. node' \in [Tasks -> Nodes]
    BY <2>2, <2>3, NodeWritten
  <2>5. home' \in [Tasks -> SUBSET Bodies]
    BY <2>1, BodyInHand, <1>14 DEF Chain
  <2> QED BY <1>14, <2>4, <2>5 DEF Chain, memory
<1>15. ASSUME AskStep PROVE OrchestratorTypeOK'
  BY SettleType, NoLeaseType, <1>15 DEF AskStep, Running, Report, durable, memory, aux, Settle
<1>16. ASSUME ProgramEnds PROVE OrchestratorTypeOK'
  BY SettleType, NoLeaseType, <1>16 DEF ProgramEnds, Report, durable, memory, aux, Settle
<1>17. ASSUME StepFails PROVE OrchestratorTypeOK'
  <2>1. env' \in [Bodies -> [Tasks -> SUBSET Nat]]
    BY <1>17, EffectType DEF StepFails
  <2>2. PICK r \in Results : Report(r)
    BY <1>17 DEF StepFails
  <2>3. /\ pc' \in Points /\ todo' \subseteq Tasks /\ cur' \in Tasks \cup {None}
        /\ fresh' \in Leases /\ at' \in Nat /\ result' \in [Tasks -> Results]
    BY <2>2, ReportType
  <2> QED BY <1>17, <2>1, <2>3 DEF StepFails, Disturb, durable, aux
<1>18. ASSUME Executed PROVE OrchestratorTypeOK'
  BY SettleType, NoLeaseType, <1>18 DEF Executed, Phase, durable, memory, aux
<1>19. ASSUME NEW t \in Tasks, IngestFailure(t) PROVE OrchestratorTypeOK'
  <2> DEFINE n == FailedNode(node[t])
  <2>1. t \in Tasks
    BY <1>19, InHandType DEF IngestFailure, RecordFailure, memory, aux, InHand, OrchestratorInv
  <2>2. n \in Nodes
    BY <2>1, <1>19, FailedType DEF IngestFailure, RecordFailure, memory, aux,
         OrchestratorTypeOK, OrchestratorInv, PhaseInv, Recovery, InHand
  <2>3. node' = [node EXCEPT ![t] = n]
    BY <1>19 DEF IngestFailure, RecordFailure, memory, aux
  <2>4. node' \in [Tasks -> Nodes]
    BY <2>2, <2>3, NodeWritten DEF OrchestratorTypeOK
  <2> QED BY <1>19, <2>4 DEF OrchestratorTypeOK, Points, IngestFailure, RecordFailure, memory,
        aux
<1>20. ASSUME NEW t \in Tasks, IngestDisputed(t) PROVE OrchestratorTypeOK'
  <2> DEFINE n == FailedNode(node[t])
  <2>1. t \in Tasks
    BY <1>20, InHandType DEF IngestDisputed, Disturb, RecordFailure, memory, aux, InHand,
         OrchestratorInv
  <2>2. n \in Nodes
    BY <2>1, <1>20, FailedType DEF IngestDisputed, Disturb, RecordFailure, memory, aux,
         OrchestratorTypeOK, OrchestratorInv, PhaseInv, Recovery, InHand
  <2>3. node' = [node EXCEPT ![t] = n]
    BY <1>20 DEF IngestDisputed, Disturb, RecordFailure, memory, aux
  <2>4. node' \in [Tasks -> Nodes]
    BY <2>2, <2>3, NodeWritten DEF OrchestratorTypeOK
  <2> QED BY <1>20, <2>4 DEF OrchestratorTypeOK, Points, IngestDisputed, Disturb, RecordFailure,
        memory, aux
<1>21. ASSUME NEW t \in Tasks, Escalate(t) PROVE OrchestratorTypeOK'
  BY SettleType, NoLeaseType, <1>21 DEF Escalate, durable, aux
<1>22. ASSUME Park PROVE OrchestratorTypeOK'
  <2> DEFINE n == [node[cur] EXCEPT !.state = "PAUSED", !.ask = TRUE]
  <2>1. cur \in Tasks
    BY <1>22, InHandType DEF Park, memory, aux, InHand, OrchestratorInv
  <2>2. n \in Nodes
    BY <2>1, <1>22, ParkedType DEF Park, memory, aux, OrchestratorTypeOK, OrchestratorInv,
         PhaseInv, Recovery, InHand
  <2>3. node' = [node EXCEPT ![cur] = n]
    BY <1>22 DEF Park, memory, aux
  <2>4. node' \in [Tasks -> Nodes]
    BY <2>2, <2>3, NodeWritten DEF OrchestratorTypeOK
  <2> QED BY <1>22, <2>4, SettleType DEF OrchestratorTypeOK, Points, Park, memory, aux
<1>23. ASSUME NEW t \in Tasks, Verify(t) PROVE OrchestratorTypeOK'
  BY SettleType, NoLeaseType, <1>23 DEF Verify, durable, memory, aux
<1>24. ASSUME ReleaseLease PROVE OrchestratorTypeOK'
  <2>1. lease' \in [Tasks -> Leases]
    BY <1>24, EndedType DEF ReleaseLease
  <2> QED BY <1>24, <2>1 DEF ReleaseLease, Proceed, memory, aux
<1>25. ASSUME CompleteTask PROVE OrchestratorTypeOK'
  <2> DEFINE n == [node[cur] EXCEPT !.state = "COMPLETED"]
  <2>1. cur \in Tasks
    BY <1>25, InHandType DEF CompleteTask, Proceed, memory, aux, InHand, OrchestratorInv
  <2>2. n \in Nodes
    BY <2>1, <1>25, CompletedType DEF CompleteTask, Proceed, memory, aux, OrchestratorTypeOK,
         OrchestratorInv, PhaseInv, Recovery, InHand
  <2>3. node' = [node EXCEPT ![cur] = n]
    BY <1>25 DEF CompleteTask, Proceed, memory, aux
  <2>4. node' \in [Tasks -> Nodes]
    BY <2>2, <2>3, NodeWritten DEF OrchestratorTypeOK
  <2> QED BY <1>25, <2>4 DEF OrchestratorTypeOK, Points, CompleteTask, Proceed, memory, aux
<1>26. ASSUME Adopt PROVE OrchestratorTypeOK'
  <2> DEFINE n == [node[cur] EXCEPT !.lane = 0]
  <2>1. cur \in Tasks
    BY <1>26, InHandType DEF Adopt, Proceed, memory, aux, InHand, OrchestratorInv
  <2>2. n \in Nodes
    BY <2>1, <1>26, CompletedType DEF Adopt, Proceed, memory, aux, OrchestratorTypeOK,
         OrchestratorInv, PhaseInv, Recovery, InHand
  <2>3. node' = [node EXCEPT ![cur] = n]
    BY <1>26 DEF Adopt, Proceed, memory, aux
  <2>4. node' \in [Tasks -> Nodes]
    BY <2>2, <2>3, NodeWritten DEF OrchestratorTypeOK
  <2> QED BY <1>26, <2>4 DEF OrchestratorTypeOK, Points, Adopt, Proceed, memory, aux
<1>27. ASSUME PinVerification PROVE OrchestratorTypeOK'
  <2> DEFINE n == [node[cur] EXCEPT !.vref = TRUE]
  <2>1. cur \in Tasks
    BY <1>27, InHandType DEF PinVerification, memory, aux, InHand, OrchestratorInv
  <2>2. n \in Nodes
    BY <2>1, <1>27, CompletedType DEF PinVerification, memory, aux, OrchestratorTypeOK,
         OrchestratorInv, PhaseInv, Recovery, InHand
  <2>3. node' = [node EXCEPT ![cur] = n]
    BY <1>27 DEF PinVerification, memory, aux
  <2>4. node' \in [Tasks -> Nodes]
    BY <2>2, <2>3, NodeWritten DEF OrchestratorTypeOK
  <2> QED BY <1>27, <2>4, SettleType DEF OrchestratorTypeOK, Points, PinVerification, memory,
        aux
<1>28. ASSUME TickEnds PROVE OrchestratorTypeOK'
  BY SettleType, NoLeaseType, <1>28 DEF TickEnds, Phase, durable, memory, aux
<1>29. ASSUME TickDies PROVE OrchestratorTypeOK'
  <2>1. stray' \in [Tasks -> [Bodies -> Nat]] /\ died' \in [Tasks -> [Bodies -> Nat]]
    BY <1>29, TickGoneType DEF TickDies
  <2>2. cut' \subseteq Tasks
    BY <1>29, TickGoneType DEF TickDies
  <2>3. fresh' \in Leases
    BY <1>29, NoLeaseType DEF TickDies, TickGone, Disturb, memory
  <2>4. result' \in [Tasks -> Results]
    BY <1>29 DEF TickDies, TickGone, Disturb, memory
  <2>5. /\ UNCHANGED <<node, lease, recent, moved, env, available, queue, home>>
        /\ pc' = "idle" /\ todo' = {} /\ cur' = None /\ at' = 0
        /\ disturbances' = disturbances + 1
    BY <1>29 DEF TickDies, TickGone, Disturb, memory
  <2> QED BY <2>5, <2>1, <2>2, <2>3, <2>4
<1>30. ASSUME Restart PROVE OrchestratorTypeOK'
  <2>1. stray' \in [Tasks -> [Bodies -> Nat]] /\ died' \in [Tasks -> [Bodies -> Nat]]
    BY <1>30, TickGoneType DEF Restart
  <2>2. cut' \subseteq Tasks
    BY <1>30, TickGoneType DEF Restart
  <2>3. fresh' \in Leases
    BY <1>30, NoLeaseType DEF Restart, TickGone, Disturb
  <2>4. result' \in [Tasks -> Results]
    BY <1>30 DEF Restart, TickGone, Disturb
  <2>5. /\ UNCHANGED <<node, lease, recent, moved>>
        /\ pc' = "idle" /\ todo' = {} /\ cur' = None /\ at' = 0
        /\ env' = [b \in Bodies |-> [t \in Tasks |-> {}]] /\ home' = [t \in Tasks |-> {}]
        /\ available' = Bodies /\ queue' = {}
        /\ disturbances' = disturbances + 1
    BY <1>30 DEF Restart, TickGone, Disturb
  <2> QED BY <2>5, <2>1, <2>2, <2>3, <2>4
<1>31. ASSUME NEW b \in Bodies, Suspend(b) PROVE OrchestratorTypeOK'
  <2>1. lease' \in [Tasks -> Leases] /\ fresh' \in Leases
    BY <1>31, SuspendedType DEF Suspend
  <2>2. stray' \in [Tasks -> [Bodies -> Nat]]
    BY <1>31 DEF Suspend
  <2> QED BY <1>31, <2>1, <2>2 DEF Suspend, Disturb, aux
<1>32. ASSUME NEW b \in Bodies, ResumeBody(b) PROVE OrchestratorTypeOK'
  BY SettleType, NoLeaseType, <1>32 DEF ResumeBody, durable, locals, aux
<1>33. ASSUME NEW t \in Tasks, Answer(t) PROVE OrchestratorTypeOK'
  <2> DEFINE n == AnsweredNode(node[t], lease[t].live)
  <2>1. t \in Tasks
    BY <1>33, InHandType DEF Answer, Disturb, locals, aux, Leases, InHand, OrchestratorInv
  <2>2. n \in Nodes
    BY <2>1, <1>33, AnsweredType DEF Answer, Disturb, locals, aux, Leases, OrchestratorTypeOK,
         OrchestratorInv, PhaseInv, Recovery, InHand
  <2>3. node' = [node EXCEPT ![t] = n]
    BY <1>33 DEF Answer, Disturb, locals, aux, Leases
  <2>4. node' \in [Tasks -> Nodes]
    BY <2>2, <2>3, NodeWritten DEF OrchestratorTypeOK
  <2> QED BY <1>33, <2>4 DEF OrchestratorTypeOK, Points, Answer, Disturb, locals, aux, Leases
<1> QED BY <1>1, <1>2, <1>3, <1>4, <1>5, <1>6, <1>7, <1>8, <1>9, <1>10, <1>11, <1>12, <1>13,
      <1>14, <1>15, <1>16, <1>17, <1>18, <1>19, <1>20, <1>21, <1>22, <1>23, <1>24, <1>25, <1>26,
      <1>27, <1>28, <1>29, <1>30, <1>31, <1>32, <1>33 DEF OrchestratorNext, TickStep, Trouble
-----------------------------------------------------------------------------
(* The tasks of a phase are left to it.                                    *)

LEMMA ReportPhase ==
  ASSUME OrchestratorTypeOK, PhaseInv, pc = "step", UNCHANGED node, NEW r, Report(r)
  PROVE  PhaseInv'
BY DEF OrchestratorTypeOK, PhaseInv, Report, Settle, Recovery, Dispatching, Executing,
     Ingesting,
       InHand, Completing

LEMMA PhaseKept ==
  ASSUME OrchestratorTypeOK, OrchestratorInv, OrchestratorNext
  PROVE  PhaseInv'
<1> USE DEF OrchestratorTypeOK, OrchestratorInv, PhaseInv, Recovery, Dispatching, Executing,
      Ingesting, InHand, Completing, Nodes
<1>1. ASSUME StartTick PROVE PhaseInv'
  BY <1>1 DEF StartTick, Phase, InState, durable, memory, aux
<1>2. ASSUME NEW t \in Tasks, RecoverLease(t) PROVE PhaseInv'
  BY <1>2 DEF RecoverLease, memory, aux
<1>3. ASSUME Retry PROVE PhaseInv'
  BY <1>3 DEF Retry, RetriedNode, memory, aux, Settle
<1>4. ASSUME Recovered PROVE PhaseInv'
  BY <1>4 DEF Recovered, Phase, InState, durable, memory, aux
<1>5. ASSUME NEW t \in Tasks, Dispatch(t) PROVE PhaseInv'
  BY <1>5 DEF Dispatch, durable, memory, aux
<1>6. ASSUME Acquire PROVE PhaseInv'
  BY <1>6 DEF Acquire, memory, aux, Settle
<1>7. ASSUME Assign PROVE PhaseInv'
  BY <1>7 DEF Assign, memory, aux, Settle
<1>8. ASSUME AssignRefused PROVE PhaseInv'
  BY <1>8 DEF AssignRefused, Proceed, durable, memory, aux
<1>9. ASSUME Unassign PROVE PhaseInv'
  BY <1>9 DEF Unassign, durable, memory, aux, Settle
<1>10. ASSUME Dispatched PROVE PhaseInv'
  BY <1>10 DEF Dispatched, Phase, InState, durable, memory, aux
<1>11. ASSUME NEW t \in Tasks, Session(t) PROVE PhaseInv'
  BY <1>11 DEF Session, durable
<1>12. ASSUME Operate PROVE PhaseInv'
  <2>1. CASE Report("FAILED")
    BY <1>12, <2>1, ReportPhase DEF Operate, Running, durable
  <2>2. CASE UNCHANGED <<pc, todo, cur, fresh, result>>
    BY <1>12, <2>2 DEF Operate, durable
  <2> QED BY <1>12, <2>1, <2>2 DEF Operate
<1>13. ASSUME Checkpoint PROVE PhaseInv'
  BY <1>13 DEF Checkpoint, Running, Proceed, durable, memory, aux
<1>14. ASSUME Chain PROVE PhaseInv'
  BY <1>14 DEF Chain, memory
<1>15. ASSUME AskStep PROVE PhaseInv'
  BY <1>15 DEF AskStep, Running, Report, durable, memory, aux, Settle
<1>16. ASSUME ProgramEnds PROVE PhaseInv'
  BY <1>16 DEF ProgramEnds, Report, durable, memory, aux, Settle
<1>17. ASSUME StepFails PROVE PhaseInv'
  <2>1. CASE Report("FAILED")
    BY <1>17, <2>1, ReportPhase DEF StepFails, durable
  <2>2. CASE Report("AUTHORITY_GAP")
    BY <1>17, <2>2, ReportPhase DEF StepFails, durable
  <2> QED BY <1>17, <2>1, <2>2 DEF StepFails
<1>18. ASSUME Executed PROVE PhaseInv'
  BY <1>18 DEF Executed, Phase, durable, memory, aux
<1>19. ASSUME NEW t \in Tasks, IngestFailure(t) PROVE PhaseInv'
  BY <1>19 DEF IngestFailure, FailedNode, RecordFailure, memory, aux
<1>20. ASSUME NEW t \in Tasks, IngestDisputed(t) PROVE PhaseInv'
  BY <1>20, SMTT(30) DEF IngestDisputed, FailedNode, Disturb, RecordFailure, memory, aux
<1>21. ASSUME NEW t \in Tasks, Escalate(t) PROVE PhaseInv'
  BY <1>21 DEF Escalate, durable, aux
<1>22. ASSUME Park PROVE PhaseInv'
  BY <1>22 DEF Park, memory, aux, Settle
<1>23. ASSUME NEW t \in Tasks, Verify(t) PROVE PhaseInv'
  BY <1>23 DEF Verify, durable, memory, aux
<1>24. ASSUME ReleaseLease PROVE PhaseInv'
  BY <1>24 DEF ReleaseLease, Proceed, memory, aux
<1>25. ASSUME CompleteTask PROVE PhaseInv'
  BY <1>25 DEF CompleteTask, Proceed, memory, aux
<1>26. ASSUME Adopt PROVE PhaseInv'
  <2>1. cur \in Tasks
    BY <1>26 DEF Adopt
  <2>2. \A o \in Tasks : node'[o].state = node[o].state /\ node'[o].ask = node[o].ask
    BY <1>26, <2>1 DEF Adopt
  <2> QED BY <1>26, <2>2 DEF Adopt, Proceed, memory, aux
<1>27. ASSUME PinVerification PROVE PhaseInv'
  BY <1>27 DEF PinVerification, memory, aux, Settle
<1>28. ASSUME TickEnds PROVE PhaseInv'
  BY <1>28 DEF TickEnds, Phase, durable, memory, aux
<1>29. ASSUME TickDies PROVE PhaseInv'
  BY <1>29 DEF TickDies, TickGone, Disturb, memory
<1>30. ASSUME Restart PROVE PhaseInv'
  BY <1>30 DEF Restart, TickGone, Disturb
<1>31. ASSUME NEW b \in Bodies, Suspend(b) PROVE PhaseInv'
  BY <1>31 DEF Suspend, Disturb, aux
<1>32. ASSUME NEW b \in Bodies, ResumeBody(b) PROVE PhaseInv'
  BY <1>32 DEF ResumeBody, durable, locals, aux
<1>33. ASSUME NEW t \in Tasks, Answer(t) PROVE PhaseInv'
  BY <1>33 DEF Answer, AnsweredNode, Disturb, locals, aux
<1> QED BY <1>1, <1>2, <1>3, <1>4, <1>5, <1>6, <1>7, <1>8, <1>9, <1>10, <1>11, <1>12, <1>13,
      <1>14, <1>15, <1>16, <1>17, <1>18, <1>19, <1>20, <1>21, <1>22, <1>23, <1>24, <1>25, <1>26,
      <1>27, <1>28, <1>29, <1>30, <1>31, <1>32, <1>33 DEF OrchestratorNext, TickStep, Trouble
-----------------------------------------------------------------------------
(* Lanes.                                                                  *)

LEMMA LanesKept ==
  ASSUME OrchestratorTypeOK, OrchestratorInv, OrchestratorNext
  PROVE  LaneInv'
<1> USE DEF OrchestratorTypeOK, OrchestratorInv, LaneInv, PhaseInv, Recovery, Dispatching,
      Executing, Ingesting, InHand, Completing, Nodes
<1>1. ASSUME StartTick PROVE LaneInv'
  BY <1>1 DEF StartTick, Phase, InState, durable, memory, aux
<1>2. ASSUME NEW t \in Tasks, RecoverLease(t) PROVE LaneInv'
  BY <1>2 DEF RecoverLease, memory, aux
<1>3. ASSUME Retry PROVE LaneInv'
  BY <1>3 DEF Retry, RetriedNode, memory, aux, Settle
<1>4. ASSUME Recovered PROVE LaneInv'
  BY <1>4 DEF Recovered, Phase, InState, durable, memory, aux
<1>5. ASSUME NEW t \in Tasks, Dispatch(t) PROVE LaneInv'
  BY <1>5 DEF Dispatch, durable, memory, aux
<1>6. ASSUME Acquire PROVE LaneInv'
  BY <1>6 DEF Acquire, memory, aux, Settle
<1>7. ASSUME Assign PROVE LaneInv'
  <2>1. cur \in Tasks /\ FreeLanes # {}
    BY <1>7 DEF Assign, LeaseInv
  <2>2. Min(FreeLanes) # 0
    <3>1. Min(FreeLanes) \in Lanes
      BY <2>1, MinIsLeast, LanesAreNumbers
    <3> QED BY <3>1 DEF Lanes
  <2>3. node'[cur].state = "RUNNING" /\ node'[cur].lane = Min(FreeLanes)
    BY <1>7, <2>1 DEF Assign
  <2>4. \A o \in Tasks \ {cur} : node'[o] = node[o]
    BY <1>7 DEF Assign
  <2> QED BY <1>7, <2>2, <2>3, <2>4 DEF Assign, Settle, memory, aux
<1>8. ASSUME AssignRefused PROVE LaneInv'
  BY <1>8 DEF AssignRefused, Proceed, durable, memory, aux
<1>9. ASSUME Unassign PROVE LaneInv'
  BY <1>9 DEF Unassign, durable, memory, aux, Settle
<1>10. ASSUME Dispatched PROVE LaneInv'
  BY <1>10 DEF Dispatched, Phase, InState, durable, memory, aux
<1>11. ASSUME NEW t \in Tasks, Session(t) PROVE LaneInv'
  BY <1>11 DEF Session, durable
<1>12. ASSUME Operate PROVE LaneInv'
  BY <1>12 DEF Operate, Running, Report, durable, aux, Settle
<1>13. ASSUME Checkpoint PROVE LaneInv'
  BY <1>13 DEF Checkpoint, Running, Proceed, durable, memory, aux
<1>14. ASSUME Chain PROVE LaneInv'
  BY <1>14 DEF Chain, memory
<1>15. ASSUME AskStep PROVE LaneInv'
  BY <1>15 DEF AskStep, Running, Report, durable, memory, aux, Settle
<1>16. ASSUME ProgramEnds PROVE LaneInv'
  BY <1>16 DEF ProgramEnds, Report, durable, memory, aux, Settle
<1>17. ASSUME StepFails PROVE LaneInv'
  BY <1>17 DEF StepFails, Disturb, Running, Report, durable, aux, Settle
<1>18. ASSUME Executed PROVE LaneInv'
  BY <1>18 DEF Executed, Phase, durable, memory, aux
<1>19. ASSUME NEW t \in Tasks, IngestFailure(t) PROVE LaneInv'
  BY <1>19 DEF IngestFailure, FailedNode, RecordFailure, memory, aux
<1>20. ASSUME NEW t \in Tasks, IngestDisputed(t) PROVE LaneInv'
  BY <1>20 DEF IngestDisputed, FailedNode, Disturb, RecordFailure, memory, aux
<1>21. ASSUME NEW t \in Tasks, Escalate(t) PROVE LaneInv'
  BY <1>21 DEF Escalate, durable, aux
<1>22. ASSUME Park PROVE LaneInv'
  BY <1>22 DEF Park, memory, aux, Settle
<1>23. ASSUME NEW t \in Tasks, Verify(t) PROVE LaneInv'
  BY <1>23 DEF Verify, durable, memory, aux
<1>24. ASSUME ReleaseLease PROVE LaneInv'
  BY <1>24 DEF ReleaseLease, Proceed, memory, aux
<1>25. ASSUME CompleteTask PROVE LaneInv'
  BY <1>25 DEF CompleteTask, Proceed, memory, aux
<1>26. ASSUME Adopt PROVE LaneInv'
  BY <1>26 DEF Adopt, Proceed, memory, aux
<1>27. ASSUME PinVerification PROVE LaneInv'
  BY <1>27 DEF PinVerification, memory, aux, Settle
<1>28. ASSUME TickEnds PROVE LaneInv'
  BY <1>28 DEF TickEnds, Phase, durable, memory, aux
<1>29. ASSUME TickDies PROVE LaneInv'
  BY <1>29 DEF TickDies, TickGone, Disturb, memory
<1>30. ASSUME Restart PROVE LaneInv'
  BY <1>30 DEF Restart, TickGone, Disturb
<1>31. ASSUME NEW b \in Bodies, Suspend(b) PROVE LaneInv'
  BY <1>31 DEF Suspend, Disturb, aux
<1>32. ASSUME NEW b \in Bodies, ResumeBody(b) PROVE LaneInv'
  BY <1>32 DEF ResumeBody, durable, locals, aux
<1>33. ASSUME NEW t \in Tasks, Answer(t) PROVE LaneInv'
  <2>1. node[t].state = "PAUSED"
    BY <1>33 DEF Answer
  <2>2. node'[t].state \in {"RUNNING", "PAUSED"} /\ node'[t].lane = node[t].lane
    BY <1>33, <2>1 DEF Answer, AnsweredNode
  <2>3. \A o \in Tasks \ {t} : node'[o] = node[o]
    BY <1>33 DEF Answer
  <2> QED BY <1>33, <2>1, <2>2, <2>3 DEF Answer, locals, aux
<1> QED BY <1>1, <1>2, <1>3, <1>4, <1>5, <1>6, <1>7, <1>8, <1>9, <1>10, <1>11, <1>12, <1>13,
      <1>14, <1>15, <1>16, <1>17, <1>18, <1>19, <1>20, <1>21, <1>22, <1>23, <1>24, <1>25, <1>26,
      <1>27, <1>28, <1>29, <1>30, <1>31, <1>32, <1>33 DEF OrchestratorNext, TickStep, Trouble
-----------------------------------------------------------------------------
(* Who is active.                                                          *)

(* No task becomes active, and those that stay keep their lane.            *)
Shrinks ==
    \A t \in Tasks : t \in Active' => t \in Active /\ node'[t].lane = node[t].lane

LEMMA ActiveIs ==
  ASSUME NEW t \in Tasks
  PROVE  /\ t \in Active <=>
               node[t].state = "RUNNING" \/ (node[t].state = "PAUSED" /\ node[t].lane # 0)
         /\ t \in Active' <=>
               node'[t].state = "RUNNING" \/ (node'[t].state = "PAUSED" /\ node'[t].lane # 0)
BY DEF Active, InState

LEMMA LanesFreed ==
  ASSUME Shrinks
  PROVE  FreeLanes \subseteq FreeLanes' /\ (NoOverlap => NoOverlap')
<1>1. \A t \in Active' : t \in Active /\ node'[t].lane = node[t].lane
  BY DEF Shrinks, Active, InState
<1>2. FreeLanes \subseteq FreeLanes'
  BY <1>1 DEF FreeLanes, Lanes
<1>3. NoOverlap => NoOverlap'
  BY <1>1 DEF NoOverlap
<1> QED BY <1>2, <1>3

LEMMA OnlyAssignments ==
  ASSUME OrchestratorTypeOK, OrchestratorInv, OrchestratorNext
  PROVE  Assign \/ Shrinks
<1> USE DEF OrchestratorTypeOK, OrchestratorInv, LaneInv, PhaseInv, Recovery, Dispatching,
      Executing, Ingesting, InHand, Completing, Nodes, Shrinks
<1>1. ASSUME StartTick PROVE Assign \/ Shrinks
  BY ActiveIs, <1>1 DEF StartTick, Phase, InState, durable, memory, aux
<1>2. ASSUME NEW t \in Tasks, RecoverLease(t) PROVE Assign \/ Shrinks
  BY ActiveIs, <1>2 DEF RecoverLease, memory, aux
<1>3. ASSUME Retry PROVE Assign \/ Shrinks
  BY ActiveIs, <1>3 DEF Retry, RetriedNode, memory, aux, Settle
<1>4. ASSUME Recovered PROVE Assign \/ Shrinks
  BY ActiveIs, <1>4 DEF Recovered, Phase, InState, durable, memory, aux
<1>5. ASSUME NEW t \in Tasks, Dispatch(t) PROVE Assign \/ Shrinks
  BY ActiveIs, <1>5 DEF Dispatch, durable, memory, aux
<1>6. ASSUME Acquire PROVE Assign \/ Shrinks
  BY ActiveIs, <1>6 DEF Acquire, memory, aux, Settle
<1>7. ASSUME Assign PROVE Assign \/ Shrinks
  BY <1>7
<1>8. ASSUME AssignRefused PROVE Assign \/ Shrinks
  BY ActiveIs, <1>8 DEF AssignRefused, Proceed, durable, memory, aux
<1>9. ASSUME Unassign PROVE Assign \/ Shrinks
  BY ActiveIs, <1>9 DEF Unassign, durable, memory, aux, Settle
<1>10. ASSUME Dispatched PROVE Assign \/ Shrinks
  BY ActiveIs, <1>10 DEF Dispatched, Phase, InState, durable, memory, aux
<1>11. ASSUME NEW t \in Tasks, Session(t) PROVE Assign \/ Shrinks
  BY ActiveIs, <1>11 DEF Session, durable
<1>12. ASSUME Operate PROVE Assign \/ Shrinks
  BY ActiveIs, <1>12 DEF Operate, Running, Report, durable, aux, Settle
<1>13. ASSUME Checkpoint PROVE Assign \/ Shrinks
  BY ActiveIs, <1>13 DEF Checkpoint, Running, Proceed, durable, memory, aux
<1>14. ASSUME Chain PROVE Assign \/ Shrinks
  BY ActiveIs, <1>14 DEF Chain, memory
<1>15. ASSUME AskStep PROVE Assign \/ Shrinks
  BY ActiveIs, <1>15 DEF AskStep, Running, Report, durable, memory, aux, Settle
<1>16. ASSUME ProgramEnds PROVE Assign \/ Shrinks
  BY ActiveIs, <1>16 DEF ProgramEnds, Report, durable, memory, aux, Settle
<1>17. ASSUME StepFails PROVE Assign \/ Shrinks
  BY ActiveIs, <1>17 DEF StepFails, Disturb, Running, Report, durable, aux, Settle
<1>18. ASSUME Executed PROVE Assign \/ Shrinks
  BY ActiveIs, <1>18 DEF Executed, Phase, durable, memory, aux
<1>19. ASSUME NEW t \in Tasks, IngestFailure(t) PROVE Assign \/ Shrinks
  BY ActiveIs, <1>19 DEF IngestFailure, FailedNode, RecordFailure, memory, aux
<1>20. ASSUME NEW t \in Tasks, IngestDisputed(t) PROVE Assign \/ Shrinks
  BY ActiveIs, <1>20 DEF IngestDisputed, FailedNode, Disturb, RecordFailure, memory, aux
<1>21. ASSUME NEW t \in Tasks, Escalate(t) PROVE Assign \/ Shrinks
  BY ActiveIs, <1>21 DEF Escalate, durable, aux
<1>22. ASSUME Park PROVE Assign \/ Shrinks
  BY ActiveIs, <1>22 DEF Park, memory, aux, Settle
<1>23. ASSUME NEW t \in Tasks, Verify(t) PROVE Assign \/ Shrinks
  BY ActiveIs, <1>23 DEF Verify, durable, memory, aux
<1>24. ASSUME ReleaseLease PROVE Assign \/ Shrinks
  BY ActiveIs, <1>24 DEF ReleaseLease, Proceed, memory, aux
<1>25. ASSUME CompleteTask PROVE Assign \/ Shrinks
  BY ActiveIs, <1>25 DEF CompleteTask, Proceed, memory, aux
<1>26. ASSUME Adopt PROVE Assign \/ Shrinks
  BY ActiveIs, <1>26 DEF Adopt, Proceed, memory, aux
<1>27. ASSUME PinVerification PROVE Assign \/ Shrinks
  BY ActiveIs, <1>27 DEF PinVerification, memory, aux, Settle
<1>28. ASSUME TickEnds PROVE Assign \/ Shrinks
  BY ActiveIs, <1>28 DEF TickEnds, Phase, durable, memory, aux
<1>29. ASSUME TickDies PROVE Assign \/ Shrinks
  BY ActiveIs, <1>29 DEF TickDies, TickGone, Disturb, memory
<1>30. ASSUME Restart PROVE Assign \/ Shrinks
  BY ActiveIs, <1>30 DEF Restart, TickGone, Disturb
<1>31. ASSUME NEW b \in Bodies, Suspend(b) PROVE Assign \/ Shrinks
  BY ActiveIs, <1>31 DEF Suspend, Disturb, aux
<1>32. ASSUME NEW b \in Bodies, ResumeBody(b) PROVE Assign \/ Shrinks
  BY ActiveIs, <1>32 DEF ResumeBody, durable, locals, aux
<1>33. ASSUME NEW t \in Tasks, Answer(t) PROVE Assign \/ Shrinks
  <2>1. t \in Active
    BY <1>33, ActiveIs DEF Answer
  <2>2. node'[t].lane = node[t].lane
    BY <1>33 DEF Answer, AnsweredNode
  <2>3. \A o \in Tasks \ {t} : node'[o] = node[o]
    BY <1>33 DEF Answer
  <2> QED BY <2>1, <2>2, <2>3, ActiveIs, ZenonT(60)
<1> QED BY <1>1, <1>2, <1>3, <1>4, <1>5, <1>6, <1>7, <1>8, <1>9, <1>10, <1>11, <1>12, <1>13,
      <1>14, <1>15, <1>16, <1>17, <1>18, <1>19, <1>20, <1>21, <1>22, <1>23, <1>24, <1>25, <1>26,
      <1>27, <1>28, <1>29, <1>30, <1>31, <1>32, <1>33 DEF OrchestratorNext, TickStep, Trouble
-----------------------------------------------------------------------------
(* The body that is not in line for a lease.                               *)

LEMMA LanesStand ==
  ASSUME UNCHANGED node
  PROVE  FreeLanes' = FreeLanes
BY DEF FreeLanes, Active, InState

LEMMA LeasesKept ==
  ASSUME OrchestratorTypeOK, OrchestratorInv, OrchestratorNext
  PROVE  LeaseInv'
<1> USE DEF OrchestratorTypeOK, OrchestratorInv, LeaseInv, PhaseInv, Recovery, Dispatching,
      Executing, Ingesting, InHand, Completing, Nodes, Leases, NoLease
<1>1. ASSUME StartTick PROVE LeaseInv'
  BY <1>1 DEF StartTick, Phase, InState, durable, memory, aux
<1>2. ASSUME NEW t \in Tasks, RecoverLease(t) PROVE LeaseInv'
  BY <1>2 DEF RecoverLease, memory, aux
<1>3. ASSUME Retry PROVE LeaseInv'
  BY <1>3 DEF Retry, RetriedNode, memory, aux, Settle
<1>4. ASSUME Recovered PROVE LeaseInv'
  BY <1>4 DEF Recovered, Phase, InState, durable, memory, aux
<1>5. ASSUME NEW t \in Tasks, Dispatch(t) PROVE LeaseInv'
  <2>1. ASSUME Ready(t) PROVE FreeLanes # {} /\ Select(t) # 0
    <3>1. Select(t) \in Bodies
      BY <2>1, SelectType DEF Ready
    <3> QED BY <2>1, <3>1, SMTT(30) DEF Ready, Bodies
  <2>2. UNCHANGED <<node, lease>>
    BY <1>5 DEF Dispatch, durable
  <2>3. FreeLanes' = FreeLanes
    BY <2>2, LanesStand
  <2> QED BY <1>5, <2>1, <2>2, <2>3 DEF Dispatch
<1>6. ASSUME Acquire PROVE LeaseInv'
  <2>1. FreeLanes' = FreeLanes
    BY <1>6, LanesStand DEF Acquire
  <2> QED BY <1>6, <2>1 DEF Acquire, Settle
<1>7. ASSUME Assign PROVE LeaseInv'
  BY <1>7 DEF Assign, memory, aux, Settle
<1>8. ASSUME AssignRefused PROVE LeaseInv'
  BY <1>8 DEF AssignRefused, Proceed, durable, memory, aux
<1>9. ASSUME Unassign PROVE LeaseInv'
  BY <1>9 DEF Unassign, durable, memory, aux, Settle
<1>10. ASSUME Dispatched PROVE LeaseInv'
  BY <1>10 DEF Dispatched, Phase, InState, durable, memory, aux
<1>11. ASSUME NEW t \in Tasks, Session(t) PROVE LeaseInv'
  BY <1>11 DEF Session, durable
<1>12. ASSUME Operate PROVE LeaseInv'
  BY <1>12 DEF Operate, Running, Report, durable, aux, Settle
<1>13. ASSUME Checkpoint PROVE LeaseInv'
  BY <1>13 DEF Checkpoint, Running, Proceed, durable, memory, aux
<1>14. ASSUME Chain PROVE LeaseInv'
  <2>1. /\ \A t \in Tasks : node'[t].state = node[t].state
        /\ UNCHANGED <<lease, fresh, result>> /\ pc' = "step" /\ ~fresh.live
    BY <1>14 DEF Chain
  <2> QED BY <2>1
<1>15. ASSUME AskStep PROVE LeaseInv'
  BY <1>15 DEF AskStep, Running, Report, durable, memory, aux, Settle
<1>16. ASSUME ProgramEnds PROVE LeaseInv'
  BY <1>16 DEF ProgramEnds, Report, durable, memory, aux, Settle
<1>17. ASSUME StepFails PROVE LeaseInv'
  BY <1>17 DEF StepFails, Disturb, Running, Report, durable, aux, Settle
<1>18. ASSUME Executed PROVE LeaseInv'
  BY <1>18 DEF Executed, Phase, durable, memory, aux
<1>19. ASSUME NEW t \in Tasks, IngestFailure(t) PROVE LeaseInv'
  BY <1>19 DEF IngestFailure, FailedNode, RecordFailure, memory, aux
<1>20. ASSUME NEW t \in Tasks, IngestDisputed(t) PROVE LeaseInv'
  BY <1>20 DEF IngestDisputed, FailedNode, Disturb, RecordFailure, memory, aux
<1>21. ASSUME NEW t \in Tasks, Escalate(t) PROVE LeaseInv'
  BY <1>21 DEF Escalate, durable, aux
<1>22. ASSUME Park PROVE LeaseInv'
  BY <1>22 DEF Park, memory, aux, Settle
<1>23. ASSUME NEW t \in Tasks, Verify(t) PROVE LeaseInv'
  BY <1>23 DEF Verify, durable, memory, aux
<1>24. ASSUME ReleaseLease PROVE LeaseInv'
  BY <1>24 DEF ReleaseLease, Proceed, memory, aux
<1>25. ASSUME CompleteTask PROVE LeaseInv'
  BY <1>25 DEF CompleteTask, Proceed, memory, aux
<1>26. ASSUME Adopt PROVE LeaseInv'
  BY <1>26 DEF Adopt, Proceed, memory, aux
<1>27. ASSUME PinVerification PROVE LeaseInv'
  BY <1>27 DEF PinVerification, memory, aux, Settle
<1>28. ASSUME TickEnds PROVE LeaseInv'
  BY <1>28 DEF TickEnds, Phase, durable, memory, aux
<1>29. ASSUME TickDies PROVE LeaseInv'
  BY <1>29 DEF TickDies, TickGone, Disturb, memory
<1>30. ASSUME Restart PROVE LeaseInv'
  BY <1>30 DEF Restart, TickGone, Disturb
<1>31. ASSUME NEW b \in Bodies, Suspend(b) PROVE LeaseInv'
  <2>1. \A t \in Tasks : lease'[t].body = lease[t].body /\ (lease'[t].live => lease[t].live)
    BY <1>31 DEF Suspend
  <2>2. fresh'.body = fresh.body /\ (fresh'.live => fresh.live)
    BY <1>31 DEF Suspend
  <2>3. UNCHANGED <<node, pc, cur, result>> /\ FreeLanes' = FreeLanes
    BY <1>31, LanesStand DEF Suspend
  <2>4. pc = "retry" => cur \in Tasks
    BY InHandType
  <2> QED BY <2>1, <2>2, <2>3, <2>4
<1>32. ASSUME NEW b \in Bodies, ResumeBody(b) PROVE LeaseInv'
  <2>1. FreeLanes' = FreeLanes
    BY <1>32, LanesStand DEF ResumeBody, durable
  <2> QED BY <1>32, <2>1 DEF ResumeBody, durable, locals
<1>33. ASSUME NEW t \in Tasks, Answer(t) PROVE LeaseInv'
  <2>1. node[t].state = "PAUSED" /\ UNCHANGED <<lease, fresh, pc, cur, result>>
    BY <1>33 DEF Answer, locals
  <2>2. node'[t].state \in {"RUNNING", "PAUSED"}
    BY <1>33, <2>1 DEF Answer, AnsweredNode
  <2>3. \A o \in Tasks \ {t} : node'[o] = node[o]
    BY <1>33 DEF Answer
  <2>4. FreeLanes \subseteq FreeLanes'
    BY <1>33, OnlyAssignments, LanesFreed DEF Assign, Settle, Answer, locals
  <2> QED BY <2>1, <2>2, <2>3, <2>4
<1> QED BY <1>1, <1>2, <1>3, <1>4, <1>5, <1>6, <1>7, <1>8, <1>9, <1>10, <1>11, <1>12, <1>13,
      <1>14, <1>15, <1>16, <1>17, <1>18, <1>19, <1>20, <1>21, <1>22, <1>23, <1>24, <1>25, <1>26,
      <1>27, <1>28, <1>29, <1>30, <1>31, <1>32, <1>33 DEF OrchestratorNext, TickStep, Trouble
-----------------------------------------------------------------------------
(* Nothing overlaps.                                                       *)

LEMMA OverlapKept ==
  ASSUME OrchestratorTypeOK, OrchestratorInv, OrchestratorNext
  PROVE  NoOverlap'
<1> USE DEF OrchestratorInv
<1>1. CASE Shrinks
  BY <1>1, LanesFreed
<1>2. CASE Assign
  <2> DEFINE l == Min(FreeLanes)
  <2>1. cur \in Tasks /\ FreeLanes # {} /\ Colliding[cur] \cap Active = {}
    BY <1>2, InHandType DEF Assign, InHand, LeaseInv
  <2>2. l \in FreeLanes
    BY <2>1, MinIsLeast, LanesAreNumbers
  <2>3. \A t \in Active : node[t].lane # l /\ cur \notin Colliding[t] /\ t \notin Colliding[cur]
    <3>1. \A t \in Active : node[t].lane # l
      BY <2>2 DEF FreeLanes
    <3>2. \A t \in Active : t \in Tasks
      BY DEF Active, InState
    <3>3. \A t \in Tasks : cur \in Colliding[t] => t \in Colliding[cur]
      BY <2>1, OrchestratorAssumption
    <3> QED BY <2>1, <3>1, <3>2, <3>3
  <2>4. node'[cur].lane = l
    BY <1>2, <2>1 DEF Assign, OrchestratorTypeOK, Nodes
  <2>5. \A t \in Tasks \ {cur} : node'[t] = node[t]
    BY <1>2 DEF Assign, OrchestratorTypeOK
  <2> HIDE DEF l
  <2>6. \A t \in Active' \ {cur} : t \in Active /\ node'[t].lane = node[t].lane
    BY <2>5 DEF Active, InState
  <2> QED BY <2>3, <2>4, <2>6 DEF NoOverlap
<1> QED BY <1>1, <1>2, OnlyAssignments

-----------------------------------------------------------------------------
(* Leases nobody is bound to.                                              *)

LEMMA StrayGone ==
  ASSUME OrchestratorTypeOK, PhaseInv, LeaseInv, StrayLeasesNeedADeath, TickGone
  PROVE  StrayLeasesNeedADeath'
<1>1. CASE ~fresh.live
  BY <1>1 DEF TickGone, StrayLeasesNeedADeath
<1>2. CASE fresh.live
  <2>1. cur \in Tasks
    BY <1>2, InHandType DEF LeaseInv, InHand
  <2>2. SUFFICES ASSUME NEW t \in Tasks, NEW b \in Bodies
                 PROVE  stray'[t][b] <= died'[t][b]
    BY DEF StrayLeasesNeedADeath
  <2>3. CASE t = cur /\ b = fresh.body
    <3>1. stray'[t][b] = stray[t][b] + 1 /\ died'[t][b] = died[t][b] + 1
      BY <1>2, <2>1, <2>3 DEF TickGone, OrchestratorTypeOK
    <3> QED BY <3>1 DEF StrayLeasesNeedADeath, OrchestratorTypeOK
  <2>4. CASE ~(t = cur /\ b = fresh.body)
    <3>1. stray'[t][b] = stray[t][b] /\ died'[t][b] = died[t][b]
      BY <1>2, <2>1, <2>4 DEF TickGone, OrchestratorTypeOK
    <3> QED BY <3>1 DEF StrayLeasesNeedADeath
  <2> QED BY <2>3, <2>4
<1> QED BY <1>1, <1>2

LEMMA StraysKept ==
  ASSUME OrchestratorTypeOK, OrchestratorInv, OrchestratorNext
  PROVE  StrayLeasesNeedADeath'
<1> USE DEF OrchestratorTypeOK, OrchestratorInv, LeaseInv, PhaseInv, StrayLeasesNeedADeath,
      Recovery, Dispatching, Executing, Ingesting, InHand, Completing, Leases
<1>1. ASSUME StartTick PROVE StrayLeasesNeedADeath'
  BY <1>1 DEF StartTick, Phase, InState, durable, memory, aux
<1>2. ASSUME NEW t \in Tasks, RecoverLease(t) PROVE StrayLeasesNeedADeath'
  BY <1>2 DEF RecoverLease, memory, aux
<1>3. ASSUME Retry PROVE StrayLeasesNeedADeath'
  BY <1>3 DEF Retry, RetriedNode, memory, aux, Settle
<1>4. ASSUME Recovered PROVE StrayLeasesNeedADeath'
  BY <1>4 DEF Recovered, Phase, InState, durable, memory, aux
<1>5. ASSUME NEW t \in Tasks, Dispatch(t) PROVE StrayLeasesNeedADeath'
  BY <1>5 DEF Dispatch, durable, memory, aux
<1>6. ASSUME Acquire PROVE StrayLeasesNeedADeath'
  BY <1>6 DEF Acquire, memory, aux, Settle
<1>7. ASSUME Assign PROVE StrayLeasesNeedADeath'
  BY <1>7 DEF Assign, memory, aux, Settle
<1>8. ASSUME AssignRefused PROVE StrayLeasesNeedADeath'
  BY <1>8 DEF AssignRefused, Proceed, durable, memory, aux
<1>9. ASSUME Unassign PROVE StrayLeasesNeedADeath'
  BY <1>9 DEF Unassign, durable, memory, aux, Settle
<1>10. ASSUME Dispatched PROVE StrayLeasesNeedADeath'
  BY <1>10 DEF Dispatched, Phase, InState, durable, memory, aux
<1>11. ASSUME NEW t \in Tasks, Session(t) PROVE StrayLeasesNeedADeath'
  BY <1>11 DEF Session, durable
<1>12. ASSUME Operate PROVE StrayLeasesNeedADeath'
  BY <1>12 DEF Operate, Running, Report, durable, aux, Settle
<1>13. ASSUME Checkpoint PROVE StrayLeasesNeedADeath'
  BY <1>13 DEF Checkpoint, Running, Proceed, durable, memory, aux
<1>14. ASSUME Chain PROVE StrayLeasesNeedADeath'
  BY <1>14 DEF Chain, memory
<1>15. ASSUME AskStep PROVE StrayLeasesNeedADeath'
  BY <1>15 DEF AskStep, Running, Report, durable, memory, aux, Settle
<1>16. ASSUME ProgramEnds PROVE StrayLeasesNeedADeath'
  BY <1>16 DEF ProgramEnds, Report, durable, memory, aux, Settle
<1>17. ASSUME StepFails PROVE StrayLeasesNeedADeath'
  BY <1>17 DEF StepFails, Disturb, Running, Report, durable, aux, Settle
<1>18. ASSUME Executed PROVE StrayLeasesNeedADeath'
  BY <1>18 DEF Executed, Phase, durable, memory, aux
<1>19. ASSUME NEW t \in Tasks, IngestFailure(t) PROVE StrayLeasesNeedADeath'
  BY <1>19 DEF IngestFailure, FailedNode, RecordFailure, memory, aux
<1>20. ASSUME NEW t \in Tasks, IngestDisputed(t) PROVE StrayLeasesNeedADeath'
  BY <1>20 DEF IngestDisputed, FailedNode, Disturb, RecordFailure, memory, aux
<1>21. ASSUME NEW t \in Tasks, Escalate(t) PROVE StrayLeasesNeedADeath'
  BY <1>21 DEF Escalate, durable, aux
<1>22. ASSUME Park PROVE StrayLeasesNeedADeath'
  BY <1>22 DEF Park, memory, aux, Settle
<1>23. ASSUME NEW t \in Tasks, Verify(t) PROVE StrayLeasesNeedADeath'
  BY <1>23 DEF Verify, durable, memory, aux
<1>24. ASSUME ReleaseLease PROVE StrayLeasesNeedADeath'
  BY <1>24 DEF ReleaseLease, Proceed, memory, aux
<1>25. ASSUME CompleteTask PROVE StrayLeasesNeedADeath'
  BY <1>25 DEF CompleteTask, Proceed, memory, aux
<1>26. ASSUME Adopt PROVE StrayLeasesNeedADeath'
  BY <1>26 DEF Adopt, Proceed, memory, aux
<1>27. ASSUME PinVerification PROVE StrayLeasesNeedADeath'
  BY <1>27 DEF PinVerification, memory, aux, Settle
<1>28. ASSUME TickEnds PROVE StrayLeasesNeedADeath'
  BY <1>28 DEF TickEnds, Phase, durable, memory, aux
<1>29. ASSUME TickDies PROVE StrayLeasesNeedADeath'
  BY <1>29, StrayGone DEF TickDies
<1>30. ASSUME Restart PROVE StrayLeasesNeedADeath'
  BY <1>30, StrayGone DEF Restart
<1>31. ASSUME NEW b \in Bodies, Suspend(b) PROVE StrayLeasesNeedADeath'
  <2>1. \A t \in Tasks : \A d \in Bodies : stray'[t][d] = IF d = b THEN 0 ELSE stray[t][d]
    BY <1>31 DEF Suspend
  <2>2. died' = died
    BY <1>31 DEF Suspend, aux
  <2>3. \A t \in Tasks : \A d \in Bodies : 0 <= died[t][d] /\ stray[t][d] <= died[t][d]
    OBVIOUS
  <2>4. ASSUME NEW t \in Tasks, NEW d \in Bodies PROVE stray'[t][d] <= died'[t][d]
    <3>1. CASE d = b
      <4>1. stray'[t][d] = 0
        BY <2>1, <3>1
      <4> QED BY <4>1, <2>2, <2>3
    <3>2. CASE d # b
      <4>1. stray'[t][d] = stray[t][d]
        BY <2>1, <3>2
      <4> QED BY <4>1, <2>2, <2>3
    <3> QED BY <3>1, <3>2
  <2> QED BY <2>4
<1>32. ASSUME NEW b \in Bodies, ResumeBody(b) PROVE StrayLeasesNeedADeath'
  BY <1>32 DEF ResumeBody, durable, locals, aux
<1>33. ASSUME NEW t \in Tasks, Answer(t) PROVE StrayLeasesNeedADeath'
  BY <1>33 DEF Answer, AnsweredNode, Disturb, locals, aux
<1> QED BY <1>1, <1>2, <1>3, <1>4, <1>5, <1>6, <1>7, <1>8, <1>9, <1>10, <1>11, <1>12, <1>13,
      <1>14, <1>15, <1>16, <1>17, <1>18, <1>19, <1>20, <1>21, <1>22, <1>23, <1>24, <1>25, <1>26,
      <1>27, <1>28, <1>29, <1>30, <1>31, <1>32, <1>33 DEF OrchestratorNext, TickStep, Trouble
-----------------------------------------------------------------------------
(* What the sessions have done.                                            *)

ChainsStand == \A t \in Tasks : node'[t].chain = node[t].chain

SessionsGrow == \A t \in Tasks : \A b \in Bodies : env[b][t] \subseteq env'[b][t]

LEMMA EffectGrows ==
  ASSUME OrchestratorTypeOK, OrchestratorInv, pc = "step", env' = Effect
  PROVE  /\ cur \in Tasks /\ lease[cur].body \in Bodies
         /\ SessionsGrow
         /\ at + 1 \in env'[lease[cur].body][cur]
<1>1. cur \in Tasks /\ node[cur].state = "RUNNING"
  BY InHandType DEF InHand, OrchestratorInv, PhaseInv, Executing
<1>2. lease[cur].body \in Bodies
  BY <1>1, BodyInHand DEF OrchestratorInv
<1>3. env'[lease[cur].body][cur] = env[lease[cur].body][cur] \cup {at + 1}
  BY <1>1, <1>2 DEF Effect, OrchestratorTypeOK
<1>4. ASSUME NEW t \in Tasks, NEW b \in Bodies, ~(t = cur /\ b = lease[cur].body)
      PROVE  env'[b][t] = env[b][t]
  BY <1>4 DEF Effect, OrchestratorTypeOK
<1> QED BY <1>1, <1>2, <1>3, <1>4 DEF SessionsGrow

LEMMA StayDone ==
  ASSUME SessionsGrow, NEW t \in Tasks, NEW b \in Bodies, NEW k, DoneUpTo(t, b, k)
  PROVE  \A i \in Operations(t) : i <= k => i \in env'[b][t]
BY DEF DoneUpTo, SessionsGrow

LEMMA OnlyChain ==
  ASSUME OrchestratorTypeOK, OrchestratorInv, OrchestratorNext
  PROVE  Chain \/ ChainsStand
<1> USE DEF OrchestratorTypeOK, OrchestratorInv, PhaseInv, Recovery, Dispatching, Executing,
      Ingesting, InHand, Completing, ChainsStand, Nodes
<1>1. ASSUME StartTick PROVE Chain \/ ChainsStand
  BY <1>1 DEF StartTick, Phase, InState, durable, memory, aux
<1>2. ASSUME NEW t \in Tasks, RecoverLease(t) PROVE Chain \/ ChainsStand
  BY <1>2 DEF RecoverLease, memory, aux
<1>3. ASSUME Retry PROVE Chain \/ ChainsStand
  BY <1>3 DEF Retry, RetriedNode, memory, aux, Settle
<1>4. ASSUME Recovered PROVE Chain \/ ChainsStand
  BY <1>4 DEF Recovered, Phase, InState, durable, memory, aux
<1>5. ASSUME NEW t \in Tasks, Dispatch(t) PROVE Chain \/ ChainsStand
  BY <1>5 DEF Dispatch, durable, memory, aux
<1>6. ASSUME Acquire PROVE Chain \/ ChainsStand
  BY <1>6 DEF Acquire, memory, aux, Settle
<1>7. ASSUME Assign PROVE Chain \/ ChainsStand
  BY <1>7 DEF Assign, memory, aux, Settle
<1>8. ASSUME AssignRefused PROVE Chain \/ ChainsStand
  BY <1>8 DEF AssignRefused, Proceed, durable, memory, aux
<1>9. ASSUME Unassign PROVE Chain \/ ChainsStand
  BY <1>9 DEF Unassign, durable, memory, aux, Settle
<1>10. ASSUME Dispatched PROVE Chain \/ ChainsStand
  BY <1>10 DEF Dispatched, Phase, InState, durable, memory, aux
<1>11. ASSUME NEW t \in Tasks, Session(t) PROVE Chain \/ ChainsStand
  BY <1>11 DEF Session, durable
<1>12. ASSUME Operate PROVE Chain \/ ChainsStand
  BY <1>12 DEF Operate, Running, Report, durable, aux, Settle
<1>13. ASSUME Checkpoint PROVE Chain \/ ChainsStand
  BY <1>13 DEF Checkpoint, Running, Proceed, durable, memory, aux
<1>14. ASSUME Chain PROVE Chain \/ ChainsStand
  BY <1>14
<1>15. ASSUME AskStep PROVE Chain \/ ChainsStand
  BY <1>15 DEF AskStep, Running, Report, durable, memory, aux, Settle
<1>16. ASSUME ProgramEnds PROVE Chain \/ ChainsStand
  BY <1>16 DEF ProgramEnds, Report, durable, memory, aux, Settle
<1>17. ASSUME StepFails PROVE Chain \/ ChainsStand
  BY <1>17 DEF StepFails, Disturb, Running, Report, durable, aux, Settle
<1>18. ASSUME Executed PROVE Chain \/ ChainsStand
  BY <1>18 DEF Executed, Phase, durable, memory, aux
<1>19. ASSUME NEW t \in Tasks, IngestFailure(t) PROVE Chain \/ ChainsStand
  BY <1>19 DEF IngestFailure, FailedNode, RecordFailure, memory, aux
<1>20. ASSUME NEW t \in Tasks, IngestDisputed(t) PROVE Chain \/ ChainsStand
  BY <1>20 DEF IngestDisputed, FailedNode, Disturb, RecordFailure, memory, aux
<1>21. ASSUME NEW t \in Tasks, Escalate(t) PROVE Chain \/ ChainsStand
  BY <1>21 DEF Escalate, durable, aux
<1>22. ASSUME Park PROVE Chain \/ ChainsStand
  BY <1>22 DEF Park, memory, aux, Settle
<1>23. ASSUME NEW t \in Tasks, Verify(t) PROVE Chain \/ ChainsStand
  BY <1>23 DEF Verify, durable, memory, aux
<1>24. ASSUME ReleaseLease PROVE Chain \/ ChainsStand
  BY <1>24 DEF ReleaseLease, Proceed, memory, aux
<1>25. ASSUME CompleteTask PROVE Chain \/ ChainsStand
  BY <1>25 DEF CompleteTask, Proceed, memory, aux
<1>26. ASSUME Adopt PROVE Chain \/ ChainsStand
  BY <1>26 DEF Adopt, Proceed, memory, aux
<1>27. ASSUME PinVerification PROVE Chain \/ ChainsStand
  BY <1>27 DEF PinVerification, memory, aux, Settle
<1>28. ASSUME TickEnds PROVE Chain \/ ChainsStand
  BY <1>28 DEF TickEnds, Phase, durable, memory, aux
<1>29. ASSUME TickDies PROVE Chain \/ ChainsStand
  BY <1>29 DEF TickDies, TickGone, Disturb, memory
<1>30. ASSUME Restart PROVE Chain \/ ChainsStand
  BY <1>30 DEF Restart, TickGone, Disturb
<1>31. ASSUME NEW b \in Bodies, Suspend(b) PROVE Chain \/ ChainsStand
  BY <1>31 DEF Suspend, Disturb, aux
<1>32. ASSUME NEW b \in Bodies, ResumeBody(b) PROVE Chain \/ ChainsStand
  BY <1>32 DEF ResumeBody, durable, locals, aux
<1>33. ASSUME NEW t \in Tasks, Answer(t) PROVE Chain \/ ChainsStand
  BY <1>33 DEF Answer, AnsweredNode, Disturb, locals, aux
<1> QED BY <1>1, <1>2, <1>3, <1>4, <1>5, <1>6, <1>7, <1>8, <1>9, <1>10, <1>11, <1>12, <1>13,
      <1>14, <1>15, <1>16, <1>17, <1>18, <1>19, <1>20, <1>21, <1>22, <1>23, <1>24, <1>25, <1>26,
      <1>27, <1>28, <1>29, <1>30, <1>31, <1>32, <1>33 DEF OrchestratorNext, TickStep, Trouble

NewSession == \E t \in Tasks : Session(t)

LEMMA OnlyNewSessions ==
  ASSUME OrchestratorTypeOK, OrchestratorInv, OrchestratorNext
  PROVE  Restart \/ SessionsGrow \/ NewSession
<1> USE DEF SessionsGrow, NewSession
<1>1. ASSUME StartTick PROVE Restart \/ SessionsGrow \/ NewSession
  BY <1>1 DEF StartTick, Phase, InState, durable, memory, aux
<1>2. ASSUME NEW t \in Tasks, RecoverLease(t) PROVE Restart \/ SessionsGrow \/ NewSession
  BY <1>2 DEF RecoverLease, memory, aux
<1>3. ASSUME Retry PROVE Restart \/ SessionsGrow \/ NewSession
  BY <1>3 DEF Retry, RetriedNode, memory, aux, Settle
<1>4. ASSUME Recovered PROVE Restart \/ SessionsGrow \/ NewSession
  BY <1>4 DEF Recovered, Phase, InState, durable, memory, aux
<1>5. ASSUME NEW t \in Tasks, Dispatch(t) PROVE Restart \/ SessionsGrow \/ NewSession
  BY <1>5 DEF Dispatch, durable, memory, aux
<1>6. ASSUME Acquire PROVE Restart \/ SessionsGrow \/ NewSession
  BY <1>6 DEF Acquire, memory, aux, Settle
<1>7. ASSUME Assign PROVE Restart \/ SessionsGrow \/ NewSession
  BY <1>7 DEF Assign, memory, aux, Settle
<1>8. ASSUME AssignRefused PROVE Restart \/ SessionsGrow \/ NewSession
  BY <1>8 DEF AssignRefused, Proceed, durable, memory, aux
<1>9. ASSUME Unassign PROVE Restart \/ SessionsGrow \/ NewSession
  BY <1>9 DEF Unassign, durable, memory, aux, Settle
<1>10. ASSUME Dispatched PROVE Restart \/ SessionsGrow \/ NewSession
  BY <1>10 DEF Dispatched, Phase, InState, durable, memory, aux
<1>11. ASSUME NEW t \in Tasks, Session(t) PROVE Restart \/ SessionsGrow \/ NewSession
  BY <1>11
<1>12. ASSUME Operate PROVE Restart \/ SessionsGrow \/ NewSession
  BY <1>12, EffectGrows DEF Operate, Running, SessionsGrow
<1>13. ASSUME Checkpoint PROVE Restart \/ SessionsGrow \/ NewSession
  BY <1>13 DEF Checkpoint, Running, Proceed, durable, memory, aux
<1>14. ASSUME Chain PROVE Restart \/ SessionsGrow \/ NewSession
  BY <1>14 DEF Chain, memory
<1>15. ASSUME AskStep PROVE Restart \/ SessionsGrow \/ NewSession
  BY <1>15 DEF AskStep, Running, Report, durable, memory, aux, Settle
<1>16. ASSUME ProgramEnds PROVE Restart \/ SessionsGrow \/ NewSession
  BY <1>16 DEF ProgramEnds, Report, durable, memory, aux, Settle
<1>17. ASSUME StepFails PROVE Restart \/ SessionsGrow \/ NewSession
  BY <1>17, EffectGrows DEF StepFails, SessionsGrow
<1>18. ASSUME Executed PROVE Restart \/ SessionsGrow \/ NewSession
  BY <1>18 DEF Executed, Phase, durable, memory, aux
<1>19. ASSUME NEW t \in Tasks, IngestFailure(t) PROVE Restart \/ SessionsGrow \/ NewSession
  BY <1>19 DEF IngestFailure, FailedNode, RecordFailure, memory, aux
<1>20. ASSUME NEW t \in Tasks, IngestDisputed(t) PROVE Restart \/ SessionsGrow \/ NewSession
  BY <1>20 DEF IngestDisputed, FailedNode, Disturb, RecordFailure, memory, aux
<1>21. ASSUME NEW t \in Tasks, Escalate(t) PROVE Restart \/ SessionsGrow \/ NewSession
  BY <1>21 DEF Escalate, durable, aux
<1>22. ASSUME Park PROVE Restart \/ SessionsGrow \/ NewSession
  BY <1>22 DEF Park, memory, aux, Settle
<1>23. ASSUME NEW t \in Tasks, Verify(t) PROVE Restart \/ SessionsGrow \/ NewSession
  BY <1>23 DEF Verify, durable, memory, aux
<1>24. ASSUME ReleaseLease PROVE Restart \/ SessionsGrow \/ NewSession
  BY <1>24 DEF ReleaseLease, Proceed, memory, aux
<1>25. ASSUME CompleteTask PROVE Restart \/ SessionsGrow \/ NewSession
  BY <1>25 DEF CompleteTask, Proceed, memory, aux
<1>26. ASSUME Adopt PROVE Restart \/ SessionsGrow \/ NewSession
  BY <1>26 DEF Adopt, Proceed, memory, aux
<1>27. ASSUME PinVerification PROVE Restart \/ SessionsGrow \/ NewSession
  BY <1>27 DEF PinVerification, memory, aux, Settle
<1>28. ASSUME TickEnds PROVE Restart \/ SessionsGrow \/ NewSession
  BY <1>28 DEF TickEnds, Phase, durable, memory, aux
<1>29. ASSUME TickDies PROVE Restart \/ SessionsGrow \/ NewSession
  BY <1>29 DEF TickDies, TickGone, Disturb, memory
<1>30. ASSUME Restart PROVE Restart \/ SessionsGrow \/ NewSession
  BY <1>30
<1>31. ASSUME NEW b \in Bodies, Suspend(b) PROVE Restart \/ SessionsGrow \/ NewSession
  BY <1>31 DEF Suspend, Disturb, aux
<1>32. ASSUME NEW b \in Bodies, ResumeBody(b) PROVE Restart \/ SessionsGrow \/ NewSession
  BY <1>32 DEF ResumeBody, durable, locals, aux
<1>33. ASSUME NEW t \in Tasks, Answer(t) PROVE Restart \/ SessionsGrow \/ NewSession
  BY <1>33 DEF Answer, AnsweredNode, Disturb, locals, aux
<1> QED BY <1>1, <1>2, <1>3, <1>4, <1>5, <1>6, <1>7, <1>8, <1>9, <1>10, <1>11, <1>12, <1>13,
      <1>14, <1>15, <1>16, <1>17, <1>18, <1>19, <1>20, <1>21, <1>22, <1>23, <1>24, <1>25, <1>26,
      <1>27, <1>28, <1>29, <1>30, <1>31, <1>32, <1>33 DEF OrchestratorNext, TickStep, Trouble

(* No session of a new body is taken for one that reached the checkpoint,  *)
(* and a task once moved stays moved.                                      *)
HomesShrink ==
    moved \subseteq moved' /\ \A t \in Tasks : home'[t] \subseteq home[t]

LEMMA HomesKept ==
  ASSUME OrchestratorTypeOK, OrchestratorInv, OrchestratorNext, HomesShrink, ChainsStand,
         SessionsGrow
  PROVE  HomeInv'
<1>1. SUFFICES ASSUME NEW t \in Tasks, t \notin moved', NEW b \in home'[t]
               PROVE  DoneUpTo(t, b, node[t].chain)'
  BY DEF HomeInv
<1>2. t \notin moved /\ b \in home[t] /\ b \in Bodies
  BY <1>1 DEF HomesShrink, OrchestratorTypeOK
<1>3. DoneUpTo(t, b, node[t].chain)
  BY <1>2 DEF OrchestratorInv, HomeInv
<1>4. node'[t].chain = node[t].chain
  BY DEF ChainsStand
<1> QED BY <1>2, <1>3, <1>4, StayDone DEF DoneUpTo, Operations

(* The session a task starts or goes on with.                              *)
LEMMA SessionStarts ==
  ASSUME OrchestratorTypeOK, OrchestratorInv, NEW t \in Tasks, Session(t)
  PROVE  HomeInv' /\ StepInv' /\ WholeProgramRan'
<1> DEFINE b == lease[t].body
           kept == Resuming(t) /\ env[b][t] # {}
<1>1. /\ result[t] = "none" /\ b \in Bodies
      /\ UNCHANGED <<node, lease, result>> /\ pc' = "step" /\ cur' = t
  <2>1. result[t] = "none" /\ node[t].state = "RUNNING"
    BY DEF Session, OrchestratorInv, PhaseInv, Executing
  <2> QED BY <2>1, BodyInHand DEF Session, OrchestratorInv, durable
<1>2. \A o \in Tasks, c \in Bodies : ~(o = t /\ c = b) => env'[c][o] = env[c][o]
  BY <1>1 DEF Session, OrchestratorTypeOK
<1>3. env'[b][t] = IF kept THEN env[b][t] ELSE {0}
  BY <1>1 DEF Session, OrchestratorTypeOK
<1>4. at' = IF kept THEN node[t].chain ELSE 0
  BY DEF Session, StartAt
<1>5. /\ moved' = IF node[t].chain > 0 /\ env[b][t] # {} /\ b \notin home[t]
                  THEN moved \cup {t} ELSE moved
      /\ \A o \in Tasks : home'[o] \subseteq home[o]
      /\ env'[b][t] = {0} => b \notin home'[t]
  BY DEF Session, OrchestratorTypeOK
<1>6. Operations(t) \subseteq 1..Len(Program[t]) /\ node[t].chain \in Nat
  BY OrchestratorAssumption DEF Operations, OrchestratorTypeOK, Nodes
<1> HIDE DEF b, kept
<1>7. ASSUME NEW o \in Tasks \ moved', NEW c \in home'[o]
      PROVE  \A i \in Operations(o) : i <= node[o].chain => i \in env'[c][o]
  <2>1. o \notin moved /\ c \in home[o] /\ c \in Bodies
    BY <1>5, <1>7 DEF OrchestratorTypeOK
  <2>2. DoneUpTo(o, c, node[o].chain)
    BY <2>1 DEF OrchestratorInv, HomeInv
  <2>3. env'[c][o] = env[c][o]
    BY <1>2, <1>3, <1>5, <1>7, <2>1
  <2> QED BY <2>2, <2>3 DEF DoneUpTo
<1>8. ASSUME t \notin moved'
      PROVE  \A i \in Operations(t) : i <= at' => i \in env'[b][t]
  <2>1. CASE kept /\ node[t].chain > 0
    <3>1. t \notin moved /\ b \in home[t]
      BY <1>5, <1>8, <2>1 DEF kept
    <3>2. DoneUpTo(t, b, node[t].chain)
      BY <3>1 DEF OrchestratorInv, HomeInv
    <3> QED BY <1>3, <1>4, <2>1, <3>2 DEF DoneUpTo
  <2>2. CASE ~(kept /\ node[t].chain > 0)
    <3>1. at' = 0
      BY <1>4, <1>6, <2>2
    <3> QED BY <1>6, <3>1
  <2> QED BY <2>1, <2>2
<1>9. HomeInv'
  BY <1>1, <1>7 DEF HomeInv, DoneUpTo, Operations
<1>10. StepInv'
  BY <1>1, <1>8 DEF StepInv, DoneUpTo, Operations, b
<1>11. WholeProgramRan'
  <2>1. SUFFICES ASSUME NEW o \in Tasks, o \notin moved', result[o] = "COMPLETED_REPORT"
                 PROVE  Operations(o) \subseteq env'[lease[o].body][o]
    BY <1>1 DEF WholeProgramRan, RanWhole, Operations
  <2>2. o # t /\ o \notin moved
    BY <1>1, <1>5, <2>1
  <2>3. node[o].state = "RUNNING"
    BY <2>1 DEF OrchestratorInv, PhaseInv, Session, Executing
  <2>4. lease[o].body \in Bodies
    BY <2>3, BodyInHand DEF OrchestratorInv
  <2>5. RanWhole(o)
    BY <2>2 DEF OrchestratorInv, WholeProgramRan
  <2> QED BY <1>2, <2>1, <2>2, <2>4, <2>5 DEF RanWhole
<1> QED BY <1>9, <1>10, <1>11

(* The checkpoint is chained: the body that reached it is the task's home. *)
LEMMA ChainMoves ==
  ASSUME OrchestratorTypeOK, OrchestratorInv, Chain
  PROVE  HomeInv' /\ StepInv' /\ WholeProgramRan'
<1> DEFINE b == lease[cur].body
<1>1. cur \in Tasks /\ node[cur].state = "RUNNING"
  BY InHandType DEF Chain, InHand, OrchestratorInv, PhaseInv, Executing
<1>2. /\ UNCHANGED <<env, lease, cur, moved, result>> /\ at' = at + 1 /\ pc' = "step" /\ at \in Nat
      /\ home'[cur] = {b} /\ node'[cur].chain = at + 1
      /\ \A o \in Tasks \ {cur} : home'[o] = home[o] /\ node'[o] = node[o]
  BY <1>1 DEF Chain, memory, OrchestratorTypeOK, Nodes
<1>3. ASSUME cur \notin moved
      PROVE  \A i \in Operations(cur) : i <= at + 1 => i \in env[b][cur]
  <2>1. DoneUpTo(cur, b, at) /\ at + 1 \notin Operations(cur)
    BY <1>3 DEF OrchestratorInv, StepInv, Chain, Operations
  <2>2. Operations(cur) \subseteq Nat
    BY <1>1, OrchestratorAssumption DEF Operations
  <2> QED BY <1>2, <2>1, <2>2 DEF DoneUpTo
<1> HIDE DEF b
<1>4. ASSUME NEW o \in Tasks \ moved, NEW c \in home'[o]
      PROVE  \A i \in Operations(o) : i <= node'[o].chain => i \in env[c][o]
  <2>1. CASE o = cur
    BY <1>2, <1>3, <1>4, <2>1
  <2>2. CASE o # cur
    <3>1. DoneUpTo(o, c, node[o].chain)
      BY <1>2, <1>4, <2>2 DEF OrchestratorInv, HomeInv
    <3> QED BY <1>2, <2>2, <3>1 DEF DoneUpTo
  <2> QED BY <2>1, <2>2
<1>5. HomeInv'
  BY <1>2, <1>4 DEF HomeInv, DoneUpTo, Operations
<1>6. StepInv'
  BY <1>2, <1>3 DEF StepInv, DoneUpTo, Operations, b
<1>7. WholeProgramRan'
  BY <1>2 DEF WholeProgramRan, RanWhole, Operations, OrchestratorInv
<1> QED BY <1>5, <1>6, <1>7

LEMMA OnlyChainMoves ==
  ASSUME OrchestratorTypeOK, OrchestratorInv, OrchestratorNext
  PROVE  Chain \/ HomesShrink
<1> USE DEF OrchestratorTypeOK, OrchestratorInv, PhaseInv, HomesShrink, InHand
<1>1. ASSUME StartTick PROVE Chain \/ HomesShrink
  BY <1>1 DEF StartTick, Phase, InState, durable, memory, aux
<1>2. ASSUME NEW t \in Tasks, RecoverLease(t) PROVE Chain \/ HomesShrink
  BY <1>2 DEF RecoverLease, memory, aux
<1>3. ASSUME Retry PROVE Chain \/ HomesShrink
  BY <1>3 DEF Retry, RetriedNode, memory, aux, Settle
<1>4. ASSUME Recovered PROVE Chain \/ HomesShrink
  BY <1>4 DEF Recovered, Phase, InState, durable, memory, aux
<1>5. ASSUME NEW t \in Tasks, Dispatch(t) PROVE Chain \/ HomesShrink
  BY <1>5 DEF Dispatch, durable, memory, aux
<1>6. ASSUME Acquire PROVE Chain \/ HomesShrink
  BY <1>6 DEF Acquire, memory, aux, Settle
<1>7. ASSUME Assign PROVE Chain \/ HomesShrink
  BY <1>7 DEF Assign, memory, aux, Settle
<1>8. ASSUME AssignRefused PROVE Chain \/ HomesShrink
  BY <1>8 DEF AssignRefused, Proceed, durable, memory, aux
<1>9. ASSUME Unassign PROVE Chain \/ HomesShrink
  BY <1>9 DEF Unassign, durable, memory, aux, Settle
<1>10. ASSUME Dispatched PROVE Chain \/ HomesShrink
  BY <1>10 DEF Dispatched, Phase, InState, durable, memory, aux
<1>11. ASSUME NEW t \in Tasks, Session(t) PROVE Chain \/ HomesShrink
  BY <1>11 DEF Session, durable
<1>12. ASSUME Operate PROVE Chain \/ HomesShrink
  BY <1>12 DEF Operate, Running, Report, durable, aux, Settle
<1>13. ASSUME Checkpoint PROVE Chain \/ HomesShrink
  BY <1>13 DEF Checkpoint, Running, Proceed, durable, memory, aux
<1>14. ASSUME Chain PROVE Chain \/ HomesShrink
  BY <1>14
<1>15. ASSUME AskStep PROVE Chain \/ HomesShrink
  BY <1>15 DEF AskStep, Running, Report, durable, memory, aux, Settle
<1>16. ASSUME ProgramEnds PROVE Chain \/ HomesShrink
  BY <1>16 DEF ProgramEnds, Report, durable, memory, aux, Settle
<1>17. ASSUME StepFails PROVE Chain \/ HomesShrink
  BY <1>17 DEF StepFails, Disturb, Running, Report, durable, aux, Settle
<1>18. ASSUME Executed PROVE Chain \/ HomesShrink
  BY <1>18 DEF Executed, Phase, durable, memory, aux
<1>19. ASSUME NEW t \in Tasks, IngestFailure(t) PROVE Chain \/ HomesShrink
  BY <1>19 DEF IngestFailure, FailedNode, RecordFailure, memory, aux
<1>20. ASSUME NEW t \in Tasks, IngestDisputed(t) PROVE Chain \/ HomesShrink
  BY <1>20 DEF IngestDisputed, FailedNode, Disturb, RecordFailure, memory, aux
<1>21. ASSUME NEW t \in Tasks, Escalate(t) PROVE Chain \/ HomesShrink
  BY <1>21 DEF Escalate, durable, aux
<1>22. ASSUME Park PROVE Chain \/ HomesShrink
  BY <1>22 DEF Park, memory, aux, Settle
<1>23. ASSUME NEW t \in Tasks, Verify(t) PROVE Chain \/ HomesShrink
  BY <1>23 DEF Verify, durable, memory, aux
<1>24. ASSUME ReleaseLease PROVE Chain \/ HomesShrink
  BY <1>24 DEF ReleaseLease, Proceed, memory, aux
<1>25. ASSUME CompleteTask PROVE Chain \/ HomesShrink
  BY <1>25 DEF CompleteTask, Proceed, memory, aux
<1>26. ASSUME Adopt PROVE Chain \/ HomesShrink
  BY <1>26 DEF Adopt, Proceed, memory, aux
<1>27. ASSUME PinVerification PROVE Chain \/ HomesShrink
  BY <1>27 DEF PinVerification, memory, aux, Settle
<1>28. ASSUME TickEnds PROVE Chain \/ HomesShrink
  BY <1>28 DEF TickEnds, Phase, durable, memory, aux
<1>29. ASSUME TickDies PROVE Chain \/ HomesShrink
  BY <1>29 DEF TickDies, TickGone, Disturb, memory
<1>30. ASSUME Restart PROVE Chain \/ HomesShrink
  BY <1>30 DEF Restart, TickGone, Disturb
<1>31. ASSUME NEW b \in Bodies, Suspend(b) PROVE Chain \/ HomesShrink
  BY <1>31 DEF Suspend, Disturb, aux
<1>32. ASSUME NEW b \in Bodies, ResumeBody(b) PROVE Chain \/ HomesShrink
  BY <1>32 DEF ResumeBody, durable, locals, aux
<1>33. ASSUME NEW t \in Tasks, Answer(t) PROVE Chain \/ HomesShrink
  BY <1>33 DEF Answer, AnsweredNode, Disturb, locals, aux
<1> QED BY <1>1, <1>2, <1>3, <1>4, <1>5, <1>6, <1>7, <1>8, <1>9, <1>10, <1>11, <1>12, <1>13,
      <1>14, <1>15, <1>16, <1>17, <1>18, <1>19, <1>20, <1>21, <1>22, <1>23, <1>24, <1>25, <1>26,
      <1>27, <1>28, <1>29, <1>30, <1>31, <1>32, <1>33 DEF OrchestratorNext, TickStep, Trouble

LEMMA StepBody ==
  ASSUME OrchestratorTypeOK, OrchestratorInv, pc \in {"step", "chain"}
  PROVE  cur \in Tasks /\ lease[cur].body \in Bodies
<1>1. cur \in Tasks /\ node[cur].state = "RUNNING"
  BY InHandType DEF InHand, OrchestratorInv, PhaseInv, Executing
<1> QED BY <1>1, BodyInHand DEF OrchestratorInv

LEMMA StepStands ==
  ASSUME OrchestratorTypeOK, StepInv, UNCHANGED <<pc, cur, at, moved>>,
         pc \in {"step", "chain"} => cur \in Tasks /\ lease[cur].body \in Bodies,
         \A t \in Tasks : lease'[t].body = lease[t].body, SessionsGrow
  PROVE  StepInv'
BY StayDone DEF StepInv, DoneUpTo, Operations

LEMMA StepKept ==
  ASSUME OrchestratorTypeOK, OrchestratorInv, OrchestratorNext
  PROVE  StepInv'
<1> USE DEF OrchestratorInv, StepInv
<1>1. ASSUME StartTick PROVE StepInv'
  BY <1>1 DEF StartTick, Phase, InState, durable, memory, aux
<1>2. ASSUME NEW t \in Tasks, RecoverLease(t) PROVE StepInv'
  BY <1>2 DEF RecoverLease, memory, aux
<1>3. ASSUME Retry PROVE StepInv'
  BY <1>3 DEF Retry, RetriedNode, memory, aux, Settle
<1>4. ASSUME Recovered PROVE StepInv'
  BY <1>4 DEF Recovered, Phase, InState, durable, memory, aux
<1>5. ASSUME NEW t \in Tasks, Dispatch(t) PROVE StepInv'
  BY <1>5 DEF Dispatch, durable, memory, aux
<1>6. ASSUME Acquire PROVE StepInv'
  BY <1>6 DEF Acquire, memory, aux, Settle
<1>7. ASSUME Assign PROVE StepInv'
  BY <1>7 DEF Assign, memory, aux, Settle
<1>8. ASSUME AssignRefused PROVE StepInv'
  BY <1>8 DEF AssignRefused, Proceed, durable, memory, aux
<1>9. ASSUME Unassign PROVE StepInv'
  BY <1>9 DEF Unassign, durable, memory, aux, Settle
<1>10. ASSUME Dispatched PROVE StepInv'
  BY <1>10 DEF Dispatched, Phase, InState, durable, memory, aux
<1>11. ASSUME NEW t \in Tasks, Session(t) PROVE StepInv'
  BY <1>11, SessionStarts
<1>12. ASSUME Operate PROVE StepInv'
  <2>1. CASE Report("FAILED")
    BY <1>12, <2>1 DEF Report, Settle
  <2>2. CASE lease[cur].live /\ env' = Effect /\ at' = at + 1 /\ UNCHANGED <<pc, todo, cur,
        fresh, result>>
    <3>1. /\ cur \in Tasks /\ lease[cur].body \in Bodies /\ SessionsGrow
          /\ at + 1 \in env'[lease[cur].body][cur]
      BY <1>12, <2>2, EffectGrows DEF Operate, Running
    <3>2. UNCHANGED <<lease, moved>> /\ pc = "step" /\ at \in Nat
      BY <1>12 DEF Operate, Running, durable, aux, OrchestratorTypeOK
    <3>3. ASSUME cur \notin moved
          PROVE  \A i \in Operations(cur) : i <= at + 1 => i \in env'[lease[cur].body][cur]
      <4>1. DoneUpTo(cur, lease[cur].body, at)
        BY <3>2, <3>3
      <4>2. \A i \in Operations(cur) : i <= at => i \in env'[lease[cur].body][cur]
        BY <3>1, <4>1, StayDone
      <4>3. Operations(cur) \subseteq Nat
        BY <3>1, OrchestratorAssumption DEF Operations
      <4> QED BY <3>1, <3>2, <4>2, <4>3
    <3> QED BY <2>2, <3>2, <3>3 DEF DoneUpTo, Operations
  <2> QED BY <1>12, <2>1, <2>2 DEF Operate
<1>13. ASSUME Checkpoint PROVE StepInv'
  <2>1. UNCHANGED <<cur, at, env, lease, moved>> /\ pc = "step" /\ pc' = "chain"
        /\ at < Len(Program[cur]) /\ Program[cur][at + 1] = "checkpoint"
    BY <1>13 DEF Checkpoint, Running, Proceed, durable, memory, aux
  <2> QED BY <2>1 DEF DoneUpTo, Operations
<1>14. ASSUME Chain PROVE StepInv'
  BY <1>14, ChainMoves
<1>15. ASSUME AskStep PROVE StepInv'
  BY <1>15 DEF AskStep, Running, Report, durable, memory, aux, Settle
<1>16. ASSUME ProgramEnds PROVE StepInv'
  BY <1>16 DEF ProgramEnds, Report, durable, memory, aux, Settle
<1>17. ASSUME StepFails PROVE StepInv'
  BY <1>17 DEF StepFails, Report, Settle
<1>18. ASSUME Executed PROVE StepInv'
  BY <1>18 DEF Executed, Phase, durable, memory, aux
<1>19. ASSUME NEW t \in Tasks, IngestFailure(t) PROVE StepInv'
  BY <1>19 DEF IngestFailure, FailedNode, RecordFailure, memory, aux
<1>20. ASSUME NEW t \in Tasks, IngestDisputed(t) PROVE StepInv'
  BY <1>20 DEF IngestDisputed, FailedNode, Disturb, RecordFailure, memory, aux
<1>21. ASSUME NEW t \in Tasks, Escalate(t) PROVE StepInv'
  BY <1>21 DEF Escalate, durable, aux
<1>22. ASSUME Park PROVE StepInv'
  BY <1>22 DEF Park, memory, aux, Settle
<1>23. ASSUME NEW t \in Tasks, Verify(t) PROVE StepInv'
  BY <1>23 DEF Verify, durable, memory, aux
<1>24. ASSUME ReleaseLease PROVE StepInv'
  BY <1>24 DEF ReleaseLease, Proceed, memory, aux
<1>25. ASSUME CompleteTask PROVE StepInv'
  BY <1>25 DEF CompleteTask, Proceed, memory, aux
<1>26. ASSUME Adopt PROVE StepInv'
  BY <1>26 DEF Adopt, Proceed, memory, aux
<1>27. ASSUME PinVerification PROVE StepInv'
  BY <1>27 DEF PinVerification, memory, aux, Settle
<1>28. ASSUME TickEnds PROVE StepInv'
  BY <1>28 DEF TickEnds, Phase, durable, memory, aux
<1>29. ASSUME TickDies PROVE StepInv'
  BY <1>29 DEF TickDies, TickGone, Disturb, memory
<1>30. ASSUME Restart PROVE StepInv'
  BY <1>30 DEF Restart, TickGone, Disturb
<1>31. ASSUME NEW b \in Bodies, Suspend(b) PROVE StepInv'
  <2>1. UNCHANGED <<pc, cur, at>> 
    BY <1>31 DEF Suspend
  <2>4. pc \in {"step", "chain"} => cur \in Tasks /\ lease[cur].body \in Bodies
    BY StepBody
  <2>2. moved' = moved /\ \A t \in Tasks : lease'[t].body = lease[t].body
    BY <1>31 DEF Suspend, aux, OrchestratorTypeOK, Leases
  <2>3. SessionsGrow
    BY <1>31 DEF Suspend, SessionsGrow
  <2> QED BY <2>1, <2>2, <2>3, <2>4, StepStands
<1>32. ASSUME NEW b \in Bodies, ResumeBody(b) PROVE StepInv'
  <2>1. UNCHANGED <<pc, cur, at>> 
    BY <1>32 DEF ResumeBody, locals
  <2>4. pc \in {"step", "chain"} => cur \in Tasks /\ lease[cur].body \in Bodies
    BY StepBody
  <2>2. moved' = moved /\ \A t \in Tasks : lease'[t].body = lease[t].body
    BY <1>32 DEF ResumeBody, durable, aux
  <2>3. SessionsGrow
    BY <1>32 DEF ResumeBody, SessionsGrow
  <2> QED BY <2>1, <2>2, <2>3, <2>4, StepStands
<1>33. ASSUME NEW t \in Tasks, Answer(t) PROVE StepInv'
  <2>1. UNCHANGED <<pc, cur, at>> 
    BY <1>33 DEF Answer, locals
  <2>4. pc \in {"step", "chain"} => cur \in Tasks /\ lease[cur].body \in Bodies
    BY StepBody
  <2>2. moved' = moved /\ \A u \in Tasks : lease'[u].body = lease[u].body
    BY <1>33 DEF Answer, aux
  <2>3. SessionsGrow
    BY <1>33 DEF Answer, SessionsGrow
  <2> QED BY <2>1, <2>2, <2>3, <2>4, StepStands
<1> QED BY <1>1, <1>2, <1>3, <1>4, <1>5, <1>6, <1>7, <1>8, <1>9, <1>10, <1>11, <1>12, <1>13,
      <1>14, <1>15, <1>16, <1>17, <1>18, <1>19, <1>20, <1>21, <1>22, <1>23, <1>24, <1>25, <1>26,
      <1>27, <1>28, <1>29, <1>30, <1>31, <1>32, <1>33 DEF OrchestratorNext, TickStep, Trouble

(* A new report comes from the end of a program alone, and the task it is  *)
(* about keeps its body.                                                   *)
ReportsStand ==
    \A t \in Tasks : result'[t] = "COMPLETED_REPORT" =>
        \/ result[t] = "COMPLETED_REPORT" /\ lease'[t].body = lease[t].body
        \/ ProgramEnds /\ t = cur

LEMMA OnlyProgramEnds ==
  ASSUME OrchestratorTypeOK, OrchestratorInv, OrchestratorNext
  PROVE  ReportsStand
<1> USE DEF OrchestratorTypeOK, OrchestratorInv, PhaseInv, Recovery, Dispatching, Executing,
      Ingesting, ReportsStand, Leases
<1>1. ASSUME StartTick PROVE ReportsStand
  BY <1>1 DEF StartTick, Phase, InState, durable, memory, aux
<1>2. ASSUME NEW t \in Tasks, RecoverLease(t) PROVE ReportsStand
  BY <1>2 DEF RecoverLease, memory, aux
<1>3. ASSUME Retry PROVE ReportsStand
  BY <1>3 DEF Retry, RetriedNode, memory, aux, Settle
<1>4. ASSUME Recovered PROVE ReportsStand
  BY <1>4 DEF Recovered, Phase, InState, durable, memory, aux
<1>5. ASSUME NEW t \in Tasks, Dispatch(t) PROVE ReportsStand
  BY <1>5 DEF Dispatch, durable, memory, aux
<1>6. ASSUME Acquire PROVE ReportsStand
  BY <1>6 DEF Acquire, memory, aux, Settle
<1>7. ASSUME Assign PROVE ReportsStand
  BY <1>7 DEF Assign, memory, aux, Settle
<1>8. ASSUME AssignRefused PROVE ReportsStand
  BY <1>8 DEF AssignRefused, Proceed, durable, memory, aux
<1>9. ASSUME Unassign PROVE ReportsStand
  BY <1>9 DEF Unassign, durable, memory, aux, Settle
<1>10. ASSUME Dispatched PROVE ReportsStand
  BY <1>10 DEF Dispatched, Phase, InState, durable, memory, aux
<1>11. ASSUME NEW t \in Tasks, Session(t) PROVE ReportsStand
  BY <1>11 DEF Session, durable
<1>12. ASSUME Operate PROVE ReportsStand
  <2>1. result' = result \/ Report("FAILED")
    BY <1>12 DEF Operate
  <2> QED BY <1>12, <2>1 DEF Operate, Report, durable
<1>13. ASSUME Checkpoint PROVE ReportsStand
  BY <1>13 DEF Checkpoint, Running, Proceed, durable, memory, aux
<1>14. ASSUME Chain PROVE ReportsStand
  BY <1>14 DEF Chain, memory
<1>15. ASSUME AskStep PROVE ReportsStand
  BY <1>15 DEF AskStep, Running, Report, durable, memory, aux, Settle
<1>16. ASSUME ProgramEnds PROVE ReportsStand
  BY <1>16 DEF ProgramEnds, Report, durable, memory, aux, Settle
<1>17. ASSUME StepFails PROVE ReportsStand
  <2>1. Report("FAILED") \/ Report("AUTHORITY_GAP")
    BY <1>17 DEF StepFails
  <2> QED BY <1>17, <2>1 DEF StepFails, Report, durable
<1>18. ASSUME Executed PROVE ReportsStand
  BY <1>18 DEF Executed, Phase, durable, memory, aux
<1>19. ASSUME NEW t \in Tasks, IngestFailure(t) PROVE ReportsStand
  BY <1>19 DEF IngestFailure, FailedNode, RecordFailure, memory, aux
<1>20. ASSUME NEW t \in Tasks, IngestDisputed(t) PROVE ReportsStand
  BY <1>20 DEF IngestDisputed, FailedNode, Disturb, RecordFailure, memory, aux
<1>21. ASSUME NEW t \in Tasks, Escalate(t) PROVE ReportsStand
  BY <1>21 DEF Escalate, durable, aux
<1>22. ASSUME Park PROVE ReportsStand
  BY <1>22 DEF Park, memory, aux, Settle
<1>23. ASSUME NEW t \in Tasks, Verify(t) PROVE ReportsStand
  BY <1>23 DEF Verify, durable, memory, aux
<1>24. ASSUME ReleaseLease PROVE ReportsStand
  BY <1>24 DEF ReleaseLease, Proceed, memory, aux
<1>25. ASSUME CompleteTask PROVE ReportsStand
  BY <1>25 DEF CompleteTask, Proceed, memory, aux
<1>26. ASSUME Adopt PROVE ReportsStand
  BY <1>26 DEF Adopt, Proceed, memory, aux
<1>27. ASSUME PinVerification PROVE ReportsStand
  BY <1>27 DEF PinVerification, memory, aux, Settle
<1>28. ASSUME TickEnds PROVE ReportsStand
  BY <1>28 DEF TickEnds, Phase, durable, memory, aux
<1>29. ASSUME TickDies PROVE ReportsStand
  BY <1>29 DEF TickDies, TickGone, Disturb, memory
<1>30. ASSUME Restart PROVE ReportsStand
  BY <1>30 DEF Restart, TickGone, Disturb
<1>31. ASSUME NEW b \in Bodies, Suspend(b) PROVE ReportsStand
  BY <1>31 DEF Suspend, Disturb, aux
<1>32. ASSUME NEW b \in Bodies, ResumeBody(b) PROVE ReportsStand
  BY <1>32 DEF ResumeBody, durable, locals, aux
<1>33. ASSUME NEW t \in Tasks, Answer(t) PROVE ReportsStand
  BY <1>33 DEF Answer, AnsweredNode, Disturb, locals, aux
<1> QED BY <1>1, <1>2, <1>3, <1>4, <1>5, <1>6, <1>7, <1>8, <1>9, <1>10, <1>11, <1>12, <1>13,
      <1>14, <1>15, <1>16, <1>17, <1>18, <1>19, <1>20, <1>21, <1>22, <1>23, <1>24, <1>25, <1>26,
      <1>27, <1>28, <1>29, <1>30, <1>31, <1>32, <1>33 DEF OrchestratorNext, TickStep, Trouble

LEMMA ReportsKept ==
  ASSUME OrchestratorTypeOK, OrchestratorInv, OrchestratorNext, SessionsGrow, moved \subseteq moved'
  PROVE  WholeProgramRan'
<1>1. SUFFICES ASSUME NEW t \in Tasks, t \notin moved, result'[t] = "COMPLETED_REPORT"
               PROVE  Operations(t) \subseteq env'[lease'[t].body][t]
  BY DEF WholeProgramRan, RanWhole, Operations
<1>2. CASE result[t] = "COMPLETED_REPORT" /\ lease'[t].body = lease[t].body
  <2>1. RanWhole(t)
    BY <1>1 DEF OrchestratorInv, WholeProgramRan
  <2>2. CASE lease[t].body \in Bodies
    BY <1>2, <2>1, <2>2 DEF RanWhole, SessionsGrow
  <2>3. lease[t].body \in Bodies
    BY <1>2, OrchestratorAssumption
       DEF OrchestratorInv, LeaseInv, OrchestratorTypeOK, Leases, Bodies
  <2> QED BY <2>2, <2>3
<1>3. CASE ProgramEnds /\ t = cur
  <2>1. lease[t].body \in Bodies /\ UNCHANGED <<lease, env>> /\ at = Len(Program[t])
    BY <1>3, StepBody DEF ProgramEnds, durable, memory
  <2>2. DoneUpTo(t, lease[t].body, at)
    BY <1>1, <1>3 DEF OrchestratorInv, StepInv, ProgramEnds
  <2>3. Operations(t) \subseteq 1..Len(Program[t])
    BY OrchestratorAssumption DEF Operations
  <2> QED BY <2>1, <2>2, <2>3 DEF DoneUpTo
<1> QED BY <1>1, <1>2, <1>3, OnlyProgramEnds DEF ReportsStand

-----------------------------------------------------------------------------
(* The theorems.                                                           *)

LEMMA SessionsKept ==
  ASSUME OrchestratorTypeOK, OrchestratorInv, OrchestratorNext
  PROVE  HomeInv' /\ WholeProgramRan'
<1>1. CASE \E t \in Tasks : Session(t)
  BY <1>1, SessionStarts
<1>2. CASE Chain
  BY <1>2, ChainMoves
<1>3. CASE Restart
  <2>1. \A t \in Tasks : home'[t] = {} /\ result'[t] = "none"
    BY <1>3 DEF Restart, TickGone
  <2> QED BY <2>1 DEF HomeInv, WholeProgramRan, RanWhole
<1>4. CASE SessionsGrow /\ HomesShrink /\ ChainsStand
  BY <1>4, HomesKept, ReportsKept DEF HomesShrink
<1> QED BY <1>1, <1>2, <1>3, <1>4, OnlyNewSessions, OnlyChainMoves, OnlyChain DEF NewSession

LEMMA OrchestratorStart == Init => OrchestratorTypeOK /\ OrchestratorInv
<1> SUFFICES ASSUME Init PROVE OrchestratorTypeOK /\ OrchestratorInv
  OBVIOUS
<1>1. NewNode \in Nodes /\ NoLease \in Leases
  BY NoLeaseType, OrchestratorAssumption DEF NewNode, Nodes, States
<1>2. OrchestratorTypeOK
  BY <1>1 DEF Init, OrchestratorTypeOK, Points, Results
<1>3. PhaseInv /\ LaneInv
  BY DEF Init, PhaseInv, LaneInv, NewNode, Recovery, Dispatching, Executing, Ingesting, InHand,
         Completing
<1>4. LeaseInv /\ StrayLeasesNeedADeath
  BY DEF Init, LeaseInv, NewNode, NoLease, StrayLeasesNeedADeath
<1>5. HomeInv /\ StepInv /\ WholeProgramRan
  BY DEF Init, HomeInv, StepInv, WholeProgramRan, RanWhole
<1>6. NoOverlap
  BY DEF Init, NoOverlap, Active, InState, NewNode
<1> QED BY <1>2, <1>3, <1>4, <1>5, <1>6 DEF OrchestratorInv

LEMMA OrchestratorStep ==
  OrchestratorTypeOK /\ OrchestratorInv /\ [OrchestratorNext]_vars
      => OrchestratorTypeOK' /\ OrchestratorInv'
<1> SUFFICES ASSUME OrchestratorTypeOK, OrchestratorInv, [OrchestratorNext]_vars
             PROVE  OrchestratorTypeOK' /\ OrchestratorInv'
  OBVIOUS
<1>1. CASE OrchestratorNext
  BY <1>1, TypeStep, PhaseKept, LanesKept, LeasesKept, OverlapKept, StraysKept, StepKept,
     SessionsKept DEF OrchestratorInv
<1>2. CASE UNCHANGED vars
  <2>1. OrchestratorTypeOK'
    BY <1>2 DEF vars, durable, memory, locals, aux, OrchestratorTypeOK
  <2>2. PhaseInv' /\ LaneInv'
    BY <1>2 DEF vars, durable, memory, locals, aux, OrchestratorInv, PhaseInv, LaneInv
  <2>3. LeaseInv' /\ StrayLeasesNeedADeath'
    BY <1>2 DEF vars, durable, memory, locals, aux, OrchestratorInv, LeaseInv, FreeLanes, Active,
                InState, StrayLeasesNeedADeath
  <2>4. HomeInv' /\ StepInv' /\ WholeProgramRan'
    BY <1>2 DEF vars, durable, memory, locals, aux, OrchestratorInv, HomeInv, StepInv,
                WholeProgramRan, RanWhole, DoneUpTo, Operations
  <2>5. NoOverlap'
    BY <1>2 DEF vars, durable, OrchestratorInv, NoOverlap, Active, InState
  <2> QED BY <2>1, <2>2, <2>3, <2>4, <2>5 DEF OrchestratorInv
<1> QED BY <1>1, <1>2

(* Every reachable state of the orchestrator is well typed, for any tasks, *)
(* bodies and lanes: no retry goes past the budget.                        *)
THEOREM OrchestratorTyping == OrchestratorSpec => []OrchestratorTypeOK
BY OrchestratorStart, OrchestratorStep, PTL DEF OrchestratorSpec

(* The inductive invariant: what a phase holds of its tasks, who holds a   *)
(* lane or a lease, and what the sessions have done.                       *)
THEOREM OrchestratorInvariance == OrchestratorSpec => []OrchestratorInv
BY OrchestratorStart, OrchestratorStep, PTL DEF OrchestratorSpec

(* The tasks that hold a lane hold different lanes and collide on no path, *)
(* whatever died, parked or was answered in between.                       *)
THEOREM LanesNeverOverlap == OrchestratorSpec => []NoOverlap
<1>1. OrchestratorInv => NoOverlap
  BY DEF OrchestratorInv
<1> QED BY <1>1, OrchestratorInvariance, PTL

(* An ACTIVE lease no record is bound to is one of a tick that died with   *)
(* it in hand, of the same task and on the same body.                      *)
THEOREM StraysAreDeaths == OrchestratorSpec => []StrayLeasesNeedADeath
<1>1. OrchestratorInv => StrayLeasesNeedADeath
  BY DEF OrchestratorInv
<1> QED BY <1>1, OrchestratorInvariance, PTL

(* The scan at the end of a tick has nothing to throw on but what a death  *)
(* in the middle of a completion left.                                     *)
THEOREM ScansHold == OrchestratorSpec => []ScanHolds
<1>1. OrchestratorTypeOK /\ OrchestratorInv => ScanHolds
  <2> SUFFICES ASSUME OrchestratorTypeOK, OrchestratorInv, pc = "idle", NEW t \in Tasks \ cut
               PROVE  /\ node[t].state = "RUNNING" => node[t].lane # 0
                      /\ node[t].lane # 0 => node[t].state \in {"RUNNING", "PAUSED"}
                      /\ node[t].state = "COMPLETED" => node[t].vref
    BY DEF ScanHolds
  <2>1. node[t].state \in States
    BY DEF OrchestratorTypeOK, Nodes
  <2> QED BY <2>1 DEF OrchestratorInv, LaneInv, States, Completing
<1> QED BY <1>1, OrchestratorTyping, OrchestratorInvariance, PTL

(* A completion report rests on every operation of the program, done in    *)
(* the session of the body that reports.                                   *)
THEOREM ReportsAreWhole == OrchestratorSpec => []WholeProgramRan
<1>1. OrchestratorInv => WholeProgramRan
  BY DEF OrchestratorInv
<1> QED BY <1>1, OrchestratorInvariance, PTL

(* Only the assignment binds a record to a live lease, and the task it     *)
(* assigns has none.                                                       *)
BindsOnce == \A o \in Tasks : lease'[o] # lease[o] /\ lease'[o].live => ~lease[o].live

LEMMA BindingStep ==
  ASSUME OrchestratorTypeOK, OrchestratorInv, OrchestratorNext
  PROVE  BindsOnce
<1> USE DEF OrchestratorTypeOK, Leases, BindsOnce
<1>1. ASSUME StartTick PROVE BindsOnce
  BY <1>1 DEF StartTick, Phase, InState, durable, memory, aux
<1>2. ASSUME NEW t \in Tasks, RecoverLease(t) PROVE BindsOnce
  BY <1>2 DEF RecoverLease, memory, aux
<1>3. ASSUME Retry PROVE BindsOnce
  BY <1>3 DEF Retry, RetriedNode, memory, aux, Settle
<1>4. ASSUME Recovered PROVE BindsOnce
  BY <1>4 DEF Recovered, Phase, InState, durable, memory, aux
<1>5. ASSUME NEW t \in Tasks, Dispatch(t) PROVE BindsOnce
  BY <1>5 DEF Dispatch, durable, memory, aux
<1>6. ASSUME Acquire PROVE BindsOnce
  BY <1>6 DEF Acquire, memory, aux, Settle
<1>7. ASSUME Assign PROVE BindsOnce
  <2>1. cur \in Tasks /\ ~lease[cur].live
    BY <1>7, InHandType DEF Assign, InHand, OrchestratorInv, PhaseInv, LeaseInv, Dispatching
  <2> QED BY <1>7, <2>1 DEF Assign
<1>8. ASSUME AssignRefused PROVE BindsOnce
  BY <1>8 DEF AssignRefused, Proceed, durable, memory, aux
<1>9. ASSUME Unassign PROVE BindsOnce
  BY <1>9 DEF Unassign, durable, memory, aux, Settle
<1>10. ASSUME Dispatched PROVE BindsOnce
  BY <1>10 DEF Dispatched, Phase, InState, durable, memory, aux
<1>11. ASSUME NEW t \in Tasks, Session(t) PROVE BindsOnce
  BY <1>11 DEF Session, durable
<1>12. ASSUME Operate PROVE BindsOnce
  BY <1>12 DEF Operate, Running, Report, durable, aux, Settle
<1>13. ASSUME Checkpoint PROVE BindsOnce
  BY <1>13 DEF Checkpoint, Running, Proceed, durable, memory, aux
<1>14. ASSUME Chain PROVE BindsOnce
  BY <1>14 DEF Chain, memory
<1>15. ASSUME AskStep PROVE BindsOnce
  BY <1>15 DEF AskStep, Running, Report, durable, memory, aux, Settle
<1>16. ASSUME ProgramEnds PROVE BindsOnce
  BY <1>16 DEF ProgramEnds, Report, durable, memory, aux, Settle
<1>17. ASSUME StepFails PROVE BindsOnce
  BY <1>17 DEF StepFails, Disturb, Running, Report, durable, aux, Settle
<1>18. ASSUME Executed PROVE BindsOnce
  BY <1>18 DEF Executed, Phase, durable, memory, aux
<1>19. ASSUME NEW t \in Tasks, IngestFailure(t) PROVE BindsOnce
  BY <1>19 DEF IngestFailure, FailedNode, RecordFailure, memory, aux
<1>20. ASSUME NEW t \in Tasks, IngestDisputed(t) PROVE BindsOnce
  BY <1>20 DEF IngestDisputed, FailedNode, Disturb, RecordFailure, memory, aux
<1>21. ASSUME NEW t \in Tasks, Escalate(t) PROVE BindsOnce
  BY <1>21 DEF Escalate, durable, aux
<1>22. ASSUME Park PROVE BindsOnce
  BY <1>22 DEF Park, memory, aux, Settle
<1>23. ASSUME NEW t \in Tasks, Verify(t) PROVE BindsOnce
  BY <1>23 DEF Verify, durable, memory, aux
<1>24. ASSUME ReleaseLease PROVE BindsOnce
  BY <1>24 DEF ReleaseLease, Proceed, memory, aux
<1>25. ASSUME CompleteTask PROVE BindsOnce
  BY <1>25 DEF CompleteTask, Proceed, memory, aux
<1>26. ASSUME Adopt PROVE BindsOnce
  BY <1>26 DEF Adopt, Proceed, memory, aux
<1>27. ASSUME PinVerification PROVE BindsOnce
  BY <1>27 DEF PinVerification, memory, aux, Settle
<1>28. ASSUME TickEnds PROVE BindsOnce
  BY <1>28 DEF TickEnds, Phase, durable, memory, aux
<1>29. ASSUME TickDies PROVE BindsOnce
  BY <1>29 DEF TickDies, TickGone, Disturb, memory
<1>30. ASSUME Restart PROVE BindsOnce
  BY <1>30 DEF Restart, TickGone, Disturb
<1>31. ASSUME NEW b \in Bodies, Suspend(b) PROVE BindsOnce
  BY <1>31 DEF Suspend, Disturb, aux
<1>32. ASSUME NEW b \in Bodies, ResumeBody(b) PROVE BindsOnce
  BY <1>32 DEF ResumeBody, durable, locals, aux
<1>33. ASSUME NEW t \in Tasks, Answer(t) PROVE BindsOnce
  BY <1>33 DEF Answer, AnsweredNode, Disturb, locals, aux
<1> QED BY <1>1, <1>2, <1>3, <1>4, <1>5, <1>6, <1>7, <1>8, <1>9, <1>10, <1>11, <1>12, <1>13,
      <1>14, <1>15, <1>16, <1>17, <1>18, <1>19, <1>20, <1>21, <1>22, <1>23, <1>24, <1>25, <1>26,
      <1>27, <1>28, <1>29, <1>30, <1>31, <1>32, <1>33 DEF OrchestratorNext, TickStep, Trouble

(* A record is bound to a new lease only once the one it was bound to has  *)
(* ended.                                                                  *)
THEOREM BindingsAreSingle == OrchestratorSpec => OneLiveBinding
<1>1. OrchestratorTypeOK /\ OrchestratorInv /\ [OrchestratorNext]_vars
        => [\A t \in Tasks : lease'[t] # lease[t] /\ lease'[t].live => ~lease[t].live]_vars
  BY BindingStep DEF BindsOnce
<1> QED BY <1>1, OrchestratorTyping, OrchestratorInvariance, PTL
        DEF OrchestratorSpec, OneLiveBinding

=============================================================================
