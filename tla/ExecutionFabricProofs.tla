------------------------ MODULE ExecutionFabricProofs ------------------------
(***************************************************************************)
(* Proofs about the execution fabric, for any calls, contents and bounds.  *)
(* Nothing a call relies on is ever taken back: stored events, objects and *)
(* leases stay, and revisions only grow.  So what held of a call when it   *)
(* took its last step still holds when its turn comes, whoever moved in    *)
(* between; and when one creation runs at a time, a snapshot that still    *)
(* has the stored revision is the stored record.                           *)
(***************************************************************************)
EXTENDS ExecutionFabric, TLAPS

USE FabricAssumption

(* What a stored record, and any record a call has read, says is durable.  *)
RecordOK(r) ==
    r # NoTask =>
        /\ r.status # "NONE" /\ r.rev \in 1..MaxRevision /\ r.obs <= 2 * r.rev
        /\ r.verified <=> r.status = "COMPLETED"
        /\ \A n \in 1..r.obs : events[n] # "none"
        /\ r.arts \subseteq objects
        /\ r.lease \in LeaseIds /\ leases[r.lease] # NoLease

(* Leases are taken in order and are never taken back.                     *)
LeasesOK ==
    \A l \in LeaseIds :
        /\ leases[l].state = "NONE" => leases[l] = NoLease
        /\ leases[l] # NoLease =>
               leases[l].rev >= 1 /\ \A k \in 1..l - 1 : leases[k] # NoLease

(* Which operations may be where.                                          *)
Whereabouts(c) ==
    /\ stage[c] = "none" <=> op[c] = "none"
    /\ op[c] \in {"none", "create"} <=> snap[c] = NoTask
    /\ stage[c] = "gate" => op[c] \in {"execute", "pause", "resume", "cancel"}
    /\ stage[c] = "authority" => op[c] \in {"create", "execute", "pause", "resume"}
    /\ stage[c] = "acquire" => op[c] \in {"create", "replace"}
    /\ stage[c] \in {"end_get", "end_put"} => op[c] \in {"create", "cancel", "complete", "replace"}
    /\ stage[c] \in {"object", "body_event"} => op[c] = "execute"
    /\ stage[c] = "object" => content[c] \in Contents

(* What the snapshot says of the task allows what the call is about.       *)
Allowed(c) ==
    /\ op[c] = "pause" => snap[c].status = "RUNNING"
    /\ op[c] = "resume" => snap[c].status = "PAUSED"
    /\ op[c] \in {"cancel", "complete", "checkpoint"} => snap[c].status \in {"RUNNING", "PAUSED"}
    /\ stage[c] \in {"gate", "authority", "object", "body_event"} /\ op[c] = "execute"
          => snap[c].status = "RUNNING"

(* The event a call is going to record is its own operation's.             *)
MarkOK(c) ==
    /\ mark[c] = "created" <=> op[c] = "create"
    /\ mark[c] \in {"executed", "captured", "emitted"} =>
           op[c] = "execute" /\ snap[c].status = "RUNNING"
    /\ mark[c] = "denied" => op[c] = "execute"
    /\ mark[c] = "paused" => op[c] = "pause"
    /\ mark[c] = "resumed" => op[c] = "resume"
    /\ mark[c] = "cancelled" => op[c] = "cancel"
    /\ mark[c] = "reported" => op[c] = "report"
    /\ mark[c] = "completed" => op[c] = "complete"
    /\ mark[c] = "replaced" => op[c] = "replace"
    /\ mark[c] = "checkpoint" => op[c] = "checkpoint"
    /\ mark[c] \notin {"none", "body"}
    /\ mark[c] = "captured" => content[c] \in Contents \cap objects
    /\ mark[c] \in {"created", "replaced"} =>
           got[c] \in LeaseIds /\ leases[got[c]] # NoLease /\ got[c] > snap[c].lease
    /\ mark[c] = "emitted" => events[snap[c].obs + 1] # "none"

(* The lease it ended, or tried to end, over the revision it read.         *)
EndOK(c) ==
    /\ stage[c] \in {"end_get", "end_put"} =>
           Target(c) \in LeaseIds /\ leases[Target(c)] # NoLease
    /\ stage[c] = "end_put" => heldRev[c] \in 1..leases[Target(c)].rev
    /\ stage[c] \in {"event", "put"} /\ mark[c] \in {"cancelled", "completed"} =>
           \/ ~Active(snap[c].lease)
           \/ heldRev[c] # 0 /\ leases[snap[c].lease].rev > heldRev[c]

CallOK(c) ==
    /\ RecordOK(snap[c]) /\ snap[c].rev < MaxRevision
    /\ Whereabouts(c) /\ Allowed(c) /\ EndOK(c)
    /\ stage[c] \in {"event", "put"} => MarkOK(c)
    /\ stage[c] = "put" => events[EventId(c)] # "none"

FabricInv ==
    /\ FabricTypeOK
    /\ RecordOK(record) /\ LeasesOK
    /\ \A c \in Clients : CallOK(c)

(* One creation at a time: a snapshot of the stored revision is the stored *)
(* record, and a creation has the task to itself.                          *)
LineInv ==
    /\ \A c \in Clients :
          /\ snap[c].rev <= record.rev
          /\ snap[c].rev = record.rev => snap[c] = record
          /\ op[c] = "create" => record = NoTask
    /\ \A c, d \in Clients : op[c] = "create" /\ op[d] = "create" => c = d

-----------------------------------------------------------------------------
(* Steps.  A call either passes on to another await, goes to the           *)
(* observation boundary, or returns; what differs is left to each action.  *)

Call(c) == Begin(c) \/ Proceed(c) \/ Fail(c)

StoresOK ==
    /\ record \in TaskRecords
    /\ events \in [EventIds -> {"none", "transition", "attempt"}]
    /\ objects \subseteq Contents
    /\ leases \in [LeaseIds -> [state : {"NONE", "ACTIVE", "ENDED"}, rev : Nat]]

LocalsOK ==
    /\ snap \in [Clients -> TaskRecords]
    /\ stage \in [Clients -> Stages] /\ op \in [Clients -> Ops]
    /\ mark \in [Clients -> Marks \cup {"none"}]
    /\ content \in [Clients -> Contents \cup {"none"}]
    /\ got \in [Clients -> {0} \cup LeaseIds] /\ heldRev \in [Clients -> Nat]

(* Every other call is where it was, with what it had.                     *)
OthersWait(c) ==
    \A d \in Clients \ {c} :
        /\ stage'[d] = stage[d] /\ op'[d] = op[d] /\ snap'[d] = snap[d]
        /\ mark'[d] = mark[d] /\ content'[d] = content[d]
        /\ got'[d] = got[d] /\ heldRev'[d] = heldRev[d]

LEMMA TwoHalves == FabricTypeOK <=> StoresOK /\ LocalsOK
BY DEF FabricTypeOK, StoresOK, LocalsOK

LEMMA NoTaskIsTyped == NoTask \in TaskRecords /\ NoTask.rev = 0 /\ NoTask.lease = 0
BY DEF NoTask, TaskRecords

LEMMA OverType ==
    ASSUME LocalsOK, NEW c \in Clients, Over(c)
    PROVE  LocalsOK' /\ OthersWait(c)
BY NoTaskIsTyped DEF Over, Goto, LocalsOK, OthersWait, Stages, Ops

LEMMA ToStageType ==
    ASSUME LocalsOK, NEW c \in Clients, NEW s \in Stages, ToStage(c, s)
    PROVE  LocalsOK' /\ OthersWait(c)
BY DEF ToStage, Goto, LocalsOK, OthersWait

LEMMA ObserveType ==
    ASSUME LocalsOK, NEW c \in Clients, NEW m \in Marks, Observe(c, m)
    PROVE  LocalsOK' /\ OthersWait(c)
BY DEF Observe, Goto, LocalsOK, OthersWait, Stages

LEMMA ReadType ==
    ASSUME FabricTypeOK, NEW c \in Clients, NEW o \in Ops, NEW s \in Stages,
           NEW m \in Marks \cup {"none"}, Read(c, o, s, m)
    PROVE  LocalsOK' /\ OthersWait(c)
BY DEF Read, Goto, FabricTypeOK, LocalsOK, OthersWait

LEMMA AfterEndType ==
    ASSUME LocalsOK, NEW c \in Clients, NEW e \in BOOLEAN, AfterEnd(c, e)
    PROVE  LocalsOK' /\ OthersWait(c)
<1>1. CASE Over(c)
  BY <1>1, OverType
<1>2. CASE Observe(c, "cancelled") \/ Observe(c, "completed")
  BY <1>2, ObserveType DEF Marks
<1>3. CASE ToStage(c, "acquire")
  BY <1>3, ToStageType DEF Stages
<1> QED BY <1>1, <1>2, <1>3 DEF AfterEnd

LEMMA BeginType ==
    ASSUME FabricTypeOK, NEW c \in Clients, Begin(c)
    PROVE  LocalsOK' /\ OthersWait(c) /\ UNCHANGED stores
<1>1. \E o \in Ops, s \in Stages, m \in Marks \cup {"none"} : Read(c, o, s, m)
  BY DEF Begin, BeginCreate, BeginExecute, BeginPause, BeginResume, BeginCancel, BeginReport,
         BeginComplete, BeginReplace, BeginCheckpoint, Ops, Stages, Marks
<1>2. PICK o \in Ops, s \in Stages, m \in Marks \cup {"none"} : Read(c, o, s, m)
  BY <1>1
<1> QED BY <1>2, ReadType DEF Read

LEMMA UpdatedIsTyped ==
    ASSUME FabricInv, NEW c \in Clients, stage[c] = "put"
    PROVE  Updated(c) \in TaskRecords /\ EventId(c) \in Nat
<1> DEFINE s == snap[c]
<1>1. s \in TaskRecords /\ CallOK(c) /\ mark[c] \in Marks \cup {"none"}
  BY DEF FabricInv, FabricTypeOK
<1>2. /\ s.status \in {"NONE", "RUNNING", "PAUSED", "CANCELLED", "COMPLETED"}
      /\ s.lease \in {0} \cup LeaseIds /\ s.obs \in Nat /\ s.cps \in Nat
      /\ s.arts \subseteq Contents /\ s.verified \in BOOLEAN /\ s.rev \in Nat
  BY <1>1 DEF TaskRecords
<1>3. StatusAfter(mark[c], s.status)
         \in {"NONE", "RUNNING", "PAUSED", "CANCELLED", "COMPLETED"}
  BY <1>1, <1>2 DEF StatusAfter, Marks
<1>4. mark[c] \in {"created", "replaced"} => got[c] \in LeaseIds
  BY <1>1 DEF CallOK, MarkOK
<1>5. mark[c] = "captured" => content[c] \in Contents
  BY <1>1 DEF CallOK, MarkOK
<1>6. EventId(c) \in Nat
  BY <1>2 DEF EventId
<1>7. (s.verified \/ mark[c] = "completed") \in BOOLEAN
  BY Zenon
<1> QED BY <1>2, <1>3, <1>4, <1>5, <1>6, <1>7 DEF Updated, TaskRecords

LEMMA ProceedType ==
    ASSUME FabricInv, NEW c \in Clients, Proceed(c) \/ Fail(c)
    PROVE  LocalsOK' /\ OthersWait(c)
<1>1. LocalsOK /\ FabricTypeOK
  BY TwoHalves DEF FabricInv
<1>2. CASE Over(c)
  BY <1>1, <1>2, OverType
<1>3. CASE \E s \in Stages : ToStage(c, s)
  BY <1>1, <1>3, ToStageType
<1>4. CASE \E m \in Marks : Observe(c, m)
  BY <1>1, <1>4, ObserveType
<1>5. CASE \E e \in BOOLEAN : AfterEnd(c, e)
  BY <1>1, <1>5, AfterEndType
<1> USE DEF Stages, Marks
<1>6. CASE LeaseGate(c)
  BY <1>6, <1>2, <1>3, <1>4 DEF LeaseGate
<1>7. CASE AuthorityGate(c)
  <2>1. CASE Goto(c, "object") /\ (\E x \in Contents : content' = [content EXCEPT ![c] = x])
             /\ UNCHANGED <<op, snap, mark, got, heldRev>>
    BY <1>1, <2>1 DEF Goto, LocalsOK, OthersWait
  <2> QED BY <1>7, <2>1, <1>2, <1>3, <1>4 DEF AuthorityGate, Dispatched
<1>8. CASE EndGet(c)
  <2>1. CASE Active(Target(c))
    <3>1. leases[Target(c)].rev \in Nat
      BY <1>1, <1>8 DEF EndGet, EndOK, CallOK, FabricInv, FabricTypeOK
    <3>2. CASE AfterEnd(c, TRUE)
      BY <3>2, <1>5
    <3>3. CASE ~AfterEnd(c, TRUE)
      BY <1>1, <1>8, <3>1, <3>3 DEF EndGet, Goto, LocalsOK, OthersWait
    <3> QED BY <3>2, <3>3
  <2>2. CASE ~Active(Target(c))
    BY <1>8, <2>2, <1>5 DEF EndGet
  <2> QED BY <2>1, <2>2
<1>9. CASE EndPut(c)
  BY <1>9, <1>5 DEF EndPut
<1>10. CASE Acquire(c)
  BY <1>1, <1>10 DEF Acquire, Goto, LocalsOK, OthersWait
<1>11. CASE PutObject(c) \/ IngestBody(c)
  BY <1>11, <1>4 DEF PutObject, IngestBody
<1>12. CASE IngestEvent(c)
  BY <1>12, <1>3 DEF IngestEvent
<1>13. CASE PutTask(c) \/ PutCreated(c) \/ Fail(c)
  BY <1>13, <1>2, <1>3 DEF PutTask, PutCreated, Fail
<1> QED BY <1>6, <1>7, <1>8, <1>9, <1>10, <1>11, <1>12, <1>13 DEF Proceed

(* What nothing takes back: stored events, objects and leases; an ended    *)
(* lease stays ended, and the revisions of a lease only grow.              *)
Grows ==
    /\ \A n \in EventIds : events[n] # "none" => events'[n] # "none"
    /\ objects \subseteq objects'
    /\ \A l \in LeaseIds :
          leases[l] # NoLease =>
              /\ leases'[l] # NoLease /\ leases'[l].rev >= leases[l].rev
              /\ leases'[l].state = "ACTIVE" => leases[l].state = "ACTIVE"

(* The three things a step may do to the leases.                           *)
EndsLease(l) ==
    leases[l] # NoLease /\ leases' = [leases EXCEPT ![l] = [state |-> "ENDED", rev |-> @.rev + 1]]

TakesLease(l) ==
    /\ leases[l] = NoLease /\ \A k \in 1..l - 1 : leases[k] # NoLease
    /\ leases' = [leases EXCEPT ![l] = [state |-> "ACTIVE", rev |-> 1]]

RenewsLease(l) == Active(l) /\ leases' = [leases EXCEPT ![l].rev = @ + 1]

LEMMA LeaseSteps ==
    ASSUME StoresOK, LeasesOK,
           \/ \E l \in LeaseIds : EndsLease(l) \/ TakesLease(l) \/ RenewsLease(l)
           \/ UNCHANGED leases
    PROVE  /\ leases' \in [LeaseIds -> [state : {"NONE", "ACTIVE", "ENDED"}, rev : Nat]]
           /\ LeasesOK'
           /\ \A l \in LeaseIds :
                 leases[l] # NoLease =>
                     /\ leases'[l] # NoLease /\ leases'[l].rev >= leases[l].rev
                     /\ leases'[l].state = "ACTIVE" => leases[l].state = "ACTIVE"
<1> USE DEF StoresOK, NoLease
<1>1. ASSUME NEW l \in LeaseIds, EndsLease(l)
      PROVE  /\ leases' \in [LeaseIds -> [state : {"NONE", "ACTIVE", "ENDED"}, rev : Nat]]
             /\ leases'[l].rev = leases[l].rev + 1 /\ leases'[l].state = "ENDED"
             /\ \A k \in LeaseIds \ {l} : leases'[k] = leases[k]
             /\ leases[l] # NoLease
  BY <1>1 DEF EndsLease, Active
<1>2. ASSUME NEW l \in LeaseIds, RenewsLease(l)
      PROVE  /\ leases' \in [LeaseIds -> [state : {"NONE", "ACTIVE", "ENDED"}, rev : Nat]]
             /\ leases'[l].rev = leases[l].rev + 1 /\ leases'[l].state = "ACTIVE"
             /\ \A k \in LeaseIds \ {l} : leases'[k] = leases[k]
             /\ leases[l] # NoLease /\ leases[l].state = "ACTIVE"
  BY <1>2 DEF RenewsLease, Active
<1>3. ASSUME NEW l \in LeaseIds, TakesLease(l)
      PROVE  /\ leases' \in [LeaseIds -> [state : {"NONE", "ACTIVE", "ENDED"}, rev : Nat]]
             /\ leases'[l].rev = 1 /\ leases'[l].state = "ACTIVE"
             /\ \A k \in LeaseIds \ {l} : leases'[k] = leases[k]
             /\ leases[l] = NoLease
             /\ \A k \in 1..l - 1 : leases[k] # NoLease
  BY <1>3 DEF TakesLease
<1>4. ASSUME NEW l \in LeaseIds, NEW k \in 1..l - 1
      PROVE  k \in LeaseIds /\ k # l
  BY DEF LeaseIds
<1>5. CASE \E l \in LeaseIds : EndsLease(l) \/ RenewsLease(l)
  BY <1>1, <1>2, <1>4, <1>5 DEF LeasesOK
<1>6. CASE \E l \in LeaseIds : TakesLease(l)
  BY <1>3, <1>4, <1>6 DEF LeasesOK
<1>7. CASE UNCHANGED leases
  BY <1>7 DEF LeasesOK
<1> QED BY <1>5, <1>6, <1>7

LEMMA StepLeases ==
    ASSUME FabricInv, Next
    PROVE  \/ \E l \in LeaseIds : EndsLease(l) \/ TakesLease(l) \/ RenewsLease(l)
           \/ UNCHANGED leases
<1>1. CASE \E l \in LeaseIds : EndElsewhere(l) \/ RenewElsewhere(l)
  BY <1>1 DEF EndElsewhere, RenewElsewhere, EndsLease, RenewsLease, Active, NoLease
<1>2. CASE \E c \in Clients : Begin(c)
  BY <1>2, BeginType DEF FabricInv, stores
<1>3. CASE \E c \in Clients : EndPut(c)
  <2>1. PICK c \in Clients : EndPut(c)
    BY <1>3
  <2>2. Target(c) \in LeaseIds /\ leases[Target(c)] # NoLease
    BY <2>1 DEF EndPut, FabricInv, CallOK, EndOK
  <2> QED BY <2>1, <2>2 DEF EndPut, EndsLease
<1>4. CASE \E c \in Clients : Acquire(c)
  BY <1>4 DEF Acquire, TakesLease
<1>5. CASE \E c \in Clients : LeaseGate(c) \/ AuthorityGate(c) \/ EndGet(c) \/ PutObject(c)
             \/ IngestBody(c) \/ IngestEvent(c) \/ PutTask(c) \/ PutCreated(c) \/ Fail(c)
  BY <1>5 DEF LeaseGate, AuthorityGate, EndGet, PutObject, IngestBody, IngestEvent, PutTask,
              PutCreated, Fail, stores
<1> QED BY <1>1, <1>2, <1>3, <1>4, <1>5 DEF Next, Proceed

LEMMA StepEvents ==
    ASSUME FabricInv, Next
    PROVE  \/ UNCHANGED events
           \/ \E c \in Clients, n \in EventIds :
                 /\ \/ IngestBody(c) /\ n = snap[c].obs + 1
                    \/ IngestEvent(c) /\ n = EventId(c)
                 /\ \E e \in {"transition", "attempt"} :
                       events' = [events EXCEPT ![n] = IF @ = "none" THEN e ELSE @]
<1>1. CASE \E l \in LeaseIds : EndElsewhere(l) \/ RenewElsewhere(l)
  BY <1>1 DEF EndElsewhere, RenewElsewhere
<1>2. CASE \E c \in Clients : Begin(c)
  BY <1>2, BeginType DEF FabricInv, stores
<1>3. ASSUME NEW c \in Clients
      PROVE  /\ snap[c].obs + 1 \in EventIds
             /\ stage[c] = "event" => EventId(c) \in EventIds
  <2>1. snap[c].obs \in Nat /\ snap[c].rev \in Nat /\ snap[c].rev + 1 <= MaxRevision
    BY DEF FabricInv, FabricTypeOK, CallOK, TaskRecords
  <2>2. snap[c].obs <= 2 * snap[c].rev
    BY DEF FabricInv, CallOK, RecordOK, NoTask
  <2> QED BY <2>1, <2>2 DEF EventIds, EventId
<1>4. ASSUME NEW m PROVE EventOf(m) \in {"transition", "attempt"}
  BY DEF EventOf
<1>5. CASE \E c \in Clients : IngestBody(c)
  BY <1>3, <1>4, <1>5 DEF IngestBody, Ingest
<1>6. CASE \E c \in Clients : IngestEvent(c)
  BY <1>3, <1>4, <1>6 DEF IngestEvent, Ingest
<1>7. CASE \E c \in Clients : LeaseGate(c) \/ AuthorityGate(c) \/ EndGet(c) \/ EndPut(c)
             \/ Acquire(c) \/ PutObject(c) \/ PutTask(c) \/ PutCreated(c) \/ Fail(c)
  BY <1>7 DEF LeaseGate, AuthorityGate, EndGet, EndPut, Acquire, PutObject, PutTask,
              PutCreated, Fail, stores
<1> QED BY <1>1, <1>2, <1>5, <1>6, <1>7 DEF Next, Proceed

LEMMA StepRecord ==
    ASSUME FabricInv, Next
    PROVE  \/ UNCHANGED record
           \/ \E c \in Clients :
                 (PutTask(c) \/ PutCreated(c)) /\ stage[c] = "put" /\ record' = Updated(c)
<1>1. CASE \E l \in LeaseIds : EndElsewhere(l) \/ RenewElsewhere(l)
  BY <1>1 DEF EndElsewhere, RenewElsewhere
<1>2. CASE \E c \in Clients : Begin(c)
  BY <1>2, BeginType DEF FabricInv, stores
<1>3. CASE \E c \in Clients : PutTask(c) \/ PutCreated(c)
  BY <1>3 DEF PutTask, PutCreated
<1>4. CASE \E c \in Clients : LeaseGate(c) \/ AuthorityGate(c) \/ EndGet(c) \/ EndPut(c)
             \/ Acquire(c) \/ PutObject(c) \/ IngestBody(c) \/ IngestEvent(c) \/ Fail(c)
  BY <1>4 DEF LeaseGate, AuthorityGate, EndGet, EndPut, Acquire, PutObject, IngestBody,
              IngestEvent, Fail, stores
<1> QED BY <1>1, <1>2, <1>3, <1>4 DEF Next, Proceed

LEMMA StepObjects ==
    ASSUME FabricInv, Next
    PROVE  objects \subseteq objects' /\ objects' \subseteq Contents
<1>0. objects \subseteq Contents
  BY DEF FabricInv, FabricTypeOK
<1>1. CASE \E l \in LeaseIds : EndElsewhere(l) \/ RenewElsewhere(l)
  BY <1>0, <1>1 DEF EndElsewhere, RenewElsewhere
<1>2. CASE \E c \in Clients : Begin(c)
  BY <1>0, <1>2, BeginType DEF FabricInv, stores
<1>3. CASE \E c \in Clients : PutObject(c)
  BY <1>0, <1>3 DEF PutObject, FabricInv, CallOK, Whereabouts
<1>4. CASE \E c \in Clients : LeaseGate(c) \/ AuthorityGate(c) \/ EndGet(c) \/ EndPut(c)
             \/ Acquire(c) \/ IngestBody(c) \/ IngestEvent(c) \/ PutTask(c) \/ PutCreated(c)
             \/ Fail(c)
  BY <1>0, <1>4 DEF LeaseGate, AuthorityGate, EndGet, EndPut, Acquire, IngestBody, IngestEvent,
              PutTask, PutCreated, Fail, stores
<1> QED BY <1>1, <1>2, <1>3, <1>4 DEF Next, Proceed

LEMMA NothingIsTakenBack ==
    ASSUME FabricInv, Next
    PROVE  Grows /\ LeasesOK'
<1>1. StoresOK /\ LeasesOK
  BY TwoHalves DEF FabricInv
<1>2. \A n \in EventIds : events[n] # "none" => events'[n] # "none"
  BY <1>1, StepEvents DEF StoresOK
<1> QED BY <1>1, <1>2, StepLeases, LeaseSteps, StepObjects DEF Grows

LEMMA StepTypes ==
    ASSUME FabricInv, Next
    PROVE  FabricTypeOK'
<1>1. StoresOK /\ LeasesOK /\ LocalsOK /\ FabricTypeOK
  BY TwoHalves DEF FabricInv
<1>2. LocalsOK'
  <2>1. CASE \E l \in LeaseIds : EndElsewhere(l) \/ RenewElsewhere(l)
    BY <1>1, <2>1 DEF EndElsewhere, RenewElsewhere, locals, LocalsOK
  <2>2. CASE \E c \in Clients : Begin(c)
    BY <1>1, <2>2, BeginType
  <2>3. CASE \E c \in Clients : Proceed(c) \/ Fail(c)
    BY <2>3, ProceedType
  <2> QED BY <2>1, <2>2, <2>3 DEF Next
<1>3. record' \in TaskRecords
  BY <1>1, StepRecord, UpdatedIsTyped DEF StoresOK
<1>4. events' \in [EventIds -> {"none", "transition", "attempt"}]
  BY <1>1, StepEvents DEF StoresOK
<1>5. leases' \in [LeaseIds -> [state : {"NONE", "ACTIVE", "ENDED"}, rev : Nat]]
  BY <1>1, StepLeases, LeaseSteps
<1> QED BY <1>2, <1>3, <1>4, <1>5, StepObjects, TwoHalves DEF StoresOK, FabricTypeOK, LocalsOK

-----------------------------------------------------------------------------
(* The invariant.                                                          *)

(* A record that was in order stays in order, stored or only remembered.   *)
LEMMA RecordsStayOK ==
    ASSUME FabricInv, Grows, NEW r \in TaskRecords, RecordOK(r)
    PROVE  RecordOK(r)'
<1>1. ASSUME r # NoTask, NEW n \in 1..r.obs
      PROVE  n \in EventIds
  BY <1>1 DEF RecordOK, EventIds, TaskRecords
<1> QED BY <1>1 DEF RecordOK, Grows

LEMMA EventIdsInRange ==
    ASSUME FabricInv, NEW c \in Clients
    PROVE  /\ snap[c].obs \in Nat /\ snap[c].obs + 1 \in EventIds
           /\ snap[c].obs + 1 <= 2 * (snap[c].rev + 1)
           /\ EventId(c) \in EventIds /\ EventId(c) <= 2 * (snap[c].rev + 1)
<1>1. snap[c].obs \in Nat /\ snap[c].rev \in Nat /\ snap[c].rev + 1 <= MaxRevision
  BY DEF FabricInv, FabricTypeOK, CallOK, TaskRecords
<1>2. snap[c].obs <= 2 * snap[c].rev
  BY DEF FabricInv, CallOK, RecordOK, NoTask
<1> QED BY <1>1, <1>2 DEF EventIds, EventId

LEMMA OthersStayOK ==
    ASSUME FabricInv, Next, Grows, NEW d \in Clients,
           stage'[d] = stage[d], op'[d] = op[d], snap'[d] = snap[d], mark'[d] = mark[d],
           content'[d] = content[d], got'[d] = got[d], heldRev'[d] = heldRev[d]
    PROVE  CallOK(d)'
<1>1. CallOK(d) /\ snap[d] \in TaskRecords
  BY DEF FabricInv, FabricTypeOK
<1>2. RecordOK(snap[d])'
  BY <1>1, RecordsStayOK DEF CallOK, RecordOK
<1>3. Whereabouts(d)' /\ Allowed(d)'
  BY <1>1 DEF CallOK, Whereabouts, Allowed
<1>4. Target(d)' = Target(d)
  BY DEF Target
<1>5. EndOK(d)'
  <2>1. /\ leases \in [LeaseIds -> [state : {"NONE", "ACTIVE", "ENDED"}, rev : Nat]]
        /\ leases' \in [LeaseIds -> [state : {"NONE", "ACTIVE", "ENDED"}, rev : Nat]]
        /\ heldRev[d] \in Nat
    BY StepTypes DEF FabricInv, FabricTypeOK
  <2>2. ASSUME stage[d] \in {"end_get", "end_put"}
        PROVE  Target(d) \in LeaseIds /\ leases'[Target(d)] # NoLease
    BY <1>1, <2>2 DEF CallOK, EndOK, Grows
  <2>3. ASSUME stage[d] = "end_put"
        PROVE  heldRev[d] \in 1..leases'[Target(d)].rev
    BY <1>1, <2>1, <2>3 DEF CallOK, EndOK, Grows
  <2>4. ASSUME stage[d] \in {"event", "put"}, mark[d] \in {"cancelled", "completed"}
        PROVE  \/ leases'[snap[d].lease].state # "ACTIVE"
               \/ heldRev[d] # 0 /\ leases'[snap[d].lease].rev > heldRev[d]
    <3>1. snap[d] # NoTask
      BY <1>1, <2>4 DEF CallOK, Whereabouts, MarkOK
    <3>2. snap[d].lease \in LeaseIds /\ leases[snap[d].lease] # NoLease
      BY <1>1, <3>1 DEF CallOK, RecordOK
    <3> QED BY <1>1, <2>1, <2>4, <3>2 DEF CallOK, EndOK, Active, Grows
  <2> QED BY <1>4, <2>2, <2>3, <2>4 DEF EndOK, Active
<1>6. stage[d] \in {"event", "put"} => MarkOK(d)'
  BY <1>1, EventIdsInRange DEF CallOK, MarkOK, Grows
<1>7. EventId(d)' = EventId(d)
  BY DEF EventId
<1>8. stage[d] = "put" => events'[EventId(d)] # "none"
  BY <1>1, EventIdsInRange DEF CallOK, Grows
<1> QED BY <1>1, <1>2, <1>3, <1>5, <1>6, <1>7, <1>8 DEF CallOK

(* What a call is about to store is in order: its event is already there.  *)
LEMMA UpdatedIsOK ==
    ASSUME FabricInv, NEW c \in Clients, stage[c] = "put"
    PROVE  RecordOK(Updated(c))
<1> DEFINE s == snap[c]
<1>1. s \in TaskRecords /\ CallOK(c) /\ Updated(c) \in TaskRecords
  BY UpdatedIsTyped DEF FabricInv, FabricTypeOK
<1>2. s.rev \in Nat /\ s.obs \in Nat /\ s.rev + 1 <= MaxRevision /\ s.arts \subseteq Contents
  BY <1>1 DEF CallOK, TaskRecords
<1>3. MarkOK(c) /\ events[EventId(c)] # "none"
  BY <1>1 DEF CallOK
<1>4. s = NoTask <=> mark[c] = "created"
  BY <1>1, <1>3 DEF CallOK, Whereabouts, MarkOK
<1>5. Updated(c).status # "NONE"
  BY <1>1, <1>4 DEF Updated, StatusAfter, CallOK, RecordOK
<1>11. Updated(c).verified <=> Updated(c).status = "COMPLETED"
  <2>1. mark[c] \in {"paused", "resumed", "cancelled"} => s.status \in {"RUNNING", "PAUSED"}
    BY <1>1, <1>3 DEF CallOK, Allowed, MarkOK
  <2>2. s.verified <=> s.status = "COMPLETED"
    BY <1>1 DEF CallOK, RecordOK, NoTask
  <2>3. Updated(c).verified <=> s.verified \/ mark[c] = "completed"
    BY DEF Updated
  <2>4. Updated(c).status = StatusAfter(mark[c], s.status)
    BY DEF Updated
  <2> QED BY <1>1, <1>4, <2>1, <2>2, <2>3, <2>4 DEF StatusAfter, NoTask
<1>6. Updated(c).rev = s.rev + 1 /\ Updated(c).obs = EventId(c)
  BY DEF Updated
<1>7. Updated(c).rev \in 1..MaxRevision /\ Updated(c).obs <= 2 * Updated(c).rev
  BY <1>2, <1>6, EventIdsInRange
<1>8. ASSUME NEW n \in 1..EventId(c)
      PROVE  events[n] # "none"
  <2>1. n \in 1..s.obs \/ n = EventId(c) \/ (mark[c] = "emitted" /\ n = s.obs + 1)
    BY <1>2, <1>8 DEF EventId
  <2>2. n \in 1..s.obs => events[n] # "none"
    BY <1>1, <1>2 DEF CallOK, RecordOK, NoTask
  <2> QED BY <2>1, <2>2, <1>3 DEF MarkOK
<1>9. Updated(c).arts \subseteq objects
  <2>1. s.arts \subseteq objects
    BY <1>1 DEF CallOK, RecordOK, NoTask
  <2> QED BY <2>1, <1>3 DEF Updated, MarkOK
<1>10. Updated(c).lease \in LeaseIds /\ leases[Updated(c).lease] # NoLease
  <2>1. CASE mark[c] \in {"created", "replaced"}
    BY <2>1, <1>3 DEF Updated, MarkOK
  <2>2. CASE mark[c] \notin {"created", "replaced"}
    BY <2>2, <1>1, <1>4 DEF Updated, CallOK, RecordOK
  <2> QED BY <2>1, <2>2
<1> QED BY <1>5, <1>6, <1>7, <1>8, <1>9, <1>10, <1>11 DEF RecordOK

LEMMA RecordStaysOK ==
    ASSUME FabricInv, Next, Grows
    PROVE  RecordOK(record)'
<1>1. CASE UNCHANGED record
  BY <1>1, RecordsStayOK DEF FabricInv, FabricTypeOK, RecordOK
<1>2. ASSUME NEW c \in Clients, stage[c] = "put", record' = Updated(c)
      PROVE  RecordOK(record)'
  <2>1. Updated(c) \in TaskRecords /\ RecordOK(Updated(c))
    BY <1>2, UpdatedIsTyped, UpdatedIsOK
  <2> QED BY <1>2, <2>1, RecordsStayOK DEF RecordOK
<1> QED BY <1>1, <1>2, StepRecord

LEMMA OverOK ==
    ASSUME FabricTypeOK, NEW c \in Clients, Over(c)
    PROVE  CallOK(c)'
<1>1. /\ stage'[c] = "none" /\ op'[c] = "none" /\ snap'[c] = NoTask
  BY DEF Over, Goto, FabricTypeOK
<1> QED BY <1>1, NoTaskIsTyped
        DEF CallOK, RecordOK, Whereabouts, Allowed, EndOK

LEMMA BeginOK ==
    ASSUME FabricInv, NEW c \in Clients, Begin(c)
    PROVE  CallOK(c)'
<1>1. UNCHANGED stores /\ LocalsOK'
  BY BeginType DEF FabricInv
<1> USE DEF FabricInv, FabricTypeOK
<1>2. ASSUME NEW o \in Ops \ {"none"}, NEW s \in Stages \ {"none"}, NEW m \in Marks \cup {"none"},
             Read(c, o, s, m)
      PROVE  /\ stage'[c] = s /\ op'[c] = o /\ mark'[c] = m /\ snap'[c] = record
             /\ RecordOK(snap[c])' /\ snap'[c].rev < MaxRevision
  BY <1>1, <1>2 DEF Read, Goto, RecordOK, stores
<1> USE DEF Ops, Stages, Marks
<1>3. ASSUME NEW o \in {"execute", "pause", "resume", "cancel"}, Read(c, o, "gate", "none"),
             record # NoTask,
             o \in {"execute", "pause"} => record.status = "RUNNING",
             o = "resume" => record.status = "PAUSED",
             o = "cancel" => Open
      PROVE  CallOK(c)'
  BY <1>2, <1>3 DEF CallOK, Whereabouts, Allowed, EndOK, Open
<1>4. CASE BeginCreate(c)
  BY <1>2, <1>4 DEF BeginCreate, CallOK, Whereabouts, Allowed, EndOK
<1>5. CASE record # NoTask /\ Read(c, "execute", "event", "denied")
  BY <1>2, <1>5 DEF CallOK, Whereabouts, Allowed, EndOK, MarkOK
<1>6. CASE BeginReport(c)
  BY <1>2, <1>6 DEF BeginReport, CallOK, Whereabouts, Allowed, EndOK, MarkOK
<1>7. CASE BeginCheckpoint(c)
  BY <1>2, <1>7 DEF BeginCheckpoint, Open, NoTask, CallOK, Whereabouts, Allowed, EndOK, MarkOK
<1>8. CASE BeginComplete(c) \/ BeginReplace(c)
  <2>1. record # NoTask /\ RecordOK(record) /\ UNCHANGED leases
    BY <1>1, <1>8 DEF BeginComplete, BeginReplace, Open, NoTask, stores
  <2>2. record.lease \in LeaseIds /\ leases'[record.lease] # NoLease
    BY <2>1 DEF RecordOK
  <2>3. CASE Read(c, "complete", "end_get", "none") /\ Open
    BY <1>2, <2>1, <2>2, <2>3 DEF Open, CallOK, Whereabouts, Allowed, EndOK, Target
  <2>4. CASE Read(c, "replace", "end_get", "none")
    BY <1>2, <2>1, <2>2, <2>4 DEF CallOK, Whereabouts, Allowed, EndOK, Target
  <2> QED BY <1>8, <2>3, <2>4 DEF BeginComplete, BeginReplace
<1>9. CASE \/ BeginExecute(c) /\ record.status = "RUNNING" /\ Read(c, "execute", "gate", "none")
           \/ BeginPause(c) \/ BeginResume(c) \/ BeginCancel(c)
  <2>1. record # NoTask
    BY <1>9 DEF BeginExecute, BeginPause, BeginResume, BeginCancel, Open, NoTask
  <2> QED BY <1>3, <1>9, <2>1 DEF BeginExecute, BeginPause, BeginResume, BeginCancel, Open
<1> QED BY <1>4, <1>5, <1>6, <1>7, <1>8, <1>9 DEF Begin, BeginExecute

LEMMA ToStageOK ==
    ASSUME FabricInv, Next, Grows, NEW c \in Clients,
           NEW s \in {"authority", "acquire", "body_event", "end_get"}, ToStage(c, s),
           stage[c] # "none",
           s = "authority" => op[c] \in {"create", "execute", "pause", "resume"},
           s = "acquire" => op[c] \in {"create", "replace"},
           s = "end_get" => /\ op[c] \in {"create", "cancel", "complete", "replace"}
                            /\ Target(c) \in LeaseIds /\ leases[Target(c)] # NoLease,
           s = "body_event" => op[c] = "execute",
           s \in {"authority", "body_event"} /\ op[c] = "execute" => snap[c].status = "RUNNING"
    PROVE  CallOK(c)'
<1>1. /\ stage'[c] = s /\ op'[c] = op[c] /\ snap'[c] = snap[c] /\ mark'[c] = mark[c]
      /\ content'[c] = content[c] /\ got'[c] = got[c] /\ heldRev'[c] = heldRev[c]
  BY DEF ToStage, Goto, FabricInv, FabricTypeOK
<1>2. CallOK(c) /\ snap[c] \in TaskRecords
  BY DEF FabricInv, FabricTypeOK
<1>3. RecordOK(snap[c])'
  BY <1>1, <1>2, RecordsStayOK DEF CallOK, RecordOK
<1>4. Whereabouts(c)' /\ Allowed(c)'
  BY <1>1, <1>2 DEF CallOK, Whereabouts, Allowed
<1>5. Target(c)' = Target(c)
  BY <1>1 DEF Target
<1>6. EndOK(c)'
  BY <1>1, <1>5 DEF EndOK, Grows
<1> QED BY <1>1, <1>2, <1>3, <1>4, <1>6 DEF CallOK

(* What has to hold of a call about to record m.                           *)
LEMMA ObserveOK ==
    ASSUME FabricInv, Next, Grows, NEW c \in Clients, NEW m \in Marks \ {"body"}, Observe(c, m),
           stage[c] # "none",
           m = "executed" \/ m = "captured" \/ m = "emitted"
               => op[c] = "execute" /\ snap[c].status = "RUNNING",
           m = "denied" => op[c] = "execute", m = "paused" => op[c] = "pause",
           m = "resumed" => op[c] = "resume", m = "cancelled" => op[c] = "cancel",
           m = "completed" => op[c] = "complete", m \notin {"created", "replaced", "reported", "checkpoint"},
           op[c] # "create",
           m = "captured" => content[c] \in Contents \cap objects',
           m = "emitted" => events'[snap[c].obs + 1] # "none",
           m \in {"cancelled", "completed"} =>
               \/ leases'[snap[c].lease].state # "ACTIVE"
               \/ heldRev[c] # 0 /\ leases'[snap[c].lease].rev > heldRev[c]
    PROVE  CallOK(c)'
<1>1. /\ stage'[c] = "event" /\ op'[c] = op[c] /\ snap'[c] = snap[c] /\ mark'[c] = m
      /\ content'[c] = content[c] /\ got'[c] = got[c] /\ heldRev'[c] = heldRev[c]
  BY DEF Observe, Goto, FabricInv, FabricTypeOK
<1>2. CallOK(c) /\ snap[c] \in TaskRecords
  BY DEF FabricInv, FabricTypeOK
<1>3. RecordOK(snap[c])'
  BY <1>1, <1>2, RecordsStayOK DEF CallOK, RecordOK
<1>4. Whereabouts(c)' /\ Allowed(c)'
  BY <1>1, <1>2 DEF CallOK, Whereabouts, Allowed
<1>5. MarkOK(c)'
  BY <1>1 DEF MarkOK, Marks
<1>6. EndOK(c)'
  BY <1>1 DEF EndOK, Active
<1> QED BY <1>1, <1>2, <1>3, <1>4, <1>5, <1>6 DEF CallOK

LEMMA GatesOK ==
    ASSUME FabricInv, Next, Grows, NEW c \in Clients, LeaseGate(c) \/ AuthorityGate(c)
    PROVE  CallOK(c)'
<1>1. CallOK(c) /\ FabricTypeOK /\ UNCHANGED stores
  BY DEF FabricInv, LeaseGate, AuthorityGate
<1>2. Over(c) => CallOK(c)'
  BY <1>1, OverOK
<1>3. CASE LeaseGate(c)
  <2>1. stage[c] = "gate" /\ op[c] \in {"execute", "pause", "resume", "cancel"}
    BY <1>1, <1>3 DEF LeaseGate, CallOK, Whereabouts
  <2>2. op[c] = "cancel" => Target(c) \in LeaseIds /\ leases[Target(c)] # NoLease
    BY <1>1, <2>1 DEF CallOK, Whereabouts, RecordOK, Target
  <2>3. op[c] = "execute" => snap[c].status = "RUNNING"
    BY <1>1, <2>1 DEF CallOK, Allowed
  <2>4. CASE op[c] = "cancel" /\ ToStage(c, "end_get")
    BY <2>1, <2>2, <2>4, ToStageOK
  <2>5. CASE op[c] # "cancel" /\ ToStage(c, "authority")
    BY <2>1, <2>3, <2>5, ToStageOK
  <2>6. CASE op[c] = "execute" /\ Observe(c, "denied")
    BY <2>1, <2>6, ObserveOK DEF Marks
  <2>7. CASE op[c] = "pause" /\ Observe(c, "paused")
    BY <2>1, <2>7, ObserveOK DEF Marks
  <2> QED BY <1>2, <1>3, <2>4, <2>5, <2>6, <2>7 DEF LeaseGate
<1>4. CASE AuthorityGate(c)
  <2>1. stage[c] = "authority" /\ op[c] \in {"create", "execute", "pause", "resume"}
    BY <1>1, <1>4 DEF AuthorityGate, CallOK, Whereabouts
  <2>2. op[c] = "execute" => snap[c].status = "RUNNING"
    BY <1>1, <2>1 DEF CallOK, Allowed
  <2>3. CASE op[c] = "execute" /\ (Observe(c, "denied") \/ Observe(c, "executed"))
    BY <2>1, <2>2, <2>3, ObserveOK DEF Marks
  <2>4. CASE op[c] = "execute" /\ ToStage(c, "body_event")
    BY <2>1, <2>2, <2>4, ToStageOK
  <2>5. CASE /\ op[c] = "execute" /\ Goto(c, "object")
             /\ \E x \in Contents : content' = [content EXCEPT ![c] = x]
             /\ UNCHANGED <<op, snap, mark, got, heldRev>>
    <3>1. /\ stage'[c] = "object" /\ op'[c] = "execute" /\ snap'[c] = snap[c]
          /\ content'[c] \in Contents
      BY <2>5, <1>1 DEF Goto, FabricTypeOK
    <3>2. RecordOK(snap[c])'
      BY <1>1, <3>1 DEF CallOK, RecordOK, stores
    <3>3. Whereabouts(c)' /\ Allowed(c)'
      BY <1>1, <2>1, <2>2, <2>5, <3>1 DEF CallOK, Whereabouts, Allowed
    <3>4. EndOK(c)'
      BY <3>1 DEF EndOK
    <3> QED BY <1>1, <3>1, <3>2, <3>3, <3>4 DEF CallOK
  <2>6. CASE op[c] = "create" /\ ToStage(c, "acquire")
    BY <2>1, <2>6, ToStageOK
  <2>7. CASE op[c] = "pause" /\ Observe(c, "paused")
    BY <2>1, <2>7, ObserveOK DEF Marks
  <2>8. CASE op[c] = "resume" /\ Observe(c, "resumed")
    BY <2>1, <2>8, ObserveOK DEF Marks
  <2> QED BY <1>2, <1>4, <2>3, <2>4, <2>5, <2>6, <2>7, <2>8 DEF AuthorityGate, Dispatched
<1> QED BY <1>3, <1>4

(* The end of a lease: what the call is told, and what it can rely on.     *)
LEMMA AfterEndOK ==
    ASSUME FabricInv, Next, Grows, NEW c \in Clients, NEW e \in BOOLEAN, AfterEnd(c, e),
           stage[c] \in {"end_get", "end_put"},
           \/ leases'[Target(c)].state # "ACTIVE"
           \/ heldRev[c] # 0 /\ leases'[Target(c)].rev > heldRev[c]
    PROVE  CallOK(c)'
<1>1. CASE Over(c)
  BY <1>1, OverOK DEF FabricInv
<1>2. CASE (op[c] = "cancel" /\ Observe(c, "cancelled")) \/ (op[c] = "complete" /\ Observe(c, "completed"))
  BY <1>2, ObserveOK DEF Marks, Target
<1>3. CASE op[c] = "replace" /\ ToStage(c, "acquire")
  BY <1>3, ToStageOK
<1> QED BY <1>1, <1>2, <1>3 DEF AfterEnd

LEMMA EndsOK ==
    ASSUME FabricInv, Next, Grows, NEW c \in Clients, EndGet(c) \/ EndPut(c)
    PROVE  CallOK(c)'
<1>1. CallOK(c) /\ FabricTypeOK
  BY DEF FabricInv
<1>2. /\ stage[c] \in {"end_get", "end_put"}
      /\ Target(c) \in LeaseIds /\ leases[Target(c)] # NoLease
      /\ leases[Target(c)].rev \in Nat /\ leases[Target(c)].rev >= 1
  BY <1>1 DEF EndGet, EndPut, CallOK, EndOK, FabricInv, FabricTypeOK, LeasesOK
<1>3. CASE EndGet(c)
  <2>1. CASE Active(Target(c))
    <3>1. CASE AfterEnd(c, TRUE) /\ ~Active(Target(c))
      BY <2>1, <3>1
    <3>2. /\ stage'[c] = "end_put" /\ heldRev'[c] = leases[Target(c)].rev
          /\ op'[c] = op[c] /\ snap'[c] = snap[c] /\ got'[c] = got[c] /\ mark'[c] = mark[c]
          /\ UNCHANGED stores
      BY <1>1, <1>3, <2>1 DEF EndGet, Goto, FabricTypeOK
    <3>3. RecordOK(snap[c])'
      BY <1>1, <3>2 DEF CallOK, RecordOK, stores
    <3>4. Whereabouts(c)' /\ Allowed(c)'
      BY <1>1, <1>2, <3>2 DEF CallOK, Whereabouts, Allowed
    <3>5. Target(c)' = Target(c)
      BY <3>2 DEF Target
    <3>6. EndOK(c)'
      BY <1>2, <3>2, <3>5 DEF EndOK, stores
    <3> QED BY <1>1, <3>2, <3>3, <3>4, <3>6 DEF CallOK
  <2>2. CASE ~Active(Target(c)) /\ AfterEnd(c, TRUE) /\ UNCHANGED stores
    BY <1>2, <2>2, AfterEndOK DEF Active, stores
  <2> QED BY <1>3, <2>1, <2>2 DEF EndGet
<1>4. CASE EndPut(c)
  <2>1. stage[c] = "end_put" /\ heldRev[c] \in 1..leases[Target(c)].rev
    BY <1>1, <1>4 DEF EndPut, CallOK, EndOK
  <2>2. CASE leases[Target(c)].rev = heldRev[c]
    <3>1. /\ leases' = [leases EXCEPT ![Target(c)] = [state |-> "ENDED", rev |-> @.rev + 1]]
          /\ AfterEnd(c, TRUE)
      BY <1>4, <2>2 DEF EndPut
    <3>2. leases'[Target(c)].state = "ENDED"
      BY <1>1, <1>2, <3>1 DEF FabricTypeOK
    <3> QED BY <1>2, <3>1, <3>2, AfterEndOK
  <2>3. CASE leases[Target(c)].rev # heldRev[c]
    <3>1. UNCHANGED leases /\ AfterEnd(c, FALSE)
      BY <1>4, <2>3 DEF EndPut
    <3>2. heldRev[c] # 0 /\ leases'[Target(c)].rev > heldRev[c]
      BY <1>2, <2>1, <2>3, <3>1
    <3> QED BY <1>2, <3>1, <3>2, AfterEndOK
  <2> QED BY <2>2, <2>3
<1> QED BY <1>3, <1>4

LEMMA AcquireOK ==
    ASSUME FabricInv, Next, Grows, NEW c \in Clients, Acquire(c)
    PROVE  CallOK(c)'
<1>1. CallOK(c) /\ FabricTypeOK /\ stage[c] = "acquire" /\ op[c] \in {"create", "replace"}
  BY DEF FabricInv, Acquire, CallOK, Whereabouts
<1>2. PICK n \in LeaseIds :
        /\ leases[n] = NoLease /\ \A l \in 1..n - 1 : leases[l] # NoLease
        /\ leases' = [leases EXCEPT ![n] = [state |-> "ACTIVE", rev |-> 1]]
        /\ got' = [got EXCEPT ![c] = n]
        /\ \/ Goto(c, "event") /\ mark' = [mark EXCEPT ![c] =
                   IF op[c] = "create" THEN "created" ELSE "replaced"]
           \/ op[c] = "create" /\ Goto(c, "end_get") /\ UNCHANGED mark
  BY DEF Acquire
<1>3. /\ got'[c] = n /\ leases'[n] # NoLease /\ snap'[c] = snap[c] /\ op'[c] = op[c]
      /\ content'[c] = content[c]
  BY <1>1, <1>2 DEF Acquire, FabricTypeOK, NoLease
<1>4. RecordOK(snap[c])'
  BY <1>1, <1>3, RecordsStayOK DEF CallOK, RecordOK, FabricTypeOK
<1>5. n > snap[c].lease
  <2>1. CASE snap[c] = NoTask
    BY <2>1, NoTaskIsTyped DEF LeaseIds
  <2>2. CASE snap[c] # NoTask
    <3>1. snap[c].lease \in LeaseIds /\ leases[snap[c].lease] # NoLease
      BY <1>1, <2>2 DEF CallOK, RecordOK
    <3>2. n \in 1..snap[c].lease - 1 => leases[n] # NoLease
      BY <3>1 DEF FabricInv, LeasesOK
    <3> QED BY <1>2, <3>1, <3>2 DEF LeaseIds
  <2> QED BY <2>1, <2>2
<1>6. CASE /\ Goto(c, "event")
           /\ mark' = [mark EXCEPT ![c] = IF op[c] = "create" THEN "created" ELSE "replaced"]
  <2>1. stage'[c] = "event" /\ mark'[c] = IF op[c] = "create" THEN "created" ELSE "replaced"
    BY <1>1, <1>6 DEF Goto, FabricTypeOK
  <2>2. Whereabouts(c)' /\ Allowed(c)' /\ EndOK(c)'
    BY <1>1, <1>3, <2>1 DEF CallOK, Whereabouts, Allowed, EndOK
  <2>3. MarkOK(c)'
    BY <1>1, <1>3, <1>5, <2>1 DEF MarkOK
  <2> QED BY <1>1, <1>3, <1>4, <2>1, <2>2, <2>3 DEF CallOK
<1>7. CASE op[c] = "create" /\ Goto(c, "end_get") /\ UNCHANGED mark
  <2>1. stage'[c] = "end_get"
    BY <1>1, <1>7 DEF Goto, FabricTypeOK
  <2>2. Whereabouts(c)' /\ Allowed(c)'
    BY <1>1, <1>3, <1>7, <2>1 DEF CallOK, Whereabouts, Allowed
  <2>3. EndOK(c)'
    BY <1>3, <1>7, <2>1 DEF EndOK, Target
  <2> QED BY <1>1, <1>3, <1>4, <2>1, <2>2, <2>3 DEF CallOK
<1> QED BY <1>2, <1>6, <1>7

LEMMA StoringOK ==
    ASSUME FabricInv, Next, Grows, NEW c \in Clients,
           PutObject(c) \/ IngestBody(c) \/ IngestEvent(c) \/ PutTask(c) \/ PutCreated(c)
    PROVE  CallOK(c)'
<1>1. CallOK(c) /\ FabricTypeOK
  BY DEF FabricInv
<1>2. CASE PutObject(c)
  <2>1. /\ op[c] = "execute" /\ snap[c].status = "RUNNING" /\ stage[c] # "none"
        /\ content[c] \in Contents \cap objects' /\ Observe(c, "captured")
    BY <1>1, <1>2 DEF PutObject, CallOK, Whereabouts, Allowed
  <2> QED BY <2>1, ObserveOK DEF Marks
<1>3. CASE IngestBody(c)
  <2>1. /\ op[c] = "execute" /\ snap[c].status = "RUNNING" /\ stage[c] # "none"
        /\ Observe(c, "emitted")
    BY <1>1, <1>3 DEF IngestBody, CallOK, Whereabouts, Allowed
  <2>2. events'[snap[c].obs + 1] # "none"
    BY <1>1, <1>3, EventIdsInRange DEF IngestBody, Ingest, EventOf, FabricTypeOK
  <2> QED BY <2>1, <2>2, ObserveOK DEF Marks
<1>4. CASE IngestEvent(c)
  <2>1. /\ stage[c] = "event" /\ stage'[c] = "put"
        /\ op'[c] = op[c] /\ snap'[c] = snap[c] /\ mark'[c] = mark[c]
        /\ content'[c] = content[c] /\ got'[c] = got[c] /\ heldRev'[c] = heldRev[c]
        /\ UNCHANGED <<objects, leases>>
    BY <1>1, <1>4 DEF IngestEvent, ToStage, Goto, FabricTypeOK
  <2>2. events'[EventId(c)] # "none"
    BY <1>1, <1>4, EventIdsInRange DEF IngestEvent, Ingest, EventOf, FabricTypeOK
  <2>3. EventId(c)' = EventId(c)
    BY <2>1 DEF EventId
  <2>4. RecordOK(snap[c])'
    BY <1>1, <2>1, RecordsStayOK DEF CallOK, RecordOK, FabricTypeOK
  <2>5. Whereabouts(c)' /\ Allowed(c)' /\ EndOK(c)'
    BY <1>1, <2>1 DEF CallOK, Whereabouts, Allowed, EndOK, Active
  <2>6. MarkOK(c)'
    BY <1>1, <2>1, EventIdsInRange DEF CallOK, MarkOK, Grows
  <2> QED BY <1>1, <2>1, <2>2, <2>3, <2>4, <2>5, <2>6 DEF CallOK
<1>5. CASE PutTask(c)
  BY <1>1, <1>5, OverOK DEF PutTask
<1>6. CASE PutCreated(c)
  <2>1. op[c] = "create" /\ stage[c] = "put" /\ (Over(c) \/ ToStage(c, "end_get"))
    BY <1>6 DEF PutCreated
  <2>2. Target(c) \in LeaseIds /\ leases[Target(c)] # NoLease
    BY <1>1, <2>1 DEF CallOK, MarkOK, Target
  <2> QED BY <1>1, <2>1, <2>2, OverOK, ToStageOK
<1> QED BY <1>2, <1>3, <1>4, <1>5, <1>6

LEMMA StepKeepsFabricInv ==
    ASSUME FabricInv, Next
    PROVE  FabricInv'
<1>1. FabricTypeOK' /\ Grows /\ LeasesOK'
  BY StepTypes, NothingIsTakenBack
<1>2. RecordOK(record)'
  BY <1>1, RecordStaysOK
<1>3. ASSUME NEW d \in Clients PROVE CallOK(d)'
  <2>1. CASE \E l \in LeaseIds : EndElsewhere(l) \/ RenewElsewhere(l)
    BY <1>1, <2>1, OthersStayOK DEF EndElsewhere, RenewElsewhere, locals
  <2>2. ASSUME NEW c \in Clients, Call(c) PROVE CallOK(d)'
    <3>1. OthersWait(c)
      BY <2>2, BeginType, ProceedType DEF Call, FabricInv
    <3>2. CASE d # c
      BY <1>1, <3>1, <3>2, OthersStayOK DEF OthersWait
    <3>3. CASE d = c /\ Begin(c)
      BY <3>3, BeginOK
    <3>4. CASE d = c /\ Fail(c)
      BY <3>4, OverOK DEF Fail, FabricInv
    <3>5. CASE d = c /\ Proceed(c)
      BY <1>1, <3>5, GatesOK, EndsOK, AcquireOK, StoringOK DEF Proceed
    <3> QED BY <2>2, <3>2, <3>3, <3>4, <3>5 DEF Call
  <2> QED BY <2>1, <2>2 DEF Next, Call
<1> QED BY <1>1, <1>2, <1>3 DEF FabricInv

LEMMA StutterKeepsFabricInv ==
    ASSUME FabricInv, UNCHANGED vars
    PROVE  FabricInv'
<1>1. FabricTypeOK' /\ LeasesOK' /\ RecordOK(record)'
  BY DEF vars, FabricInv, FabricTypeOK, LeasesOK, RecordOK
<1>2. ASSUME NEW c \in Clients PROVE CallOK(c)'
  BY DEF vars, FabricInv, CallOK, RecordOK, Whereabouts, Allowed, MarkOK, EndOK, EventId, Target,
         Active
<1> QED BY <1>1, <1>2 DEF FabricInv

LEMMA FabricStartsRight == Init => FabricInv /\ LineInv
<1> SUFFICES ASSUME Init PROVE FabricInv /\ LineInv
  OBVIOUS
<1>1. FabricTypeOK
  BY NoTaskIsTyped DEF Init, FabricTypeOK, Stages, Ops, Marks, NoLease
<1>2. RecordOK(record) /\ LeasesOK
  BY DEF Init, RecordOK, LeasesOK, NoLease
<1>3. ASSUME NEW c \in Clients PROVE CallOK(c)
  BY NoTaskIsTyped DEF Init, CallOK, RecordOK, Whereabouts, Allowed, EndOK
<1>4. LineInv
  BY NoTaskIsTyped DEF Init, LineInv
<1> QED BY <1>1, <1>2, <1>3, <1>4 DEF FabricInv

-----------------------------------------------------------------------------
(* One creation at a time.                                                 *)

(* A step of a call reads the record, stores it, returns or goes on.       *)
Reads(c) ==
    /\ stage[c] = "none" /\ snap'[c] = record
    /\ op'[c] = "create" => record = NoTask /\ \A d \in Clients : op[d] # "create"
    /\ UNCHANGED record

StoresIts(c) ==
    /\ stage[c] = "put" /\ record' = Updated(c) /\ snap'[c] = NoTask /\ op'[c] = "none"
    /\ op[c] # "create" => record.rev = snap[c].rev

Returns(c) == snap'[c] = NoTask /\ op'[c] = "none" /\ UNCHANGED record
GoesOn(c) == snap'[c] = snap[c] /\ op'[c] = op[c] /\ UNCHANGED record

LEMMA StepShape ==
    ASSUME FabricInv, CreateOnce, NEW c \in Clients, Call(c)
    PROVE  Reads(c) \/ StoresIts(c) \/ Returns(c) \/ GoesOn(c)
<1>1. FabricTypeOK
  BY DEF FabricInv
<1>2. ASSUME NEW o \in Ops, NEW s, NEW m, Read(c, o, s, m),
             o = "create" => record = NoTask /\ \A d \in Clients : op[d] # "create"
      PROVE  Reads(c)
  BY <1>1, <1>2 DEF Read, Reads, FabricTypeOK, stores
<1>3. Over(c) => snap'[c] = NoTask /\ op'[c] = "none"
  BY <1>1 DEF Over, FabricTypeOK
<1>4. CASE Begin(c)
  BY <1>2, <1>4 DEF Begin, BeginCreate, BeginExecute, BeginPause, BeginResume, BeginCancel,
       BeginReport, BeginComplete, BeginReplace, BeginCheckpoint, Ops
<1>5. CASE Fail(c)
  BY <1>3, <1>5 DEF Fail, Returns, stores
<1>6. CASE PutTask(c) \/ PutCreated(c)
  BY <1>3, <1>6 DEF PutTask, PutCreated, StoresIts, Returns, ToStage, GoesOn
<1>7. CASE LeaseGate(c) \/ AuthorityGate(c)
  BY <1>3, <1>7 DEF LeaseGate, AuthorityGate, Dispatched, Observe, ToStage, stores, Returns, GoesOn
<1>8. ASSUME NEW e \in BOOLEAN, AfterEnd(c, e), UNCHANGED record
      PROVE  Returns(c) \/ GoesOn(c)
  BY <1>3, <1>8 DEF AfterEnd, Observe, ToStage, Returns, GoesOn
<1>9. CASE EndGet(c) \/ EndPut(c)
  BY <1>8, <1>9 DEF EndGet, EndPut, stores, GoesOn
<1>10. CASE Acquire(c) \/ PutObject(c) \/ IngestBody(c) \/ IngestEvent(c)
  BY <1>10 DEF Acquire, PutObject, IngestBody, IngestEvent, Observe, ToStage, GoesOn
<1> QED BY <1>4, <1>5, <1>6, <1>7, <1>9, <1>10 DEF Call, Proceed

(* A creation is stored over no task, any other write over what it read.   *)
LEMMA StoredOverItsSnapshot ==
    ASSUME FabricInv, LineInv, NEW c \in Clients, stage[c] = "put",
           op[c] # "create" => record.rev = snap[c].rev
    PROVE  /\ snap[c] = record /\ Updated(c).rev = record.rev + 1
           /\ op[c] = "create" <=> record = NoTask
<1>1. op[c] # "none" /\ (op[c] = "create" <=> snap[c] = NoTask)
  BY DEF FabricInv, CallOK, Whereabouts
<1>2. snap[c] = record
  BY <1>1 DEF LineInv
<1> QED BY <1>1, <1>2 DEF Updated

LEMMA StepKeepsLineInv ==
    ASSUME FabricInv, LineInv, CreateOnce, Next
    PROVE  LineInv'
<1>1. record \in TaskRecords /\ snap \in [Clients -> TaskRecords]
  BY DEF FabricInv, FabricTypeOK
<1>2. record.rev \in Nat /\ (record.rev = 0 => record = NoTask)
  BY <1>1 DEF FabricInv, RecordOK, TaskRecords
<1>3. CASE \E l \in LeaseIds : EndElsewhere(l) \/ RenewElsewhere(l)
  BY <1>3 DEF EndElsewhere, RenewElsewhere, locals, LineInv
<1>4. ASSUME NEW c \in Clients, Call(c)
      PROVE  LineInv'
  <2>1. OthersWait(c)
    BY <1>4, BeginType, ProceedType DEF Call, FabricInv
  <2>2. CASE Reads(c)
    BY <1>2, <2>1, <2>2 DEF Reads, OthersWait, LineInv
  <2>3. CASE Returns(c)
    BY <1>2, <2>1, <2>3, NoTaskIsTyped DEF Returns, OthersWait, LineInv
  <2>4. CASE GoesOn(c)
    BY <2>1, <2>4 DEF GoesOn, OthersWait, LineInv
  <2>5. CASE StoresIts(c)
    <3>1. record'.rev = record.rev + 1 /\ (op[c] = "create" <=> record = NoTask)
      BY <2>5, StoredOverItsSnapshot DEF StoresIts
    <3>2. ASSUME NEW d \in Clients \ {c}
          PROVE  op[d] # "create" /\ snap[d].rev \in Nat /\ snap[d].rev <= record.rev
      BY <1>1, <3>1 DEF LineInv, TaskRecords
    <3> QED BY <1>2, <2>1, <2>5, <3>1, <3>2, NoTaskIsTyped DEF StoresIts, OthersWait, LineInv
  <2> QED BY <1>4, <2>2, <2>3, <2>4, <2>5, StepShape
<1> QED BY <1>3, <1>4 DEF Next, Call

LEMMA StutterKeepsLineInv ==
    ASSUME LineInv, UNCHANGED vars
    PROVE  LineInv'
BY DEF vars, LineInv

-----------------------------------------------------------------------------
(* The theorems.                                                           *)

(* The invariant of the fabric, whatever runs side by side, dies half way  *)
(* or is renewed and ended elsewhere, with one creation at a time or many. *)
THEOREM FabricInvariance == Spec => []FabricInv
<1>1. Init => FabricInv
  BY FabricStartsRight
<1>2. FabricInv /\ [Next]_vars => FabricInv'
  BY StepKeepsFabricInv, StutterKeepsFabricInv
<1> QED BY <1>1, <1>2, PTL DEF Spec

(* Every reachable state of the fabric is well typed: the record, the      *)
(* stores and every call in flight.                                        *)
THEOREM FabricTyping == Spec => []FabricTypeOK
<1>1. FabricInv => FabricTypeOK
  BY DEF FabricInv
<1> QED BY <1>1, FabricInvariance, PTL

(* Whatever a call was doing when it died, the task record names only      *)
(* events, artifacts and a lease that are already durable.                 *)
THEOREM RecordsNameDurableFacts == Spec => []RecordRefersOnlyToDurableFacts
<1>1. FabricInv => RecordRefersOnlyToDurableFacts
  BY DEF FabricInv, RecordOK, RecordRefersOnlyToDurableFacts
<1> QED BY <1>1, FabricInvariance, PTL

(* A task is finished over a lease that has ended, unless a renewal        *)
(* overtook the release.                                                   *)
THEOREM FinishedLeasesEnd == Spec => FinishingEndsTheLease
<1> DEFINE A == \A c \in Clients :
          PutTask(c) /\ record' # record /\ mark[c] \in {"cancelled", "completed"}
             => \/ ~Active(record'.lease)
                \/ heldRev[c] # 0 /\ leases[record'.lease].rev > heldRev[c]
<1>1. FabricInv /\ [Next]_vars => [A]_vars
  <2> SUFFICES ASSUME FabricInv, NEW c \in Clients, PutTask(c), record' # record,
                      mark[c] \in {"cancelled", "completed"}
               PROVE  \/ ~Active(record'.lease)
                      \/ heldRev[c] # 0 /\ leases[record'.lease].rev > heldRev[c]
    OBVIOUS
  <2>1. stage[c] = "put" /\ record'.lease = snap[c].lease
    BY DEF PutTask, Updated
  <2> QED BY <2>1 DEF FabricInv, CallOK, EndOK
<1> QED BY <1>1, FabricInvariance, PTL DEF Spec, FinishingEndsTheLease

(* With one creation at a time, a snapshot of the stored revision is the   *)
(* stored record.                                                          *)
THEOREM LineInvariance == CreateOnce => (Spec => []LineInv)
<1> SUFFICES ASSUME CreateOnce PROVE Spec => []LineInv
  OBVIOUS
<1>1. Init => LineInv
  BY FabricStartsRight
<1>2. FabricInv /\ LineInv /\ [Next]_vars => LineInv'
  BY StepKeepsLineInv, StutterKeepsLineInv
<1> QED BY <1>1, <1>2, FabricInvariance, PTL DEF Spec

(* A call whose write is stored wrote over exactly the record it read.     *)
THEOREM UpdatesAreNotLost == CreateOnce => (Spec => NoUpdateIsLost)
<1> SUFFICES ASSUME CreateOnce PROVE Spec => NoUpdateIsLost
  OBVIOUS
<1> DEFINE A == \A c \in Clients : PutTask(c) /\ record' # record => record = snap[c]
<1>1. LineInv /\ [Next]_vars => [A]_vars
  BY DEF LineInv, PutTask
<1> QED BY <1>1, LineInvariance, PTL DEF Spec, NoUpdateIsLost

-----------------------------------------------------------------------------
(* The durable record lives the life TaskLifecycle promises.               *)

LEMMA SameFieldsSameRecord ==
    ASSUME NEW r \in TaskRecords, NEW q \in TaskRecords,
           r.status = q.status, r.lease = q.lease, r.obs = q.obs, r.cps = q.cps,
           r.arts = q.arts, r.verified = q.verified, r.rev = q.rev
    PROVE  r = q
BY DEF TaskRecords

LEMMA TransitionIsTyped ==
    ASSUME NEW r \in TaskRecords, NEW q \in TaskRecords
    PROVE  [r EXCEPT !.status = q.status, !.rev = @ + 1, !.obs = @ + 1, !.verified = q.verified]
               \in TaskRecords
<1>1. r.rev + 1 \in Nat /\ r.obs + 1 \in Nat
  BY DEF TaskRecords
<1>2. q.status \in {"NONE", "RUNNING", "PAUSED", "CANCELLED", "COMPLETED"} /\ q.verified \in BOOLEAN
  BY DEF TaskRecords
<1> QED BY <1>1, <1>2 DEF TaskRecords

LEMMA MoveIsTyped ==
    ASSUME NEW r \in TaskRecords, NEW q \in TaskRecords
    PROVE  [r EXCEPT !.lease = q.lease, !.rev = @ + 1, !.obs = @ + 1,
                     !.status = IF @ = "RUNNING" THEN "PAUSED" ELSE @] \in TaskRecords
<1>1. r.rev + 1 \in Nat /\ r.obs + 1 \in Nat /\ q.lease \in {0} \cup LeaseIds
  BY DEF TaskRecords
<1>2. (IF r.status = "RUNNING" THEN "PAUSED" ELSE r.status)
         \in {"NONE", "RUNNING", "PAUSED", "CANCELLED", "COMPLETED"}
  BY DEF TaskRecords
<1> QED BY <1>1, <1>2 DEF TaskRecords

LEMMA StoredStepLives ==
    ASSUME FabricInv, LineInv, NEW c \in Clients, stage[c] = "put", record' = Updated(c),
           op[c] # "create" => record.rev = snap[c].rev
    PROVE  Life!Create \/ Life!Record \/ Life!Transition \/ Life!MoveToLease
<1>1. snap[c] = record /\ (op[c] = "create" <=> record = NoTask)
  BY StoredOverItsSnapshot
<1>2. CallOK(c) /\ MarkOK(c) /\ mark[c] \in Marks /\ record \in TaskRecords
  BY DEF FabricInv, CallOK, MarkOK, FabricTypeOK
<1>3. /\ record.obs \in Nat /\ record.cps \in Nat /\ record.rev \in Nat
      /\ record.verified \in BOOLEAN /\ record.lease \in {0} \cup LeaseIds
      /\ record.status \in {"NONE", "RUNNING", "PAUSED", "CANCELLED", "COMPLETED"}
  BY <1>2 DEF TaskRecords
<1>4. /\ record'.status = StatusAfter(mark[c], record.status)
      /\ record'.lease = IF mark[c] \in {"created", "replaced"} THEN got[c] ELSE record.lease
      /\ record'.obs = record.obs + (IF mark[c] = "emitted" THEN 2 ELSE 1)
      /\ record'.cps = record.cps + (IF mark[c] = "checkpoint" THEN 1 ELSE 0)
      /\ record'.arts = record.arts \cup (IF mark[c] = "captured" THEN {content[c]} ELSE {})
      /\ record'.verified = (record.verified \/ mark[c] = "completed")
      /\ record'.rev = record.rev + 1
  BY <1>1 DEF Updated, EventId
<1>5. mark[c] # "created" => record # NoTask /\ Life!Extends
  BY <1>1, <1>2, <1>3, <1>4 DEF MarkOK, Life!Extends
<1>6. CASE mark[c] = "created"
  <2>1. record = NoTask
    BY <1>1, <1>2, <1>6 DEF MarkOK
  <2>2. /\ record.obs = 0 /\ record.cps = 0 /\ record.rev = 0 /\ record.arts = {}
        /\ ~record.verified
    BY <2>1 DEF NoTask
  <2>3. record'.status = "RUNNING" /\ record'.arts = {} /\ record'.obs = 1 /\ record'.cps = 0
    BY <1>4, <1>6, <2>2 DEF StatusAfter
  <2>4. record'.rev = 1
    BY <1>4, <2>2
  <2>5. ~record'.verified
    <3>1. record'.verified = (record.verified \/ mark[c] = "completed")
      BY <1>4
    <3>2. mark[c] # "completed"
      BY <1>6
    <3> QED BY <2>2, <3>1, <3>2, Zenon
  <2> QED BY <2>1, <2>2, <2>3, <2>4, <2>5 DEF Life!Create
<1>7. CASE mark[c] \in {"paused", "resumed", "cancelled", "completed"}
  <2>1. /\ record.status \in {"RUNNING", "PAUSED"}
        /\ mark[c] = "paused" => record.status = "RUNNING"
        /\ mark[c] = "resumed" => record.status = "PAUSED"
    BY <1>1, <1>2, <1>7 DEF CallOK, MarkOK, Allowed
  <2>2. ~record.verified
    BY <1>2, <1>3, <1>5, <1>7, <2>1 DEF FabricInv, RecordOK
  <2>3. record'.verified = (record'.status = "COMPLETED")
    BY <1>4, <1>7, <2>1, <2>2 DEF StatusAfter
  <2>4. record'.status \in {"RUNNING", "PAUSED", "CANCELLED", "COMPLETED"} \ {record.status}
    BY <1>4, <1>7, <2>1 DEF StatusAfter
  <2>5. record' = [record EXCEPT !.status = record'.status, !.rev = @ + 1, !.obs = @ + 1,
                                 !.verified = record'.verified]
    <3> DEFINE q == [record EXCEPT !.status = record'.status, !.rev = @ + 1, !.obs = @ + 1,
                                   !.verified = record'.verified]
    <3>0. record' \in TaskRecords
      BY UpdatedIsTyped
    <3>1. q \in TaskRecords
      BY <1>2, <3>0, TransitionIsTyped
    <3>2. /\ q.status = record'.status /\ q.rev = record.rev + 1 /\ q.obs = record.obs + 1
          /\ q.verified = record'.verified /\ q.lease = record.lease /\ q.cps = record.cps
          /\ q.arts = record.arts
      BY <1>2 DEF TaskRecords
    <3>3. record'.arts = record.arts /\ record'.obs = record.obs + 1 /\ record'.cps = record.cps
      BY <1>3, <1>4, <1>7
    <3>4. record'.lease = record.lease
      BY <1>4, <1>7
    <3> HIDE DEF q
    <3>5. record' = q
      BY <1>4, <3>0, <3>1, <3>2, <3>3, <3>4, SameFieldsSameRecord
    <3> QED BY <3>5 DEF q
  <2> QED BY <1>5, <1>7, <2>1, <2>3, <2>4, <2>5 DEF Life!Transition, Life!Open
<1>8. CASE mark[c] = "replaced"
  <2>1. record' = [record EXCEPT !.lease = record'.lease, !.rev = @ + 1, !.obs = @ + 1,
                                 !.status = IF @ = "RUNNING" THEN "PAUSED" ELSE @]
    <3> DEFINE q == [record EXCEPT !.lease = record'.lease, !.rev = @ + 1, !.obs = @ + 1,
                                   !.status = IF @ = "RUNNING" THEN "PAUSED" ELSE @]
    <3>0. record' \in TaskRecords
      BY UpdatedIsTyped
    <3>1. q \in TaskRecords
      BY <1>2, <3>0, MoveIsTyped
    <3>2. /\ q.rev = record.rev + 1 /\ q.obs = record.obs + 1 /\ q.lease = record'.lease
          /\ q.verified = record.verified /\ q.cps = record.cps /\ q.arts = record.arts
          /\ q.status = IF record.status = "RUNNING" THEN "PAUSED" ELSE record.status
      BY <1>2 DEF TaskRecords
    <3>3. record'.arts = record.arts /\ record'.obs = record.obs + 1 /\ record'.cps = record.cps
      BY <1>3, <1>4, <1>8
    <3>4. record'.verified = record.verified
      BY <1>3, <1>4, <1>8
    <3>5. record'.status = IF record.status = "RUNNING" THEN "PAUSED" ELSE record.status
      BY <1>3, <1>4, <1>8 DEF StatusAfter
    <3> HIDE DEF q
    <3>6. record' = q
      BY <1>4, <3>0, <3>1, <3>2, <3>3, <3>4, <3>5, SameFieldsSameRecord
    <3> QED BY <3>6 DEF q
  <2>2. record'.lease > record.lease
    BY <1>1, <1>2, <1>4, <1>8 DEF MarkOK
  <2> QED BY <1>5, <1>8, <2>1, <2>2 DEF Life!MoveToLease
<1>9. CASE mark[c] \in {"denied", "executed", "captured", "emitted", "reported", "checkpoint"}
  <2>1. record'.status = record.status /\ record'.lease = record.lease
    BY <1>3, <1>4, <1>9 DEF StatusAfter
  <2>2. record'.verified = record.verified
    BY <1>3, <1>4, <1>9
  <2>3. record'.cps # record.cps => Life!Open
    BY <1>1, <1>2, <1>3, <1>4, <1>5, <1>9 DEF CallOK, MarkOK, Allowed, Life!Open
  <2>4. record'.arts # record.arts => record.status = "RUNNING"
    BY <1>1, <1>2, <1>4, <1>9 DEF MarkOK
  <2> QED BY <1>5, <1>9, <2>1, <2>2, <2>3, <2>4 DEF Life!Record
<1> QED BY <1>2, <1>6, <1>7, <1>8, <1>9 DEF MarkOK, Marks

(* The fabric implements the life of a task, with one creation at a time.  *)
THEOREM TaskLivesItsLife == CreateOnce => (Spec => ImplementsTaskLifecycle)
<1> SUFFICES ASSUME CreateOnce PROVE Spec => ImplementsTaskLifecycle
  OBVIOUS
<1>1. Init => record = NoTask
  BY DEF Init
<1>2. FabricInv /\ LineInv /\ [Next]_vars
         => [Life!Create \/ Life!Record \/ Life!Transition \/ Life!MoveToLease]_record
  <2> SUFFICES ASSUME FabricInv, LineInv, [Next]_vars
               PROVE  \/ UNCHANGED record
                      \/ Life!Create \/ Life!Record \/ Life!Transition \/ Life!MoveToLease
    OBVIOUS
  <2>1. CASE UNCHANGED vars
    BY <2>1 DEF vars
  <2>2. CASE \E l \in LeaseIds : EndElsewhere(l) \/ RenewElsewhere(l)
    BY <2>2 DEF EndElsewhere, RenewElsewhere
  <2>3. CASE \E c \in Clients : Call(c)
    BY <2>3, StepShape, StoredStepLives DEF Reads, Returns, GoesOn, StoresIts
  <2> QED BY <2>1, <2>2, <2>3 DEF Next, Call
<1> QED BY <1>1, <1>2, FabricInvariance, LineInvariance, PTL
        DEF Spec, ImplementsTaskLifecycle, Life!TaskSpec
=============================================================================
