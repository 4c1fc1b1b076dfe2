--------------------------- MODULE ExecutionFabric ---------------------------
(***************************************************************************)
(* The execution fabric around one bounded task: createBoundedTask,        *)
(* execute, pause, resume, cancel, report, complete, replace and           *)
(* checkpoint, called concurrently.  A call reads the task record once,    *)
(* works from that snapshot through its awaits (lease gate, authority      *)
(* gate, harness, object store, observation boundary) and ends in one      *)
(* compare-and-set of the record.  Stored records are the atomic registers *)
(* that RecordEngine implements; body selection is BodyBroker's.           *)
(***************************************************************************)
EXTENDS Integers

CONSTANTS
    Clients,      \* concurrent calls
    CreateOnce,   \* no two creations of the task are in flight together
    Contents,     \* what a capture may store
    MaxLeases,    \* bound: leases ever taken for the task
    MaxRenewed,   \* bound: no renewal while lease revision + number is above
    MaxRevision   \* bound: no call starts on a record of this revision

ASSUME FabricAssumption ==
    /\ CreateOnce \in BOOLEAN
    /\ MaxLeases \in Nat \ {0} /\ MaxRenewed \in Nat \ {0} /\ MaxRevision \in Nat \ {0}

LeaseIds == 1..MaxLeases                  \* lease:<task>:<sequence>
EventIds == 1..2 * MaxRevision            \* fabric-obs:<task>:<sequence>
Ops == {"none", "create", "execute", "pause", "resume", "cancel", "report", "complete",
        "replace", "checkpoint"}
Marks == {"created", "denied", "executed", "captured", "body", "emitted", "paused", "resumed",
          "cancelled", "reported", "completed", "replaced", "checkpoint"}

(* Events are told apart by whether they report a change of the task.      *)
Transitions == {"created", "paused", "resumed", "cancelled", "completed", "replaced"}
EventOf(m) == IF m \in Transitions THEN "transition" ELSE "attempt"

Stages == {"none", "gate", "authority", "acquire", "end_get", "end_put",
           "object", "body_event", "event", "put"}

NoTask == [status |-> "NONE", lease |-> 0, obs |-> 0, cps |-> 0, arts |-> {},
           verified |-> FALSE, rev |-> 0]
NoLease == [state |-> "NONE", rev |-> 0]

VARIABLES
    record,       \* the durable TaskRecord; obs and cps count the ids it lists
    events,       \* the observation store: what each event id says happened
    objects,      \* the object store, by content
    leases,       \* the task's durable leases
    stage,        \* the await each call is in
    op,           \* which operation it is
    snap,         \* the record it read
    mark,         \* the event it is going to ingest
    content,      \* what a capture captured
    got,          \* the lease it acquired
    heldRev       \* the revision of the lease it is ending

locals == <<stage, op, snap, mark, content, got, heldRev>>
stores == <<record, events, objects, leases>>
vars == <<record, events, objects, leases, stage, op, snap, mark, content, got, heldRev>>

Init ==
    /\ record = NoTask
    /\ events = [n \in EventIds |-> "none"]
    /\ objects = {}
    /\ leases = [l \in LeaseIds |-> NoLease]
    /\ stage = [c \in Clients |-> "none"]
    /\ op = [c \in Clients |-> "none"]
    /\ snap = [c \in Clients |-> NoTask]
    /\ mark = [c \in Clients |-> "none"]
    /\ content = [c \in Clients |-> "none"]
    /\ got = [c \in Clients |-> 0]
    /\ heldRev = [c \in Clients |-> 0]

Goto(c, s) == stage' = [stage EXCEPT ![c] = s]
ToStage(c, s) == Goto(c, s) /\ UNCHANGED <<op, snap, mark, content, got, heldRev>>

(* On to the observation boundary, with what is to be recorded.            *)
Observe(c, m) ==
    /\ Goto(c, "event")
    /\ mark' = [mark EXCEPT ![c] = m]
    /\ UNCHANGED <<op, snap, content, got, heldRev>>

(* The call has returned, or thrown.                                       *)
Over(c) ==
    /\ Goto(c, "none")
    /\ op' = [op EXCEPT ![c] = "none"]
    /\ snap' = [snap EXCEPT ![c] = NoTask]
    /\ mark' = [mark EXCEPT ![c] = "none"]
    /\ content' = [content EXCEPT ![c] = "none"]
    /\ got' = [got EXCEPT ![c] = 0]
    /\ heldRev' = [heldRev EXCEPT ![c] = 0]

-----------------------------------------------------------------------------
(* The read of the task record and the checks made on it before the next   *)
(* await.  A refusal at this point leaves no trace, except execute's.      *)

Read(c, o, s, m) ==
    /\ stage[c] = "none" /\ record.rev < MaxRevision
    /\ Goto(c, s)
    /\ op' = [op EXCEPT ![c] = o]
    /\ snap' = [snap EXCEPT ![c] = record]
    /\ mark' = [mark EXCEPT ![c] = m]
    /\ UNCHANGED <<stores, content, got, heldRev>>

Open == record.status \in {"RUNNING", "PAUSED"}

BeginCreate(c) ==
    /\ record = NoTask
    /\ CreateOnce => \A d \in Clients : op[d] # "create"
    /\ Read(c, "create", "authority", "none")

(* An invalid request is refused too, and every refusal is observed.       *)
BeginExecute(c) ==
    /\ record # NoTask
    /\ \/ record.status = "RUNNING" /\ Read(c, "execute", "gate", "none")
       \/ Read(c, "execute", "event", "denied")

BeginPause(c) == record.status = "RUNNING" /\ Read(c, "pause", "gate", "none")
BeginResume(c) == record.status = "PAUSED" /\ Read(c, "resume", "gate", "none")
BeginCancel(c) == Open /\ Read(c, "cancel", "gate", "none")
BeginReport(c) == record # NoTask /\ Read(c, "report", "event", "reported")

(* Mutant: the task completes without releasing its lease first.           *)
BeginCompleteHolding(c) == Open /\ Read(c, "complete", "event", "completed")

BeginComplete(c) == Open /\ Read(c, "complete", "end_get", "none")
BeginReplace(c) == record # NoTask /\ Read(c, "replace", "end_get", "none")
BeginCheckpoint(c) == Open /\ Read(c, "checkpoint", "event", "checkpoint")

-----------------------------------------------------------------------------
(* The gates.                                                              *)

Active(l) == leases[l].state = "ACTIVE"

(* authorizeOperation: an ACTIVE lease may still be refused as expired.    *)
LeaseGate(c) ==
    /\ stage[c] = "gate"
    /\ \/ /\ Active(snap[c].lease)
          /\ ToStage(c, IF op[c] = "cancel" THEN "end_get" ELSE "authority")
       \/ op[c] = "cancel" /\ ToStage(c, "end_get")
       \/ op[c] = "execute" /\ Observe(c, "denied")
       \/ op[c] = "pause" /\ Observe(c, "paused")
       \/ op[c] = "resume" /\ Over(c)
    /\ UNCHANGED stores

(* The dispatch is synchronous with the end of the authority evaluation.   *)
(* An observations.emit or artifacts.capture that succeeds has more to     *)
(* store; which operation it is has mattered to nothing before.            *)
Dispatched(c) ==
    \/ Observe(c, "executed")
    \/ ToStage(c, "body_event")
    \/ /\ Goto(c, "object")
       /\ \E x \in Contents : content' = [content EXCEPT ![c] = x]
       /\ UNCHANGED <<op, snap, mark, got, heldRev>>

(* Denied, unadvertised, or a harness that throws: no dispatch took place. *)
AuthorityGate(c) ==
    /\ stage[c] = "authority"
    /\ \/ op[c] = "execute" /\ (Dispatched(c) \/ Observe(c, "denied"))
       \/ op[c] = "create" /\ (ToStage(c, "acquire") \/ Over(c))
       \/ op[c] = "pause" /\ (Observe(c, "paused") \/ Over(c))
       \/ op[c] = "resume" /\ (Observe(c, "resumed") \/ Over(c))
    /\ UNCHANGED stores

-----------------------------------------------------------------------------
(* The lease a call ends: its own when a creation fails, else the task's.  *)

Target(c) == IF op[c] = "create" THEN got[c] ELSE snap[c].lease

(* Only a replacement looks at the outcome; the others ignore it.          *)
AfterEnd(c, ended) ==
    \/ op[c] = "create" /\ Over(c)
    \/ op[c] = "cancel" /\ Observe(c, "cancelled")
    \/ op[c] = "complete" /\ Observe(c, "completed")
    \/ op[c] = "replace" /\ ended /\ ToStage(c, "acquire")
    \/ op[c] = "replace" /\ ~ended /\ Over(c)

EndGet(c) ==
    /\ stage[c] = "end_get"
    /\ \/ /\ Active(Target(c))
          /\ heldRev' = [heldRev EXCEPT ![c] = leases[Target(c)].rev]
          /\ Goto(c, "end_put")
          /\ UNCHANGED <<op, snap, mark, content, got>>
       \/ ~Active(Target(c)) /\ AfterEnd(c, TRUE)
    /\ UNCHANGED stores

EndPut(c) ==
    /\ stage[c] = "end_put"
    /\ LET l == Target(c) IN
       \/ /\ leases[l].rev = heldRev[c]
          /\ leases' = [leases EXCEPT ![l] = [state |-> "ENDED", rev |-> @.rev + 1]]
          /\ AfterEnd(c, TRUE)
       \/ leases[l].rev # heldRev[c] /\ AfterEnd(c, FALSE) /\ UNCHANGED leases
    /\ UNCHANGED <<record, events, objects>>

(* acquireLease under the next sequence number; a refusal leaves nothing.  *)
(* A creation then summons the body, which may fail.                       *)
Acquire(c) ==
    /\ stage[c] = "acquire"
    /\ \E n \in LeaseIds :
          /\ leases[n] = NoLease /\ \A l \in 1..n - 1 : leases[l] # NoLease
          /\ leases' = [leases EXCEPT ![n] = [state |-> "ACTIVE", rev |-> 1]]
          /\ got' = [got EXCEPT ![c] = n]
          /\ \/ Goto(c, "event") /\ mark' = [mark EXCEPT ![c] =
                     IF op[c] = "create" THEN "created" ELSE "replaced"]
             \/ op[c] = "create" /\ Goto(c, "end_get") /\ UNCHANGED mark
    /\ UNCHANGED <<record, events, objects, op, snap, content, heldRev>>

-----------------------------------------------------------------------------
(* Artifacts, the observation boundary, and the record.                    *)

PutObject(c) ==
    /\ stage[c] = "object"
    /\ objects' = objects \cup {content[c]}
    /\ Observe(c, "captured")
    /\ UNCHANGED <<record, events, leases>>

(* ingest: a stored id answers DUPLICATE with whatever event it holds.     *)
(* Mutant: the event is handed over without waiting for the store.         *)
IngestUnawaited(n, m) ==
    \/ events' = [events EXCEPT ![n] = IF @ = "none" THEN EventOf(m) ELSE @]
    \/ UNCHANGED events

Ingest(n, m) == events' = [events EXCEPT ![n] = IF @ = "none" THEN EventOf(m) ELSE @]

IngestBody(c) ==
    /\ stage[c] = "body_event"
    /\ Ingest(snap[c].obs + 1, "body")
    /\ Observe(c, "emitted")
    /\ UNCHANGED <<record, objects, leases>>

EventId(c) == snap[c].obs + (IF mark[c] = "emitted" THEN 2 ELSE 1)

IngestEvent(c) ==
    /\ stage[c] = "event"
    /\ Ingest(EventId(c), mark[c])
    /\ ToStage(c, "put")
    /\ UNCHANGED <<record, objects, leases>>

(* Mutants: the answer's status is stored as the task's; a body report     *)
(* completes the task.                                                     *)
StatusAfterAnswer(m, s) == IF m \in Transitions THEN "TRANSITIONED" ELSE s

StatusAfterReport(m, s) ==
    CASE m = "paused" -> "PAUSED"
      [] m \in {"created", "resumed"} -> "RUNNING"
      [] m = "cancelled" -> "CANCELLED"
      [] m \in {"completed", "reported"} -> "COMPLETED"
      [] m = "replaced" /\ s = "RUNNING" -> "PAUSED"
      [] OTHER -> s

StatusAfter(m, s) ==
    CASE m = "paused" -> "PAUSED"
      [] m \in {"created", "resumed"} -> "RUNNING"
      [] m = "cancelled" -> "CANCELLED"
      [] m = "completed" -> "COMPLETED"
      [] m = "replaced" /\ s = "RUNNING" -> "PAUSED"
      [] OTHER -> s

(* The record a call writes: its snapshot, the new observations and what   *)
(* its event says happened.                                                *)
Updated(c) ==
    [status |-> StatusAfter(mark[c], snap[c].status),
     lease |-> IF mark[c] \in {"created", "replaced"} THEN got[c] ELSE snap[c].lease,
     obs |-> EventId(c),
     cps |-> snap[c].cps + (IF mark[c] = "checkpoint" THEN 1 ELSE 0),
     arts |-> snap[c].arts \cup (IF mark[c] = "captured" THEN {content[c]} ELSE {}),
     verified |-> snap[c].verified \/ mark[c] = "completed",
     rev |-> snap[c].rev + 1]

(* Mutant: the record is written without the expected revision.            *)
PutTaskUnguarded(c) ==
    /\ stage[c] = "put" /\ op[c] # "create"
    /\ Updated(c).rev >= record.rev
    /\ record' = Updated(c) /\ Over(c)
    /\ UNCHANGED <<events, objects, leases>>

PutTask(c) ==
    /\ stage[c] = "put" /\ op[c] # "create"
    /\ \/ record.rev = snap[c].rev /\ record' = Updated(c)
       \/ record.rev # snap[c].rev /\ UNCHANGED record
    /\ Over(c)
    /\ UNCHANGED <<events, objects, leases>>

(* The creation is put without an expected revision: the store refuses it  *)
(* only over a later revision, and then the fresh lease is released.       *)
PutCreated(c) ==
    /\ stage[c] = "put" /\ op[c] = "create"
    /\ \/ record.rev <= 1 /\ record' = Updated(c) /\ Over(c)
       \/ record.rev > 1 /\ ToStage(c, "end_get") /\ UNCHANGED record
    /\ UNCHANGED <<events, objects, leases>>

-----------------------------------------------------------------------------
(* A store call rejects, or the process dies: the call stops at its await. *)
Fail(c) ==
    /\ stage[c] # "none"
    /\ Over(c)
    /\ UNCHANGED stores

(* The broker, called by others: a body suspended or released, a lease     *)
(* revoked, released or expired; a lease renewed.                          *)
EndElsewhere(l) ==
    /\ Active(l)
    /\ leases' = [leases EXCEPT ![l] = [state |-> "ENDED", rev |-> @.rev + 1]]
    /\ UNCHANGED <<record, events, objects, locals>>

RenewElsewhere(l) ==
    /\ Active(l) /\ leases[l].rev + l <= MaxRenewed
    /\ leases' = [leases EXCEPT ![l].rev = @ + 1]
    /\ UNCHANGED <<record, events, objects, locals>>

Begin(c) ==
    \/ BeginCreate(c) \/ BeginExecute(c) \/ BeginPause(c) \/ BeginResume(c) \/ BeginCancel(c)
    \/ BeginReport(c) \/ BeginComplete(c) \/ BeginReplace(c) \/ BeginCheckpoint(c)

Proceed(c) ==
    \/ LeaseGate(c) \/ AuthorityGate(c) \/ EndGet(c) \/ EndPut(c) \/ Acquire(c)
    \/ PutObject(c) \/ IngestBody(c) \/ IngestEvent(c) \/ PutTask(c) \/ PutCreated(c)

Next ==
    \/ \E c \in Clients : Begin(c) \/ Proceed(c) \/ Fail(c)
    \/ \E l \in LeaseIds : EndElsewhere(l) \/ RenewElsewhere(l)

Spec == Init /\ [][Next]_vars
-----------------------------------------------------------------------------
TaskRecords ==
    [status : {"NONE", "RUNNING", "PAUSED", "CANCELLED", "COMPLETED"},
     lease : {0} \cup LeaseIds, obs : Nat, cps : Nat, arts : SUBSET Contents,
     verified : BOOLEAN, rev : Nat]

FabricTypeOK ==
    /\ record \in TaskRecords /\ snap \in [Clients -> TaskRecords]
    /\ events \in [EventIds -> {"none", "transition", "attempt"}]
    /\ objects \subseteq Contents
    /\ leases \in [LeaseIds -> [state : {"NONE", "ACTIVE", "ENDED"}, rev : Nat]]
    /\ stage \in [Clients -> Stages] /\ op \in [Clients -> Ops]
    /\ mark \in [Clients -> Marks \cup {"none"}]
    /\ content \in [Clients -> Contents \cup {"none"}]
    /\ got \in [Clients -> {0} \cup LeaseIds] /\ heldRev \in [Clients -> Nat]

(* Whatever a call was doing when it died, the record names only events,   *)
(* artifacts and a lease that are already durable.                         *)
RecordRefersOnlyToDurableFacts ==
    record # NoTask =>
        /\ \A n \in 1..record.obs : events[n] # "none"
        /\ record.arts \subseteq objects
        /\ leases[record.lease] # NoLease

(* Whatever the interleaving, the durable record lives the promised life:  *)
(* no status out of order, no revision skipped, no observation, checkpoint *)
(* or artifact forgotten, nothing but records added to a finished task.    *)
Life == INSTANCE TaskLifecycle WITH task <- record
ImplementsTaskLifecycle == Life!TaskSpec

(* A call whose write is stored wrote over exactly the record it read,     *)
(* although the store compares revisions only: no update is lost.          *)
NoUpdateIsLost ==
    [][\A c \in Clients : PutTask(c) /\ record' # record => record = snap[c]]_vars

(* cancelTask, completeTask: the lease of the finished task has ended,     *)
(* unless a renewal overtook the release.                                  *)
FinishingEndsTheLease ==
    [][\A c \in Clients :
          PutTask(c) /\ record' # record /\ mark[c] \in {"cancelled", "completed"}
             => \/ ~Active(record'.lease)
                \/ heldRev[c] # 0 /\ leases[record'.lease].rev > heldRev[c]]_vars

=============================================================================
