---------------------------- MODULE CompanionHost ----------------------------
(***************************************************************************)
(* The companion host on the user's device: its tick, the queue that keeps *)
(* local work orders while the device is offline, the paired session every *)
(* access is gated by, the device's event log and its replay into the      *)
(* store.  The host is entered twice: by drain, which ticks until nothing  *)
(* is left to do, and directly, by a caller that pairs or reconciles while *)
(* a tick is under way.  A step is the code from one await to the next.    *)
(* What the fabric does with a task is ExecutionFabric's; here a call of   *)
(* it has the outcomes the host tells apart.  Orders come by drain alone:  *)
(* two runs racing for one task id are ExecutionFabric's too.              *)
(***************************************************************************)
EXTENDS Integers, Sequences, FiniteSets, SequencesExt, FiniteSetsExt

CONSTANTS
    Orders,          \* the work orders; an order is its task's id
    Local,           \* those that require a body on the user's device
    Program,         \* each order's steps: "surface", "emit", "capture", "foreign"
    LogIsDurable,    \* does the device's event log outlive the process?
    MaxCommands,     \* bound: commands given to the host
    MaxDisturbances, \* bound: refusals, throws, restarts, session ends, device moves
    None             \* no order

StepKinds == {"surface", "emit", "capture", "foreign"}

ASSUME CompanionAssumption ==
    /\ Local \subseteq Orders /\ None \notin Orders
    /\ Program \in [Orders -> Seq(StepKinds)]
    /\ LogIsDurable \in BOOLEAN
    /\ MaxCommands \in Nat /\ MaxDisturbances \in Nat

Entries == {"drain", "direct"}
Commands == [kind : {"run-work-order"}, order : Orders]
    \cup [kind : {"pair-companion", "reconcile"}, order : {None}]
Points == {"idle", "tick", "ingest", "release", "next", "create", "step", "complete", "poll", "end"}
Events == [kind : StepKinds \cup {"queued", "released", "paired", "pairing-refused",
                                  "session-ended", "denied"}, order : Orders \cup {None}]
Hosts == [pc : Points, next : Nat, upto : Nat, rest : Seq(Nat), order : Orders \cup {None},
          index : Nat, verified : BOOLEAN, then : Points]

VARIABLES
    source,      \* the commands not yet polled
    online,      \* the device's presence
    session,     \* UNPAIRED, ACTIVE or EXPIRED
    queue,       \* the offline queue: tickets, in the order they were given out
    log, acked,  \* the device's event log and its acknowledgement watermark
    held,        \* the events the store holds: sequence number and event
    task,        \* the durable task of each order
    host,        \* where each entry is, and its locals
    commands, disturbances,
    order,       \* auxiliary: the order of each ticket
    begun,       \* auxiliary: the tickets run, in the order they began
    dropped,     \* auxiliary: the tickets that will not be
    excused,     \* auxiliary: has a restart or a throwing order dropped any?
    done         \* auxiliary: each order's steps that succeeded

device == <<online, session>>
ledger == <<order, begun, dropped, excused>>
vars == <<source, device, queue, log, acked, held, task, host, commands, disturbances, ledger, done>>

Out == [pc |-> "idle", next |-> 0, upto |-> 0, rest |-> <<>>,
        order |-> None, index |-> 0, verified |-> TRUE, then |-> "idle"]

Init ==
    /\ source = <<>> /\ online = TRUE /\ session = "UNPAIRED"
    /\ queue = <<>> /\ log = <<>> /\ acked = 0 /\ held = {}
    /\ task = [o \in Orders |-> "none"]
    /\ host = [e \in Entries |-> Out]
    /\ commands = 0 /\ disturbances = 0
    /\ order = <<>> /\ begun = <<>> /\ dropped = {} /\ excused = FALSE
    /\ done = [o \in Orders |-> 0]

Event(kind, o) == [kind |-> kind, order |-> o]
Emit(kind, o) == log' = Append(log, Event(kind, o))

Goto(e, p) == host' = [host EXCEPT ![e].pc = p]
Disturb ==
    /\ disturbances < MaxDisturbances
    /\ disturbances' = disturbances + 1

-----------------------------------------------------------------------------
(* Reconciliation: read the watermark and what lies beyond it, ingest it   *)
(* event by event, acknowledge the last one at the end.                    *)

Reconcile(e, p) ==
    host' = [host EXCEPT ![e].pc = "ingest", ![e].next = acked + 1, ![e].upto = Len(log), ![e].then = p]

IsHeld(n) == \E h \in held : h.seq = n

Ingest(e) ==
    /\ host[e].pc = "ingest" /\ host[e].next <= host[e].upto
    /\ LET n == host[e].next
       IN  held' = IF IsHeld(n) THEN held ELSE held \cup {[seq |-> n, event |-> log[n]]}
    /\ host' = [host EXCEPT ![e].next = @ + 1]
    /\ UNCHANGED <<source, device, queue, log, acked, task, commands, disturbances, ledger, done>>

(* Mutant: the whole log is acknowledged, not what the pass replayed.      *)
LastReplayedLog(e) == Len(log)

LastReplayed(e) == host[e].next - 1

Acknowledge(e) ==
    /\ host[e].pc = "ingest" /\ host[e].next > host[e].upto
    /\ acked' = Max({acked, LastReplayed(e)})
    /\ Goto(e, host[e].then)
    /\ UNCHANGED <<source, device, queue, log, held, task, commands, disturbances, ledger, done>>

-----------------------------------------------------------------------------
(* A tick: the queued work first when the device is back, then one command.*)

Drain ==
    /\ host["drain"].pc = "idle"
    /\ Goto("drain", "tick")
    /\ UNCHANGED <<source, device, queue, log, acked, held, task, commands, disturbances, ledger, done>>

(* Mutant: the queue is emptied before the log is reconciled.              *)
TickReleasesFirst ==
    /\ host["drain"].pc = "tick"
    /\ IF queue # <<>> /\ online
       THEN /\ host' = [host EXCEPT !["drain"].pc = "ingest", !["drain"].next = acked + 1,
                                    !["drain"].upto = Len(log), !["drain"].then = "next",
                                    !["drain"].rest = queue]
            /\ queue' = <<>>
       ELSE Goto("drain", "poll") /\ UNCHANGED queue
    /\ UNCHANGED <<source, device, log, acked, held, task, commands, disturbances, ledger, done>>

Tick ==
    /\ host["drain"].pc = "tick"
    /\ IF queue # <<>> /\ online THEN Reconcile("drain", "release") ELSE Goto("drain", "poll")
    /\ UNCHANGED <<source, device, queue, log, acked, held, task, commands, disturbances, ledger, done>>

(* The released orders run one by one; the host holds the rest meanwhile.  *)
BeginNext(rest) ==
    IF rest = <<>>
    THEN /\ Goto("drain", "poll")
         /\ UNCHANGED <<log, begun>>
    ELSE /\ Emit("released", order[Head(rest)])
         /\ begun' = Append(begun, Head(rest))
         /\ host' = [host EXCEPT !["drain"].pc = "create", !["drain"].rest = Tail(rest),
                                 !["drain"].order = order[Head(rest)], !["drain"].then = "next"]

ReleaseAll ==
    /\ host["drain"].pc = "release"
    /\ queue' = <<>>
    /\ BeginNext(queue)
    /\ UNCHANGED <<source, device, acked, held, task, commands, disturbances,
                   order, dropped, excused, done>>

BeginRest ==
    /\ host["drain"].pc = "next"
    /\ BeginNext(host["drain"].rest)
    /\ UNCHANGED <<source, device, queue, acked, held, task, commands, disturbances,
                   order, dropped, excused, done>>

(* A local order the device is offline for: queued, unless it has a step   *)
(* the companion's body does not offer.                                    *)
RunOrder(o) ==
    IF o \in Local /\ ~online
    THEN /\ Goto("drain", "end")
         /\ IF \E i \in DOMAIN Program[o] : Program[o][i] = "foreign"
            THEN UNCHANGED <<queue, log, order>>
            ELSE /\ order' = Append(order, o)
                 /\ queue' = Append(queue, Len(order) + 1)
                 /\ Emit("queued", o)
    ELSE /\ host' = [host EXCEPT !["drain"].pc = "create", !["drain"].order = o, !["drain"].then = "end"]
         /\ UNCHANGED <<queue, log, order>>

(* The pairing authority takes the code, or does not know it.              *)
Pair(e, p) ==
    /\ Goto(e, p)
    /\ \/ session' = "ACTIVE" /\ Emit("paired", None)
       \/ session' = session /\ Emit("pairing-refused", None)

Poll ==
    /\ host["drain"].pc = "poll"
    /\ IF source = <<>>
       THEN Goto("drain", "end") /\ UNCHANGED <<source, session, queue, log, order>>
       ELSE /\ source' = Tail(source)
            /\ CASE Head(source).kind = "run-work-order" -> RunOrder(Head(source).order) /\ UNCHANGED session
                 [] Head(source).kind = "pair-companion" -> Pair("drain", "end") /\ UNCHANGED <<queue, order>>
                 [] OTHER -> Reconcile("drain", "end") /\ UNCHANGED <<session, queue, log, order>>
    /\ UNCHANGED <<online, acked, held, task, commands, disturbances, begun, dropped, excused, done>>

(* Mutant: queued work is waited for even while the device is away.        *)
IdleWhenEmpty == source = <<>> /\ queue = <<>>

Idle == source = <<>> /\ (queue = <<>> \/ ~online)

EndTick ==
    /\ host["drain"].pc = "end"
    /\ host' = [host EXCEPT !["drain"] = IF Idle THEN Out ELSE [Out EXCEPT !.pc = "tick"]]
    /\ UNCHANGED <<source, device, queue, log, acked, held, task, commands, disturbances, ledger, done>>

-----------------------------------------------------------------------------
(* A work order: create the task, run its steps, complete it.              *)

Cur == host["drain"].order
OrderOver == host' = [host EXCEPT !["drain"].pc = host["drain"].then, !["drain"].order = None,
                                  !["drain"].index = 0, !["drain"].verified = TRUE]

(* Mutant: an order whose run was cut off may be given again.              *)
IsNewOrCut(o) == task[o] \in {"none", "RUNNING"}

IsNew(o) == task[o] = "none"

(* Task ids are single-use; the companion's body takes a task only while   *)
(* its session is ACTIVE, and the fabric's gates may refuse.               *)
CreateTask ==
    /\ host["drain"].pc = "create"
    /\ \/ /\ IsNew(Cur)
          /\ Cur \in Local => session = "ACTIVE"
          /\ task' = [task EXCEPT ![Cur] = "RUNNING"]
          /\ Goto("drain", "step")
          /\ UNCHANGED disturbances
       \/ /\ ~IsNew(Cur) \/ (Cur \in Local /\ session # "ACTIVE")
          /\ OrderOver
          /\ UNCHANGED <<task, disturbances>>
       \/ /\ Disturb /\ OrderOver /\ UNCHANGED task
    /\ UNCHANGED <<source, device, queue, log, acked, held, commands, ledger, done>>

(* What a step does on the companion's body: the file and process surfaces *)
(* ask for the session, an emitted observation and a captured artifact do  *)
(* not; a body elsewhere never asks.  Refused, a step emits a denial.      *)
Offered(kind) == Cur \notin Local \/ kind # "foreign"
Allowed(kind) == Cur \in Local /\ kind = "surface" => session = "ACTIVE"

Succeed(kind) ==
    /\ Offered(kind) /\ Allowed(kind)
    /\ IF Cur \in Local /\ kind # "capture" THEN Emit(kind, Cur) ELSE UNCHANGED log
    /\ done' = [done EXCEPT ![Cur] = @ + 1]
    /\ host' = [host EXCEPT !["drain"].index = @ + 1]

(* Mutant: a failing step stops the program and leaves the verdict.        *)
StoppedVerified == [host["drain"] EXCEPT !.pc = "complete"]

Stopped == [host["drain"] EXCEPT !.pc = "complete", !.verified = FALSE]

Fail(kind) ==
    /\ IF Cur \in Local /\ kind = "surface" THEN Emit("denied", Cur) ELSE UNCHANGED log
    /\ host' = [host EXCEPT !["drain"] = Stopped]
    /\ UNCHANGED done

Step ==
    /\ host["drain"].pc = "step" /\ host["drain"].index < Len(Program[Cur])
    /\ LET kind == Program[Cur][host["drain"].index + 1]
       IN  \/ Succeed(kind) /\ UNCHANGED disturbances
           \/ ~(Offered(kind) /\ Allowed(kind)) /\ Fail(kind) /\ UNCHANGED disturbances
           \/ Disturb /\ Fail(kind)
           \/ Disturb /\ host' = [host EXCEPT !["drain"] = Stopped] /\ UNCHANGED <<log, done>>
    /\ UNCHANGED <<source, device, queue, acked, held, task, commands, ledger>>

StepsOver ==
    /\ host["drain"].pc = "step" /\ host["drain"].index = Len(Program[Cur])
    /\ Goto("drain", "complete")
    /\ UNCHANGED <<source, device, queue, log, acked, held, task, commands, disturbances, ledger, done>>

CompleteTask ==
    /\ host["drain"].pc = "complete"
    /\ \/ /\ task' = [task EXCEPT ![Cur] = IF host["drain"].verified THEN "VERIFIED" ELSE "UNVERIFIED"]
          /\ UNCHANGED disturbances
       \/ Disturb /\ UNCHANGED task
    /\ OrderOver
    /\ UNCHANGED <<source, device, queue, log, acked, held, commands, ledger, done>>

-----------------------------------------------------------------------------
(* The host entered directly, and what happens around it.                  *)

DirectPair ==
    /\ host["direct"].pc = "idle"
    /\ commands < MaxCommands /\ commands' = commands + 1
    /\ Pair("direct", "idle")
    /\ UNCHANGED <<source, online, queue, acked, held, task, disturbances, ledger, done>>

DirectReconcile ==
    /\ host["direct"].pc = "idle"
    /\ commands < MaxCommands /\ commands' = commands + 1
    /\ Reconcile("direct", "idle")
    /\ UNCHANGED <<source, device, queue, log, acked, held, task, disturbances, ledger, done>>

Submit(c) ==
    /\ commands < MaxCommands /\ commands' = commands + 1
    /\ source' = Append(source, c)
    /\ UNCHANGED <<device, queue, log, acked, held, task, host, disturbances, ledger, done>>

DeviceMoves ==
    /\ Disturb
    /\ online' = ~online
    /\ UNCHANGED <<source, session, queue, log, acked, held, task, host, commands, ledger, done>>

SessionExpires ==
    /\ Disturb /\ session = "ACTIVE"
    /\ session' = "EXPIRED"
    /\ UNCHANGED <<source, online, queue, log, acked, held, task, host, commands, ledger, done>>

EndSession ==
    /\ Disturb /\ session # "UNPAIRED"
    /\ session' = "UNPAIRED" /\ Emit("session-ended", None)
    /\ UNCHANGED <<source, online, queue, acked, held, task, host, commands, ledger, done>>

(* A call the host awaits throws: the entry unwinds, and what it had taken *)
(* off the queue goes with it.                                             *)
Throw(e) ==
    /\ Disturb
    /\ host[e].pc \in {"create", "step", "complete"}
         \/ (host[e].pc = "ingest" /\ host[e].next <= host[e].upto)
    /\ host' = [host EXCEPT ![e] = Out]
    /\ dropped' = dropped \cup Range(host[e].rest)
    /\ excused' = (excused \/ host[e].pc # "ingest")
    /\ \/ UNCHANGED log
       \/ /\ host[e].pc = "step" /\ Cur \in Local /\ host[e].index < Len(Program[Cur])
          /\ Emit(Program[Cur][host[e].index + 1], Cur)
    /\ UNCHANGED <<source, device, queue, acked, held, task, commands, order, begun, done>>

(* The process restarts: the queue, the session and both entries are gone. *)
Restart ==
    /\ Disturb
    /\ host' = [e \in Entries |-> Out]
    /\ session' = "UNPAIRED" /\ queue' = <<>>
    /\ dropped' = dropped \cup Range(queue) \cup Range(host["drain"].rest)
    /\ excused' = TRUE
    /\ IF LogIsDurable THEN UNCHANGED <<log, acked>> ELSE log' = <<>> /\ acked' = 0
    /\ UNCHANGED <<source, online, held, task, commands, order, begun, done>>

Replay(e) == Ingest(e) \/ Acknowledge(e)
DrainStep ==
    \/ Replay("drain")
    \/ Tick \/ ReleaseAll \/ BeginRest \/ Poll \/ EndTick
    \/ CreateTask \/ Step \/ StepsOver \/ CompleteTask

Next ==
    \/ Drain \/ DrainStep
    \/ DirectPair \/ DirectReconcile \/ Replay("direct")
    \/ \E c \in Commands : Submit(c)
    \/ DeviceMoves \/ SessionExpires \/ EndSession
    \/ Restart \/ \E e \in Entries : Throw(e)

(* What the host awaits answers, or throws; nobody has to call it.         *)
CompanionSpec == Init /\ [][Next]_vars /\ WF_vars(DrainStep) /\ WF_vars(Replay("direct"))

-----------------------------------------------------------------------------
(* The variables have their types.                                         *)
CompanionTypeOK ==
    /\ source \in Seq(Commands) /\ online \in BOOLEAN
    /\ session \in {"UNPAIRED", "ACTIVE", "EXPIRED"}
    /\ queue \in Seq(1..Len(order)) /\ order \in Seq(Local)
    /\ log \in Seq(Events) /\ acked \in 0..Len(log)
    /\ held \subseteq [seq : Nat, event : Events]
    /\ task \in [Orders -> {"none", "RUNNING", "VERIFIED", "UNVERIFIED"}]
    /\ host \in [Entries -> Hosts] /\ host["drain"].rest \in Seq(1..Len(order))
    /\ \A e \in Entries : host[e].upto <= Len(log)
    /\ host["drain"].pc \in {"create", "step", "complete"} <=> Cur # None
    /\ commands \in 0..MaxCommands /\ disturbances \in 0..MaxDisturbances
    /\ begun \in Seq(1..Len(order)) /\ dropped \subseteq 1..Len(order) /\ excused \in BOOLEAN
    /\ done \in [Orders -> Nat] /\ \A o \in Orders : done[o] <= Len(Program[o])

(* What the watermark acknowledges the store holds, and every event it     *)
(* holds once and as the log has it, whatever passes overlapped, died half *)
(* way or were told of events that arrived behind them ("EXACTLY-ONCE, NO  *)
(* LOSS, NO DUPLICATION").                                                 *)
AckedIsHeld ==
    /\ \A n \in 1..acked : IsHeld(n)
    /\ \A h \in held : h.seq \in DOMAIN log /\ h.event = log[h.seq]
    /\ \A g, h \in held : g.seq = h.seq => g = h

(* The tickets begun, then those in the hands of the release, then the     *)
(* queue.                                                                  *)
Line == begun \o host["drain"].rest \o queue

(* An order once queued is run, waiting, or in the hands of the release, in*)
(* the order it was queued, and only an order that threw or a restart takes*)
(* others away with it ("FIFO, nothing lost, nothing duplicated"): not a   *)
(* reconciliation that fails before the release.                           *)
QueueKeepsItsOrders ==
    /\ \A i, j \in DOMAIN Line : i < j => Line[i] < Line[j]
    /\ Range(Line) = 1..Len(order) \ dropped
    /\ dropped # {} => excused

(* A task is verified exactly when each step of its program ran once and   *)
(* succeeded, whatever became of the session in between and however often  *)
(* the order was given ("honest: never fabricated").                       *)
VerdictIsEarned ==
    \A o \in Orders :
        task[o] \in {"VERIFIED", "UNVERIFIED"} =>
            (task[o] = "VERIFIED" <=> done[o] = Len(Program[o]))

(* A drain returns: it waits neither for queued work while the device is   *)
(* away nor for itself ("drain() returns, never looping").                 *)
DrainEnds == host["drain"].pc # "idle" ~> host["drain"].pc = "idle"
=============================================================================
