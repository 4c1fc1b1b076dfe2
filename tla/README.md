# Verification of the SOS 2.0 durable core

SOS 2.0 is a TypeScript monorepo (`src/packages/*`, `src/apps/*`): some seventy
packages around a small stateful core.  Most packages compute pure, immutable
artifacts and are well served by unit tests.  The core is different: a task, the body
(agent runtime) that executes it, and the lease that binds the two are durable records
in a store, changed by asynchronous services that may run concurrently, in one process
or in several, and that may die at any `await`.  There is no transaction across
records, no lock, and no background process: what keeps the records right is one
guarded row write and the order in which the services read, check and write.  That is
what the modules here are about.

All paths below are under `src/packages/` unless they start with `src/`.

## 1. Inventory

### live-store: the revisioned record engine

`live-store/src/memory/record-engine.ts`, over the adapter ports of
`live-store/src/ports/`; reference adapters in `memory/in-memory-*.ts`.

* State: per record id one Postgres row (record, `storage_version`, append-only
  history) and optionally one Redis entry of the same record.
* Operations: `put(record, {expected_revision})`, `get(id)`, `list`, `history`.
* Interaction: every repository of the store is a thin layer over one engine; all
  other components keep their durable state through it.
* Hard: `put` reads the row, judges it, and writes one or two awaits later under a
  storage-version guard; a lost insert falls through to a second read and judgement;
  `get` fills the cache after its own await.
* Correct when: each call behaves as if it took effect at one instant; revisions grow;
  immutable records stand; an expected revision is really the one replaced; a conflict
  is never answered to a caller nobody raced; Redis never holds what Postgres did not.

### live-store: the body lease repository

`live-store/src/memory/repositories.ts` (`InMemoryBodyLeaseRepository`),
`records/body-lease.ts`.

* State: one revisioned record per lease id (ACTIVE, RELEASED, REVOKED, EXPIRED, body,
  expiry) and a TTL mirror in Redis.
* Operations: `acquire`, `release`, `revoke`, `expireDue`, `put`, `get`, `list`.
* Hard: check-then-write over a possibly cached read; four ways to end a lease plus a
  renewal, racing.
* Correct when: lease ids are single-use, an ended lease never becomes ACTIVE again,
  the states follow each other as documented.

### body-broker

`body-broker/src/broker.ts`, `lease-gate.ts`, `body-health.ts`, `selection.ts`.

* State: the in-memory pool of bodies and their health; leases (durable).
* Operations: `registerBody`, `suspendBody`, `resumeBody`, `releaseBody`,
  `acquireLease`, `releaseLease`, `renewLease`, `authorizeOperation`,
  `replaceBodyLease`.
* Hard: health is checked before an await and written after another; lease ids are
  counted from a list read before the write; two-step replacement.
* Correct when: an ended lease is written by nobody, a suspension nobody got in the way
  of leaves no ACTIVE lease on its body, a replacement acquires only after the old
  lease ended, the gate is truthful.

### execution-fabric

`execution-fabric/src/fabric.ts`, `authority-gate.ts`.

* State: none of its own; one `TaskRecord` per task, the observation store, the object
  store and the leases are all durable elsewhere.
* Operations: `createBoundedTask`, `execute`, `pauseTask`, `resumeTask`, `cancelTask`,
  `reportBodyCompletion`, `completeTask`, `replaceBodyForTask`, `recordCheckpoint`.
* Hard: up to eight awaits between the read of the task and its one write; four stores
  written in sequence with no transaction; observation ids derived from a count that
  may be stale; lost writes that are swallowed.
* Correct when: the record lives the documented task life, names only durable facts,
  loses no update, and a finished task no longer holds its lease.

### task-graph

`task-graph/src/graph.ts`, `node.ts`, `scope.ts`, `invariants.ts`.

* State: none of its own.  Every node is a task record: the record's status is the
  node's state, its `plan` the graph's snapshot of everything else (scope,
  dependencies, assignment, asks, recovery, checkpoint chain).
* Operations: `addNode`, `assign`, `recordFailure`, `retry`, `recordAsk`,
  `resolveAsk`, `recordVerificationRef`, `recordWorkspaceRevision`,
  `adoptFabricTransition`, `recordCheckpointRef`; `scan`.
* Interaction: the fabric writes the status, the lease and the checkpoints of the
  same record; task-runtime and the orchestrator call graph and fabric in turn.
* Hard: the new node is computed from one read and written over another
  (`writeNode` reads again and guards with the revision of that second read), so the
  guard does not stop a stale node; `assign` checks other tasks' records and writes
  its own.
* Correct when: status and plan agree whoever wrote them, nothing is COMPLETED
  unverified, the chain names durable checkpoints, active scopes and lanes are disjoint,
  and a call nobody got in the way of makes one legal typed transition.

### task-runtime

`task-runtime/src/runtime.ts`, `integrity.ts`.

* State: the integrity hashes of the checkpoints it captured, in memory; everything
  else is the task record and its leases.
* Operations: `startTask`, `runProgram` (with checkpoint capture),
  `resumeFromCheckpoint`, `completeTask`, `cancelTask`, `executeRecoveryPlan`.
* Interaction: scripts of fabric, graph and lease calls, up to five durable writes each.
* Hard: any prefix of a script may be what a crash leaves, and two scripts on one task
  interleave at every write; the prior node of an adoption is read after the fabric wrote.
* Correct when: a run that ends has the transcript of an uninterrupted run, a finished
  task stays finished and is bound to no ACTIVE lease.

### orchestrator and worker-runtime

`orchestrator/src/orchestrator.ts`, `verification.ts`, `escalation.ts`;
`worker-runtime/src/runtime.ts`.

* State: none durable of its own; the ask queue and the bodies' sessions are in memory.
* Operations: `tick` (recover, dispatch, execute, ingest, scan), `runToCompletion`, the
  worker's session on a body (create, resume, adopt) and its program, answers to asks.
* Hard: a tick is a long sequence of durable writes and may die at each of them; lanes,
  scopes and the bodies in use are derived afresh from the durable nodes and leases.
* Correct when: active tasks never collide, no lease is left behind but by a death, a
  completion rests on the whole program, the scan holds, and every task settles.

### Companion

`src/apps/companion/src/host.ts`, `commands.ts`; `local-companion/src/*.ts`.

* State: an in-memory offline queue of work orders, the paired session, and the
  device's event log with an acknowledgement watermark.
* Operations: `tick`, `drain`, pairing, reconciliation, work orders, session end.
* Hard: the queue is emptied before its orders run; events are ingested one await at a
  time and acknowledged once at the end, by a tick and by a direct caller side by side.
* Correct when: nothing released is dropped or run twice, what is acknowledged is held
  and as it was logged, a verdict is earned, a drain returns.

### action-gateway and autonomy-runtime

`action-gateway/src/gateway.ts`, `idempotency.ts`; `autonomy-runtime/src/`: lease
actions, lease supervisor, cost ledger.

* State: the gateway's receipts per idempotency key and the supervisor's verdict count
  per lease, both in memory; leases, verdict events and the cost episodes in the task
  record, all durable.
* Operations: grant, renew and revoke of a lease through the gateway; `supervise`;
  `CostLedger.append`.
* Hard: a renewal is a release, a list and an acquisition behind one receipt, which is
  answered again to whoever repeats the action; verdict numbers start again with the
  process; the ledger shares its record with fabric and graph.
* Correct when: a renewed lease has ended and has one successor, a returned verdict is
  stored, an answered episode stays where it was put.

### Other components

`cost-policy` (budgets, rate limits, dead letters: synchronous counters in one
process), `event-ingestion` (normalisation in front of the observation repository),
`real-persistence` (HTTP adapters behind the ports of the engine), `deployment*`
(validation around external services), `authority`, `security`, `sandbox` (pure policy
evaluation), `harness*`, `body-runtimes`, `*-bridge` (external programs behind the
harness contract), the semantic packages (pure computations over immutable artifacts)
and the apps (presentation and wiring).  `PROJECT.json` lists each with the reason it
is not modelled.

### How they interact

    companion / orchestrator + worker-runtime / autonomy-runtime
          |                 |                        |
      task-runtime ---- task-graph              action-gateway
          |                 |                        |
      execution-fabric      |        calls, one await each
        |        |          |                        |
    body-broker  |          |                        |
        |        |          |                        |
    lease repository   task, observation, object stores
              \         |        /
            revisioned record engine      (one engine per record family)
               |               |
           Postgres row     Redis entry

All arrows are asynchronous calls; the only shared state is in the stores, plus what
the processes keep in memory: the broker's body pool, the runtime's seals, the
companion's queue and session, the gateway's receipts.  Nothing calls back.

## 2. Modules

| Module | Models | Builds on |
| --- | --- | --- |
| `AtomicRecordStore` | what the engine promises: an atomic compare-and-set register per id, with stale reads only behind a cache | |
| `RecordEngine` | `put` and `get` of one id, one action per provider call | refines `AtomicRecordStore` |
| `LeaseLifecycle` | what a lease promises: ACTIVE once, then one terminal state | |
| `BodyLease` | one lease id: `acquire`, `release`/`revoke`, `expireDue`, the broker's `renewLease`, the gate; clock | instantiates `RecordEngine`, refines `LeaseLifecycle` |
| `BodyBroker` | pool, health, many leases, every broker operation | engine puts taken atomic |
| `TaskLifecycle` | what a task promises: its statuses, and that every write extends the one before | |
| `ExecutionFabric` | the nine task operations on one task, with four stores | refines `TaskLifecycle`; engine puts taken atomic |
| `TaskGraph` | the ten operations of the graph over several tasks, and the fabric's writes of the same records | engine puts and fabric writes taken atomic |
| `TaskRuntime` | the scripts of task-runtime over several tasks, with its seals | graph reads and writes as in `TaskGraph`, fabric writes guarded as in `ExecutionFabric` |
| `Orchestrator` | the scheduling tick and the worker sessions, deaths and restarts | one orchestrator; graph writes taken undisturbed |
| `CompanionHost` | the companion daemon: queue, session, event log, reconciliation | the outcomes of fabric calls |
| `LeaseSupervision` | lease actions behind the gateway, the supervisor, the cost ledger | engine puts taken atomic |
| `MC*` | instances for TLC | |

Proofs are in modules of their own: `RecordEngineProofs`, `LeaseProofs` (for `BodyLease`
and `LeaseSupervision`), `BodyBrokerProofs`, `ExecutionFabricProofs`, `TaskGraphProofs`,
`TaskRuntimeProofs`, `OrchestratorProofs`, `CompanionHostProofs`.

The layering is justified from below: `RecordEngine` is proved to implement an atomic
register, and the modules above it use `put` as one atomic compare-and-set.  A step of
those modules is one repository access and the synchronous code up to the next await.
`ExecutionFabric` in turn is proved to write only over exactly the record it read
(`NoUpdateIsLost`), and `TaskGraph`, `TaskRuntime` and `Orchestrator` take a fabric call
as that one write.

### Correspondence

`RecordEngine`.  `pc[c]` names the provider call the client waits for; `PutRead`,
`PutInsert`, `PutReread`, `PutCas`, `PutFresh`, `PutCache` are the awaits of
`put` in the order of the code, `GetCache`, `GetRead`, `GetFill` those of `get`.
`JudgePut` is the synchronous block of checks (identical content, rule 4, rule 3, rule
5, in this order).  `row`/`version` are `getRow`/`putRow` of the Postgres adapter;
`WriteRow` happens under `if_absent` or under the storage version read.  `SetCache`
is `cacheSetSafely`: its errors are swallowed, so the refresh may not happen.
`Abandon` is a provider call that rejects or a process that dies at any await;
`LoseCache` is a Redis eviction or flush.  `history` and `raced` are auxiliary.

`BodyLease`.  Each call is a sequence of stages over engine calls, which interleave
inside.  Expiry instants and the clock are small integers, 0 is `null`.
`RenewJudge` is the gate inside `renewLease`, `GateDone` the gate of
`authorizeOperation`; both compare a clock value read at the start of the call.

`BodyBroker`.  Bodies are numbered in registration order; a body re-registers never.
`BodyList`, `BodyEndNext`, `BodyEnded` are `endBody`; the releases inside it are the
repository's `release`/`revoke` (`EndRead`, `EndWrite`).  `selectBody` is a nondeterministic
choice among the eligible bodies: capability, cost and latency scores never change
which bodies are AVAILABLE.  A replacement takes the first eligible body in order of
registration.  Expired leases look ACTIVE to `activeLeasesOfBody` as they do in the code.
`late` is auxiliary: the leases stored ACTIVE on the body after the list of `endBody`, which are
all that it may leave behind.

`ExecutionFabric`.  A call reads the record once (`Read`, `Begin*`) and carries it in
`snap`.  `stage[c]` is the await it is in.  The lease gate, the authority gate and the
harness may answer anything they can answer (a refusal, a denial, a failure, a
dispatch); an expiry is a refusal by the gate of an ACTIVE lease.  The three operation
kinds of `execute` differ in what follows the dispatch and share what comes before it,
so the kind is chosen there.  Lists of observation and checkpoint ids are dense
sequences (`fabric-obs:<task>:<n>`, in order), so their lengths stand for them; events are told
apart by whether they report a transition.  `endLeaseIfLive` reads the lease and
`release` reads it again: the two reads are one step, and a lease ended between them,
which makes `release` throw, is the `Fail` step.  `EndElsewhere` and
`RenewElsewhere` are the broker working for others.

`TaskGraph`.  `call[c]` is the call of a client: the await it is in and the node it is
going to write.  `writeNode`'s read and its guarded put are one step, since the put
succeeds only over exactly the record that read returned; a put that loses is `Fail`.
The reads of the dependencies and the list of the nodes are one step of `assign`.  A node is reduced to
what the properties tell apart: the chain is a set of checkpoint numbers, a scope the
set of what its paths own (two paths overlap when they own something in common),
handoffs, titles, envelopes, retries, the workspace revision and the
observation events are left out (the events and their numbering are the subject of
`ExecutionFabric`).  The calls that are refused without changing anything have no
action of their own; one that is refused after an await is `Fail`.  Dependencies
must be stored before the node that names them, which also keeps them acyclic (G2).  Two
`addNode` calls of one task in flight are excluded as in `CreateOnce` below, for the same
unguarded first put.  `overtaken` and `raced` are auxiliary: which calls
carry a node older than the record, and whether such a call has written.

`TaskRuntime`.  `call[c].at` is the graph or fabric call a script is in, `After` where it
goes on from a graph call.  A graph call is a read that checks (`Read*`) and a write of
the node it computed (`PutNode`), whatever was written between; a fabric call is a read
and a write that an overtaking writer defeats (`FabricPut`).  Leases of a task are
numbered as they are taken; steps of a program are of four kinds, and a transcript is the
sequence of the steps done.  `sealed` is the integrity store: which task's checkpoint an
id stands for.  `LeaseEnds` and `Answer` are the broker and the graph working for others;
`Restart` ends every call and empties the seals.

`Orchestrator`.  `pc` is the phase of the tick and the durable write it is at, in the
order of `tick`: `RecoverLease`, `Retry`; `Dispatch`, `Acquire`, `Assign` or
`Unassign`; `Session` and the worker's steps; `Escalate`, `Park`, `Verify`,
`ReleaseLease`, `CompleteTask`, `Adopt`, `PinVerification`.  A phase works on the list it
read at its start (`todo`).  `env` is the body's session of a task, as the operations done in it;
`stray` counts, by task and body, the ACTIVE leases that no record is bound to,
`died` the ticks that died holding a fresh one.  `TickDies` is a throw out of
the tick, `Restart` a death of the process.  `recent` orders the bodies by the task's leases
for the return to the same body.

`CompanionHost`.  `host` holds the two ways into the host: a drain and a direct caller.
Tickets number the queued orders, so that the same order queued twice is told apart.  The fabric call an
order makes is one step with the outcomes the host distinguishes.  `Throw` is an awaited
call that rejects, at every await of either entry.  `LogIsDurable` says whether the event log
survives the process: the interface of `local-companion/src/observations.ts` asks for it, the
only implementation in the repository keeps it in memory.

`LeaseSupervision`.  A gateway call is one step: the claim, the evaluation and the receipt
have no await of another actor's state between them that a caller could observe.  A
renewal goes on with `Release`, `ListLeases`, `Acquire`.  `BrokerAcquires`, `LeaseEnds`,
`TaskWritten` are others working on the same leases and record.

## 3. Runs

Every run explores its instance completely.  Two clients are enough for the hazards
listed: each is a race of one call against another, and a client starts over, so the
third call of a scenario is a second call of the first client.  Clients are
interchangeable (symmetry, where no liveness is checked).

| Run | Shows | Bounds |
| --- | --- | --- |
| `engine` | types, no spurious conflict, a cache never ahead, refinement of the atomic store, with cache | revisions 0 (immutable), 1, 2 with two contents each; no put starts at storage version 2, which with two puts in flight gives up to three writes |
| `lease_store` | with the cache: ended leases never reactivate | two bodies, no expiry or expiry 1, clock 0..1 |
| `lease_life` | without the cache: the life cycle refinement, the truthful gate | the same |
| `broker` | final ends, what `endBody` and `replaceBodyLease` leave behind | two calls, one task, two bodies, two leases, two renewal revisions |
| `fabric` | the task life refinement, durable facts only, no lost update, finished tasks release | two calls on one task, two leases, record revisions up to 3 read (4 written), one artifact content, one renewal of the first lease |
| `graph` | types; status and plan agree, COMPLETED only verified, durable chains; overlaps only after a race; undisturbed writes are legal transitions | two tasks, two clients, two scopes, lanes and leases, one ask, five record writes: creation of both tasks and assignment of both, with one write left to overtake a call; or one task through three operations after its assignment |
| `orchestrator` | no overlap, no lease left behind but by a death, the scan, whole programs, one live binding; every task settles | three tasks (one waits for another, two collide), two bodies, two lanes, one retry, two disturbances (a failure, a death, a restart, a suspension, an answer) |
| `task_runtime` | transcripts of runs from any checkpoint, finished tasks stay finished and hold no lease | two callers, two tasks (operation, checkpoint, uncertainty; operation, ask), five calls |
| `companion` | acknowledged events are held, queued orders stand, verdicts are earned; a drain returns | four orders (two runnable, one with a step the body does not offer, one for a body elsewhere), three commands, three disturbances, a durable log |
| `supervision` | one lineage per renewal, stored verdicts, standing episodes | two callers, two actions, two episodes, three leases, three calls |
| `graph_lease` | counterexample, see 5 | one client, four record writes |
| `orchestrator_lost_effects` | counterexample, see 5 | one task, two bodies, two retries, three disturbances |

No check in the code compares revisions otherwise than for equality and order with the
one read, so a third or fourth revision adds no case the second does not have.  The
bounds on calls, commands and disturbances are where behaviours are cut: each is large
enough for the scenario that breaks every property of its run when the code is changed
in one place, and `orchestrator` has also been explored with two retries and three
disturbances (two million states).

`CreateOnce` in `ExecutionFabric` restricts calls of the environment, not the code: with two
creations of the same task in flight the record of the first may be overwritten (5),
after which none of the other properties of the task life
can hold; the `fabric` run therefore assumes that an id is created by one caller.

Deadlock is not checked in `broker`, `fabric`, `graph*`, `orchestrator*`,
`task_runtime`, `companion` and `supervision`: when all bodies are RELEASED, the tasks
are finished, or a bound on calls is reached, nothing further starts.
The other runs check it.

Fairness.  Most of the services are passive: a call goes on when its provider answers,
and nothing in the code retries or schedules it, so there is nothing that must happen.
Two components have a scheduler, and fairness is assumed of it only:

* `OrchestratorSpec` has `WF_vars(TickStep)`: `runToCompletion` (and the host's tick source)
  calls `tick` again while a task is active, and a tick that has begun runs on unless it
  throws or the process dies.  Nothing is assumed of the disturbances, which are bounded: `MissionSettles`
  is what the loop reaches once they cease.
* `CompanionSpec` has `WF_vars(DrainStep)` and `WF_vars(Replay("direct"))`: what the host
  awaits answers or throws, and the host goes on.  Nobody has to call it.  `DrainEnds`
  says that a drain that was begun returns.  The guard of 10 000 ticks after which `drain` gives up is not modelled:
  the property holds without it.

## 4. Proofs

All theorems hold for every value of the constants, under the named assumptions of the
module they are about.  Each lemma states what one action does to one part of an
invariant, so that an edit of a model breaks only its own lemma.

`RecordEngineProofs`, for any set of clients and
records, with or without the cache, and for any bound:

* `Typing`: `Spec => []TypeOK`.
* `Invariance`: `Spec => []EngineInv`.  None of the rules is inductive alone: that
  a guarded write replaces the expected revision needs to know what the client judged
  when it read, and that this judgement still holds of the row as long as the storage
  version is the one it remembers.  `JudgedRowStands` says so; `OnlyStoredRecords`
  says that whatever is in the cache or on the way to it was stored; the other
  conjuncts tie versions to rows and idle clients to answers.
* `RevisionsGrow`, `ImmutableStands`, `ExpectationHolds` (rules 3, 4, 5),
  `ConflictsAreReal`, `CacheIsNeverAhead` (rule 6): from the invariant.
* `Refinement`: `Spec => Store!AbsSpec`, the atomic register.  A put takes effect at
  its guarded write and is refused at its last read; a get takes effect at its last
  read, or earlier when it hits the cache.

The assumptions are those of `RecordEngine`: revisions are natural numbers, the absent
record is not a record, the flag is Boolean.

`LeaseProofs` on `BodyLease`, for any clients, bodies, expiries and clock:

* `LeaseInvariance`.  A step of the engine under a lease call is one of three things: it
  answers, it moves on, or it stores over the row it judged.  The invariant says that
  whatever a client holds was stored once, and that every write in flight follows
  a stored record of the revision that guards it; revisions being unique, it can replace
  only that record.
* `EndedStaysEnded`, with the cache or without; and, without it, from a second
  invariant (only the latest stored record can be ended, and what a call holds of it was
  true during the call), `GateIsTruthful` and the refinement `LeaseLivesItsLife`.

`BodyBrokerProofs`, for any calls, tasks and bodies:

* `BrokerInvariance`.  A call works from a revision it read; while that is still the
  revision of the lease, the lease is still ACTIVE.  And while `endBody` runs, every ACTIVE
  lease of the body is one it has still to end, or was taken or renewed after its list; the
  lease whose end it is writing has the revision it read, has ended, or is such a late one.
* `EndIsFinal`, `ReplacementWaits`, `EndsAreComplete`: from it, by what one step may
  do to a lease (nothing, end it, renew it, take it).

`ExecutionFabricProofs`, for any calls, contents and bounds:

* `FabricInvariance` and `FabricTyping`.  Stored events, objects and leases are never
  taken back and revisions only grow, so what held of a call at its last step still holds
  at its next; the invariant says of every call which operation may be at which await
  and what its snapshot says of the task.
* `RecordsNameDurableFacts`, `FinishedLeasesEnd`: from it, also when creations race.
* `UpdatesAreNotLost` and the refinement `TaskLivesItsLife`, when an id is created by one
  caller: from the further invariant that a snapshot of the stored revision is the stored record
  and a creation has the task to itself.

`TaskGraphProofs`, for any clients, tasks, scopes, lanes, leases, asks and any bound on
the writes (assuming only that `None` is none of them):

* `GraphTyping`, and `GraphInvariance`: `GraphSpec => []GraphInv`.  That status and plan of
  the record agree is not inductive alone, because the record is replaced by a node computed
  from an older one.  `Fits` says that the node in flight agrees with itself and, where it
  says COMPLETED, with the verification of the record; `Extends` says that what this
  needs of the record (verified, number of checkpoints) only grows, so a node that fits once
  fits for as long as it is in flight.  `CreatorsAlone` says that a creation has its task
  to itself.
* `StatusAndPlanAgree`, `CompletionIsVerified`, `ChainsAreDurable`: from the invariant.
* `UndisturbedWritesAreLegal`: from a second invariant, that a call nobody overtook carries
  a node one legal step away from the stored one (`Follows`).

* `OverlapsAreRaces`.  As long as nothing has raced, a call other than an
  assignment keeps the paths and the assignment of the node it read and so makes no node
  busy; and of the assignments at most one has passed its check, and it stays clear of the
  busy nodes because nothing else makes a node busy.

`TaskRuntimeProofs`, for any callers, tasks, programs and bound on the calls:

* `RuntimeTyping`, and `RuntimeInvariance`: `TaskRuntimeSpec => []RuntimeInv`.  A script is at a
  graph call of its own route, on a task that has a record (`RouteInv`); the leases and
  checkpoints a record or a call names were taken and chained (`RefInv`); what a call knows of
  the record it read is still so unless another write has overtaken it, and even then the end
  it saw is the end of the task (`ReadInv`); the assigned lease of a task is the bound one or
  has ended (`BoundInv`).
* `TranscriptsAreWhole`: `WholeTranscript`, for programs of every length.  `LogInv` says what
  the transcript of a run is at every await, whichever checkpoint it resumed from: it is
  the steps of the program before the worker, in their order, so that the transcript of a
  finished run is the program.
* `FinishedTasksHoldNoLease`, `FinishedTasksStand`: from the invariant.  A task that
  ends gives its bound lease back in the same script, so that the invariant has to say who
  still has it in hand.

`OrchestratorProofs`, for any tasks, programs, dependencies, collisions, bodies, lanes,
retries and disturbances:

* `OrchestratorTyping`, and `OrchestratorInvariance`: `OrchestratorSpec => []OrchestratorInv`.
  A phase of the tick works on a list it read before; that the tasks left on it are still
  in the state it found them in is `PhaseInv`.  `LaneInv` names the states in which a task has a lane and the one await of a completion
  between the lane's release and the pin; `LeaseInv` says of every await who
  holds the lease of the task in hand.  `HomeInv` and `StepInv` say what a body has done of a
  program: a body that is home to a task has done everything before the checkpoint the graph knows,
  and the body that runs it everything before the worker.
* `LanesNeverOverlap`, `StraysAreDeaths`, `ScansHold`, `ReportsAreWhole`: from the invariant; and
  `BindingsAreSingle`, that a step binds no second live lease to a task.

A first `HomeInv` spoke of every task and was not inductive: a task that goes on from its
checkpoint in a session that had not reached it (`moved`) chains further checkpoints there, and
no session has done all that lies before those.  TLC had not found it, because the programs of
its instance have one checkpoint each.  `WholeProgramRan`, which rests on `HomeInv`, excludes moved
tasks, and so does `HomeInv` now.  In the same way the proof of `RouteInv` failed on a guard of the model of
`TaskRuntime` that let a run begin on a task without a record; the guard was a slip of the
model, and is now the one of the code.

`LeaseProofs` on `LeaseSupervision`, for any callers, actions and episodes: the typing, and one
invariant per service.  A renewal past its release has ended its lease, which nobody else
renews (`RenewalsAreOneLineage`).  A verdict on its way to the store has a counted number
no other verdict has, unless that number was given before a restart
(`ReturnedVerdictsAreStored`); so the verdicts a restart costs end where the old count ended.  A
task record that was read is an older one or the stored one (`AnsweredEpisodesStand`).

`CompanionHostProofs`, for any orders, programs, commands and disturbances:

* `CompanionTyping`, and `CompanionInvariance`: `CompanionSpec => []CompanionInv`.  What the
  host keeps in its locals across an await has to be said of it.  `PlaceInv` says which await
  each entry can be at, that a direct caller holds no released order, and that only the loop
  over released orders holds any.
* `QueuedOrdersKeepTheirPlaces`.  `TicketInv`: the tickets begun are smaller than those in the
  hands of the release, these smaller than those queued, each row ascending, and together
  they are all tickets given out and not dropped.  A release that fails in its reconciliation
  has taken nothing off the queue yet, so it drops nothing.
* `VerdictsAreEarned`.  `RunInv`: while an order runs, `done` counts the steps before its index and
  the verdict is still open; a run cut off leaves the task RUNNING, its id is taken, and no
  later run counts on from there.
* `AcknowledgedIsHeld`, under `LogIsDurable`.  `PassInv`: a pass has everything before its place
  in the store, what other passes ingested included.  The hypothesis is needed: with a log
  kept in memory a restart begins it again at 1, and the store then takes new events for
  those it holds.

So every property of the runs is proved except the two about liveness (`MissionSettles`,
`DrainEnds`), which are out of reach of the prover and stay with TLC, as do the two runs
that show a violation.  No module here has a recursive operator.

## 5. Where the code and its words differ

Kept as runs, each with a counterexample of a few steps:

* `graph_lease`: after `replaceBodyForTask` the assignment in the plan still names the old
  lease, and the next graph write that keeps the assignment binds the record to it again
  (`task-graph/src/graph.ts:553`, against `fabric.ts:994-996`).
* `orchestrator_lost_effects`: a task adopted from zero whose tick dies before its first
  checkpoint leaves the fresh session behind; the next tick finds it, takes the task for
  resumed and starts at the old checkpoint, whose effects are gone
  (`worker-runtime/src/runtime.ts:219`).

Met while modelling, shown by an instance of the modules but not kept as runs:

* `lease-gate.ts:8` promises a verdict from the durable record; behind the cache the gate
  authorizes an ended lease from a stale copy, because a slow reader can fill the cache
  after the writer refreshed it (`GateTellsTheTruth` with `UseCache = TRUE`).  From the
  same copy a renewal can rewrite a RELEASED lease, which keeps its state and gains a
  revision: the refinement of `LeaseLifecycle` is checked without the cache.
* An acquisition that passed its health check leaves an ACTIVE lease on a suspended or
  released body (`broker.ts:238`).
* A creation is put without an expected revision, so the stored task does not stand
  (`fabric.ts:438`; `ImplementsTaskLifecycle` with `CreateOnce = FALSE`).
* A differing event under a stored id is dropped silently (`fabric.ts:1149`).
* An executed operation whose record write lost is answered EXECUTED, never CONFLICT
  (`fabric.ts:1280`).
* Checkpoint ids are unique per task, the hashes of a runtime are kept by checkpoint id
  alone: the second task of a process cannot record its first checkpoint
  (`integrity.ts:47`; `NoCaptureIsRefused` with the programs `Pair`, one caller, four
  calls).
* With an event log that does not survive the process, the watermark and the sequence
  numbers start again and new events are taken for old ones (`AckedIsHeld` with
  `LogIsDurable = FALSE`).

Met while modelling, described only:

* A replayed identical `put` that races may be answered REVISION_MISMATCH although rule
  2 (`record-engine.ts:11`) calls it IDENTICAL: the compare-and-set path answers without
  comparing contents (207-218).
* `suspendBody` and `releaseBody` of the same body, concurrently, can end with the
  released body SUSPENDED, although RELEASED is terminal (`body-health.ts:7`).
* Two replacements of one lease leave the task with two ACTIVE leases
  (`broker.ts:499`).
* A lease that ends between the gate and the dispatch still dispatches once
  (`fabric.ts:5`).
* `replaceBodyForTask` on a finished task acquires a lease for it (`fabric.ts:1002`);
  `TaskRuntime` meets the same in a recovery that a cancellation overtakes (`late`).
* A graph write that was overtaken can move a COMPLETED or CANCELLED task back to an active
  state: the guard of `writeNode` is taken from its own read, not from the read the
  node was computed from (`graph.ts:534`).
* Two assignments in flight do not see each other and may overlap, which
  `graph.ts:35-36` rules out.
* A node parked behind an ask from PENDING, unparked and resumed by the fabric under the lease
  of an earlier assignment runs without an assignment (G4, `invariants.ts:16`).
* `completeTask`, `cancelTask` and resume of task-runtime read the prior node after the
  fabric has written (`runtime.ts:257`, `:297`, `:447`): the adoption finds nothing to
  adopt and the assignment of the finished task is never cleared.  A cancellation that died
  after its revocation cannot be repeated: the second revocation is refused.
* `executeRecoveryPlan` never compares the lease the plan calls lost with the one the
  task is bound to by then (`runtime.ts:311`).
* A crash between the completion and `recordVerificationRef` leaves a COMPLETED node
  without its reference (G7), and nothing repairs it.
* Grant and renewal of a lease share their idempotency key: an action repeated behind a
  SUCCEEDED receipt runs its repository calls again and can take a second ACTIVE lease
  (`lease-actions.ts:89`), and a FAILED receipt is answered for ever, although it calls
  itself retryable.  The store of the receipts is in memory.
* Two identical cost episodes appended at once are both answered and stored once.
* After a restart the supervisor numbers its verdicts from one again, and the event store takes
  them for DUPLICATES of the old ones until the old count is passed (`supervisor.ts:84`).

## 6. Not modelled

`list` and `history` of the engine and the other repositories of `live-store` (the
same engine); record validation and parsing; artifact lineage; the scoring of bodies;
the evaluation of authority grants; titles, model routing, costs and the observation
trail of the orchestrator; the recovery decision of the autonomy runtime, which only
reads; the outage registry and the backoff controller, counters of one process; the
actions of the gateway other than those on leases; and everything the inventory lists
under other components.  The modules therefore stand for a small share of the lines of
the repository: most of the rest are pure computations, presentation, demonstrations and
adapters of external services, where nothing interleaves and a unit test reaches what a
model would.

## 7. What could come next

* `TaskRuntime` composed with `ExecutionFabric`, with its observation ids, instead of
  taking a fabric call as one guarded write.
* The orders of the companion refined to task ids of `ExecutionFabric`, with two runs racing for
  one id.
* Two orchestrators on one graph, each with the races `TaskGraph` allows.
