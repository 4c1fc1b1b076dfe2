--------------------------- MODULE LeaseSupervision ---------------------------
(***************************************************************************)
(* The lease side of the autonomy runtime for one task: leases granted,    *)
(* renewed and revoked through the action gateway, their supervision, and  *)
(* the ledger of cost episodes in the task record.  The gateway answers in *)
(* one step, from the receipt of the action's idempotency key or from one  *)
(* evaluation of authority and body, whose answer is an input here, as the *)
(* answers of the beat and failure sources are.  Then comes one repository *)
(* call per step; a put of a repository is atomic (RecordEngine).          *)
(***************************************************************************)
EXTENDS Integers, Sequences, FiniteSets

CONSTANTS
    Callers,     \* concurrent callers of the services
    Actions,     \* what callers name an action by: its body and its sequence number
    Episodes,    \* contents of a cost episode: kind, detail, instant
    MaxLeases,   \* bound: leases of the task
    MaxCalls     \* bound: calls of the services

ASSUME SupervisionAssumption == MaxLeases \in Nat /\ MaxCalls \in Nat

Keys == {"start", "cancel"} \X Actions
Receipts == {"SUCCEEDED", "FAILED", "DENIED"}
Verdicts == {"LOST", "SUSPECTED"}
LeaseNumbers == 1..MaxLeases

VARIABLES
    lease,       \* the leases of the task, as listed: ACTIVE or not, the number in its id (0: an
                 \* id of the broker) and, auxiliary, the lease it renewed (0: none)
    receipt,     \* the gateway's idempotency records
    sequence,    \* the supervisor's count of verdicts per lease
    events,      \* the durable verdict events
    revision,    \* the revision of the task record
    episodes,    \* the cost episodes in it
    call,        \* each caller's call
    calls,       \* the calls so far
    told,        \* auxiliary: the verdicts supervise has returned
    before,      \* auxiliary: the highest number a verdict of a lease had before a restart
    answered     \* auxiliary: the episodes append has returned, with the place in their id

holdings == <<lease, receipt>>
watch == <<sequence, events, told, before>>
ledger == <<revision, episodes, answered>>
supervisionVars == <<holdings, watch, ledger, call, calls>>

Begun(p, l) == [at |-> p, lease |-> l, number |-> 0, live |-> FALSE, kind |-> "none",
                revision |-> 0, episodes |-> <<>>]
NoCall == Begun("none", 0)

SupervisionInit ==
    /\ lease = <<>>
    /\ receipt = [k \in Keys |-> "none"]
    /\ sequence = [l \in LeaseNumbers |-> 0] /\ events = {}
    /\ revision = 1 /\ episodes = <<>>
    /\ call = [c \in Callers |-> NoCall] /\ calls = 0
    /\ told = {} /\ before = [l \in LeaseNumbers |-> 0] /\ answered = {}

(* A caller calls: the call begins as it is given.                         *)
BeginCall(c, begun) ==
    /\ call[c].at = "none" /\ calls < MaxCalls
    /\ calls' = calls + 1
    /\ call' = [call EXCEPT ![c] = begun]

At(c, p) == call[c].at = p /\ UNCHANGED calls
EndCall(c) == call' = [call EXCEPT ![c] = NoCall]
Ended(l) == [lease EXCEPT ![l].live = FALSE]

-----------------------------------------------------------------------------
(* The action gateway: a claimed key is answered with its receipt; only a  *)
(* SUCCEEDED one takes the service on to the lease repository, at p.       *)
Execute(c, operation, l, p) ==
    \E a \in Actions, outcome \in Receipts :
        LET k == <<operation, a>>
            answer == IF receipt[k] = "none" THEN outcome ELSE receipt[k] IN
        /\ receipt' = [receipt EXCEPT ![k] = answer]
        /\ BeginCall(c, IF answer = "SUCCEEDED" THEN Begun(p, l) ELSE NoCall)
        /\ UNCHANGED <<lease, watch, ledger>>

GrantLease(c) == Execute(c, "start", 0, "list")
RenewLease(c) == \E l \in DOMAIN lease : Execute(c, "start", l, "release")
RevokeLease(c) == \E l \in DOMAIN lease : Execute(c, "cancel", l, "revoke")

(* Ending an ended lease throws.                                           *)
Revoke(c) ==
    /\ At(c, "revoke")
    /\ lease' = Ended(call[c].lease) /\ EndCall(c)
    /\ UNCHANGED <<receipt, watch, ledger>>

(* Mutant: the renewal goes on whatever became of the release.             *)
ReleaseUnchecked(c) ==
    /\ At(c, "release")
    /\ lease' = Ended(call[c].lease) /\ call' = [call EXCEPT ![c].at = "list"]
    /\ UNCHANGED <<receipt, watch, ledger>>

Release(c) ==
    /\ At(c, "release")
    /\ \/ lease[call[c].lease].live /\ call' = [call EXCEPT ![c].at = "list"]
       \/ ~lease[call[c].lease].live /\ EndCall(c)
    /\ lease' = Ended(call[c].lease)
    /\ UNCHANGED <<receipt, watch, ledger>>

(* freshLeaseId: one more than the leases listed.                          *)
ListLeases(c) ==
    /\ At(c, "list")
    /\ call' = [call EXCEPT ![c].at = "acquire", ![c].number = Len(lease) + 1]
    /\ UNCHANGED <<holdings, watch, ledger>>

Taken(n) == \E l \in DOMAIN lease : lease[l].id = n

Acquire(c) ==
    /\ At(c, "acquire")
    /\ \/ /\ ~Taken(call[c].number) /\ Len(lease) < MaxLeases
          /\ lease' = Append(lease, [live |-> TRUE, id |-> call[c].number, from |-> call[c].lease])
       \/ Taken(call[c].number) /\ UNCHANGED lease
    /\ EndCall(c)
    /\ UNCHANGED <<receipt, watch, ledger>>

-----------------------------------------------------------------------------
(* The supervisor: read the lease, classify it and number the verdict,     *)
(* ingest the event.                                                       *)

Supervise(c) ==
    /\ \E l \in DOMAIN lease : BeginCall(c, Begun("get", l))
    /\ UNCHANGED <<holdings, watch, ledger>>

GetLease(c) ==
    /\ At(c, "get")
    /\ call' = [call EXCEPT ![c].at = "classify", ![c].live = lease[call[c].lease].live]
    /\ UNCHANGED <<holdings, watch, ledger>>

(* Mutant: the count is taken before the ingest and stored after it.       *)
ClassifyUncounted(c) ==
    LET n == Cardinality({e \in events : e.lease = call[c].lease}) + 1 IN
    /\ At(c, "classify")
    /\ \/ /\ call[c].live
          /\ \E kind \in Verdicts :
                call' = [call EXCEPT ![c].at = "ingest", ![c].number = n, ![c].kind = kind]
       \/ EndCall(c)
    /\ UNCHANGED <<holdings, watch, ledger>>

(* A lease that was read ended, or whose body beats, needs no event.       *)
Classify(c) ==
    LET l == call[c].lease IN
    /\ At(c, "classify")
    /\ \/ /\ call[c].live
          /\ sequence' = [sequence EXCEPT ![l] = @ + 1]
          /\ \E kind \in Verdicts :
                call' = [call EXCEPT ![c].at = "ingest", ![c].number = sequence[l] + 1, ![c].kind = kind]
       \/ EndCall(c) /\ UNCHANGED sequence
    /\ UNCHANGED <<holdings, events, told, before, ledger>>

(* An event id that is stored is a DUPLICATE, whatever the event.          *)
Ingest(c) ==
    LET verdict == [lease |-> call[c].lease, number |-> call[c].number, kind |-> call[c].kind]
        stored == \E e \in events : e.lease = verdict.lease /\ e.number = verdict.number IN
    /\ At(c, "ingest")
    /\ events' = IF stored THEN events ELSE events \cup {verdict}
    /\ told' = told \cup {verdict}
    /\ EndCall(c)
    /\ UNCHANGED <<holdings, sequence, before, ledger>>

-----------------------------------------------------------------------------
(* CostLedger.append: the record that was read, with one episode more.     *)

AppendEpisode(c) ==
    /\ BeginCall(c, Begun("read", 0))
    /\ UNCHANGED <<holdings, watch, ledger>>

ReadTask(c) ==
    /\ At(c, "read")
    /\ call' = [call EXCEPT ![c].at = "append", ![c].revision = revision, ![c].episodes = episodes]
    /\ UNCHANGED <<holdings, watch, ledger>>

AnswerEpisode(c, e) == answered' = answered \cup {[place |-> Len(call[c].episodes) + 1, episode |-> e]}

Put(c, e) ==
    /\ revision' = call[c].revision + 1
    /\ episodes' = Append(call[c].episodes, e)

(* Mutant: the put carries no expected revision.                           *)
PutEpisodeUnguarded(c) ==
    /\ At(c, "append")
    /\ \E e \in Episodes : Put(c, e) /\ AnswerEpisode(c, e)
    /\ EndCall(c)
    /\ UNCHANGED <<holdings, watch>>

(* Stored over the revision that was read; IDENTICAL when the same record  *)
(* is stored already; any other record there is a CONFLICT, which throws.  *)
PutEpisode(c) ==
    /\ At(c, "append")
    /\ \E e \in Episodes :
          \/ revision = call[c].revision /\ Put(c, e) /\ AnswerEpisode(c, e)
          \/ /\ revision = call[c].revision + 1 /\ episodes = Append(call[c].episodes, e)
             /\ AnswerEpisode(c, e) /\ UNCHANGED <<revision, episodes>>
          \/ revision # call[c].revision /\ UNCHANGED ledger
    /\ EndCall(c)
    /\ UNCHANGED <<holdings, watch>>

-----------------------------------------------------------------------------
(* Around the runtime.                                                     *)

(* The fabric or the graph writes the task record, over what it read.      *)
TaskWritten ==
    /\ \E c \in Callers : call[c].at = "append" /\ call[c].revision = revision
    /\ revision' = revision + 1
    /\ UNCHANGED <<holdings, watch, episodes, answered, call, calls>>

(* The broker leases a body to the task, or a lease ends another way.      *)
BrokerAcquires ==
    /\ Len(lease) < MaxLeases
    /\ lease' = Append(lease, [live |-> TRUE, id |-> 0, from |-> 0])
    /\ UNCHANGED <<receipt, watch, ledger, call, calls>>

LeaseEnds ==
    /\ \E l \in DOMAIN lease : lease[l].live /\ lease' = Ended(l)
    /\ UNCHANGED <<receipt, watch, ledger, call, calls>>

(* What a call awaits throws, or its caller is gone.                       *)
Throw(c) ==
    /\ call[c].at # "none" /\ EndCall(c)
    /\ UNCHANGED <<holdings, watch, ledger, calls>>

(* Receipts and verdict counts are kept in memory.                         *)
Restart ==
    /\ receipt' = [k \in Keys |-> "none"]
    /\ before' = [l \in LeaseNumbers |-> IF sequence[l] > before[l] THEN sequence[l] ELSE before[l]]
    /\ sequence' = [l \in LeaseNumbers |-> 0]
    /\ call' = [c \in Callers |-> NoCall]
    /\ UNCHANGED <<lease, events, told, ledger, calls>>

CallerStep(c) ==
    \/ GrantLease(c) \/ RenewLease(c) \/ RevokeLease(c)
    \/ Release(c) \/ Revoke(c) \/ ListLeases(c) \/ Acquire(c)
    \/ Supervise(c) \/ GetLease(c) \/ Classify(c) \/ Ingest(c)
    \/ AppendEpisode(c) \/ ReadTask(c) \/ PutEpisode(c) \/ Throw(c)

SupervisionNext ==
    \/ \E c \in Callers : CallerStep(c)
    \/ TaskWritten \/ BrokerAcquires \/ LeaseEnds \/ Restart

SupervisionSpec == SupervisionInit /\ [][SupervisionNext]_supervisionVars
-----------------------------------------------------------------------------
(* "Lease ids are single-use, the renewal takes a fresh lease": a renewed  *)
(* lease has ended and has one successor, whichever renewals of it ran     *)
(* side by side, died half way or were replayed.                           *)
RenewalIsOneLineage ==
    \A l \in DOMAIN lease : lease[l].from # 0 =>
        /\ ~lease[lease[l].from].live
        /\ \A k \in DOMAIN lease : lease[k].from = lease[l].from => k = l

(* "Emits durable, replay-protected observation events for every SUSPECTED *)
(* and LOST verdict": a verdict supervise has returned is stored, whoever  *)
(* supervises beside it, unless its number had been given before a restart *)
(* and it was taken for a DUPLICATE: each later one is stored again.       *)
VerdictsAreStored == \A v \in told : v \in events \/ v.number <= before[v.lease]

(* "Evidence never vanishes silently": an episode append has returned      *)
(* stays in the task record, at the place its id gives, whatever races for *)
(* the record.                                                             *)
EpisodesStand ==
    \A a \in answered : a.place \in DOMAIN episodes /\ episodes[a.place] = a.episode
=============================================================================
