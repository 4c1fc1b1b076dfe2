------------------------------ MODULE BodyBroker ------------------------------
(***************************************************************************)
(* The body broker of one SOS process: the in-memory body pool, and the    *)
(* durable leases it acquires, renews, ends and replaces for tasks.  Calls *)
(* are async and run concurrently; a step is one lease-repository access   *)
(* and the synchronous code up to the next await.  A repository put is the *)
(* atomic compare-and-set that RecordEngine implements; leases are read    *)
(* from Postgres (no cache).  Clock and expiry are in BodyLease.           *)
(***************************************************************************)
EXTENDS Integers, FiniteSets

CONSTANTS
    Clients,      \* concurrent calls
    Tasks,
    NumBodies,    \* bodies are numbered in registration order
    MaxLeases,    \* bound: lease sequence numbers per task
    MaxRevision   \* bound: a lease of this revision is not renewed again

ASSUME BrokerAssumption ==
    NumBodies \in Nat \ {0} /\ MaxLeases \in Nat \ {0} /\ MaxRevision \in Nat \ {0}

Bodies == 1..NumBodies
LeaseIds == Tasks \X (1..MaxLeases)       \* lease:<task_ref>:<sequence>
HealthStates == {"UNREGISTERED", "AVAILABLE", "SUSPENDED", "RELEASED"}
NoLease == [state |-> "NONE", body |-> 0, rev |-> 0]
NoId == <<>>

VARIABLES
    health,       \* the body pool
    lease,        \* the durable leases
    stage,        \* where each call is: the repository access it awaits
    task,         \* the task an acquisition is for
    body,         \* the body the call works on
    want,         \* the health endBody leads to
    todo,         \* ACTIVE leases endBody has still to end
    held,         \* the lease id the call works on
    heldRev,      \* the revision it read under that id
    then,         \* what follows the end or the acquisition in progress
    late          \* auxiliary: leases stored ACTIVE on the body since endBody's list

locals == <<stage, task, body, want, todo, held, heldRev, then>>
vars == <<health, lease, locals, late>>

Init ==
    /\ health = [b \in Bodies |-> "UNREGISTERED"]
    /\ lease = [l \in LeaseIds |-> NoLease]
    /\ stage = [c \in Clients |-> "none"]
    /\ task = [c \in Clients |-> NoId]
    /\ body = [c \in Clients |-> 0]
    /\ want = [c \in Clients |-> "AVAILABLE"]
    /\ todo = [c \in Clients |-> {}]
    /\ held = [c \in Clients |-> NoId]
    /\ heldRev = [c \in Clients |-> 0]
    /\ then = [c \in Clients |-> "none"]
    /\ late = [c \in Clients |-> {}]

Active(l) == lease[l].state = "ACTIVE"
LeasesOf(t) == {l \in LeaseIds : l[1] = t /\ lease[l] # NoLease}
ActiveOn(b) == {l \in LeaseIds : Active(l) /\ lease[l].body = b}

Goto(c, s) == stage' = [stage EXCEPT ![c] = s]

(* The call has returned or thrown.                                        *)
Over(c) ==
    /\ Goto(c, "none")
    /\ task' = [task EXCEPT ![c] = NoId]
    /\ body' = [body EXCEPT ![c] = 0]
    /\ want' = [want EXCEPT ![c] = "AVAILABLE"]
    /\ todo' = [todo EXCEPT ![c] = {}]
    /\ held' = [held EXCEPT ![c] = NoId]
    /\ heldRev' = [heldRev EXCEPT ![c] = 0]
    /\ then' = [then EXCEPT ![c] = "none"]

-----------------------------------------------------------------------------
(* body-health.ts and selection.ts                                         *)

CanTransition(from, to) ==
    \/ from = "AVAILABLE" /\ to \in {"SUSPENDED", "RELEASED"}
    \/ from = "SUSPENDED" /\ to \in {"AVAILABLE", "RELEASED"}

(* The bodies of a request that may be selected; the earliest wins.        *)
Eligible(suits) == {b \in suits : health[b] = "AVAILABLE"}

(* A body id is single-use: a body registers once.                         *)
RegisterBody(b) ==
    /\ health[b] = "UNREGISTERED"
    /\ \A a \in 1..(b - 1) : health[a] # "UNREGISTERED"
    /\ health' = [health EXCEPT ![b] = "AVAILABLE"]
    /\ UNCHANGED <<lease, locals>>

Resume(b) ==
    /\ CanTransition(health[b], "AVAILABLE")
    /\ health' = [health EXCEPT ![b] = "AVAILABLE"]
    /\ UNCHANGED <<lease, locals>>

-----------------------------------------------------------------------------
(* Ending one lease: a read, then a write over the revision read.          *)

EndRead(c) ==
    /\ stage[c] = "end_get"
    /\ \/ /\ Active(held[c])
          /\ heldRev' = [heldRev EXCEPT ![c] = lease[held[c]].rev]
          /\ Goto(c, "end_put")
          /\ UNCHANGED <<task, body, want, todo, held, then>>
       \/ ~Active(held[c]) /\ Over(c)
    /\ UNCHANGED <<health, lease>>

(* endBody goes on to the next lease whatever the answer; a replacement    *)
(* goes on only over a lease it really ended.                              *)
(* Mutant: a replacement goes on over a lost end.                          *)
AfterEndUnchecked(c, ended) ==
    \/ then[c] = "return" /\ Over(c)
    \/ /\ then[c] = "body"
       /\ todo' = [todo EXCEPT ![c] = @ \ {held[c]}]
       /\ held' = [held EXCEPT ![c] = NoId] /\ heldRev' = [heldRev EXCEPT ![c] = 0]
       /\ Goto(c, "body_ends")
       /\ UNCHANGED <<task, body, want, then>>
    \/ /\ then[c] = "replace"
       /\ Goto(c, "acquire")
       /\ UNCHANGED <<task, body, want, todo, held, heldRev, then>>

AfterEnd(c, ended) ==
    \/ then[c] = "return" /\ Over(c)
    \/ /\ then[c] = "body"
       /\ todo' = [todo EXCEPT ![c] = @ \ {held[c]}]
       /\ held' = [held EXCEPT ![c] = NoId] /\ heldRev' = [heldRev EXCEPT ![c] = 0]
       /\ Goto(c, "body_ends")
       /\ UNCHANGED <<task, body, want, then>>
    \/ /\ then[c] = "replace" /\ ended
       /\ Goto(c, "acquire")
       /\ UNCHANGED <<task, body, want, todo, held, heldRev, then>>
    \/ then[c] = "replace" /\ ~ended /\ Over(c)

EndWrite(c) ==
    /\ stage[c] = "end_put"
    /\ LET l == held[c] IN
       \/ /\ lease[l].rev = heldRev[c]
          /\ lease' = [lease EXCEPT ![l].state = "ENDED", ![l].rev = @ + 1]
          /\ AfterEnd(c, TRUE)
       \/ /\ lease[l].rev # heldRev[c]
          /\ AfterEnd(c, FALSE)
          /\ UNCHANGED lease
    /\ UNCHANGED health

BeginEndLease(c, l) ==
    /\ stage[c] = "none" /\ lease[l] # NoLease
    /\ Goto(c, "end_get")
    /\ held' = [held EXCEPT ![c] = l]
    /\ then' = [then EXCEPT ![c] = "return"]
    /\ UNCHANGED <<health, lease, task, body, want, todo, heldRev>>

-----------------------------------------------------------------------------
(* suspendBody and releaseBody: the transition is checked before the first *)
(* await and the health is written after the last one.                     *)

BeginEndBody(c, b, h) ==
    /\ stage[c] = "none"
    /\ CanTransition(health[b], h) /\ h # "AVAILABLE"
    /\ Goto(c, "body_list")
    /\ body' = [body EXCEPT ![c] = b]
    /\ want' = [want EXCEPT ![c] = h]
    /\ UNCHANGED <<health, lease, task, todo, held, heldRev, then>>

(* Mutant: the list stops at the first page.                               *)
BodyListFirst(c) ==
    /\ stage[c] = "body_list"
    /\ \/ ActiveOn(body[c]) = {} /\ todo' = [todo EXCEPT ![c] = {}]
       \/ \E l \in ActiveOn(body[c]) : todo' = [todo EXCEPT ![c] = {l}]
    /\ then' = [then EXCEPT ![c] = "body"]
    /\ Goto(c, "body_ends")
    /\ UNCHANGED <<health, lease, task, body, want, held, heldRev>>

BodyList(c) ==
    /\ stage[c] = "body_list"
    /\ todo' = [todo EXCEPT ![c] = ActiveOn(body[c])]
    /\ then' = [then EXCEPT ![c] = "body"]
    /\ Goto(c, "body_ends")
    /\ UNCHANGED <<health, lease, task, body, want, held, heldRev>>

BodyEndNext(c) ==
    /\ stage[c] = "body_ends"
    /\ \E l \in todo[c] : held' = [held EXCEPT ![c] = l]
    /\ Goto(c, "end_get")
    /\ UNCHANGED <<health, lease, task, body, want, todo, heldRev, then>>

BodyEnded(c) ==
    /\ stage[c] = "body_ends" /\ todo[c] = {}
    /\ health' = [health EXCEPT ![body[c]] = want[c]]
    /\ Over(c)
    /\ UNCHANGED lease

-----------------------------------------------------------------------------
(* acquireLease: the health check, the sequence number from a list, the    *)
(* single-use put.                                                         *)

MayBind(b) == health[b] = "AVAILABLE"

BeginAcquire(c, t, b) ==
    /\ stage[c] = "none" /\ MayBind(b)
    /\ Goto(c, "acquire_list")
    /\ task' = [task EXCEPT ![c] = t]
    /\ body' = [body EXCEPT ![c] = b]
    /\ then' = [then EXCEPT ![c] = "return"]
    /\ UNCHANGED <<health, lease, want, todo, held, heldRev>>

(* The acquisition of a replacement that first had to end a lease.         *)
ReplaceAcquire(c) ==
    /\ stage[c] = "acquire"
    /\ \/ /\ MayBind(body[c])
          /\ Goto(c, "acquire_list")
          /\ UNCHANGED <<task, body, want, todo, held, heldRev, then>>
       \/ ~MayBind(body[c]) /\ Over(c)
    /\ UNCHANGED <<health, lease>>

NextSequence(t) == Cardinality(LeasesOf(t)) + 1

AcquireList(c) ==
    /\ stage[c] = "acquire_list"
    /\ LET n == NextSequence(task[c]) IN
       \/ /\ n <= MaxLeases
          /\ held' = [held EXCEPT ![c] = <<task[c], n>>]
          /\ Goto(c, "acquire_put")
          /\ UNCHANGED <<task, body, want, todo, heldRev, then>>
       \/ n > MaxLeases /\ Over(c)
    /\ UNCHANGED <<health, lease>>

(* A stored id answers CONFLICT (or IDENTICAL, for the same lease taken in *)
(* the same millisecond); neither writes.                                  *)
AcquirePut(c) ==
    /\ stage[c] = "acquire_put"
    /\ \/ /\ lease[held[c]] = NoLease
          /\ lease' = [lease EXCEPT ![held[c]] =
                [state |-> "ACTIVE", body |-> body[c], rev |-> 1]]
       \/ lease[held[c]] # NoLease /\ UNCHANGED lease
    /\ Over(c)
    /\ UNCHANGED health

-----------------------------------------------------------------------------
(* renewLease: what the gate's reads allow, written over the revision read *)

BeginRenew(c, l) ==
    /\ stage[c] = "none" /\ Active(l) /\ lease[l].rev < MaxRevision
    /\ held' = [held EXCEPT ![c] = l]
    /\ heldRev' = [heldRev EXCEPT ![c] = lease[l].rev]
    /\ Goto(c, "renew_put")
    /\ UNCHANGED <<health, lease, task, body, want, todo, then>>

(* Mutant: the renewal is written without the expected revision.           *)
RenewPutUnguarded(c) ==
    /\ stage[c] = "renew_put"
    /\ lease' = [lease EXCEPT ![held[c]].rev = @ + 1, ![held[c]].state = "ACTIVE"]
    /\ Over(c)
    /\ UNCHANGED health

RenewPut(c) ==
    /\ stage[c] = "renew_put"
    /\ LET l == held[c] IN
       \/ lease[l].rev = heldRev[c] /\ lease' = [lease EXCEPT ![l].rev = @ + 1]
       \/ lease[l].rev # heldRev[c] /\ UNCHANGED lease
    /\ Over(c)
    /\ UNCHANGED health

-----------------------------------------------------------------------------
(* replaceBodyLease: select first, then end the current lease when it is   *)
(* ACTIVE, then acquire the next one; an ended lease is carried as it is.  *)

BeginReplace(c, l, suits) ==
    /\ stage[c] = "none" /\ lease[l] # NoLease
    /\ task' = [task EXCEPT ![c] = l[1]]
    /\ \E b \in Eligible(suits) :
          (\A a \in Eligible(suits) : b <= a) /\ body' = [body EXCEPT ![c] = b]
    /\ held' = [held EXCEPT ![c] = l]
    /\ then' = [then EXCEPT ![c] = "replace"]
    /\ Goto(c, IF Active(l) THEN "end_get" ELSE "acquire_list")
    /\ UNCHANGED <<health, lease, want, todo, heldRev>>

-----------------------------------------------------------------------------
(* A repository access rejects: the call throws where it stands.           *)
Fail(c) ==
    /\ stage[c] # "none"
    /\ Over(c)
    /\ UNCHANGED <<health, lease>>

-----------------------------------------------------------------------------
(* The step takes or renews lease l on body b.                             *)
Bound(l, b) == lease'[l] # lease[l] /\ Active(l)' /\ lease'[l].body = b

Watch ==
    late' = [c \in Clients |->
        IF then'[c] = "body" THEN late[c] \cup {l \in LeaseIds : Bound(l, body'[c])} ELSE {}]

Begin(c) ==
    \/ \E l \in LeaseIds : BeginEndLease(c, l) \/ BeginRenew(c, l)
    \/ \E b \in Bodies, h \in {"SUSPENDED", "RELEASED"} : BeginEndBody(c, b, h)
    \/ \E t \in Tasks, b \in Bodies : BeginAcquire(c, t, b)
    \/ \E l \in LeaseIds, suits \in SUBSET Bodies : BeginReplace(c, l, suits)

Proceed(c) ==
    \/ EndRead(c) \/ EndWrite(c)
    \/ BodyList(c) \/ BodyEndNext(c) \/ BodyEnded(c)
    \/ ReplaceAcquire(c) \/ AcquireList(c) \/ AcquirePut(c)
    \/ RenewPut(c)

BrokerNext ==
    /\ \/ \E c \in Clients : Begin(c) \/ Proceed(c) \/ Fail(c)
       \/ \E b \in Bodies : RegisterBody(b) \/ Resume(b)
    /\ Watch

BrokerSpec == Init /\ [][BrokerNext]_vars
-----------------------------------------------------------------------------
BrokerTypeOK ==
    /\ health \in [Bodies -> HealthStates]
    /\ lease \in [LeaseIds -> [state : {"NONE", "ACTIVE", "ENDED"}, body : {0} \cup Bodies, rev : Nat]]
    /\ body \in [Clients -> {0} \cup Bodies]
    /\ task \in [Clients -> Tasks \cup {NoId}]
    /\ todo \in [Clients -> SUBSET LeaseIds]
    /\ held \in [Clients -> LeaseIds \cup {NoId}]
    /\ late \in [Clients -> SUBSET LeaseIds]

(* A lease that ended stays as it was ended, whichever calls of suspend,   *)
(* release, replace and renew were already in flight on it.                *)
EndedLeaseIsFinal ==
    [][\A l \in LeaseIds : lease[l].state = "ENDED" => lease'[l] = lease[l]]_vars

(* suspendBody, releaseBody: a body goes out of service with no ACTIVE     *)
(* lease but those that calls running beside it took or renewed on it      *)
(* after its list was read, however its own ends fared meanwhile.          *)
OnlyLateLeasesSurvive ==
    [][\A c \in Clients : BodyEnded(c) => ActiveOn(body[c]) \subseteq late[c]]_vars

(* A replacement acquires only after the lease it replaces has ended: the  *)
(* new lease and the one it replaces are never live together.              *)
ReplacedLeaseHasEnded ==
    [][\A c \in Clients :
          then[c] = "replace" /\ stage[c] # "acquire_list" /\ stage'[c] = "acquire_list"
             => ~Active(held[c])]_vars

=============================================================================
