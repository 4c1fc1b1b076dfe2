------------------------------ MODULE BodyLease ------------------------------
(***************************************************************************)
(* One body lease in the lease repository and behind the lease gate:       *)
(* acquire, release, revoke, expireDue, the broker's renewLease and the    *)
(* gate's authorizeLeaseOperation, run by concurrent clients on top of     *)
(* RecordEngine.  Every stage below is the synchronous code between two    *)
(* engine calls; the engine's own awaits interleave inside.                *)
(***************************************************************************)
EXTENDS Integers

CONSTANTS
    Clients,      \* concurrent callers
    Bodies,       \* body_id values a lease may bind
    Expiries,     \* expires_at instants callers ask for; 0 is null
    NoRecord, UseCache, MaxVersion,
    MaxTime       \* bound: the last instant of the clock

TerminalStates == {"RELEASED", "REVOKED", "EXPIRED"}
LeaseStates == {"ACTIVE"} \cup TerminalStates
Leases == [rev : Nat, state : LeaseStates, body : Bodies, expires : Nat]

ASSUME LeaseAssumption ==
    /\ Expiries \subseteq Nat /\ MaxTime \in Nat
    /\ UseCache \in BOOLEAN /\ MaxVersion \in Nat \ {0}
    /\ NoRecord \notin Leases

VARIABLES row, version, cache, pc, op, cur, curVersion, res, history, raced

INSTANCE RecordEngine WITH Records <- Leases

VARIABLES
    stage,        \* which call of the repository, broker or gate runs, and where it is
    at,           \* the clock value the call works with
    arg,          \* the state an end writes, the instant a renewal extends to
    base,         \* the record renewLease read before it asked the gate
    now,          \* the injected clock
    mirror,       \* the Redis TTL mirror of the lease is held
    liveSeen      \* auxiliary: the durable lease was live during the gate's call

engineVars == <<row, version, cache, pc, op, cur, curVersion, res, history, raced>>
jobVars == <<stage, at, arg, base>>
allVars == <<engineVars, jobVars, now, mirror, liveSeen>>

Stages == {"none", "acquire_put", "end_get", "end_put", "expire_list",
           "renew_get", "renew_gate", "renew_put", "gate_get"}

IsExpired(lease, t) == lease.expires # 0 /\ t >= lease.expires

(* Mutant: the gate forgets to recompute the expiry.                       *)
AuthorizesExpired(lease, t) == lease # NoRecord /\ lease.state = "ACTIVE"

Authorizes(lease, t) == lease # NoRecord /\ lease.state = "ACTIVE" /\ ~IsExpired(lease, t)

NoArg == [to |-> "ACTIVE", until |-> 0]

LeaseInit ==
    /\ Init
    /\ stage = [c \in Clients |-> "none"]
    /\ at = [c \in Clients |-> 0]
    /\ arg = [c \in Clients |-> NoArg]
    /\ base = [c \in Clients |-> NoRecord]
    /\ now = 0 /\ mirror = FALSE
    /\ liveSeen = [c \in Clients |-> FALSE]

Goto(c, s) == stage' = [stage EXCEPT ![c] = s]

(* The engine call of stage s has returned.                                *)
Returned(c, s) == stage[c] = s /\ pc[c] = "idle"

(* The client's call is over, or has thrown: nothing of it is left.        *)
Over(c) ==
    /\ Goto(c, "none")
    /\ at' = [at EXCEPT ![c] = 0]
    /\ arg' = [arg EXCEPT ![c] = NoArg]
    /\ base' = [base EXCEPT ![c] = NoRecord]

Consumed(c) ==
    /\ res' = [res EXCEPT ![c] = None]
    /\ UNCHANGED <<row, version, cache, pc, op, cur, curVersion, history, raced>>

Done(c) == Over(c) /\ Consumed(c)

(* The mirror calls are best effort: their errors are swallowed.           *)
SetMirror(c, held) ==
    \/ UseCache /\ res[c].kind \in {"STORED", "IDENTICAL"} /\ mirror' = held
    \/ UNCHANGED mirror

-----------------------------------------------------------------------------
(* acquire: revision 1 under expected_revision 0, then the mirror.         *)

BeginAcquire(c) ==
    /\ stage[c] = "none" /\ version < MaxVersion
    /\ \E b \in Bodies, e \in Expiries :
          StartPut(c, [rev |-> 1, state |-> "ACTIVE", body |-> b, expires |-> e], 0)
    /\ Goto(c, "acquire_put")
    /\ UNCHANGED <<at, arg, base, now, mirror>>

AcquireDone(c) ==
    /\ Returned(c, "acquire_put")
    /\ SetMirror(c, TRUE)
    /\ Done(c)
    /\ UNCHANGED now

-----------------------------------------------------------------------------
(* release and revoke: read (perhaps from the cache), check, write the     *)
(* terminal record over the revision read, drop the mirror.                *)

BeginEnd(c) ==
    /\ stage[c] = "none" /\ version < MaxVersion
    /\ StartGet(c)
    /\ Goto(c, "end_get")
    /\ \E s \in {"RELEASED", "REVOKED"} :
          arg' = [arg EXCEPT ![c] = [to |-> s, until |-> 0]]
    /\ UNCHANGED <<at, base, now, mirror>>

NextRevision(lease) == [lease EXCEPT !.rev = @ + 1]

PutEnded(c, lease, s) ==
    /\ StartPut(c, [NextRevision(lease) EXCEPT !.state = s], lease.rev)
    /\ Goto(c, "end_put")
    /\ UNCHANGED <<at, arg, base>>

(* Mutant: the state of the lease is not checked before ending it.         *)
EndJudgeAny(c) ==
    /\ Returned(c, "end_get")
    /\ \/ res[c].rec # NoRecord /\ PutEnded(c, res[c].rec, arg[c].to)
       \/ res[c].rec = NoRecord /\ Done(c)
    /\ UNCHANGED <<now, mirror>>

EndJudge(c) ==
    /\ Returned(c, "end_get")
    /\ LET current == res[c].rec
           live == current # NoRecord /\ current.state = "ACTIVE" IN
          \/ live /\ PutEnded(c, current, arg[c].to)
          \/ ~live /\ Done(c)
    /\ UNCHANGED <<now, mirror>>

EndDone(c) ==
    /\ Returned(c, "end_put")
    /\ SetMirror(c, FALSE)
    /\ Done(c)
    /\ UNCHANGED now

-----------------------------------------------------------------------------
(* expireDue(now): list reads the durable row, never the cache.            *)

BeginExpire(c) ==
    /\ stage[c] = "none" /\ version < MaxVersion
    /\ Goto(c, "expire_list")
    /\ at' = [at EXCEPT ![c] = now]
    /\ Consumed(c)
    /\ UNCHANGED <<arg, base, now, mirror>>

ExpireJudge(c) ==
    /\ stage[c] = "expire_list" /\ pc[c] = "idle"
    /\ LET due == row # NoRecord /\ row.state = "ACTIVE" /\ IsExpired(row, at[c]) IN
          \/ due /\ PutEnded(c, row, "EXPIRED")
          \/ ~due /\ Done(c)
    /\ UNCHANGED <<now, mirror>>

-----------------------------------------------------------------------------
(* renewLease: one read for the record to extend, a second one inside the  *)
(* gate, then a write over the revision of the FIRST read.                 *)

BeginRenew(c) ==
    /\ stage[c] = "none" /\ version < MaxVersion
    /\ StartGet(c)
    /\ Goto(c, "renew_get")
    /\ \E e \in Expiries : arg' = [arg EXCEPT ![c] = [to |-> "ACTIVE", until |-> e]]
    /\ UNCHANGED <<at, base, now, mirror>>

RenewRead(c) ==
    /\ Returned(c, "renew_get")
    /\ \/ res[c].rec = NoRecord /\ Done(c)
       \/ /\ res[c].rec # NoRecord
          /\ base' = [base EXCEPT ![c] = res[c].rec]
          /\ at' = [at EXCEPT ![c] = now]
          /\ StartGet(c)
          /\ Goto(c, "renew_gate")
          /\ UNCHANGED arg
    /\ UNCHANGED <<now, mirror>>

(* Mutant: the renewal is put without the revision it was computed from.   *)
RenewJudgeUnguarded(c) ==
    /\ Returned(c, "renew_gate")
    /\ \/ /\ Authorizes(res[c].rec, at[c])
          /\ StartPut(c, [NextRevision(base[c]) EXCEPT !.expires = arg[c].until], NoExpected)
          /\ Goto(c, "renew_put")
          /\ UNCHANGED <<at, arg, base>>
       \/ ~Authorizes(res[c].rec, at[c]) /\ Done(c)
    /\ UNCHANGED <<now, mirror>>

RenewJudge(c) ==
    /\ Returned(c, "renew_gate")
    /\ \/ /\ Authorizes(res[c].rec, at[c])
          /\ StartPut(c, [NextRevision(base[c]) EXCEPT !.expires = arg[c].until], base[c].rev)
          /\ Goto(c, "renew_put")
          /\ UNCHANGED <<at, arg, base>>
       \/ ~Authorizes(res[c].rec, at[c]) /\ Done(c)
    /\ UNCHANGED <<now, mirror>>

RenewDone(c) ==
    /\ Returned(c, "renew_put")
    /\ Done(c)
    /\ UNCHANGED <<now, mirror>>

-----------------------------------------------------------------------------
(* The gate: the clock is read when the request is made, then the lease.   *)

BeginGate(c) ==
    /\ stage[c] = "none"
    /\ StartGet(c)
    /\ Goto(c, "gate_get")
    /\ at' = [at EXCEPT ![c] = now]
    /\ UNCHANGED <<arg, base, now, mirror>>

GateDone(c) ==
    /\ Returned(c, "gate_get")
    /\ Done(c)
    /\ UNCHANGED <<now, mirror>>

-----------------------------------------------------------------------------
EngineRuns(c) ==
    /\ EngineCall(c)
    /\ UNCHANGED <<jobVars, now, mirror>>

(* The caller dies, or a durable call rejects, inside an engine call.      *)
Crash(c) ==
    /\ Abandon(c)
    /\ Over(c)
    /\ UNCHANGED <<now, mirror>>

Tick ==
    /\ now < MaxTime
    /\ now' = now + 1
    /\ UNCHANGED <<engineVars, jobVars, mirror>>

(* Redis forgets: the cache entry, or the mirror (eviction, TTL, flush).   *)
Forget ==
    \/ LoseCache /\ UNCHANGED <<jobVars, now, mirror>>
    \/ mirror /\ mirror' = FALSE /\ UNCHANGED <<engineVars, jobVars, now>>

Call(c) ==
    \/ BeginAcquire(c) \/ BeginEnd(c) \/ BeginExpire(c) \/ BeginRenew(c) \/ BeginGate(c)

Continue(c) ==
    \/ AcquireDone(c) \/ EndJudge(c) \/ EndDone(c) \/ ExpireJudge(c)
    \/ RenewRead(c) \/ RenewJudge(c) \/ RenewDone(c) \/ GateDone(c)

(* liveSeen follows every step: was the durable lease active, and not due  *)
(* at the instant the gate was asked, at some time since it was asked?     *)
Live(lease, t) == lease # NoRecord /\ lease.state = "ACTIVE" /\ lease.expires \notin 1..t

WatchGate ==
    liveSeen' = [c \in Clients |->
        /\ stage'[c] = "gate_get"
        /\ Live(row', at'[c]) \/ (stage[c] = "gate_get" /\ liveSeen[c])]

LeaseStep ==
    \/ \E c \in Clients : Call(c) \/ Continue(c) \/ EngineRuns(c) \/ Crash(c)
    \/ Tick \/ Forget

LeaseNext == LeaseStep /\ WatchGate

LeaseSpec == LeaseInit /\ [][LeaseNext]_allVars
-----------------------------------------------------------------------------
LeaseTypeOK ==
    /\ TypeOK
    /\ stage \in [Clients -> Stages]
    /\ at \in [Clients -> Nat] /\ now \in Nat
    /\ arg \in [Clients -> [to : LeaseStates, until : Nat]]
    /\ base \in [Clients -> Leases \cup {NoRecord}]
    /\ mirror \in BOOLEAN /\ liveSeen \in [Clients -> BOOLEAN]

(* Read from Postgres alone, the durable lease goes through its promised   *)
(* life and no other, however its callers interleave: one acquisition,     *)
(* renewals that each extend the revision before, one end, nothing after.  *)
Life == INSTANCE LeaseLifecycle WITH lease <- row, NoLease <- NoRecord
FollowsLeaseLifecycle == Life!LifeSpec

(* body-lease.ts: "A released/revoked/expired lease never reactivates",    *)
(* even when the caller that writes next started from a stale cached copy. *)
EndedNeverReactivates ==
    [][row # NoRecord /\ row.state \in TerminalStates => row'.state = row.state]_allVars

(* lease-gate.ts: an ended lease authorizes nothing.  Whenever the gate    *)
(* authorizes, the DURABLE lease was live at some instant of the call.     *)
GateTellsTheTruth ==
    \A c \in Clients :
        Returned(c, "gate_get") /\ Authorizes(res[c].rec, at[c]) => liveSeen[c]
=============================================================================
