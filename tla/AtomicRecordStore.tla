-------------------------- MODULE AtomicRecordStore --------------------------
(***************************************************************************)
(* What live-store promises about ONE record id, free of adapters, caches  *)
(* and awaits: a put is a single compare-and-set on the stored record, a   *)
(* get returns the stored record.  A put that raced another write may also *)
(* be refused; a get behind a read-through cache (StaleReads) may return   *)
(* any record that was stored at some time.                                *)
(***************************************************************************)
EXTENDS Integers

CONSTANTS
    Clients,      \* concurrent callers of the repository
    Records,      \* record values; r.rev is the revision, 0 when null
    NoRecord,     \* the id has no durable row
    StaleReads    \* a read-through cache stands in front of the reads

NoRevision == 0
NoExpected == -1

VARIABLES
    record,       \* the stored record, or NoRecord
    history,      \* every record that was ever stored
    call,         \* the call each client has pending, or the idle call
    raced,        \* another client wrote while the call was pending
    reply         \* the answer fixed for the pending (or last) call

absVars == <<record, history, call, raced, reply>>

None == [kind |-> "NONE", rec |-> NoRecord]
IdleCall == [kind |-> "idle", rec |-> NoRecord, exp |-> NoExpected]
Answer(k, r) == [kind |-> k, rec |-> r]

(* What an atomic put of r, guarded by expected revision e, answers when   *)
(* the stored record is s.                                                 *)
PutVerdict(s, r, e) ==
    IF s = NoRecord THEN "STORED"
    ELSE IF s = r THEN "IDENTICAL"
    ELSE IF NoRevision \in {s.rev, r.rev} THEN "IMMUTABLE_COLLISION"
    ELSE IF r.rev < s.rev THEN "STALE_REVISION"
    ELSE IF e \notin {NoExpected, s.rev} THEN "REVISION_MISMATCH"
    ELSE "STORED"

AbsInit ==
    /\ record = NoRecord
    /\ history = {}
    /\ call = [c \in Clients |-> IdleCall]
    /\ raced = [c \in Clients |-> FALSE]
    /\ reply = [c \in Clients |-> None]

PutCalls == [kind : {"put"}, rec : Records, exp : Int]
GetCall == [kind |-> "get", rec |-> NoRecord, exp |-> NoExpected]

Invoke(c) ==
    /\ call[c] = IdleCall
    /\ call'[c] \in PutCalls \cup {GetCall}
    /\ call' = [call EXCEPT ![c] = call'[c]]
    /\ reply' = [reply EXCEPT ![c] = None]
    /\ UNCHANGED <<record, history, raced>>

Hangup(c) ==
    /\ call' = [call EXCEPT ![c] = IdleCall]
    /\ raced' = [raced EXCEPT ![c] = FALSE]

(* The answer may reach the caller in the same step or later (Return).     *)
Reply(c, a) ==
    /\ reply' = [reply EXCEPT ![c] = a]
    /\ Hangup(c) \/ UNCHANGED <<call, raced>>

StorePut(c) ==
    /\ call[c].kind = "put" /\ reply[c] = None
    /\ PutVerdict(record, call[c].rec, call[c].exp) = "STORED"
    /\ record' = call[c].rec
    /\ history' = history \cup {call[c].rec}
    /\ raced' = [d \in Clients |-> raced[d] \/ (d # c /\ call[d] # IdleCall)]
    /\ reply' = [reply EXCEPT ![c] = Answer("STORED", NoRecord)]
    /\ UNCHANGED call

RefusePut(c) ==
    /\ call[c].kind = "put" /\ reply[c] = None
    /\ LET verdict == PutVerdict(record, call[c].rec, call[c].exp) IN
          verdict # "STORED" /\ Reply(c, Answer(verdict, NoRecord))
    /\ UNCHANGED <<record, history>>

(* A put may be refused although its own checks would pass, but only when  *)
(* somebody else's write got in the way.                                   *)
Contended(c) ==
    /\ call[c].kind = "put" /\ reply[c] = None /\ raced[c]
    /\ Reply(c, Answer("REVISION_MISMATCH", NoRecord))
    /\ UNCHANGED <<record, history>>

AtomicGet(c) ==
    /\ call[c].kind = "get" /\ reply[c] = None
    /\ \/ Reply(c, Answer("FOUND", record))
       \/ StaleReads /\ \E r \in history : Reply(c, Answer("FOUND", r))
    /\ UNCHANGED <<record, history>>

(* The caller sees the answer, or dies without one.                        *)
Return(c) ==
    /\ call[c] # IdleCall
    /\ Hangup(c)
    /\ reply' \in {reply, [reply EXCEPT ![c] = None]}
    /\ UNCHANGED <<record, history>>

AbsNext ==
    \E c \in Clients :
        \/ Invoke(c) \/ StorePut(c) \/ RefusePut(c) \/ Contended(c)
        \/ AtomicGet(c) \/ Return(c)

AbsSpec == AbsInit /\ [][AbsNext]_absVars
=============================================================================
