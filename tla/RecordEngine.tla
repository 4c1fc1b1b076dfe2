---------------------------- MODULE RecordEngine ----------------------------
(***************************************************************************)
(* RevisionedRecordEngine.put/get of live-store for one record id, at the  *)
(* grain of its awaits: every action is one provider call (Postgres row    *)
(* read, guarded row write, Redis cache read or write) plus the            *)
(* synchronous code up to the next await.  Clients are concurrent callers, *)
(* in one process or in several; a caller may die between any two awaits.  *)
(***************************************************************************)
EXTENDS Integers

CONSTANTS
    Clients,      \* concurrent callers of put and get
    Records,      \* record values; r.rev is the revision, 0 when null
    NoRecord,     \* "no row", "no cache entry", "no record read"
    UseCache,     \* the Redis coordination adapter is attached
    MaxVersion    \* bound: no put starts on a row of this storage version

NoRevision == 0       \* revisionOf(record) = null: an immutable family
NoExpected == -1      \* options.expected_revision is absent

ASSUME RecordsAssumption ==
    /\ \A r \in Records : r.rev \in Nat
    /\ NoRecord \notin Records
ASSUME ConfigAssumption == UseCache \in BOOLEAN /\ MaxVersion \in Nat \ {0}

VARIABLES
    row,          \* the durable record, NoRecord when there is no row
    version,      \* its storage_version, 0 when there is no row
    cache,        \* the Redis entry of the id, NoRecord when absent
    pc,           \* the provider call each client is waiting for
    op,           \* the arguments of its put: record and expected_revision
    cur,          \* the record it read last ("current" of put, "row" of get)
    curVersion,   \* the storage_version it read with it
    res,          \* the answer of its last call
    history,      \* auxiliary: every record ever stored durably
    raced         \* auxiliary: somebody wrote since the client's call began

locals == <<pc, op, cur, curVersion, res>>
aux == <<history, raced>>
vars == <<row, version, cache, pc, op, cur, curVersion, res, history, raced>>

None == [kind |-> "NONE", rec |-> NoRecord]
Answer(k, r) == [kind |-> k, rec |-> r]
NoOp == [rec |-> NoRecord, exp |-> NoExpected]

Refusals == {"IMMUTABLE_COLLISION", "STALE_REVISION", "REVISION_MISMATCH"}
Kinds == {"NONE", "FOUND", "STORED", "IDENTICAL"} \cup Refusals
PutWaits == {"put_read", "put_insert", "put_reread", "put_cas", "put_fresh", "put_cache"}
GetWaits == {"get_cache", "get_read", "get_fill"}

Init ==
    /\ row = NoRecord /\ version = 0 /\ cache = NoRecord
    /\ pc = [c \in Clients |-> "idle"]
    /\ op = [c \in Clients |-> NoOp]
    /\ cur = [c \in Clients |-> NoRecord]
    /\ curVersion = [c \in Clients |-> 0]
    /\ res = [c \in Clients |-> None]
    /\ history = {} /\ raced = [c \in Clients |-> FALSE]

-----------------------------------------------------------------------------
(* Calls and returns.                                                      *)

StartPut(c, r, e) ==
    /\ pc[c] = "idle"
    /\ pc' = [pc EXCEPT ![c] = "put_read"]
    /\ op' = [op EXCEPT ![c] = [rec |-> r, exp |-> e]]
    /\ res' = [res EXCEPT ![c] = None]
    /\ UNCHANGED <<row, version, cache, cur, curVersion, aux>>

StartGet(c) ==
    /\ pc[c] = "idle"
    /\ pc' = [pc EXCEPT ![c] = "get_cache"]
    /\ op' = [op EXCEPT ![c] = NoOp]
    /\ res' = [res EXCEPT ![c] = None]
    /\ UNCHANGED <<row, version, cache, cur, curVersion, aux>>

(* The call is over: only its answer is left of the client's locals.       *)
DropLocals(c) ==
    /\ pc' = [pc EXCEPT ![c] = "idle"]
    /\ op' = [op EXCEPT ![c] = NoOp]
    /\ cur' = [cur EXCEPT ![c] = NoRecord]
    /\ curVersion' = [curVersion EXCEPT ![c] = 0]
    /\ raced' = [raced EXCEPT ![c] = FALSE]

Finish(c, k, r) ==
    /\ DropLocals(c)
    /\ res' = [res EXCEPT ![c] = Answer(k, r)]

(* The provider call rejects, or the caller's process dies, at any await.  *)
Abandon(c) ==
    /\ pc[c] # "idle"
    /\ DropLocals(c)
    /\ res' = [res EXCEPT ![c] = None]
    /\ UNCHANGED <<row, version, cache, history>>

-----------------------------------------------------------------------------
(* The Postgres adapter.                                                   *)

(* Mutant: the reader remembers the version its own write would produce.   *)
ReadRowNextVersion(c) ==
    /\ cur' = [cur EXCEPT ![c] = row]
    /\ curVersion' = [curVersion EXCEPT ![c] = version + 1]

ReadRow(c) ==
    /\ cur' = [cur EXCEPT ![c] = row]
    /\ curVersion' = [curVersion EXCEPT ![c] = version]

WriteRow(c) ==
    /\ row' = op[c].rec
    /\ version' = version + 1
    /\ history' = history \cup {op[c].rec}
    /\ raced' = [d \in Clients |-> raced[d] \/ (d # c /\ pc[d] # "idle")]

-----------------------------------------------------------------------------
(* put: the checks against the row just read, in the code's order.         *)

Conflict(r, e, stored) ==
    IF stored.rev = NoRevision \/ r.rev = NoRevision THEN "IMMUTABLE_COLLISION"
    ELSE IF r.rev < stored.rev THEN "STALE_REVISION"
    ELSE IF e # NoExpected /\ e # stored.rev THEN "REVISION_MISMATCH"
    ELSE "none"

(* The read is kept only by a put that goes on to the guarded write.       *)
JudgePut(c) ==
    LET verdict == Conflict(op[c].rec, op[c].exp, row) IN
    \/ /\ row = op[c].rec
       /\ Finish(c, "IDENTICAL", row)
    \/ /\ row # op[c].rec /\ verdict # "none"
       /\ Finish(c, verdict, row)
    \/ /\ row # op[c].rec /\ verdict = "none"
       /\ ReadRow(c)
       /\ pc' = [pc EXCEPT ![c] = "put_cas"]
       /\ UNCHANGED <<res, op, raced>>

PutRead(c) ==
    /\ pc[c] = "put_read"
    /\ \/ row # NoRecord /\ JudgePut(c)
       \/ /\ row = NoRecord
          /\ pc' = [pc EXCEPT ![c] = "put_insert"]
          /\ UNCHANGED <<op, cur, curVersion, res, raced>>
    /\ UNCHANGED <<row, version, cache, history>>

(* Mutant: a lost insert is taken for a stored one.                        *)
PutInsertUnchecked(c) ==
    /\ pc[c] = "put_insert"
    /\ pc' = [pc EXCEPT ![c] = "put_cache"]
    /\ \/ row = NoRecord /\ WriteRow(c)
       \/ row # NoRecord /\ UNCHANGED <<row, version, aux>>
    /\ UNCHANGED <<cache, op, cur, curVersion, res>>

PutInsert(c) ==
    /\ pc[c] = "put_insert"
    /\ \/ /\ row = NoRecord
          /\ WriteRow(c)
          /\ pc' = [pc EXCEPT ![c] = "put_cache"]
       \/ /\ row # NoRecord
          /\ pc' = [pc EXCEPT ![c] = "put_reread"]
          /\ UNCHANGED <<row, version, aux>>
    /\ UNCHANGED <<cache, op, cur, curVersion, res>>

(* A lost insert falls through: the put is judged against the winner.      *)
PutReread(c) ==
    /\ pc[c] = "put_reread"
    /\ JudgePut(c)
    /\ UNCHANGED <<row, version, cache, history>>

(* Mutant: a cache refresh that ignores the outcome of the guarded write.  *)
PutCasIgnoresOutcome(c) ==
    /\ pc[c] = "put_cas"
    /\ pc' = [pc EXCEPT ![c] = "put_cache"]
    /\ \/ version = curVersion[c] /\ WriteRow(c)
       \/ version # curVersion[c] /\ UNCHANGED <<row, version, aux>>
    /\ UNCHANGED <<cache, op, cur, curVersion, res>>

PutCas(c) ==
    /\ pc[c] = "put_cas"
    /\ \/ /\ version = curVersion[c]
          /\ WriteRow(c)
          /\ pc' = [pc EXCEPT ![c] = "put_cache"]
       \/ /\ version # curVersion[c]
          /\ pc' = [pc EXCEPT ![c] = "put_fresh"]
          /\ UNCHANGED <<row, version, aux>>
    /\ UNCHANGED <<cache, op, cur, curVersion, res>>

(* Mutant: the answer carries the failed write, not the fresh record.      *)
PutFreshRaw(c) ==
    /\ pc[c] = "put_fresh"
    /\ Finish(c, "REVISION_MISMATCH", op[c])
    /\ UNCHANGED <<row, version, cache, history>>

PutFresh(c) ==
    /\ pc[c] = "put_fresh"
    /\ Finish(c, "REVISION_MISMATCH", row)
    /\ UNCHANGED <<row, version, cache, history>>

(* cacheSet errors are swallowed, so the refresh may silently not happen.  *)
SetCache(r) ==
    \/ UseCache /\ cache' = r
    \/ UNCHANGED cache

PutCache(c) ==
    /\ pc[c] = "put_cache"
    /\ SetCache(op[c].rec)
    /\ Finish(c, "STORED", op[c].rec)
    /\ UNCHANGED <<row, version, history>>

-----------------------------------------------------------------------------
(* get: a cache hit is returned as it is; a miss (or a cache error) reads  *)
(* the row and fills the cache in a later step.                            *)

GetCache(c) ==
    /\ pc[c] = "get_cache"
    /\ \/ /\ UseCache /\ cache # NoRecord
          /\ Finish(c, "FOUND", cache)
       \/ /\ pc' = [pc EXCEPT ![c] = "get_read"]
          /\ UNCHANGED <<op, cur, curVersion, res, raced>>
    /\ UNCHANGED <<row, version, cache, history>>

GetRead(c) ==
    /\ pc[c] = "get_read"
    /\ \/ row = NoRecord /\ Finish(c, "FOUND", NoRecord)
       \/ /\ row # NoRecord
          /\ ReadRow(c)
          /\ pc' = [pc EXCEPT ![c] = "get_fill"]
          /\ UNCHANGED <<op, res, raced>>
    /\ UNCHANGED <<row, version, cache, history>>

GetFill(c) ==
    /\ pc[c] = "get_fill"
    /\ SetCache(cur[c])
    /\ Finish(c, "FOUND", cur[c])
    /\ UNCHANGED <<row, version, history>>

(* Redis evicts, expires or loses the entry.                               *)
LoseCache ==
    /\ cache # NoRecord
    /\ cache' = NoRecord
    /\ UNCHANGED <<row, version, locals, aux>>

-----------------------------------------------------------------------------
EngineCall(c) ==
    \/ PutRead(c) \/ PutInsert(c) \/ PutReread(c) \/ PutCas(c) \/ PutFresh(c) \/ PutCache(c)
    \/ GetCache(c) \/ GetRead(c) \/ GetFill(c)

Revisions == {r.rev : r \in Records}

StartAny(c) ==
    \/ /\ version < MaxVersion
       /\ \E r \in Records, e \in {NoExpected, 0} \cup Revisions : StartPut(c, r, e)
    \/ StartGet(c)

Next ==
    \/ \E c \in Clients : StartAny(c) \/ EngineCall(c) \/ Abandon(c)
    \/ LoseCache

Spec == Init /\ [][Next]_vars

-----------------------------------------------------------------------------
TypeOK ==
    /\ row \in Records \cup {NoRecord} /\ cache \in Records \cup {NoRecord}
    /\ version \in Nat
    /\ pc \in [Clients -> {"idle"} \cup PutWaits \cup GetWaits]
    /\ op \in [Clients -> [rec : Records \cup {NoRecord}, exp : Int]]
    /\ \A c \in Clients : pc[c] \in PutWaits => op[c].rec \in Records
    /\ cur \in [Clients -> Records \cup {NoRecord}]
    /\ curVersion \in [Clients -> Nat]
    /\ res \in [Clients -> [kind : Kinds, rec : Records \cup {NoRecord}]]
    /\ history \subseteq Records /\ raced \in [Clients -> BOOLEAN]

(* Rule 3 of the engine header: whatever the interleaving of readers,      *)
(* writers and lost inserts, the durable revision never goes backwards.    *)
RevisionNeverDecreases ==
    [][row # NoRecord => /\ row' # NoRecord /\ row'.rev >= row.rev]_vars

(* Rule 4: an immutable record, once stored, is never replaced by another. *)
ImmutableNeverReplaced ==
    [][row # NoRecord /\ row.rev = NoRevision => row' = row]_vars

(* Rule 5: a put guarded by an expected revision replaces exactly the      *)
(* revision it expected, although it judged the row awaits ago.            *)
GuardedPutReplacesExpected ==
    [][\A c \in Clients :
          row' # row /\ pc[c] = "put_cas" /\ pc'[c] = "put_cache" /\ op[c].exp # NoExpected
             => row.rev = op[c].exp]_vars

(* A put refused by the compare-and-set really lost to another writer that *)
(* stored while the put was in flight: no conflict is spurious.            *)
LostCasHasAWinner ==
    \A c \in Clients : pc[c] = "put_fresh" => raced[c] /\ version > curVersion[c]

(* Rule 6: Redis is only ever filled with what Postgres stored first, so a *)
(* cached read may be old but never invented or not yet durable.           *)
CacheHoldsOnlyStoredRecords ==
    /\ cache # NoRecord => cache \in history
    /\ \A c \in Clients : res[c].kind = "FOUND" /\ res[c].rec # NoRecord
                              => res[c].rec \in history

(* What a put waiting for its guarded write has judged.  While the storage *)
(* version it remembers is current, that judgement is of the stored row;   *)
(* once it is not, another client has written since the put began.         *)
JudgedRowStands(c) ==
    pc[c] = "put_cas" =>
        /\ cur[c] \in Records /\ cur[c] # op[c].rec
        /\ Conflict(op[c].rec, op[c].exp, cur[c]) = "none"
        /\ curVersion[c] <= version
        /\ curVersion[c] = version => cur[c] = row
        /\ curVersion[c] < version => raced[c]

(* Nothing is in the row, in the cache or on its way to the cache or to a  *)
(* reader that was not stored.                                             *)
OnlyStoredRecords ==
    /\ row # NoRecord => row \in history
    /\ CacheHoldsOnlyStoredRecords
    /\ \A c \in Clients :
          /\ pc[c] = "get_fill" => cur[c] \in history
          /\ pc[c] = "put_cache" => op[c].rec \in history

(* The inductive invariant behind the theorems: a row, once there, stays   *)
(* and counts its writes; a call in flight has no answer yet; the two      *)
(* conditions above; no spurious conflict.                                 *)
EngineInv ==
    /\ row = NoRecord <=> version = 0
    /\ \A c \in Clients : pc[c] = "put_reread" => row # NoRecord
    /\ \A c \in Clients : pc[c] # "idle" => res[c] = None
    /\ \A c \in Clients : JudgedRowStands(c)
    /\ OnlyStoredRecords
    /\ LostCasHasAWinner

-----------------------------------------------------------------------------
(* Refinement: the engine is an atomic compare-and-set register.           *)

AbsCall(c) ==
    IF pc[c] \in PutWaits THEN [kind |-> "put", rec |-> op[c].rec, exp |-> op[c].exp]
    ELSE IF pc[c] \in GetWaits THEN [kind |-> "get", rec |-> NoRecord, exp |-> NoExpected]
    ELSE [kind |-> "idle", rec |-> NoRecord, exp |-> NoExpected]

AbsReply(c) ==
    IF pc[c] = "put_cache" THEN Answer("STORED", NoRecord)
    ELSE IF pc[c] = "put_fresh" THEN Answer("REVISION_MISMATCH", NoRecord)
    ELSE IF pc[c] = "get_fill" THEN Answer("FOUND", cur[c])
    ELSE IF res[c].kind = "FOUND" THEN res[c]
    ELSE Answer(res[c].kind, NoRecord)

Store == INSTANCE AtomicRecordStore WITH
    record <- row, history <- history, raced <- raced,
    call <- [c \in Clients |-> AbsCall(c)],
    reply <- [c \in Clients |-> AbsReply(c)],
    StaleReads <- UseCache

(* Every put takes effect, or is judged, at one instant between its call   *)
(* and its return; reads are stale only behind the cache.                  *)
ImplementsAtomicStore == Store!AbsSpec
=============================================================================
