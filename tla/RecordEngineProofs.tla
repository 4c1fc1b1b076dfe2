-------------------------- MODULE RecordEngineProofs --------------------------
(***************************************************************************)
(* Theorems about RecordEngine, for any clients, records and bounds.  The  *)
(* guarded write is safe because of one fact: what a put judged is still   *)
(* the stored row whenever the storage version it remembers is current.    *)
(***************************************************************************)
EXTENDS RecordEngine, TLAPS

USE RecordsAssumption, ConfigAssumption

LEMMA TypeInit == Init => TypeOK
BY DEF Init, TypeOK, None, NoOp, NoExpected, PutWaits, GetWaits, Kinds, Refusals

(* The call returns with an answer.                                        *)
LEMMA FinishType ==
    ASSUME TypeOK, NEW c \in Clients, NEW k \in Kinds, NEW r \in Records \cup {NoRecord},
           Finish(c, k, r), UNCHANGED <<row, version, history>>,
           cache' \in Records \cup {NoRecord}
    PROVE  TypeOK'
BY DEF TypeOK, Finish, DropLocals, Answer, NoOp, NoExpected, PutWaits, GetWaits

(* The call goes on to another await, its arguments kept.                  *)
LEMMA MoveType ==
    ASSUME TypeOK, NEW c \in Clients, NEW s \in PutWaits \cup GetWaits,
           pc' = [pc EXCEPT ![c] = s], s \in PutWaits => pc[c] \in PutWaits,
           cur' \in [Clients -> Records \cup {NoRecord}],
           curVersion' \in [Clients -> Nat], version' \in Nat,
           row' \in Records \cup {NoRecord}, history' \subseteq Records,
           raced' \in [Clients -> BOOLEAN], UNCHANGED <<cache, op, res>>
    PROVE  TypeOK'
BY DEF TypeOK

LEMMA WriteType ==
    ASSUME TypeOK, NEW c \in Clients, pc[c] \in PutWaits, WriteRow(c)
    PROVE  /\ row' \in Records /\ version' \in Nat /\ history' \subseteq Records
           /\ raced' \in [Clients -> BOOLEAN]
BY DEF TypeOK, WriteRow

LEMMA ReadType ==
    ASSUME TypeOK, NEW c \in Clients, ReadRow(c)
    PROVE  cur' \in [Clients -> Records \cup {NoRecord}] /\ curVersion' \in [Clients -> Nat]
BY DEF TypeOK, ReadRow

LEMMA JudgeType ==
    ASSUME TypeOK, NEW c \in Clients, pc[c] \in PutWaits, JudgePut(c),
           UNCHANGED <<row, version, cache, history>>
    PROVE  TypeOK'
<1>1. CASE \E k \in Kinds : Finish(c, k, row)
  BY <1>1, FinishType DEF TypeOK
<1>2. CASE ReadRow(c) /\ pc' = [pc EXCEPT ![c] = "put_cas"] /\ UNCHANGED <<res, op, raced>>
  BY <1>2, ReadType, MoveType DEF TypeOK, PutWaits
<1>3. Conflict(op[c].rec, op[c].exp, row) \in Refusals \cup {"none"}
  BY DEF Conflict, Refusals
<1> QED BY <1>1, <1>2, <1>3 DEF JudgePut, Kinds

LEMMA TypeStep == TypeOK /\ [Next]_vars => TypeOK'
<1> SUFFICES ASSUME TypeOK, [Next]_vars PROVE TypeOK'
  OBVIOUS
<1>1. ASSUME NEW c \in Clients, NEW r \in Records, NEW e \in {NoExpected, 0} \cup Revisions,
             StartPut(c, r, e)
      PROVE  TypeOK'
  <2>1. e \in Int
    BY DEF NoExpected, Revisions
  <2> QED BY <1>1, <2>1 DEF TypeOK, StartPut, None, Answer, aux, PutWaits, GetWaits, Kinds, Refusals
<1>2. ASSUME NEW c \in Clients, StartGet(c) PROVE TypeOK'
  BY <1>2 DEF TypeOK, StartGet, None, Answer, NoOp, NoExpected, aux, PutWaits, GetWaits, Kinds, Refusals
<1>3. ASSUME NEW c \in Clients, PutRead(c) PROVE TypeOK'
  <2>1. CASE JudgePut(c)
    BY <1>3, <2>1, JudgeType DEF PutRead, PutWaits
  <2>2. CASE ~JudgePut(c)
    BY <1>3, <2>2, MoveType DEF TypeOK, PutRead, PutWaits
  <2> QED BY <2>1, <2>2
<1>4. ASSUME NEW c \in Clients, PutInsert(c) PROVE TypeOK'
  <2>1. CASE WriteRow(c) /\ pc' = [pc EXCEPT ![c] = "put_cache"]
    BY <1>4, <2>1, WriteType, MoveType DEF TypeOK, PutInsert, PutWaits
  <2>2. CASE UNCHANGED <<row, version, aux>> /\ pc' = [pc EXCEPT ![c] = "put_reread"]
    BY <1>4, <2>2, MoveType DEF TypeOK, PutInsert, aux, PutWaits
  <2> QED BY <1>4, <2>1, <2>2 DEF PutInsert
<1>5. ASSUME NEW c \in Clients, PutReread(c) PROVE TypeOK'
  BY <1>5, JudgeType DEF PutReread, PutWaits
<1>6. ASSUME NEW c \in Clients, PutCas(c) PROVE TypeOK'
  <2>1. CASE WriteRow(c) /\ pc' = [pc EXCEPT ![c] = "put_cache"]
    BY <1>6, <2>1, WriteType, MoveType DEF TypeOK, PutCas, PutWaits
  <2>2. CASE UNCHANGED <<row, version, aux>> /\ pc' = [pc EXCEPT ![c] = "put_fresh"]
    BY <1>6, <2>2, MoveType DEF TypeOK, PutCas, aux, PutWaits
  <2> QED BY <1>6, <2>1, <2>2 DEF PutCas
<1>7. ASSUME NEW c \in Clients, PutFresh(c) PROVE TypeOK'
  BY <1>7, FinishType DEF TypeOK, PutFresh, Kinds, Refusals
<1>8. ASSUME NEW c \in Clients, PutCache(c) PROVE TypeOK'
  BY <1>8, FinishType DEF TypeOK, PutCache, SetCache, PutWaits, Kinds
<1>9. ASSUME NEW c \in Clients, GetCache(c) PROVE TypeOK'
  <2>1. CASE Finish(c, "FOUND", cache)
    BY <1>9, <2>1, FinishType DEF TypeOK, GetCache, Kinds
  <2>2. CASE ~Finish(c, "FOUND", cache)
    BY <1>9, <2>2, MoveType DEF TypeOK, GetCache, PutWaits, GetWaits
  <2> QED BY <2>1, <2>2
<1>10. ASSUME NEW c \in Clients, GetRead(c) PROVE TypeOK'
  <2>1. CASE Finish(c, "FOUND", NoRecord)
    BY <1>10, <2>1, FinishType DEF TypeOK, GetRead, Kinds
  <2>2. CASE ~Finish(c, "FOUND", NoRecord)
    BY <1>10, <2>2, ReadType, MoveType DEF TypeOK, GetRead, PutWaits, GetWaits
  <2> QED BY <2>1, <2>2
<1>11. ASSUME NEW c \in Clients, GetFill(c) PROVE TypeOK'
  BY <1>11, FinishType DEF TypeOK, GetFill, SetCache, Kinds
<1>12. ASSUME NEW c \in Clients, Abandon(c) PROVE TypeOK'
  BY <1>12 DEF TypeOK, Abandon, DropLocals, None, NoOp, NoExpected, PutWaits, GetWaits, Kinds
<1>13. CASE LoseCache
  BY <1>13 DEF TypeOK, LoseCache, locals, aux
<1>14. CASE UNCHANGED vars
  BY <1>14 DEF TypeOK, vars
<1> QED
  BY <1>1, <1>2, <1>3, <1>4, <1>5, <1>6, <1>7, <1>8, <1>9, <1>10, <1>11, <1>12, <1>13, <1>14
     DEF Next, StartAny, EngineCall

(* Type correctness of the engine.                                         *)
THEOREM Typing == Spec => []TypeOK
<1>1. Init => TypeOK
  BY TypeInit
<1>2. TypeOK /\ [Next]_vars => TypeOK'
  BY TypeStep
<1> QED BY <1>1, <1>2, PTL DEF Spec

-----------------------------------------------------------------------------
(* Every step either stores a row, for one client, or leaves it alone.     *)

Stores(c) ==
    /\ pc[c] \in {"put_insert", "put_cas"} /\ WriteRow(c)
    /\ pc[c] = "put_insert" => row = NoRecord
    /\ pc[c] = "put_cas" => version = curVersion[c]
    /\ pc' = [pc EXCEPT ![c] = "put_cache"]
    /\ UNCHANGED <<cache, op, cur, curVersion, res>>

LEMMA StoresOrNot ==
    ASSUME [Next]_vars
    PROVE  (\E c \in Clients : Stores(c)) \/ UNCHANGED <<row, version, history>>
<1>1. ASSUME NEW c \in Clients, EngineCall(c)
      PROVE  Stores(c) \/ UNCHANGED <<row, version, history>>
  BY <1>1 DEF EngineCall, Stores, PutRead, PutInsert, PutReread, PutCas, PutFresh, PutCache,
              GetCache, GetRead, GetFill, aux
<1>2. ASSUME NEW c \in Clients, StartAny(c) \/ Abandon(c)
      PROVE  UNCHANGED <<row, version, history>>
  BY <1>2 DEF StartAny, StartPut, StartGet, Abandon, aux
<1>3. LoseCache \/ UNCHANGED vars => UNCHANGED <<row, version, history>>
  BY DEF LoseCache, locals, aux, vars
<1> QED BY <1>1, <1>2, <1>3 DEF Next

(* A step of one client leaves the locals of the others as they are.       *)
Keeps(c) ==
    /\ pc'[c] = pc[c] /\ op'[c] = op[c] /\ cur'[c] = cur[c]
    /\ curVersion'[c] = curVersion[c] /\ res'[c] = res[c]
    /\ raced[c] => raced'[c]

LEMMA OthersKeep ==
    ASSUME TypeOK, NEW c \in Clients, NEW d \in Clients, c # d,
           StartAny(c) \/ EngineCall(c) \/ Abandon(c)
    PROVE  Keeps(d)
<1> USE DEF Keeps, TypeOK, Finish, DropLocals, aux
<1>1. CASE StartAny(c) \/ Abandon(c)
  BY <1>1 DEF StartAny, StartPut, StartGet, Abandon
<1>2. CASE PutRead(c)
  BY <1>2 DEF PutRead, JudgePut, ReadRow
<1>3. CASE PutReread(c)
  BY <1>3 DEF PutReread, JudgePut, ReadRow
<1>4. CASE PutInsert(c) \/ PutCas(c)
  BY <1>4 DEF PutInsert, PutCas, WriteRow
<1>5. CASE PutFresh(c) \/ PutCache(c)
  BY <1>5 DEF PutFresh, PutCache
<1>6. CASE GetCache(c) \/ GetRead(c) \/ GetFill(c)
  BY <1>6 DEF GetCache, GetRead, GetFill, ReadRow
<1> QED BY <1>1, <1>2, <1>3, <1>4, <1>5, <1>6 DEF EngineCall

-----------------------------------------------------------------------------
(* The inductive invariant, one conjunct at a time.                        *)

LEMMA InvInit == Init => EngineInv
BY DEF Init, EngineInv, JudgedRowStands, OnlyStoredRecords, CacheHoldsOnlyStoredRecords,
       LostCasHasAWinner, None

LEMMA RowStep ==
    ASSUME TypeOK, EngineInv, [Next]_vars
    PROVE  /\ (row = NoRecord <=> version = 0)'
           /\ row # NoRecord => row' # NoRecord
           /\ version' >= version
<1>1. ASSUME NEW c \in Clients, Stores(c) PROVE row' \in Records /\ version' = version + 1
  BY <1>1 DEF Stores, WriteRow, TypeOK, PutWaits
<1> QED BY <1>1, StoresOrNot DEF EngineInv, TypeOK

(* What one client's step makes of its own pending judgement.              *)
LEMMA JudgedByJudge ==
    ASSUME TypeOK, EngineInv, NEW c \in Clients, row # NoRecord, JudgePut(c),
           UNCHANGED <<row, version, cache, history>>
    PROVE  JudgedRowStands(c)' /\ pc'[c] \in {"idle", "put_cas"}
<1>1. CASE ReadRow(c) /\ pc' = [pc EXCEPT ![c] = "put_cas"] /\ UNCHANGED <<res, op, raced>>
           /\ Conflict(op[c].rec, op[c].exp, row) = "none" /\ row # op[c].rec
  <2>1. cur'[c] = row' /\ cur'[c] \in Records /\ curVersion'[c] = version' /\ version' \in Nat
    BY <1>1 DEF ReadRow, TypeOK
  <2>2. Conflict(op[c].rec, op[c].exp, cur[c])' = "none" /\ cur'[c] # op'[c].rec
    BY <1>1, <2>1 DEF Conflict
  <2> QED BY <1>1, <2>1, <2>2 DEF JudgedRowStands, TypeOK
<1>2. CASE pc' = [pc EXCEPT ![c] = "idle"]
  BY <1>2 DEF JudgedRowStands, TypeOK
<1> QED BY <1>1, <1>2 DEF JudgePut, Finish, DropLocals

LEMMA JudgedByCall ==
    ASSUME TypeOK, EngineInv, NEW c \in Clients, StartAny(c) \/ EngineCall(c) \/ Abandon(c)
    PROVE  JudgedRowStands(c)' /\ (pc'[c] = "put_reread" => row' # NoRecord)
<1>1. CASE (PutRead(c) \/ PutReread(c)) /\ JudgePut(c)
  <2>1. row # NoRecord
    BY <1>1 DEF PutRead, PutReread, EngineInv, JudgePut, Finish, DropLocals, TypeOK
  <2> QED BY <1>1, <2>1, JudgedByJudge DEF PutRead, PutReread
<1>2. CASE ~((PutRead(c) \/ PutReread(c)) /\ JudgePut(c))
  <2>1. pc'[c] # "put_cas"
    BY <1>2 DEF StartAny, StartPut, StartGet, EngineCall, PutRead, PutInsert, PutReread, PutCas,
                PutFresh, PutCache, GetCache, GetRead, GetFill, Abandon, Finish, DropLocals, TypeOK
  <2>2. pc'[c] = "put_reread" => row' # NoRecord
    BY <1>2 DEF StartAny, StartPut, StartGet, EngineCall, PutRead, PutInsert, PutReread, PutCas,
                PutFresh, PutCache, GetCache, GetRead, GetFill, Abandon, Finish, DropLocals, TypeOK
  <2> QED BY <2>1, <2>2 DEF JudgedRowStands
<1> QED BY <1>1, <1>2

(* What the step of another client makes of a pending judgement.           *)
LEMMA JudgedByOther ==
    ASSUME TypeOK, EngineInv, [Next]_vars, NEW d \in Clients, Keeps(d)
    PROVE  JudgedRowStands(d)'
<1> SUFFICES ASSUME pc[d] = "put_cas" PROVE JudgedRowStands(d)'
  BY DEF JudgedRowStands, Keeps
<1>1. JudgedRowStands(d)
  BY DEF EngineInv
<1>2. Conflict(op[d].rec, op[d].exp, cur[d])' = "none"
  BY <1>1 DEF JudgedRowStands, Keeps, Conflict
<1>3. ASSUME NEW c \in Clients, Stores(c) PROVE version' = version + 1 /\ raced'[d]
  <2>1. c # d
    BY <1>3 DEF Stores, Keeps, TypeOK
  <2> QED BY <1>3, <2>1 DEF Stores, WriteRow
<1>4. CASE \E c \in Clients : Stores(c)
  BY <1>1, <1>2, <1>3, <1>4 DEF JudgedRowStands, Keeps, TypeOK
<1>5. CASE UNCHANGED <<row, version>>
  BY <1>1, <1>2, <1>5 DEF JudgedRowStands, Keeps, TypeOK
<1> QED BY <1>4, <1>5, StoresOrNot

LEMMA JudgedStep ==
    ASSUME TypeOK, EngineInv, [Next]_vars, NEW d \in Clients
    PROVE  JudgedRowStands(d)' /\ (pc'[d] = "put_reread" => row' # NoRecord)
<1>1. CASE StartAny(d) \/ EngineCall(d) \/ Abandon(d)
  BY <1>1, JudgedByCall
<1>2. ASSUME Keeps(d) PROVE JudgedRowStands(d)' /\ (pc'[d] = "put_reread" => row' # NoRecord)
  BY <1>2, JudgedByOther, RowStep DEF EngineInv, Keeps
<1>3. ASSUME NEW c \in Clients, c # d, StartAny(c) \/ EngineCall(c) \/ Abandon(c) PROVE Keeps(d)
  BY <1>3, OthersKeep
<1>4. CASE LoseCache \/ UNCHANGED vars
  BY <1>2, <1>4 DEF LoseCache, locals, aux, vars, Keeps
<1> QED BY <1>1, <1>2, <1>3, <1>4 DEF Next

LEMMA CasLossStep ==
    ASSUME TypeOK, EngineInv, [Next]_vars, NEW d \in Clients, pc'[d] = "put_fresh"
    PROVE  raced'[d] /\ version' > curVersion'[d]
<1>1. ASSUME Keeps(d) PROVE raced'[d] /\ version' > curVersion'[d]
  <2>1. raced[d] /\ version > curVersion[d]
    BY <1>1 DEF Keeps, EngineInv, LostCasHasAWinner
  <2>0. curVersion[d] \in Nat /\ version \in Nat /\ version' \in Nat
    BY TypeStep DEF TypeOK
  <2>2. version' > curVersion'[d]
    BY <1>1, <2>0, <2>1, RowStep DEF Keeps
  <2> QED BY <1>1, <2>1, <2>2 DEF Keeps
<1>2. CASE PutCas(d)
  <2>3. version # curVersion[d] /\ UNCHANGED <<version, raced, curVersion>>
    BY <1>2 DEF PutCas, aux, TypeOK
  <2>4. curVersion[d] <= version
    BY <1>2 DEF PutCas, EngineInv, JudgedRowStands
  <2>0. curVersion[d] \in Nat /\ version \in Nat
    BY DEF TypeOK
  <2>1. curVersion[d] < version
    BY <2>0, <2>3, <2>4
  <2>2. raced[d]
    BY <1>2, <2>1 DEF PutCas, EngineInv, JudgedRowStands
  <2>5. version' > curVersion'[d]
    BY <2>0, <2>1, <2>3
  <2> QED BY <2>2, <2>3, <2>5
<1>3. CASE (StartAny(d) \/ EngineCall(d) \/ Abandon(d)) /\ ~PutCas(d)
  BY <1>3 DEF StartAny, StartPut, StartGet, EngineCall, PutRead, PutInsert, PutReread, JudgePut,
              PutFresh, PutCache, GetCache, GetRead, GetFill, Abandon, Finish, DropLocals, TypeOK
<1>4. ASSUME NEW c \in Clients, c # d, StartAny(c) \/ EngineCall(c) \/ Abandon(c) PROVE Keeps(d)
  BY <1>4, OthersKeep
<1>5. CASE LoseCache \/ UNCHANGED vars
  BY <1>1, <1>5 DEF LoseCache, locals, aux, vars, Keeps
<1> QED BY <1>1, <1>2, <1>3, <1>4, <1>5 DEF Next

(* The cache, the readers and the writers hold only what was stored.       *)
LEMMA FinishStored ==
    ASSUME TypeOK, OnlyStoredRecords, NEW c \in Clients, NEW k, NEW r,
           Finish(c, k, r), k = "FOUND" /\ r # NoRecord => r \in history,
           UNCHANGED <<row, history>>, cache' # NoRecord => cache' \in history
    PROVE  OnlyStoredRecords'
<1> USE DEF OnlyStoredRecords, CacheHoldsOnlyStoredRecords, TypeOK, Finish, DropLocals
<1>1. ASSUME NEW d \in Clients, res'[d].kind = "FOUND", res'[d].rec # NoRecord
      PROVE  res'[d].rec \in history'
  BY <1>1 DEF Answer
<1>2. ASSUME NEW d \in Clients
      PROVE  /\ pc'[d] = "get_fill" => cur'[d] \in history'
             /\ pc'[d] = "put_cache" => op'[d].rec \in history'
  OBVIOUS
<1> QED BY <1>1, <1>2

LEMMA MoveStored ==
    ASSUME TypeOK, OnlyStoredRecords, NEW c \in Clients, NEW s,
           pc' = [pc EXCEPT ![c] = s], s # "put_cache",
           UNCHANGED <<row, cache, history, res, op>>,
           ReadRow(c) \/ (UNCHANGED cur /\ s # "get_fill"), s = "get_fill" => row # NoRecord
    PROVE  OnlyStoredRecords'
BY DEF OnlyStoredRecords, CacheHoldsOnlyStoredRecords, TypeOK, ReadRow

LEMMA StoredStep ==
    ASSUME TypeOK, OnlyStoredRecords, [Next]_vars
    PROVE  OnlyStoredRecords'
<1> USE DEF OnlyStoredRecords, CacheHoldsOnlyStoredRecords
<1>1. ASSUME NEW c \in Clients, Stores(c) PROVE OnlyStoredRecords'
  BY <1>1 DEF Stores, WriteRow, TypeOK
<1>2. ASSUME NEW c \in Clients, PutRead(c) \/ PutReread(c) PROVE OnlyStoredRecords'
  <2>1. CASE JudgePut(c)
    <3>1. Conflict(op[c].rec, op[c].exp, row) # "FOUND"
      BY DEF Conflict
    <3>2. CASE \E k \in {"IDENTICAL", Conflict(op[c].rec, op[c].exp, row)} : Finish(c, k, row)
      BY <1>2, <3>1, <3>2, FinishStored DEF PutRead, PutReread
    <3>3. CASE ReadRow(c) /\ pc' = [pc EXCEPT ![c] = "put_cas"] /\ UNCHANGED <<res, op>>
      BY <1>2, <3>3, MoveStored DEF PutRead, PutReread
    <3> QED BY <2>1, <3>2, <3>3 DEF JudgePut
  <2>2. CASE ~JudgePut(c)
    BY <1>2, <2>2, MoveStored DEF PutRead, PutReread
  <2> QED BY <2>1, <2>2
<1>3. ASSUME NEW c \in Clients, PutFresh(c) PROVE OnlyStoredRecords'
  BY <1>3, FinishStored DEF PutFresh
<1>4. ASSUME NEW c \in Clients, PutCache(c) PROVE OnlyStoredRecords'
  BY <1>4, FinishStored DEF PutCache, SetCache
<1>5. ASSUME NEW c \in Clients, GetCache(c) PROVE OnlyStoredRecords'
  <2>1. CASE Finish(c, "FOUND", cache)
    BY <1>5, <2>1, FinishStored DEF GetCache
  <2>2. CASE ~Finish(c, "FOUND", cache)
    BY <1>5, <2>2, MoveStored DEF GetCache
  <2> QED BY <2>1, <2>2
<1>6. ASSUME NEW c \in Clients, GetRead(c) PROVE OnlyStoredRecords'
  <2>1. CASE Finish(c, "FOUND", NoRecord)
    BY <1>6, <2>1, FinishStored DEF GetRead
  <2>2. CASE ~Finish(c, "FOUND", NoRecord)
    BY <1>6, <2>2, MoveStored DEF GetRead
  <2> QED BY <2>1, <2>2
<1>7. ASSUME NEW c \in Clients, GetFill(c) PROVE OnlyStoredRecords'
  BY <1>7, FinishStored DEF GetFill, SetCache
<1>8. ASSUME NEW c \in Clients, PutInsert(c) \/ PutCas(c), ~Stores(c) PROVE OnlyStoredRecords'
  BY <1>8, MoveStored DEF PutInsert, PutCas, Stores, aux
<1>9. ASSUME NEW c \in Clients, StartAny(c) PROVE OnlyStoredRecords'
  <2>1. \E s \in {"put_read", "get_cache"} : pc' = [pc EXCEPT ![c] = s]
    BY <1>9 DEF StartAny, StartPut, StartGet
  <2>2. res' = [res EXCEPT ![c] = None] /\ UNCHANGED <<row, cache, history, cur>>
    BY <1>9 DEF StartAny, StartPut, StartGet, aux
  <2>3. \A d \in Clients : d # c => op'[d] = op[d]
    BY <1>9 DEF StartAny, StartPut, StartGet, TypeOK
  <2> QED BY <2>1, <2>2, <2>3 DEF None, TypeOK
<1>10. ASSUME NEW c \in Clients, Abandon(c) PROVE OnlyStoredRecords'
  BY <1>10 DEF Abandon, DropLocals, None, TypeOK
<1>11. CASE LoseCache \/ UNCHANGED vars
  BY <1>11 DEF LoseCache, locals, aux, vars
<1> QED
  BY <1>1, <1>2, <1>3, <1>4, <1>5, <1>6, <1>7, <1>8, <1>9, <1>10, <1>11 DEF Next, EngineCall

LEMMA NoAnswerStep ==
    ASSUME TypeOK, EngineInv, [Next]_vars, NEW d \in Clients, pc'[d] # "idle"
    PROVE  res'[d] = None
<1>1. ASSUME Keeps(d) PROVE res'[d] = None
  BY <1>1 DEF Keeps, EngineInv
<1>2. CASE StartAny(d)
  BY <1>2 DEF StartAny, StartPut, StartGet, TypeOK
<1>3. CASE EngineCall(d) \/ Abandon(d)
  <2>1. pc[d] # "idle"
    BY <1>3 DEF EngineCall, PutRead, PutInsert, PutReread, PutCas, PutFresh, PutCache,
                GetCache, GetRead, GetFill, Abandon
  <2>2. UNCHANGED res
    BY <1>3 DEF EngineCall, PutRead, PutInsert, PutReread, JudgePut, PutCas, PutFresh, PutCache,
                GetCache, GetRead, GetFill, Abandon, Finish, DropLocals, TypeOK
  <2> QED BY <2>1, <2>2 DEF EngineInv
<1>4. ASSUME NEW c \in Clients, c # d, StartAny(c) \/ EngineCall(c) \/ Abandon(c) PROVE Keeps(d)
  BY <1>4, OthersKeep
<1>5. CASE LoseCache \/ UNCHANGED vars
  BY <1>1, <1>5 DEF LoseCache, locals, aux, vars, Keeps
<1> QED BY <1>1, <1>2, <1>3, <1>4, <1>5 DEF Next

LEMMA InvStep == TypeOK /\ EngineInv /\ [Next]_vars => EngineInv'
BY RowStep, JudgedStep, CasLossStep, StoredStep, NoAnswerStep DEF EngineInv, LostCasHasAWinner

(* The inductive invariant holds; with it, a put is refused by the guarded *)
(* write only when another writer really stored first.                     *)
THEOREM Invariance == Spec => []EngineInv
<1>1. Init => TypeOK /\ EngineInv
  BY TypeInit, InvInit
<1>2. TypeOK /\ EngineInv /\ [Next]_vars => TypeOK' /\ EngineInv'
  BY TypeStep, InvStep
<1> QED BY <1>1, <1>2, PTL DEF Spec

(* No put is refused by the guarded write unless another writer has stored *)
(* since it began (put, the path that re-reads the fresh record).          *)
THEOREM ConflictsAreReal == Spec => []LostCasHasAWinner
BY Invariance, PTL DEF EngineInv

(* The cache holds, and reads return, only records stored durably first.   *)
THEOREM CacheIsNeverAhead == Spec => []CacheHoldsOnlyStoredRecords
<1>1. EngineInv => CacheHoldsOnlyStoredRecords
  BY DEF EngineInv, OnlyStoredRecords
<1> QED BY <1>1, Invariance, PTL

-----------------------------------------------------------------------------
(* The write rules: what is stored over a row was judged against that row. *)

LEMMA StoredWasJudged ==
    ASSUME TypeOK, EngineInv, NEW c \in Clients, Stores(c), row # NoRecord
    PROVE  /\ pc[c] = "put_cas" /\ row' = op[c].rec
           /\ row \in Records /\ op[c].rec \in Records /\ row # op[c].rec
           /\ Conflict(op[c].rec, op[c].exp, row) = "none"
BY DEF Stores, WriteRow, EngineInv, JudgedRowStands, TypeOK, PutWaits

LEMMA WriteRules ==
    ASSUME TypeOK, EngineInv, [Next]_vars, row # NoRecord
    PROVE  /\ row' # NoRecord /\ row'.rev >= row.rev
           /\ row.rev = NoRevision => row' = row
<1>1. ASSUME NEW c \in Clients, Stores(c)
      PROVE  row' \in Records /\ row'.rev >= row.rev /\ row.rev # NoRevision
  BY <1>1, StoredWasJudged DEF Conflict, NoRevision
<1>2. CASE UNCHANGED <<row, version, history>>
  BY <1>2 DEF TypeOK
<1> QED BY <1>1, <1>2, StoresOrNot

(* Rule 3: the stored revision never goes backwards.                       *)
THEOREM RevisionsGrow == Spec => RevisionNeverDecreases
<1>1. TypeOK /\ EngineInv /\ [Next]_vars
      => [row # NoRecord => row' # NoRecord /\ row'.rev >= row.rev]_vars
  BY WriteRules
<1> QED BY <1>1, Typing, Invariance, PTL DEF Spec, RevisionNeverDecreases

(* Rule 4: an immutable record is never replaced.                          *)
THEOREM ImmutableStands == Spec => ImmutableNeverReplaced
<1>1. TypeOK /\ EngineInv /\ [Next]_vars
      => [row # NoRecord /\ row.rev = NoRevision => row' = row]_vars
  BY WriteRules
<1> QED BY <1>1, Typing, Invariance, PTL DEF Spec, ImmutableNeverReplaced

(* Rule 5: a guarded put stores over exactly the revision it expected.     *)
THEOREM ExpectationHolds == Spec => GuardedPutReplacesExpected
<1> DEFINE Guarded ==
      \A c \in Clients :
         row' # row /\ pc[c] = "put_cas" /\ pc'[c] = "put_cache" /\ op[c].exp # NoExpected
            => row.rev = op[c].exp
<1>1. TypeOK /\ EngineInv /\ [Next]_vars => [Guarded]_vars
  <2> SUFFICES ASSUME TypeOK, EngineInv, [Next]_vars, NEW c \in Clients,
                      row' # row, pc[c] = "put_cas", pc'[c] = "put_cache", op[c].exp # NoExpected
               PROVE  row.rev = op[c].exp
    OBVIOUS
  <2>1. PICK d \in Clients : Stores(d)
    BY StoresOrNot
  <2>2. d = c
    BY <2>1 DEF Stores, TypeOK
  <2>3. row # NoRecord
    BY <2>1, <2>2 DEF Stores, EngineInv, JudgedRowStands, TypeOK
  <2>4. Conflict(op[c].rec, op[c].exp, row) = "none"
    BY <2>1, <2>2, <2>3, StoredWasJudged
  <2> QED BY <2>4 DEF Conflict
<1> QED BY <1>1, Typing, Invariance, PTL DEF Spec, GuardedPutReplacesExpected
-----------------------------------------------------------------------------
(***************************************************************************)
(* RecordEngine implements AtomicRecordStore for any clients, records and  *)
(* bounds: a put takes effect at its insert or guarded write, or is judged *)
(* at its read; a get takes its answer from the cache or at the row read.  *)
(***************************************************************************)

absCall == [c \in Clients |-> AbsCall(c)]
absReply == [c \in Clients |-> AbsReply(c)]

(* Every other client looks the same to the register.                      *)
LEMMA OthersLookSame ==
    ASSUME NEW d \in Clients, Keeps(d)
    PROVE  AbsCall(d)' = AbsCall(d) /\ AbsReply(d)' = AbsReply(d)
BY DEF Keeps, AbsCall, AbsReply, PutWaits, GetWaits

LEMMA OneClientMoves ==
    ASSUME TypeOK, NEW c \in Clients, StartAny(c) \/ EngineCall(c) \/ Abandon(c)
    PROVE  /\ absCall' = [absCall EXCEPT ![c] = AbsCall(c)']
           /\ absReply' = [absReply EXCEPT ![c] = AbsReply(c)']
<1>1. \A d \in Clients : d # c => AbsCall(d)' = AbsCall(d) /\ AbsReply(d)' = AbsReply(d)
  BY OthersKeep, OthersLookSame
<1> QED BY <1>1 DEF absCall, absReply

(* A client is between calls exactly when the register sees no call of it. *)
LEMMA IdleMeansIdle ==
    ASSUME TypeOK, NEW c \in Clients
    PROVE  AbsCall(c) = Store!IdleCall <=> pc[c] = "idle"
BY DEF AbsCall, Store!IdleCall, NoExpected, Store!NoExpected, TypeOK, PutWaits, GetWaits

(* While a call runs towards its decision the register has not answered.   *)
LEMMA Undecided ==
    ASSUME TypeOK, EngineInv, NEW c \in Clients,
           pc[c] \in {"put_read", "put_insert", "put_reread", "put_cas", "get_cache", "get_read"}
    PROVE  /\ absReply[c] = Store!None /\ absCall[c] = AbsCall(c)
           /\ pc[c] \in PutWaits => AbsCall(c) = [kind |-> "put", rec |-> op[c].rec, exp |-> op[c].exp]
           /\ pc[c] \in GetWaits => AbsCall(c) = Store!GetCall
BY DEF EngineInv, AbsReply, AbsCall, absReply, absCall, None, Answer, Store!None, Store!GetCall,
       NoExpected, Store!NoExpected, PutWaits, GetWaits

(* The call has ended: what Finish leaves is the register's hang-up.       *)
LEMMA FinishHangsUp ==
    ASSUME TypeOK, NEW c \in Clients, NEW k, NEW r, EngineCall(c), Finish(c, k, r)
    PROVE  /\ Store!Hangup(c)
           /\ absReply' = [absReply EXCEPT ![c] = Answer(k, IF k = "FOUND" THEN r ELSE NoRecord)]
<1>1. pc'[c] = "idle" /\ res'[c] = Answer(k, r) /\ raced' = [raced EXCEPT ![c] = FALSE]
  BY DEF Finish, DropLocals, TypeOK
<1>2. AbsCall(c)' = Store!IdleCall
  BY <1>1 DEF AbsCall, Store!IdleCall, NoExpected, Store!NoExpected, PutWaits, GetWaits
<1>3. AbsReply(c)' = Answer(k, IF k = "FOUND" THEN r ELSE NoRecord)
  BY <1>1 DEF AbsReply, Answer
<1> QED BY <1>1, <1>2, <1>3, OneClientMoves DEF Store!Hangup, absCall

(* The register's verdict on a put is what the engine's checks conclude.   *)
LEMMA VerdictIsConflict ==
    ASSUME TypeOK, NEW c \in Clients, row # NoRecord, row # op[c].rec
    PROVE  Store!PutVerdict(row, op[c].rec, op[c].exp) =
              IF Conflict(op[c].rec, op[c].exp, row) = "none" THEN "STORED"
              ELSE Conflict(op[c].rec, op[c].exp, row)
BY DEF Store!PutVerdict, Conflict, NoRevision, Store!NoRevision, NoExpected, Store!NoExpected, TypeOK

(* An await that decides nothing is invisible.                             *)
LEMMA InvisibleMove ==
    ASSUME TypeOK, NEW c \in Clients, EngineCall(c), AbsCall(c)' = AbsCall(c),
           AbsReply(c)' = AbsReply(c), UNCHANGED <<row, history, raced>>
    PROVE  UNCHANGED Store!absVars
<1>1. UNCHANGED absCall /\ UNCHANGED absReply
  BY OneClientMoves DEF absCall, absReply
<1> QED BY <1>1 DEF Store!absVars, absCall, absReply

LEMMA JudgeRefines ==
    ASSUME TypeOK, EngineInv, NEW c \in Clients, PutRead(c) \/ PutReread(c), JudgePut(c)
    PROVE  Store!RefusePut(c) \/ UNCHANGED Store!absVars
<1> DEFINE verdict == Conflict(op[c].rec, op[c].exp, row)
<1>1. row # NoRecord /\ EngineCall(c) /\ UNCHANGED <<row, version, cache, history>>
  BY DEF PutRead, PutReread, EngineInv, EngineCall, JudgePut, Finish, DropLocals, TypeOK
<1>2. /\ pc[c] \in PutWaits /\ absReply[c] = Store!None
      /\ absCall[c] = [kind |-> "put", rec |-> op[c].rec, exp |-> op[c].exp]
  BY Undecided DEF PutRead, PutReread, PutWaits
<1>3. ASSUME NEW k \in Refusals \cup {"IDENTICAL"}, Finish(c, k, row),
             Store!PutVerdict(row, op[c].rec, op[c].exp) = k
      PROVE  Store!RefusePut(c)
  <2>1. Store!Hangup(c) /\ absReply' = [absReply EXCEPT ![c] = Answer(k, NoRecord)]
    BY <1>1, <1>3, FinishHangsUp DEF Refusals
  <2>2. k # "STORED"
    BY DEF Refusals
  <2>3. Store!Reply(c, Store!Answer(k, NoRecord))
    BY <2>1 DEF Store!Reply, Store!Answer, Answer, absReply
  <2>4. /\ absCall[c].kind = "put"
        /\ Store!PutVerdict(row, absCall[c].rec, absCall[c].exp) = k
    BY <1>2, <1>3
  <2> QED BY <1>1, <1>2, <2>2, <2>3, <2>4 DEF Store!RefusePut, absCall, absReply
<1>4. CASE Finish(c, "IDENTICAL", row) /\ row = op[c].rec
  <2>1. Store!PutVerdict(row, op[c].rec, op[c].exp) = "IDENTICAL"
    BY <1>1, <1>4 DEF Store!PutVerdict
  <2> QED BY <1>3, <1>4, <2>1
<1>5. CASE Finish(c, verdict, row) /\ row # op[c].rec /\ verdict # "none"
  BY <1>1, <1>3, <1>5, VerdictIsConflict DEF Conflict, Refusals
<1>6. CASE ReadRow(c) /\ pc' = [pc EXCEPT ![c] = "put_cas"] /\ UNCHANGED <<res, op, raced>>
  <2>1. AbsCall(c)' = AbsCall(c) /\ AbsReply(c)' = AbsReply(c)
    BY <1>2, <1>6 DEF AbsCall, AbsReply, PutRead, PutReread, PutWaits, GetWaits, TypeOK
  <2> QED BY <1>1, <1>6, <2>1, InvisibleMove
<1> QED BY <1>4, <1>5, <1>6 DEF JudgePut

(* Storing the row is the instant at which the put takes effect.           *)
LEMMA StoreRefines ==
    ASSUME TypeOK, EngineInv, NEW c \in Clients, Stores(c), EngineCall(c)
    PROVE  Store!StorePut(c)
<1>1. /\ pc[c] \in PutWaits /\ absReply[c] = Store!None
      /\ absCall[c] = [kind |-> "put", rec |-> op[c].rec, exp |-> op[c].exp]
  BY Undecided DEF Stores, PutWaits
<1>2. Store!PutVerdict(row, op[c].rec, op[c].exp) = "STORED"
  <2>1. CASE row = NoRecord
    BY <2>1 DEF Store!PutVerdict
  <2>2. CASE row # NoRecord
    BY <2>2, StoredWasJudged, VerdictIsConflict
  <2> QED BY <2>1, <2>2
<1>3. absCall' = absCall
  <2>1. AbsCall(c)' = AbsCall(c)
    BY <1>1 DEF Stores, AbsCall, PutWaits, TypeOK
  <2> QED BY <2>1, OneClientMoves DEF absCall
<1>4. absReply' = [absReply EXCEPT ![c] = Store!Answer("STORED", NoRecord)]
  <2>1. AbsReply(c)' = Answer("STORED", NoRecord)
    BY DEF Stores, AbsReply, TypeOK
  <2> QED BY <2>1, OneClientMoves DEF Answer, Store!Answer
<1>5. raced' = [d \in Clients |-> raced[d] \/ (d # c /\ absCall[d] # Store!IdleCall)]
  BY IdleMeansIdle DEF Stores, WriteRow, absCall
<1>6. row' = op[c].rec /\ history' = history \cup {op[c].rec}
  BY DEF Stores, WriteRow
<1> QED BY <1>1, <1>2, <1>3, <1>4, <1>5, <1>6 DEF Store!StorePut, absCall, absReply

(* Losing the guarded write: somebody else stored in between.              *)
LEMMA LostCasRefines ==
    ASSUME TypeOK, EngineInv, NEW c \in Clients, PutCas(c), ~Stores(c)
    PROVE  Store!Contended(c)
<1>1. /\ version # curVersion[c] /\ pc[c] = "put_cas" /\ pc'[c] = "put_fresh"
      /\ UNCHANGED <<row, op, history, raced>>
  BY DEF PutCas, Stores, aux, TypeOK
<1>2. raced[c]
  <2>1. curVersion[c] \in Nat /\ version \in Nat /\ curVersion[c] <= version
    BY <1>1 DEF EngineInv, JudgedRowStands, TypeOK
  <2>2. curVersion[c] < version
    BY <1>1, <2>1
  <2> QED BY <1>1, <2>2 DEF EngineInv, JudgedRowStands
<1>3. absReply[c] = Store!None /\ absCall[c].kind = "put"
  BY <1>1, Undecided DEF PutWaits
<1>4. AbsCall(c)' = AbsCall(c) /\ AbsReply(c)' = Store!Answer("REVISION_MISMATCH", NoRecord)
  BY <1>1 DEF AbsCall, AbsReply, Answer, Store!Answer, PutWaits
<1>5. absCall' = absCall /\ absReply' = [absReply EXCEPT ![c] = Store!Answer("REVISION_MISMATCH", NoRecord)]
  BY <1>4, OneClientMoves DEF absCall, EngineCall
<1>6. Store!Reply(c, Store!Answer("REVISION_MISMATCH", NoRecord))
  BY <1>1, <1>5 DEF Store!Reply, absCall, absReply
<1> QED BY <1>1, <1>2, <1>3, <1>6 DEF Store!Contended, absCall, absReply

(* The caller sees the answer its put or get was given awaits ago.         *)
LEMMA ReturnRefines ==
    ASSUME TypeOK, EngineInv, NEW c \in Clients, PutFresh(c) \/ PutCache(c) \/ GetFill(c)
    PROVE  Store!Return(c)
<1>1. PICK k \in {"REVISION_MISMATCH", "STORED", "FOUND"}, r \in Records \cup {NoRecord} :
        /\ Finish(c, k, r)
        /\ AbsReply(c) = Answer(k, IF k = "FOUND" THEN r ELSE NoRecord)
  <2>1. CASE PutFresh(c)
    BY <2>1 DEF PutFresh, AbsReply, Answer, TypeOK
  <2>2. CASE PutCache(c)
    BY <2>2 DEF PutCache, AbsReply, Answer, TypeOK, PutWaits
  <2>3. CASE GetFill(c)
    BY <2>3 DEF GetFill, AbsReply, Answer, TypeOK
  <2> QED BY <2>1, <2>2, <2>3
<1>2. pc[c] # "idle" /\ EngineCall(c) /\ UNCHANGED <<row, history>>
  BY DEF PutFresh, PutCache, GetFill, EngineCall
<1>3. Store!Hangup(c) /\ absReply' = absReply
  <2>1. absReply' = [absReply EXCEPT ![c] = AbsReply(c)]
    BY <1>1, <1>2, FinishHangsUp
  <2> QED BY <1>1, <1>2, <2>1, FinishHangsUp DEF absReply
<1>4. absCall[c] # Store!IdleCall
  BY <1>2, IdleMeansIdle DEF absCall
<1> QED BY <1>2, <1>3, <1>4 DEF Store!Return, absCall, absReply

LEMMA AbandonRefines ==
    ASSUME TypeOK, EngineInv, NEW c \in Clients, Abandon(c)
    PROVE  Store!Return(c)
<1>1. /\ pc[c] # "idle" /\ pc'[c] = "idle" /\ res'[c] = None
      /\ raced' = [raced EXCEPT ![c] = FALSE] /\ UNCHANGED <<row, history>>
  BY DEF Abandon, DropLocals, TypeOK
<1>2. AbsCall(c)' = Store!IdleCall /\ AbsReply(c)' = Store!None
  BY <1>1 DEF AbsCall, AbsReply, Store!IdleCall, None, Answer, Store!None, NoExpected,
              Store!NoExpected, PutWaits, GetWaits
<1>3. Store!Hangup(c) /\ absReply' = [absReply EXCEPT ![c] = Store!None]
  BY <1>1, <1>2, OneClientMoves DEF Store!Hangup, absCall
<1>4. absCall[c] # Store!IdleCall
  BY <1>1, IdleMeansIdle DEF absCall
<1> QED BY <1>1, <1>3, <1>4 DEF Store!Return, absCall, absReply

(* A get takes its answer from the cache, which holds a record that was    *)
(* stored, or from the row.                                                *)
LEMMA GetRefines ==
    ASSUME TypeOK, EngineInv, NEW c \in Clients, GetCache(c) \/ GetRead(c)
    PROVE  Store!AtomicGet(c) \/ UNCHANGED Store!absVars
<1>1. /\ absReply[c] = Store!None /\ absCall[c] = Store!GetCall
      /\ EngineCall(c) /\ UNCHANGED <<row, history>>
  BY Undecided DEF GetCache, GetRead, EngineCall, PutWaits, GetWaits
<1>2. ASSUME NEW r, Store!Reply(c, Store!Answer("FOUND", r)), r = row \/ (UseCache /\ r \in history)
      PROVE  Store!AtomicGet(c)
  BY <1>1, <1>2 DEF Store!AtomicGet, Store!GetCall, absCall, absReply
<1>3. ASSUME NEW r, Finish(c, "FOUND", r)
      PROVE  Store!Reply(c, Store!Answer("FOUND", r))
  BY <1>1, <1>3, FinishHangsUp DEF Store!Reply, Store!Answer, Answer, absReply
<1>4. CASE GetCache(c) /\ UseCache /\ cache # NoRecord /\ Finish(c, "FOUND", cache)
  BY <1>2, <1>3, <1>4 DEF EngineInv, OnlyStoredRecords, CacheHoldsOnlyStoredRecords
<1>5. CASE GetRead(c) /\ row = NoRecord /\ Finish(c, "FOUND", NoRecord)
  BY <1>2, <1>3, <1>5
<1>6. CASE GetCache(c) /\ pc' = [pc EXCEPT ![c] = "get_read"] /\ UNCHANGED <<op, cur, curVersion, res, raced>>
  <2>1. AbsCall(c)' = AbsCall(c) /\ AbsReply(c)' = AbsReply(c)
    BY <1>6 DEF AbsCall, AbsReply, GetCache, PutWaits, GetWaits, TypeOK
  <2> QED BY <1>1, <1>6, <2>1, InvisibleMove
<1>7. CASE GetRead(c) /\ ReadRow(c) /\ pc' = [pc EXCEPT ![c] = "get_fill"] /\ UNCHANGED <<op, res, raced>>
  <2>1. AbsCall(c)' = AbsCall(c) /\ AbsReply(c)' = Store!Answer("FOUND", row)
    BY <1>7 DEF AbsCall, AbsReply, GetRead, ReadRow, Answer, Store!Answer, PutWaits, GetWaits, TypeOK
  <2>2. absCall' = absCall /\ absReply' = [absReply EXCEPT ![c] = Store!Answer("FOUND", row)]
    BY <1>1, <2>1, OneClientMoves DEF absCall
  <2>3. Store!Reply(c, Store!Answer("FOUND", row))
    BY <1>7, <2>2 DEF Store!Reply, absCall, absReply
  <2> QED BY <1>2, <2>3
<1> QED BY <1>4, <1>5, <1>6, <1>7 DEF GetCache, GetRead

LEMMA StartRefines ==
    ASSUME TypeOK, EngineInv, NEW c \in Clients, StartAny(c)
    PROVE  Store!Invoke(c)
<1>1. pc[c] = "idle" /\ UNCHANGED <<row, history, raced>> /\ res'[c] = None
  BY DEF StartAny, StartPut, StartGet, aux, TypeOK
<1>2. AbsCall(c)' \in Store!PutCalls \cup {Store!GetCall} /\ pc'[c] \in {"put_read", "get_cache"}
  <2>1. ASSUME NEW r \in Records, NEW e \in {NoExpected, 0} \cup Revisions, StartPut(c, r, e)
        PROVE  AbsCall(c)' \in Store!PutCalls /\ pc'[c] = "put_read"
    <3>1. e \in Int
      BY RecordsAssumption DEF NoExpected, Revisions
    <3>2. pc'[c] = "put_read" /\ op'[c] = [rec |-> r, exp |-> e]
      BY <2>1 DEF StartPut, TypeOK
    <3> QED BY <3>1, <3>2 DEF AbsCall, Store!PutCalls, PutWaits
  <2>2. CASE StartGet(c)
    BY <2>2 DEF StartGet, AbsCall, Store!GetCall, NoExpected, Store!NoExpected, PutWaits, GetWaits, TypeOK
  <2> QED BY <2>1, <2>2 DEF StartAny
<1>3. AbsReply(c)' = Store!None
  BY <1>1, <1>2 DEF AbsReply, None, Answer, Store!None
<1>4. /\ absCall' = [absCall EXCEPT ![c] = AbsCall(c)'] /\ absCall'[c] = AbsCall(c)'
      /\ absReply' = [absReply EXCEPT ![c] = Store!None]
  BY <1>3, OneClientMoves DEF absCall
<1>5. absCall[c] = Store!IdleCall
  BY <1>1, IdleMeansIdle DEF absCall
<1> QED BY <1>1, <1>2, <1>4, <1>5 DEF Store!Invoke, absCall, absReply

LEMMA StepRefines == TypeOK /\ EngineInv /\ [Next]_vars => [Store!AbsNext]_(Store!absVars)
<1> SUFFICES ASSUME TypeOK, EngineInv, [Next]_vars
             PROVE  Store!AbsNext \/ UNCHANGED Store!absVars
  OBVIOUS
<1>1. ASSUME NEW c \in Clients, StartAny(c) \/ Abandon(c) PROVE Store!AbsNext
  BY <1>1, StartRefines, AbandonRefines DEF Store!AbsNext
<1>2. ASSUME NEW c \in Clients, GetCache(c) \/ GetRead(c)
      PROVE  Store!AbsNext \/ UNCHANGED Store!absVars
  BY <1>2, GetRefines DEF Store!AbsNext
<1>3. ASSUME NEW c \in Clients, PutFresh(c) \/ PutCache(c) \/ GetFill(c) PROVE Store!AbsNext
  BY <1>3, ReturnRefines DEF Store!AbsNext
<1>4. ASSUME NEW c \in Clients, PutRead(c) \/ PutReread(c)
      PROVE  Store!AbsNext \/ UNCHANGED Store!absVars
  <2>1. CASE JudgePut(c)
    BY <1>4, <2>1, JudgeRefines DEF Store!AbsNext
  <2>2. CASE ~JudgePut(c)
    <3>1. PutRead(c) /\ pc' = [pc EXCEPT ![c] = "put_insert"] /\ UNCHANGED <<op, cur, curVersion, res, raced>>
      BY <1>4, <2>2 DEF PutRead, PutReread
    <3>2. AbsCall(c)' = AbsCall(c) /\ AbsReply(c)' = AbsReply(c)
      BY <3>1 DEF PutRead, AbsCall, AbsReply, PutWaits, GetWaits, TypeOK
    <3> QED BY <3>1, <3>2, InvisibleMove DEF PutRead, EngineCall
  <2> QED BY <2>1, <2>2
<1>5. ASSUME NEW c \in Clients, PutInsert(c)
      PROVE  Store!AbsNext \/ UNCHANGED Store!absVars
  <2>1. CASE Stores(c)
    BY <1>5, <2>1, StoreRefines DEF EngineCall, Store!AbsNext
  <2>2. CASE ~Stores(c)
    <3>1. pc' = [pc EXCEPT ![c] = "put_reread"] /\ UNCHANGED <<row, op, cur, curVersion, res, aux>>
      BY <1>5, <2>2 DEF PutInsert, Stores
    <3>2. AbsCall(c)' = AbsCall(c) /\ AbsReply(c)' = AbsReply(c)
      BY <1>5, <3>1 DEF PutInsert, AbsCall, AbsReply, PutWaits, GetWaits, TypeOK
    <3> QED BY <1>5, <3>1, <3>2, InvisibleMove DEF EngineCall, aux
  <2> QED BY <2>1, <2>2
<1>6. ASSUME NEW c \in Clients, PutCas(c) PROVE Store!AbsNext
  <2>1. CASE Stores(c)
    BY <1>6, <2>1, StoreRefines DEF EngineCall, Store!AbsNext
  <2>2. CASE ~Stores(c)
    BY <1>6, <2>2, LostCasRefines DEF Store!AbsNext
  <2> QED BY <2>1, <2>2
<1>7. LoseCache \/ UNCHANGED vars => UNCHANGED Store!absVars
  BY DEF LoseCache, locals, aux, vars, Store!absVars, AbsCall, AbsReply
<1> QED BY <1>1, <1>2, <1>3, <1>4, <1>5, <1>6, <1>7 DEF Next, EngineCall

(* The engine implements the atomic compare-and-set register: every put    *)
(* takes effect, or is judged, at one instant between call and return.     *)
THEOREM Refinement == Spec => ImplementsAtomicStore
<1>1. Init => Store!AbsInit
  BY DEF Init, Store!AbsInit, AbsCall, AbsReply, None, Answer, Store!None, Store!IdleCall,
         NoExpected, Store!NoExpected, PutWaits, GetWaits
<1>2. TypeOK /\ EngineInv /\ [Next]_vars => [Store!AbsNext]_(Store!absVars)
  BY StepRefines
<1> QED BY <1>1, <1>2, Typing, Invariance, PTL DEF Spec, ImplementsAtomicStore, Store!AbsSpec
=============================================================================
