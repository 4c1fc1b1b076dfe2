--------------------------- MODULE BodyBrokerProofs ---------------------------
(***************************************************************************)
(* Proofs about the body broker, for any calls, tasks, bodies and bounds.  *)
(* A call works from a revision it read; while that is still the revision  *)
(* of the lease, the lease is still ACTIVE, so an ended lease is written   *)
(* by nobody.  And while a call ends a body, every ACTIVE lease of the     *)
(* body is one the call has still to end, or was stored after its list.    *)
(***************************************************************************)
EXTENDS BodyBroker, FiniteSetTheorems, TLAPS

USE BrokerAssumption

Stages == {"none", "end_get", "end_put", "body_list", "body_ends", "acquire", "acquire_list",
           "acquire_put", "renew_put"}

BrokerTyping ==
    /\ BrokerTypeOK
    /\ stage \in [Clients -> Stages]
    /\ want \in [Clients -> {"AVAILABLE", "SUSPENDED", "RELEASED"}]
    /\ heldRev \in [Clients -> Nat]
    /\ then \in [Clients -> {"none", "return", "body", "replace"}]

LeasesOK ==
    \A l \in LeaseIds :
        /\ lease[l].state = "NONE" <=> lease[l] = NoLease
        /\ lease[l] # NoLease => lease[l].rev >= 1 /\ lease[l].body \in Bodies

(* The lease it works on is stored; and while the revision it read is the  *)
(* revision of the lease, the lease is ACTIVE.                             *)
HoldsLease(c) == held[c] \in LeaseIds /\ lease[held[c]] # NoLease

UpToDate(c) == heldRev[c] = lease[held[c]].rev => Active(held[c])

WorksOn(c) ==
    /\ stage[c] \in {"end_get", "end_put", "renew_put"} => HoldsLease(c)
    /\ stage[c] \in {"end_put", "renew_put"} =>
           heldRev[c] \in 1..lease[held[c]].rev /\ UpToDate(c)
    /\ stage[c] = "acquire" =>
           then[c] = "replace" /\ HoldsLease(c) /\ ~Active(held[c])
    /\ stage[c] \in {"acquire", "acquire_list"} => task[c] \in Tasks /\ body[c] \in Bodies
    /\ stage[c] = "acquire_put" => held[c] \in LeaseIds /\ body[c] \in Bodies
    /\ then[c] = "replace" /\ stage[c] \in {"end_get", "end_put"} =>
           task[c] \in Tasks /\ body[c] \in Bodies

(* A call that ends a body has a list of leases of that body.              *)
EndsBody(c) == want[c] # "AVAILABLE"

Listed(c) ==
    /\ stage[c] = "none" => then[c] = "none" /\ ~EndsBody(c)
    /\ stage[c] = "body_list" => EndsBody(c) /\ then[c] = "none"
    /\ stage[c] = "body_ends" => then[c] = "body"
    /\ EndsBody(c) <=> then[c] = "body" \/ stage[c] = "body_list"
    /\ then[c] = "body" => stage[c] \in {"body_ends", "end_get", "end_put"}
    /\ EndsBody(c) => body[c] \in Bodies
    /\ then[c] = "body" => \A l \in todo[c] : lease[l] # NoLease /\ lease[l].body = body[c]
    /\ then[c] = "body" /\ stage[c] # "body_ends" => held[c] \in todo[c]

(* The list misses no ACTIVE lease of the body but the late ones, and the  *)
(* lease it is ending was not renewed meanwhile unless it is late.         *)
Complete(c) ==
    then[c] = "body" =>
        /\ ActiveOn(body[c]) \subseteq todo[c] \cup late[c]
        /\ stage[c] = "end_put" =>
               \/ lease[held[c]].rev = heldRev[c]
               \/ ~Active(held[c])
               \/ held[c] \in late[c]

BrokerInv ==
    /\ BrokerTyping /\ LeasesOK
    /\ \A c \in Clients : WorksOn(c) /\ Listed(c) /\ Complete(c)

-----------------------------------------------------------------------------
(* Steps.                                                                  *)

Call(c) == Begin(c) \/ Proceed(c) \/ Fail(c)

Elsewhere == \E b \in Bodies : RegisterBody(b) \/ Resume(b)

LocalsTyped ==
    /\ body \in [Clients -> {0} \cup Bodies]
    /\ task \in [Clients -> Tasks \cup {NoId}]
    /\ todo \in [Clients -> SUBSET LeaseIds]
    /\ held \in [Clients -> LeaseIds \cup {NoId}]
    /\ stage \in [Clients -> Stages]
    /\ want \in [Clients -> {"AVAILABLE", "SUSPENDED", "RELEASED"}]
    /\ heldRev \in [Clients -> Nat]
    /\ then \in [Clients -> {"none", "return", "body", "replace"}]

LeaseRecords == [state : {"NONE", "ACTIVE", "ENDED"}, body : {0} \cup Bodies, rev : Nat]

LEMMA TypingParts ==
    BrokerTyping <=> /\ LocalsTyped /\ health \in [Bodies -> HealthStates]
                     /\ lease \in [LeaseIds -> LeaseRecords]
                     /\ late \in [Clients -> SUBSET LeaseIds]
BY DEF BrokerTyping, BrokerTypeOK, LocalsTyped, LeaseRecords

(* Every other call is where it was, with what it had.                     *)
OthersWait(c) ==
    \A d \in Clients \ {c} :
        /\ stage'[d] = stage[d] /\ task'[d] = task[d] /\ body'[d] = body[d]
        /\ want'[d] = want[d] /\ todo'[d] = todo[d] /\ held'[d] = held[d]
        /\ heldRev'[d] = heldRev[d] /\ then'[d] = then[d]

LEMMA OverLocals ==
    ASSUME LocalsTyped, NEW c \in Clients, Over(c)
    PROVE  /\ LocalsTyped' /\ OthersWait(c)
           /\ stage'[c] = "none" /\ then'[c] = "none" /\ want'[c] = "AVAILABLE"
BY DEF Over, Goto, LocalsTyped, OthersWait, Stages

LEMMA AfterEndLocals ==
    ASSUME LocalsTyped, NEW c \in Clients, NEW e \in BOOLEAN, AfterEnd(c, e)
    PROVE  LocalsTyped' /\ OthersWait(c)
<1>1. CASE Over(c)
  BY <1>1, OverLocals
<1>2. CASE ~Over(c)
  BY <1>2 DEF AfterEnd, Goto, LocalsTyped, OthersWait, Stages
<1> QED BY <1>1, <1>2

LEMMA NextSequenceIsPositive ==
    ASSUME NEW t
    PROVE  NextSequence(t) \in Nat \ {0}
<1>1. IsFiniteSet({t} \X (1..MaxLeases))
  <2>1. IsFiniteSet({t})
    BY FS_Singleton
  <2>2. IsFiniteSet(1..MaxLeases)
    BY FS_Interval
  <2> QED BY <2>1, <2>2, FS_Product
<1>2. LeasesOf(t) \subseteq {t} \X (1..MaxLeases)
  BY DEF LeasesOf, LeaseIds
<1>3. Cardinality(LeasesOf(t)) \in Nat
  BY <1>1, <1>2, FS_Subset, FS_CardinalityType
<1> QED BY <1>3 DEF NextSequence

LEMMA CallLocals ==
    ASSUME BrokerInv, NEW c \in Clients, Call(c)
    PROVE  LocalsTyped' /\ OthersWait(c)
<1>1. /\ LocalsTyped /\ health \in [Bodies -> HealthStates]
      /\ lease \in [LeaseIds -> LeaseRecords]
  BY TypingParts DEF BrokerInv
<1>2. CASE Over(c)
  BY <1>1, <1>2, OverLocals
<1> USE DEF LocalsTyped, OthersWait, Goto, Stages
<1>3. CASE Begin(c)
  <2>1. ASSUME NEW l \in LeaseIds, BeginEndLease(c, l) PROVE LocalsTyped' /\ OthersWait(c)
    BY <1>1, <2>1 DEF BeginEndLease
  <2>2. ASSUME NEW l \in LeaseIds, BeginRenew(c, l) PROVE LocalsTyped' /\ OthersWait(c)
    BY <1>1, <2>2 DEF BeginRenew, LeaseRecords
  <2>3. ASSUME NEW b \in Bodies, NEW h \in {"SUSPENDED", "RELEASED"}, BeginEndBody(c, b, h)
        PROVE  LocalsTyped' /\ OthersWait(c)
    BY <1>1, <2>3 DEF BeginEndBody
  <2>4. ASSUME NEW t \in Tasks, NEW b \in Bodies, BeginAcquire(c, t, b)
        PROVE  LocalsTyped' /\ OthersWait(c)
    BY <1>1, <2>4 DEF BeginAcquire
  <2>5. ASSUME NEW l \in LeaseIds, NEW suits \in SUBSET Bodies, BeginReplace(c, l, suits)
        PROVE  LocalsTyped' /\ OthersWait(c)
    <3>1. PICK b \in Bodies : body' = [body EXCEPT ![c] = b]
      BY <2>5 DEF BeginReplace, Eligible
    <3>2. l[1] \in Tasks
      BY DEF LeaseIds
    <3> QED BY <1>1, <2>5, <3>1, <3>2 DEF BeginReplace
  <2> QED BY <1>3, <2>1, <2>2, <2>3, <2>4, <2>5 DEF Begin
<1>4. CASE EndRead(c) /\ ~Over(c)
  BY <1>1, <1>4 DEF EndRead, BrokerInv, WorksOn, HoldsLease, LeaseRecords
<1>5. CASE EndWrite(c)
  BY <1>1, <1>5, AfterEndLocals DEF EndWrite
<1>6. CASE BodyList(c)
  BY <1>1, <1>6 DEF BodyList, ActiveOn
<1>7. CASE BodyEndNext(c)
  BY <1>1, <1>7 DEF BodyEndNext
<1>8. CASE ReplaceAcquire(c) /\ ~Over(c)
  BY <1>1, <1>8 DEF ReplaceAcquire
<1>9. CASE AcquireList(c) /\ ~Over(c)
  <2>1. task[c] \in Tasks /\ NextSequence(task[c]) \in 1..MaxLeases
    BY <1>9, NextSequenceIsPositive DEF AcquireList, BrokerInv, WorksOn
  <2>2. <<task[c], NextSequence(task[c])>> \in LeaseIds
    BY <2>1 DEF LeaseIds
  <2> QED BY <1>1, <1>9, <2>2 DEF AcquireList
<1>10. CASE AcquirePut(c) \/ RenewPut(c) \/ BodyEnded(c) \/ Fail(c)
  BY <1>2, <1>10 DEF AcquirePut, RenewPut, BodyEnded, Fail
<1> QED BY <1>2, <1>3, <1>4, <1>5, <1>6, <1>7, <1>8, <1>9, <1>10 DEF Call, Proceed

(* What may become of a lease in one step: nothing, or it ends, is renewed *)
(* by a call that was about to, or is taken by one that was about to.      *)
Ends(l) ==
    /\ Active(l) /\ lease'[l].state = "ENDED" /\ lease'[l].body = lease[l].body
    /\ lease'[l].rev = lease[l].rev + 1

Renewed(l) ==
    /\ Active(l) /\ lease'[l].state = "ACTIVE" /\ lease'[l].body = lease[l].body
    /\ lease'[l].rev = lease[l].rev + 1
    /\ \E d \in Clients : stage[d] = "renew_put" /\ held[d] = l

Taken(l) ==
    /\ lease[l] = NoLease /\ lease'[l].state = "ACTIVE" /\ lease'[l].rev = 1
    /\ \E d \in Clients :
          stage[d] = "acquire_put" /\ body[d] = lease'[l].body /\ body[d] \in Bodies

Fate(l) == lease'[l] = lease[l] \/ Ends(l) \/ Renewed(l) \/ Taken(l)

LEMMA LeaseFates ==
    ASSUME BrokerInv, BrokerNext
    PROVE  lease' \in [LeaseIds -> LeaseRecords] /\ \A l \in LeaseIds : Fate(l)
<1>1. lease \in [LeaseIds -> LeaseRecords] /\ LocalsTyped
  BY TypingParts DEF BrokerInv
<1>2. CASE UNCHANGED lease
  BY <1>1, <1>2 DEF Fate
<1>3. ASSUME NEW c \in Clients, EndWrite(c), lease' # lease
      PROVE  lease' \in [LeaseIds -> LeaseRecords] /\ \A l \in LeaseIds : Fate(l)
  <2>1. held[c] \in LeaseIds /\ Active(held[c])
    BY <1>3 DEF EndWrite, BrokerInv, WorksOn, HoldsLease, UpToDate
  <2>2. lease' = [lease EXCEPT ![held[c]].state = "ENDED", ![held[c]].rev = @ + 1]
    BY <1>3 DEF EndWrite
  <2>3. lease' \in [LeaseIds -> LeaseRecords]
    BY <1>1, <2>1, <2>2 DEF LeaseRecords
  <2>4. ASSUME NEW l \in LeaseIds PROVE Fate(l)
    BY <1>1, <2>1, <2>2 DEF Fate, Ends, LeaseRecords
  <2> QED BY <2>3, <2>4
<1>4. ASSUME NEW c \in Clients, RenewPut(c), lease' # lease
      PROVE  lease' \in [LeaseIds -> LeaseRecords] /\ \A l \in LeaseIds : Fate(l)
  <2>1. held[c] \in LeaseIds /\ Active(held[c]) /\ stage[c] = "renew_put"
    BY <1>4 DEF RenewPut, BrokerInv, WorksOn, HoldsLease, UpToDate
  <2>2. lease' = [lease EXCEPT ![held[c]].rev = @ + 1]
    BY <1>4 DEF RenewPut
  <2>3. lease' \in [LeaseIds -> LeaseRecords]
    BY <1>1, <2>1, <2>2 DEF LeaseRecords
  <2>4. ASSUME NEW l \in LeaseIds PROVE Fate(l)
    BY <1>1, <2>1, <2>2 DEF Fate, Renewed, Active, LeaseRecords
  <2> QED BY <2>3, <2>4
<1>5. ASSUME NEW c \in Clients, AcquirePut(c), lease' # lease
      PROVE  lease' \in [LeaseIds -> LeaseRecords] /\ \A l \in LeaseIds : Fate(l)
  <2>1. /\ held[c] \in LeaseIds /\ lease[held[c]] = NoLease /\ stage[c] = "acquire_put"
        /\ body[c] \in Bodies
    BY <1>5 DEF AcquirePut, BrokerInv, WorksOn
  <2>2. lease' = [lease EXCEPT ![held[c]] = [state |-> "ACTIVE", body |-> body[c], rev |-> 1]]
    BY <1>5 DEF AcquirePut
  <2>3. lease' \in [LeaseIds -> LeaseRecords]
    BY <1>1, <2>1, <2>2 DEF LeaseRecords
  <2>4. ASSUME NEW l \in LeaseIds PROVE Fate(l)
    BY <1>1, <2>1, <2>2 DEF Fate, Taken, LeaseRecords
  <2> QED BY <2>3, <2>4
<1>6. ASSUME NEW c \in Clients, Call(c)
      PROVE  UNCHANGED lease \/ EndWrite(c) \/ RenewPut(c) \/ AcquirePut(c)
  BY <1>6 DEF Call, Begin, BeginEndLease, BeginRenew, BeginEndBody, BeginAcquire, BeginReplace,
      Proceed, EndRead, BodyList, BodyEndNext, BodyEnded, ReplaceAcquire, AcquireList, Fail
<1>7. Elsewhere => UNCHANGED lease
  BY DEF Elsewhere, RegisterBody, Resume
<1> QED BY <1>2, <1>3, <1>4, <1>5, <1>6, <1>7 DEF BrokerNext, Call, Elsewhere

LEMMA FatesKeepLeasesOK ==
    ASSUME BrokerInv, BrokerNext
    PROVE  LeasesOK'
<1>1. lease \in [LeaseIds -> LeaseRecords] /\ LeasesOK
  BY TypingParts DEF BrokerInv
<1>2. lease' \in [LeaseIds -> LeaseRecords] /\ \A l \in LeaseIds : Fate(l)
  BY LeaseFates
<1>3. ASSUME NEW l \in LeaseIds
      PROVE  /\ lease'[l].state = "NONE" <=> lease'[l] = NoLease
             /\ lease'[l] # NoLease => lease'[l].rev >= 1 /\ lease'[l].body \in Bodies
  <2>1. CASE lease'[l] = lease[l]
    BY <1>1, <2>1 DEF LeasesOK
  <2>2. CASE Ends(l) \/ Renewed(l)
    BY <1>1, <2>2 DEF LeasesOK, Ends, Renewed, Active, NoLease, LeaseRecords
  <2>3. CASE Taken(l)
    BY <2>3 DEF Taken, NoLease
  <2> QED BY <1>2, <2>1, <2>2, <2>3 DEF Fate
<1> QED BY <1>3 DEF LeasesOK

(* Seen from a call that waits: leases are only taken, renewed and ended.  *)
LEMMA LeasesGrow ==
    ASSUME BrokerInv, BrokerNext, NEW l \in LeaseIds, lease[l] # NoLease
    PROVE  /\ lease'[l] # NoLease /\ lease'[l].body = lease[l].body
           /\ lease[l].rev \in Nat /\ lease'[l].rev \in Nat /\ lease'[l].rev >= lease[l].rev
           /\ lease'[l].rev = lease[l].rev => lease'[l] = lease[l]
           /\ lease'[l].state = "ACTIVE" => lease[l].state = "ACTIVE"
<1>1. lease \in [LeaseIds -> LeaseRecords] /\ lease' \in [LeaseIds -> LeaseRecords] /\ Fate(l)
  BY TypingParts, LeaseFates DEF BrokerInv
<1>2. lease[l].rev \in Nat /\ lease'[l].rev \in Nat
  BY <1>1 DEF LeaseRecords
<1> QED BY <1>1, <1>2 DEF Fate, Ends, Renewed, Taken, Active, NoLease

(* While a call ends a body, what becomes of a lease of the body makes it  *)
(* late, or leaves no doubt that it was ACTIVE as it is.                   *)
LEMMA LateOrAsBefore ==
    ASSUME BrokerInv, BrokerNext, NEW c \in Clients, then[c] = "body", then'[c] = "body",
           body'[c] = body[c], NEW l \in LeaseIds, Active(l)', lease'[l].body = body[c]
    PROVE  \/ l \in late'[c]
           \/ Active(l) /\ lease[l].body = body[c] /\ lease'[l] = lease[l]
BY DEF BrokerNext, Watch, Bound, Active

LEMMA LateGrows ==
    ASSUME BrokerNext, NEW c \in Clients, then'[c] = "body"
    PROVE  late[c] \subseteq late'[c]
BY DEF BrokerNext, Watch

LEMMA OthersStayInOrder ==
    ASSUME BrokerInv, BrokerNext, NEW d \in Clients,
           stage'[d] = stage[d], task'[d] = task[d], body'[d] = body[d], want'[d] = want[d],
           todo'[d] = todo[d], held'[d] = held[d], heldRev'[d] = heldRev[d], then'[d] = then[d]
    PROVE  WorksOn(d)' /\ Listed(d)' /\ Complete(d)'
<1>1. WorksOn(d) /\ Listed(d) /\ Complete(d) /\ LocalsTyped
  BY TypingParts DEF BrokerInv
<1>2. ASSUME HoldsLease(d) PROVE HoldsLease(d)' /\ (~Active(held[d]) => ~Active(held[d])')
  BY <1>2, LeasesGrow DEF HoldsLease, Active
<1>3. ASSUME HoldsLease(d), heldRev[d] \in 1..lease[held[d]].rev, UpToDate(d)
      PROVE  heldRev[d] \in 1..lease'[held[d]].rev /\ UpToDate(d)'
  BY <1>3, LeasesGrow DEF HoldsLease, UpToDate, Active
<1>4. WorksOn(d)'
  BY <1>1, <1>2, <1>3 DEF WorksOn
<1>5. \A l \in LeaseIds : lease[l] # NoLease =>
          lease'[l] # NoLease /\ lease'[l].body = lease[l].body
  BY LeasesGrow
<1>6. EndsBody(d)' <=> EndsBody(d)
  BY DEF EndsBody
<1>7. Listed(d)'
  BY <1>1, <1>5, <1>6 DEF Listed, LocalsTyped
<1>8. ASSUME then[d] = "body", NEW l \in LeaseIds, Active(l)', lease'[l].body = body[d]
      PROVE  l \in todo[d] \cup late'[d]
  <2>1. CASE l \in late'[d]
    BY <2>1
  <2>2. CASE Active(l) /\ lease[l].body = body[d]
    BY <1>1, <1>8, <2>2, LateGrows DEF Complete, ActiveOn
  <2> QED BY <1>8, <2>1, <2>2, LateOrAsBefore
<1>9. ASSUME then[d] = "body", stage[d] = "end_put"
      PROVE  \/ lease'[held[d]].rev = heldRev[d]
             \/ ~Active(held[d])'
             \/ held[d] \in late'[d]
  <2> DEFINE l == held[d]
  <2>1. HoldsLease(d) /\ lease[l].body = body[d]
    BY <1>1, <1>9 DEF Listed, WorksOn
  <2>2. lease[l].rev = heldRev[d] \/ ~Active(l) \/ l \in late'[d]
    BY <1>1, <1>9, LateGrows DEF Complete
  <2>3. CASE Active(l)'
    <3>1. lease'[l].body = body[d]
      BY <2>1, LeasesGrow DEF HoldsLease
    <3>2. l \in late'[d] \/ (Active(l) /\ lease'[l] = lease[l])
      BY <1>9, <2>1, <2>3, <3>1, LateOrAsBefore DEF HoldsLease
    <3> QED BY <2>2, <3>2
  <2> QED BY <2>3
<1>10. Complete(d)'
  BY <1>8, <1>9 DEF Complete, ActiveOn
<1> QED BY <1>4, <1>7, <1>10

-----------------------------------------------------------------------------
(* The call that steps.                                                    *)

InOrder(c) == WorksOn(c) /\ Listed(c) /\ Complete(c)

LEMMA OverInOrder ==
    ASSUME BrokerInv, NEW c \in Clients, Over(c)
    PROVE  InOrder(c)'
<1>1. stage'[c] = "none" /\ then'[c] = "none" /\ want'[c] = "AVAILABLE"
  BY OverLocals, TypingParts DEF BrokerInv
<1> QED BY <1>1 DEF InOrder, WorksOn, Listed, Complete, EndsBody

(* A call that ends no body has nothing more to show.                      *)
LEMMA NoBodyInOrder ==
    ASSUME NEW c \in Clients, WorksOn(c)', want'[c] = "AVAILABLE",
           stage'[c] \notin {"none", "body_list", "body_ends"}, then'[c] # "body"
    PROVE  InOrder(c)'
BY DEF InOrder, Listed, Complete, EndsBody

LEMMA BeginInOrder ==
    ASSUME BrokerInv, BrokerNext, NEW c \in Clients, Begin(c)
    PROVE  InOrder(c)'
<1>1. LocalsTyped /\ LeasesOK /\ Listed(c) /\ lease \in [LeaseIds -> LeaseRecords]
  BY TypingParts DEF BrokerInv
<1> USE DEF LocalsTyped, Goto
<1>2. stage[c] = "none" /\ then[c] = "none" /\ want[c] = "AVAILABLE" /\ UNCHANGED lease
  BY <1>1 DEF Begin, BeginEndLease, BeginRenew, BeginEndBody, BeginAcquire, BeginReplace,
              Listed, EndsBody
<1>3. ASSUME NEW l \in LeaseIds, BeginEndLease(c, l) PROVE InOrder(c)'
  <2>1. /\ stage'[c] = "end_get" /\ held'[c] = l /\ lease'[l] # NoLease /\ then'[c] = "return"
        /\ want'[c] = "AVAILABLE"
    BY <1>1, <1>2, <1>3 DEF BeginEndLease
  <2>2. WorksOn(c)'
    BY <2>1 DEF WorksOn, HoldsLease
  <2> QED BY <2>1, <2>2, NoBodyInOrder
<1>4. ASSUME NEW l \in LeaseIds, BeginRenew(c, l) PROVE InOrder(c)'
  <2>1. /\ stage'[c] = "renew_put" /\ held'[c] = l /\ heldRev'[c] = lease'[l].rev
        /\ lease'[l] # NoLease /\ lease'[l].rev \in Nat /\ lease'[l].rev >= 1
        /\ Active(l)' /\ then'[c] = "none" /\ want'[c] = "AVAILABLE"
    BY <1>1, <1>2, <1>4 DEF BeginRenew, Active, NoLease, LeasesOK, LeaseRecords
  <2>2. WorksOn(c)'
    BY <2>1 DEF WorksOn, HoldsLease, UpToDate, Active
  <2> QED BY <2>1, <2>2, NoBodyInOrder
<1>5. ASSUME NEW b \in Bodies, NEW h \in {"SUSPENDED", "RELEASED"}, BeginEndBody(c, b, h)
      PROVE  InOrder(c)'
  <2>1. /\ stage'[c] = "body_list" /\ body'[c] = b /\ want'[c] = h /\ then'[c] = "none"
    BY <1>1, <1>2, <1>5 DEF BeginEndBody
  <2>2. WorksOn(c)' /\ Listed(c)'
    BY <2>1 DEF WorksOn, Listed, EndsBody
  <2> QED BY <2>1, <2>2 DEF InOrder, Complete
<1>6. ASSUME NEW t \in Tasks, NEW b \in Bodies, BeginAcquire(c, t, b) PROVE InOrder(c)'
  <2>1. /\ stage'[c] = "acquire_list" /\ task'[c] = t /\ body'[c] = b /\ then'[c] = "return"
        /\ want'[c] = "AVAILABLE"
    BY <1>1, <1>2, <1>6 DEF BeginAcquire
  <2>2. WorksOn(c)'
    BY <2>1 DEF WorksOn
  <2> QED BY <2>1, <2>2, NoBodyInOrder
<1>7. ASSUME NEW l \in LeaseIds, NEW suits \in SUBSET Bodies, BeginReplace(c, l, suits)
      PROVE  InOrder(c)'
  <2>1. PICK b \in Bodies : body' = [body EXCEPT ![c] = b]
    BY <1>7 DEF BeginReplace, Eligible
  <2>2. l[1] \in Tasks
    BY DEF LeaseIds
  <2>3. /\ stage'[c] \in {"end_get", "acquire_list"} /\ task'[c] \in Tasks /\ body'[c] \in Bodies
        /\ held'[c] = l /\ lease'[l] # NoLease /\ then'[c] = "replace"
        /\ want'[c] = "AVAILABLE"
    BY <1>1, <1>2, <1>7, <2>1, <2>2 DEF BeginReplace
  <2>4. WorksOn(c)'
    BY <2>3 DEF WorksOn, HoldsLease
  <2> QED BY <2>3, <2>4, NoBodyInOrder
<1> QED BY <1>3, <1>4, <1>5, <1>6, <1>7 DEF Begin

LEMMA EndReadInOrder ==
    ASSUME BrokerInv, BrokerNext, NEW c \in Clients, EndRead(c)
    PROVE  InOrder(c)'
<1>1. /\ LocalsTyped /\ LeasesOK /\ WorksOn(c) /\ Listed(c) /\ Complete(c)
      /\ lease \in [LeaseIds -> LeaseRecords]
  BY TypingParts DEF BrokerInv
<1>2. CASE Over(c)
  BY <1>2, OverInOrder
<1>3. CASE ~Over(c)
  <2>1. /\ stage[c] = "end_get" /\ stage'[c] = "end_put" /\ Active(held[c]) /\ UNCHANGED lease
        /\ heldRev'[c] = lease[held[c]].rev /\ task'[c] = task[c] /\ body'[c] = body[c]
        /\ want'[c] = want[c] /\ todo'[c] = todo[c] /\ held'[c] = held[c] /\ then'[c] = then[c]
    BY <1>1, <1>3 DEF EndRead, LocalsTyped, Goto
  <2>2. HoldsLease(c) /\ lease[held[c]].rev \in Nat /\ lease[held[c]].rev >= 1
    BY <1>1, <2>1 DEF WorksOn, HoldsLease, LeasesOK, LeaseRecords
  <2>3. WorksOn(c)'
    BY <1>1, <2>1, <2>2 DEF WorksOn, HoldsLease, UpToDate, Active
  <2>4. Listed(c)'
    BY <1>1, <2>1 DEF Listed, EndsBody
  <2>5. Complete(c)'
    BY <1>1, <2>1, LateGrows DEF Complete, ActiveOn, Active
  <2> QED BY <2>3, <2>4, <2>5 DEF InOrder
<1> QED BY <1>2, <1>3

(* The list loses a lease only when it is no longer ACTIVE, or is late.    *)
LEMMA EndWriteInOrder ==
    ASSUME BrokerInv, BrokerNext, NEW c \in Clients, EndWrite(c)
    PROVE  InOrder(c)'
<1> DEFINE l == held[c]
<1>1. /\ LocalsTyped /\ LeasesOK /\ WorksOn(c) /\ Listed(c) /\ Complete(c)
      /\ lease \in [LeaseIds -> LeaseRecords]
  BY TypingParts DEF BrokerInv
<1>2. stage[c] = "end_put" /\ HoldsLease(c) /\ heldRev[c] \in 1..lease[l].rev
  BY <1>1 DEF EndWrite, WorksOn
<1>3. /\ lease[l].rev = heldRev[c] => AfterEnd(c, TRUE) /\ lease'[l].state = "ENDED"
      /\ lease[l].rev # heldRev[c] => AfterEnd(c, FALSE) /\ UNCHANGED lease
  <2>1. lease[l].rev # heldRev[c] => AfterEnd(c, FALSE) /\ UNCHANGED lease
    BY DEF EndWrite
  <2>2. lease[l].rev = heldRev[c] =>
          /\ AfterEnd(c, TRUE)
          /\ lease' = [lease EXCEPT ![l].state = "ENDED", ![l].rev = @ + 1]
    BY DEF EndWrite
  <2>3. lease' = [lease EXCEPT ![l].state = "ENDED", ![l].rev = @ + 1]
          => lease'[l].state = "ENDED"
    BY <1>1, <1>2 DEF HoldsLease, LeaseRecords
  <2> QED BY <2>1, <2>2, <2>3
<1>4. CASE Over(c)
  BY <1>4, OverInOrder
<1>5. CASE then[c] = "replace" /\ ~Over(c)
  <2>1. lease[l].rev = heldRev[c] /\ AfterEnd(c, TRUE)
    BY <1>3, <1>5 DEF AfterEnd
  <2>2. /\ stage'[c] = "acquire" /\ task'[c] = task[c] /\ body'[c] = body[c]
        /\ want'[c] = want[c] /\ held'[c] = held[c] /\ then'[c] = "replace"
    BY <1>1, <1>5, <2>1 DEF AfterEnd, LocalsTyped, Goto
  <2>3. want'[c] = "AVAILABLE"
    BY <1>1, <1>2, <1>5, <2>2 DEF Listed, EndsBody
  <2>4. lease'[l] # NoLease /\ lease'[l].state # "ACTIVE"
    BY <1>2, <1>3, <2>1, LeasesGrow DEF HoldsLease, Active
  <2>5. WorksOn(c)'
    BY <1>1, <1>2, <1>5, <2>2, <2>4 DEF WorksOn, HoldsLease, Active
  <2> QED BY <2>2, <2>3, <2>5, NoBodyInOrder
<1>6. CASE then[c] = "body" /\ ~Over(c)
  <2>1. /\ stage'[c] = "body_ends" /\ todo'[c] = todo[c] \ {l} /\ body'[c] = body[c]
        /\ want'[c] = want[c] /\ then'[c] = "body"
    BY <1>1, <1>3, <1>6 DEF AfterEnd, LocalsTyped, Goto
  <2>2. WorksOn(c)'
    BY <2>1 DEF WorksOn
  <2>3. EndsBody(c) /\ todo[c] \subseteq LeaseIds
    BY <1>1, <1>6 DEF Listed, LocalsTyped
  <2>4. Listed(c)'
    BY <1>1, <1>6, <2>1, <2>3, LeasesGrow DEF Listed, EndsBody
  <2>5. lease'[l].state # "ACTIVE" \/ l \in late'[c]
    BY <1>1, <1>2, <1>3, <1>6, <2>1, LateGrows DEF Complete, Active
  <2>6. ASSUME NEW k \in LeaseIds, Active(k)', lease'[k].body = body[c]
        PROVE  k \in (todo[c] \ {l}) \cup late'[c]
    <3>1. CASE k \in late'[c]
      BY <3>1
    <3>2. CASE Active(k) /\ lease[k].body = body[c]
      <4>1. k \in todo[c] \cup late'[c]
        BY <1>1, <1>6, <2>1, <3>2, LateGrows DEF Complete, ActiveOn
      <4> QED BY <2>5, <2>6, <4>1 DEF Active
    <3> QED BY <1>6, <2>1, <2>6, <3>1, <3>2, LateOrAsBefore
  <2>7. Complete(c)'
    BY <2>1, <2>6 DEF Complete, ActiveOn
  <2> QED BY <2>2, <2>4, <2>7 DEF InOrder
<1> QED BY <1>3, <1>4, <1>5, <1>6 DEF AfterEnd

LEMMA BodyStepsInOrder ==
    ASSUME BrokerInv, BrokerNext, NEW c \in Clients, BodyList(c) \/ BodyEndNext(c)
    PROVE  InOrder(c)'
<1>1. /\ LocalsTyped /\ LeasesOK /\ WorksOn(c) /\ Listed(c) /\ Complete(c)
      /\ lease \in [LeaseIds -> LeaseRecords]
  BY TypingParts DEF BrokerInv
<1>2. /\ UNCHANGED lease /\ body'[c] = body[c] /\ want'[c] = want[c] /\ EndsBody(c)
      /\ body[c] \in Bodies
  BY <1>1 DEF BodyList, BodyEndNext, Listed
<1>3. CASE BodyList(c)
  <2>1. stage'[c] = "body_ends" /\ then'[c] = "body" /\ todo'[c] = ActiveOn(body[c])
    BY <1>1, <1>3 DEF BodyList, LocalsTyped, Goto
  <2>2. \A l \in ActiveOn(body[c]) : lease[l] # NoLease /\ lease[l].body = body[c]
    BY DEF ActiveOn, Active, NoLease
  <2>3. WorksOn(c)' /\ Listed(c)'
    BY <1>2, <2>1, <2>2 DEF WorksOn, Listed, EndsBody
  <2>4. Complete(c)'
    BY <1>2, <2>1 DEF Complete, ActiveOn, Active
  <2> QED BY <2>3, <2>4 DEF InOrder
<1>4. CASE BodyEndNext(c)
  <2>1. /\ stage[c] = "body_ends" /\ stage'[c] = "end_get" /\ then'[c] = then[c]
        /\ todo'[c] = todo[c] /\ held'[c] \in todo[c] /\ task'[c] = task[c]
    BY <1>1, <1>4 DEF BodyEndNext, LocalsTyped, Goto
  <2>2. then[c] = "body" /\ todo[c] \subseteq LeaseIds
    BY <1>1, <2>1 DEF Listed, LocalsTyped
  <2>3. WorksOn(c)'
    BY <1>1, <1>2, <2>1, <2>2 DEF WorksOn, Listed, HoldsLease
  <2>4. Listed(c)'
    BY <1>1, <1>2, <2>1, <2>2 DEF Listed, EndsBody
  <2>5. Complete(c)'
    BY <1>1, <1>2, <2>1, <2>2, LateGrows DEF Complete, ActiveOn, Active
  <2> QED BY <2>3, <2>4, <2>5 DEF InOrder
<1> QED BY <1>3, <1>4

LEMMA AcquireStepsInOrder ==
    ASSUME BrokerInv, BrokerNext, NEW c \in Clients, ReplaceAcquire(c) \/ AcquireList(c)
    PROVE  InOrder(c)'
<1>1. LocalsTyped /\ WorksOn(c) /\ Listed(c)
  BY TypingParts DEF BrokerInv
<1>2. CASE Over(c)
  BY <1>2, OverInOrder
<1>3. CASE ~Over(c)
  <2>1. /\ stage[c] \in {"acquire", "acquire_list"} /\ stage'[c] \in {"acquire_list", "acquire_put"}
        /\ task'[c] = task[c] /\ body'[c] = body[c] /\ want'[c] = want[c] /\ then'[c] = then[c]
    BY <1>1, <1>3 DEF ReplaceAcquire, AcquireList, LocalsTyped, Goto
  <2>2. want'[c] = "AVAILABLE" /\ then'[c] # "body"
    BY <1>1, <2>1 DEF Listed, EndsBody
  <2>3. stage'[c] = "acquire_put" => held'[c] \in LeaseIds
    <3>1. stage'[c] = "acquire_put" =>
            /\ NextSequence(task[c]) <= MaxLeases
            /\ held' = [held EXCEPT ![c] = <<task[c], NextSequence(task[c])>>]
      BY <1>1, <1>3 DEF ReplaceAcquire, AcquireList, LocalsTyped, Goto
    <3>2. task[c] \in Tasks /\ NextSequence(task[c]) \in Nat \ {0}
      BY <1>1, <2>1, NextSequenceIsPositive DEF WorksOn
    <3>3. NextSequence(task[c]) <= MaxLeases => <<task[c], NextSequence(task[c])>> \in LeaseIds
      BY <3>2 DEF LeaseIds
    <3> QED BY <1>1, <3>1, <3>3 DEF LocalsTyped
  <2>4. WorksOn(c)'
    BY <1>1, <2>1, <2>3 DEF WorksOn
  <2> QED BY <2>1, <2>2, <2>4, NoBodyInOrder
<1> QED BY <1>2, <1>3

LEMMA StepKeepsBrokerInv ==
    ASSUME BrokerInv, BrokerNext
    PROVE  BrokerInv'
<1>1. /\ LocalsTyped /\ health \in [Bodies -> HealthStates]
      /\ late \in [Clients -> SUBSET LeaseIds]
  BY TypingParts DEF BrokerInv
<1>2. LocalsTyped' /\ \A c \in Clients : Call(c) => OthersWait(c)
  <2>1. ASSUME Elsewhere PROVE LocalsTyped'
    BY <1>1, <2>1 DEF Elsewhere, RegisterBody, Resume, locals, LocalsTyped
  <2> QED BY <2>1, CallLocals DEF BrokerNext, Call, Elsewhere
<1>3. health' \in [Bodies -> HealthStates]
  <2>1. ASSUME NEW c \in Clients, BodyEnded(c) PROVE health' \in [Bodies -> HealthStates]
    BY <1>1, <2>1 DEF BodyEnded, LocalsTyped, HealthStates
  <2>2. ASSUME NEW c \in Clients, Call(c), ~BodyEnded(c) PROVE UNCHANGED health
    BY <2>2 DEF Call, Begin, BeginEndLease, BeginRenew, BeginEndBody, BeginAcquire, BeginReplace,
        Proceed, EndRead, EndWrite, BodyList, BodyEndNext, ReplaceAcquire, AcquireList,
        AcquirePut, RenewPut, Fail
  <2>3. ASSUME Elsewhere PROVE health' \in [Bodies -> HealthStates]
    BY <1>1, <2>3 DEF Elsewhere, RegisterBody, Resume, HealthStates
  <2> QED BY <1>1, <2>1, <2>2, <2>3 DEF BrokerNext, Call, Elsewhere
<1>4. late' \in [Clients -> SUBSET LeaseIds]
  <2>1. \A c \in Clients : late[c] \cup {l \in LeaseIds : Bound(l, body'[c])} \subseteq LeaseIds
    BY <1>1
  <2> QED BY <2>1 DEF BrokerNext, Watch
<1>5. BrokerTyping' /\ LeasesOK'
  <2>1. lease' \in [LeaseIds -> LeaseRecords]
    BY LeaseFates
  <2>2. LeasesOK'
    BY FatesKeepLeasesOK
  <2> QED BY <1>2, <1>3, <1>4, <2>1, <2>2 DEF BrokerTyping, BrokerTypeOK, LocalsTyped, LeaseRecords
<1>6. ASSUME NEW d \in Clients PROVE InOrder(d)'
  <2>1. CASE Elsewhere
    BY <2>1, OthersStayInOrder DEF Elsewhere, RegisterBody, Resume, locals, InOrder
  <2>2. ASSUME NEW c \in Clients, Call(c), d # c PROVE InOrder(d)'
    BY <1>2, <2>2, OthersStayInOrder DEF OthersWait, InOrder
  <2>3. CASE Begin(d)
    BY <2>3, BeginInOrder
  <2>4. CASE AcquirePut(d) \/ RenewPut(d) \/ BodyEnded(d) \/ Fail(d)
    BY <2>4, OverInOrder DEF AcquirePut, RenewPut, BodyEnded, Fail
  <2>5. CASE EndRead(d) \/ EndWrite(d) \/ BodyList(d) \/ BodyEndNext(d) \/ ReplaceAcquire(d)
             \/ AcquireList(d)
    BY <2>5, EndReadInOrder, EndWriteInOrder, BodyStepsInOrder, AcquireStepsInOrder
  <2>6. Call(d) => InOrder(d)'
    BY <2>3, <2>4, <2>5 DEF Call, Proceed
  <2> QED BY <2>1, <2>2, <2>6 DEF BrokerNext, Call, Elsewhere
<1> QED BY <1>5, <1>6 DEF BrokerInv, InOrder

LEMMA StutterKeepsBrokerInv ==
    ASSUME BrokerInv, UNCHANGED vars
    PROVE  BrokerInv'
<1>1. BrokerTyping' /\ LeasesOK'
  BY DEF vars, locals, BrokerInv, BrokerTyping, BrokerTypeOK, LeasesOK
<1>2. ASSUME NEW c \in Clients PROVE WorksOn(c)' /\ Listed(c)'
  BY DEF vars, locals, BrokerInv, WorksOn, Listed, HoldsLease, UpToDate, EndsBody, Active
<1>3. ASSUME NEW c \in Clients PROVE Complete(c)'
  BY DEF vars, locals, BrokerInv, Complete, Active, ActiveOn
<1> QED BY <1>1, <1>2, <1>3 DEF BrokerInv

LEMMA BrokerStartsRight == Init => BrokerInv
<1> SUFFICES ASSUME Init PROVE BrokerInv
  OBVIOUS
<1>1. BrokerTyping /\ LeasesOK
  BY DEF Init, BrokerTyping, BrokerTypeOK, LeasesOK, NoLease, HealthStates, Stages
<1>2. \A c \in Clients : WorksOn(c) /\ Listed(c) /\ Complete(c)
  BY DEF Init, WorksOn, Listed, Complete, EndsBody
<1> QED BY <1>1, <1>2 DEF BrokerInv

-----------------------------------------------------------------------------
(* The theorems.                                                           *)

(* The invariant of the broker, whatever ends, renews, replaces and fails  *)
(* side by side.                                                           *)
THEOREM BrokerInvariance == BrokerSpec => []BrokerInv
<1>1. BrokerInv /\ [BrokerNext]_vars => BrokerInv'
  BY StepKeepsBrokerInv, StutterKeepsBrokerInv
<1> QED BY <1>1, BrokerStartsRight, PTL DEF BrokerSpec

(* A lease that ended stays as it was ended.                               *)
THEOREM EndIsFinal == BrokerSpec => EndedLeaseIsFinal
<1>1. BrokerInv /\ [BrokerNext]_vars
        => [\A l \in LeaseIds : lease[l].state = "ENDED" => lease'[l] = lease[l]]_vars
  <2> SUFFICES ASSUME BrokerInv, BrokerNext, NEW l \in LeaseIds, lease[l].state = "ENDED"
               PROVE  lease'[l] = lease[l]
    OBVIOUS
  <2> QED BY LeaseFates DEF Fate, Ends, Renewed, Taken, Active, NoLease
<1> QED BY <1>1, BrokerInvariance, PTL DEF BrokerSpec, EndedLeaseIsFinal

(* A replacement acquires only after the lease it replaces has ended.      *)
THEOREM ReplacementWaits == BrokerSpec => ReplacedLeaseHasEnded
<1> DEFINE A == \A c \in Clients :
          then[c] = "replace" /\ stage[c] # "acquire_list" /\ stage'[c] = "acquire_list"
             => ~Active(held[c])
<1>1. BrokerInv /\ [BrokerNext]_vars => [A]_vars
  <2> SUFFICES ASSUME BrokerInv, BrokerNext, NEW c \in Clients, then[c] = "replace",
                      stage[c] # "acquire_list", stage'[c] = "acquire_list"
               PROVE  ~Active(held[c])
    OBVIOUS
  <2>1. LocalsTyped /\ WorksOn(c) /\ Listed(c)
    BY TypingParts DEF BrokerInv
  <2>2. stage[c] # "none"
    BY <2>1 DEF Listed
  <2>3. Call(c)
    BY CallLocals DEF BrokerNext, Call, Elsewhere, RegisterBody, Resume, locals, OthersWait
  <2>4. ReplaceAcquire(c)
    BY <2>1, <2>2, <2>3 DEF LocalsTyped, Call, Begin, BeginEndLease, BeginRenew, BeginEndBody,
       BeginAcquire, BeginReplace, Proceed, EndRead, EndWrite, AfterEnd, BodyList, BodyEndNext,
       BodyEnded, AcquireList, AcquirePut, RenewPut, Fail, Over, Goto
  <2> QED BY <2>1, <2>4 DEF ReplaceAcquire, WorksOn
<1> QED BY <1>1, BrokerInvariance, PTL DEF BrokerSpec, ReplacedLeaseHasEnded

(* A body suspended or released keeps no ACTIVE lease but those taken or   *)
(* renewed on it beside the call.                                          *)
THEOREM EndsAreComplete == BrokerSpec => OnlyLateLeasesSurvive
<1> DEFINE A == \A c \in Clients : BodyEnded(c) => ActiveOn(body[c]) \subseteq late[c]
<1>1. BrokerInv /\ [BrokerNext]_vars => [A]_vars
  <2> SUFFICES ASSUME BrokerInv, NEW c \in Clients, BodyEnded(c)
               PROVE  ActiveOn(body[c]) \subseteq late[c]
    OBVIOUS
  <2> QED BY DEF BrokerInv, BodyEnded, Listed, Complete
<1> QED BY <1>1, BrokerInvariance, PTL DEF BrokerSpec, OnlyLateLeasesSurvive
===============================================================================
