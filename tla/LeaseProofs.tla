------------------------------ MODULE LeaseProofs ------------------------------
(***************************************************************************)
(* Proofs about the leases of bodies, for any values of the constants: the *)
(* lease side of the autonomy runtime (LeaseSupervision), then one lease   *)
(* in its repository and behind its gate (BodyLease).                      *)
(***************************************************************************)
EXTENDS BodyLease, LeaseSupervision, SequenceTheorems, TLAPS

-----------------------------------------------------------------------------
(***************************************************************************)
(* Proofs about the lease side of the autonomy runtime, for any callers,   *)
(* actions and episodes and any bound.  Three strengthenings, one for each *)
(* of the three services, rest on the common typing: what a call still     *)
(* holds of what it read, and that no other call holds the same.           *)
(***************************************************************************)

Points == {"none", "release", "revoke", "list", "acquire", "get", "classify", "ingest", "read",
           "append"}
Holding == {"release", "revoke", "get", "classify", "ingest"}
LeaseRecords == [live : BOOLEAN, id : Nat, from : Nat]
CallRecords == [at : Points, lease : Nat, number : Nat, live : BOOLEAN,
                kind : Verdicts \cup {"none"}, revision : Nat, episodes : Seq(Episodes)]
Events == [lease : LeaseNumbers, number : Nat \ {0}, kind : Verdicts]

CallOK(k, n) ==
    /\ k \in CallRecords
    /\ k.lease \in 0..n
    /\ k.at \in Holding => k.lease # 0
    /\ k.at = "ingest" => k.number # 0 /\ k.kind \in Verdicts

(* The variables have their types, and a call names a lease of the task.   *)
SupervisionTypeOK ==
    /\ lease \in Seq(LeaseRecords) /\ Len(lease) \in 0..MaxLeases
    /\ \A l \in DOMAIN lease : lease[l].from \in 0..Len(lease)
    /\ receipt \in [Keys -> Receipts \cup {"none"}]
    /\ sequence \in [LeaseNumbers -> Nat]
    /\ events \subseteq Events /\ told \subseteq Events
    /\ before \in [LeaseNumbers -> Nat]
    /\ revision \in Nat /\ episodes \in Seq(Episodes)
    /\ answered \subseteq [place : Nat, episode : Episodes]
    /\ DOMAIN call = Callers
    /\ \A c \in Callers : CallOK(call[c], Len(lease))
    /\ calls \in Nat

(* A renewal between its release and its acquisition has ended its lease,  *)
(* which nobody else renews.                                               *)
Renewing(c) == call[c].at \in {"list", "acquire"} /\ call[c].lease # 0

LineageInv ==
    /\ RenewalIsOneLineage
    /\ \A c \in Callers : Renewing(c) =>
          /\ ~lease[call[c].lease].live
          /\ \A l \in DOMAIN lease : lease[l].from # call[c].lease
          /\ \A d \in Callers : Renewing(d) /\ call[d].lease = call[c].lease => d = c

(* Unless its number is one given before a restart, a verdict on its way   *)
(* to the store has a number that was counted and that no other one has.   *)
Counted(l, n) == n <= sequence[l]

Renumbered(l, n) == n <= before[l]

Unshared(c) ==
    /\ Counted(call[c].lease, call[c].number)
    /\ \A e \in events : e.lease = call[c].lease => e.number # call[c].number
    /\ \A d \in Callers :
          /\ call[d].at = "ingest" /\ call[d].lease = call[c].lease
          /\ call[d].number = call[c].number
          => d = c

WatchInv ==
    /\ VerdictsAreStored
    /\ \A e \in events : ~Renumbered(e.lease, e.number) => Counted(e.lease, e.number)
    /\ \A c \in Callers :
          call[c].at = "ingest" /\ ~Renumbered(call[c].lease, call[c].number) => Unshared(c)

(* A record that was read is an older one, or the one that is stored.      *)
LedgerInv ==
    /\ EpisodesStand
    /\ \A c \in Callers : call[c].at = "append" =>
          /\ call[c].revision <= revision
          /\ call[c].revision = revision => call[c].episodes = episodes

-----------------------------------------------------------------------------
(* Facts about the leases of the task.                                     *)

(* Ending a lease changes nothing else of any lease.                       *)
LEMMA EndingALease ==
    ASSUME SupervisionTypeOK, NEW m \in DOMAIN lease
    PROVE  /\ Ended(m) \in Seq(LeaseRecords) /\ Len(Ended(m)) = Len(lease)
           /\ DOMAIN Ended(m) = DOMAIN lease
           /\ \A l \in DOMAIN lease :
                 /\ Ended(m)[l].from = lease[l].from
                 /\ Ended(m)[l].live => lease[l].live /\ l # m
<1> DEFINE r == [lease[m] EXCEPT !.live = FALSE]
<1>1. lease \in Seq(LeaseRecords) /\ m \in 1..Len(lease) /\ lease[m] \in LeaseRecords
  BY ElementOfSeq DEF SupervisionTypeOK
<1>2. r \in LeaseRecords /\ r.from = lease[m].from /\ r.live = FALSE
  BY <1>1 DEF LeaseRecords
<1>3. Ended(m) = [lease EXCEPT ![m] = r]
  BY DEF Ended
<1> HIDE DEF r
<1>4. /\ Ended(m) \in Seq(LeaseRecords) /\ Len(Ended(m)) = Len(lease)
      /\ \A l \in 1..Len(lease) : Ended(m)[l] = IF l = m THEN r ELSE lease[l]
  BY <1>1, <1>2, <1>3, ExceptSeq
<1>5. DOMAIN lease = 1..Len(lease) /\ DOMAIN Ended(m) = 1..Len(lease)
  BY <1>1, <1>4
<1> QED BY <1>2, <1>4, <1>5

(* An acquired lease is the last one.                                      *)
LEMMA AcquiringALease ==
    ASSUME SupervisionTypeOK, Len(lease) < MaxLeases, NEW r \in LeaseRecords
    PROVE  /\ Append(lease, r) \in Seq(LeaseRecords)
           /\ Len(Append(lease, r)) = Len(lease) + 1 /\ Len(lease) + 1 \in 0..MaxLeases
           /\ DOMAIN lease = 1..Len(lease)
           /\ DOMAIN Append(lease, r) = 1..Len(lease) + 1
           /\ \A l \in 1..Len(lease) : Append(lease, r)[l] = lease[l]
           /\ Append(lease, r)[Len(lease) + 1] = r
<1>1. lease \in Seq(LeaseRecords) /\ Len(lease) \in 0..MaxLeases
  BY DEF SupervisionTypeOK
<1>2. DOMAIN lease = 1..Len(lease)
  BY <1>1
<1>3. Append(lease, r) \in Seq(LeaseRecords) /\ Len(Append(lease, r)) = Len(lease) + 1
  BY <1>1, AppendProperties
<1>4. DOMAIN Append(lease, r) = 1..Len(lease) + 1
  BY <1>3
<1> QED BY <1>1, <1>2, <1>3, <1>4, AppendProperties, SupervisionAssumption

-----------------------------------------------------------------------------
(* Facts about the calls.                                                  *)

(* How a call begins.                                                      *)
Fresh(r) == r.at \notin {"acquire", "ingest", "append"} /\ (r.at = "list" => r.lease = 0)

LEMMA BegunOK ==
    ASSUME NEW n \in Nat, NEW l \in 0..n, NEW p \in Points \ {"acquire", "ingest", "append"},
           p \in Holding => l # 0, p = "list" => l = 0
    PROVE  CallOK(Begun(p, l), n) /\ Fresh(Begun(p, l))
<1>1. <<>> \in Seq(Episodes)
  BY EmptySeq
<1>2. Begun(p, l) \in CallRecords
  BY <1>1 DEF CallRecords, Begun
<1>3. Begun(p, l).at = p /\ Begun(p, l).lease = l
  BY DEF Begun
<1> QED BY <1>2, <1>3 DEF CallOK, Fresh

LEMMA NoCallOK == ASSUME NEW n \in Nat PROVE CallOK(NoCall, n) /\ Fresh(NoCall)
BY BegunOK DEF NoCall, Points, Holding

(* A step of one call leaves the others alone.                             *)
LEMMA OneCall ==
    ASSUME SupervisionTypeOK, NEW c \in Callers, NEW r, call' = [call EXCEPT ![c] = r]
    PROVE  /\ DOMAIN call' = Callers /\ call'[c] = r
           /\ \A d \in Callers \ {c} : call'[d] = call[d]
BY DEF SupervisionTypeOK

(* The calls are well typed after a step of one, with no lease lost.       *)
LEMMA CallsOK ==
    ASSUME SupervisionTypeOK, NEW c \in Callers, NEW r, call' = [call EXCEPT ![c] = r],
           Len(lease') \in Nat, Len(lease) <= Len(lease'), CallOK(r, Len(lease'))
    PROVE  DOMAIN call' = Callers /\ \A d \in Callers : CallOK(call'[d], Len(lease'))
<1>1. \A d \in Callers : CallOK(call[d], Len(lease)) /\ Len(lease) \in Nat
  BY DEF SupervisionTypeOK
<1>2. \A d \in Callers : CallOK(call[d], Len(lease'))
  BY <1>1 DEF CallOK
<1> QED BY <1>2, OneCall

Begin(c) == GrantLease(c) \/ RenewLease(c) \/ RevokeLease(c) \/ Supervise(c) \/ AppendEpisode(c)

LEMMA Claims ==
    ASSUME SupervisionTypeOK, NEW c \in Callers, NEW l \in 0..Len(lease), NEW operation, NEW p,
           operation \in {"start", "cancel"}, p \in {"list", "release", "revoke"},
           p = "list" <=> l = 0, Execute(c, operation, l, p)
    PROVE  /\ \E r : call' = [call EXCEPT ![c] = r] /\ CallOK(r, Len(lease)) /\ Fresh(r)
           /\ receipt' \in [Keys -> Receipts \cup {"none"}] /\ calls' \in Nat
           /\ UNCHANGED <<lease, watch, ledger>>
<1> DEFINE begun == Begun(p, l)
<1>1. Len(lease) \in Nat
  BY DEF SupervisionTypeOK
<1>2. CallOK(begun, Len(lease)) /\ Fresh(begun)
  BY <1>1, BegunOK DEF Points, Holding
<1>3. CallOK(NoCall, Len(lease)) /\ Fresh(NoCall)
  BY <1>1, NoCallOK
<1>4. PICK a \in Actions, outcome \in Receipts :
         LET k == <<operation, a>>
             answer == IF receipt[k] = "none" THEN outcome ELSE receipt[k] IN
         /\ receipt' = [receipt EXCEPT ![k] = answer]
         /\ BeginCall(c, IF answer = "SUCCEEDED" THEN begun ELSE NoCall)
         /\ UNCHANGED <<lease, watch, ledger>>
  BY DEF Execute
<1> HIDE DEF begun
<1>5. <<operation, a>> \in Keys
  BY DEF Keys
<1>6. receipt' \in [Keys -> Receipts \cup {"none"}]
  BY <1>4, <1>5 DEF SupervisionTypeOK
<1>7. \E r \in {begun, NoCall} : BeginCall(c, r)
  BY <1>4
<1>8. calls' \in Nat
  BY <1>7 DEF BeginCall, SupervisionTypeOK
<1> QED BY <1>2, <1>3, <1>4, <1>6, <1>7, <1>8 DEF BeginCall

LEMMA Begins ==
    ASSUME SupervisionTypeOK, NEW c \in Callers, Begin(c)
    PROVE  /\ \E r : call' = [call EXCEPT ![c] = r] /\ CallOK(r, Len(lease)) /\ Fresh(r)
           /\ receipt' \in [Keys -> Receipts \cup {"none"}] /\ calls' \in Nat
           /\ UNCHANGED <<lease, watch, ledger>>
<1>1. DOMAIN lease = 1..Len(lease) /\ Len(lease) \in Nat
  BY DEF SupervisionTypeOK
<1>2. CASE GrantLease(c)
  BY <1>1, <1>2, Claims DEF GrantLease
<1>3. CASE RenewLease(c)
  BY <1>1, <1>3, Claims DEF RenewLease
<1>4. CASE RevokeLease(c)
  BY <1>1, <1>4, Claims DEF RevokeLease
<1>5. CASE Supervise(c)
  <2>1. PICK l \in DOMAIN lease : BeginCall(c, Begun("get", l))
    BY <1>5 DEF Supervise
  <2> DEFINE r == Begun("get", l)
  <2>2. CallOK(r, Len(lease)) /\ Fresh(r)
    BY <1>1, BegunOK DEF Points, Holding
  <2>3. call' = [call EXCEPT ![c] = r] /\ calls' \in Nat
    BY <2>1 DEF BeginCall, SupervisionTypeOK
  <2> HIDE DEF r
  <2> QED BY <1>5, <2>2, <2>3 DEF Supervise, SupervisionTypeOK, holdings
<1>6. CASE AppendEpisode(c)
  <2> DEFINE r == Begun("read", 0)
  <2>2. CallOK(r, Len(lease)) /\ Fresh(r)
    BY <1>1, BegunOK DEF Points, Holding
  <2>3. call' = [call EXCEPT ![c] = r] /\ calls' \in Nat
    BY <1>6 DEF AppendEpisode, BeginCall, SupervisionTypeOK
  <2> HIDE DEF r
  <2> QED BY <1>6, <2>2, <2>3 DEF AppendEpisode, SupervisionTypeOK, holdings
<1> QED BY <1>2, <1>3, <1>4, <1>5, <1>6 DEF Begin

(* A call that goes on keeps what it does not set.                         *)
LEMMA GoingOn ==
    ASSUME NEW k \in CallRecords, NEW p \in Points
    PROVE  /\ [k EXCEPT !.at = p] \in CallRecords
           /\ \A n \in Nat : [k EXCEPT !.at = p, !.number = n] \in CallRecords
           /\ \A b \in BOOLEAN : [k EXCEPT !.at = p, !.live = b] \in CallRecords
           /\ \A n \in Nat, kind \in Verdicts :
                 [k EXCEPT !.at = p, !.number = n, !.kind = kind] \in CallRecords
           /\ \A n \in Nat, q \in Seq(Episodes) :
                 [k EXCEPT !.at = p, !.revision = n, !.episodes = q] \in CallRecords
BY DEF CallRecords

-----------------------------------------------------------------------------
(* Typing, first of the leases.                                            *)

Acquires(r) ==
    /\ r \in LeaseRecords /\ r.from \in 0..Len(lease)
    /\ Len(lease) < MaxLeases /\ lease' = Append(lease, r)

LEMMA LeaseSteps ==
    ASSUME SupervisionTypeOK, SupervisionNext
    PROVE  lease' = lease \/ (\E m \in DOMAIN lease : lease' = Ended(m)) \/ \E r : Acquires(r)
<1>1. DOMAIN lease = 1..Len(lease) /\ Len(lease) \in Nat
  BY DEF SupervisionTypeOK
<1>2. CASE \E c \in Callers : CallerStep(c)
  <2> PICK c \in Callers : CallerStep(c)
    BY <1>2
  <2>1. CallOK(call[c], Len(lease))
    BY DEF SupervisionTypeOK
  <2>2. CASE Begin(c)
    BY <2>2, Begins
  <2>3. CASE Release(c) \/ Revoke(c)
    <3>1. call[c].lease \in DOMAIN lease
      BY <1>1, <2>1, <2>3 DEF Release, Revoke, At, CallOK, Holding
    <3> QED BY <2>3, <3>1 DEF Release, Revoke
  <2>4. CASE Acquire(c)
    <3> DEFINE r == [live |-> TRUE, id |-> call[c].number, from |-> call[c].lease]
    <3>1. call[c].number \in Nat /\ call[c].lease \in 0..Len(lease)
      BY <2>1 DEF CallOK, CallRecords
    <3>2. r \in LeaseRecords /\ r.from = call[c].lease
      BY <1>1, <3>1 DEF LeaseRecords
    <3>3. lease' = lease \/ (Len(lease) < MaxLeases /\ lease' = Append(lease, r))
      BY <2>4 DEF Acquire
    <3> HIDE DEF r
    <3> QED BY <3>1, <3>2, <3>3 DEF Acquires
  <2>5. CASE \/ ListLeases(c) \/ GetLease(c) \/ Classify(c) \/ Ingest(c)
             \/ ReadTask(c) \/ PutEpisode(c) \/ Throw(c)
    BY <2>5 DEF ListLeases, GetLease, Classify, Ingest, ReadTask, PutEpisode, Throw, holdings
  <2> QED BY <2>2, <2>3, <2>4, <2>5 DEF CallerStep, Begin
<1>3. CASE BrokerAcquires
  <2> DEFINE r == [live |-> TRUE, id |-> 0, from |-> 0]
  <2>1. r \in LeaseRecords /\ r.from \in 0..Len(lease)
    BY <1>1 DEF LeaseRecords
  <2>2. Len(lease) < MaxLeases /\ lease' = Append(lease, r)
    BY <1>3 DEF BrokerAcquires
  <2> HIDE DEF r
  <2> QED BY <2>1, <2>2 DEF Acquires
<1>4. CASE LeaseEnds
  BY <1>4 DEF LeaseEnds
<1>5. CASE TaskWritten \/ Restart
  BY <1>5 DEF TaskWritten, Restart, holdings
<1> QED BY <1>2, <1>3, <1>4, <1>5 DEF SupervisionNext

LEMMA LeasesTyped ==
    ASSUME SupervisionTypeOK, SupervisionNext
    PROVE  /\ lease' \in Seq(LeaseRecords)
           /\ Len(lease') \in 0..MaxLeases /\ Len(lease) <= Len(lease')
           /\ \A l \in DOMAIN lease' : lease'[l].from \in 0..Len(lease')
<1>1. /\ lease \in Seq(LeaseRecords) /\ Len(lease) \in 0..MaxLeases
      /\ \A l \in DOMAIN lease : lease[l].from \in 0..Len(lease)
  BY DEF SupervisionTypeOK
<1>2. CASE lease' = lease
  BY <1>1, <1>2, SupervisionAssumption
<1>3. CASE \E m \in DOMAIN lease : lease' = Ended(m)
  <2>1. PICK m \in DOMAIN lease : lease' = Ended(m)
    BY <1>3
  <2> QED BY <1>1, <2>1, EndingALease
<1>4. CASE \E r : Acquires(r)
  <2> PICK r : Acquires(r)
    BY <1>4
  <2>1. r \in LeaseRecords /\ r.from \in 0..Len(lease) /\ Len(lease) < MaxLeases
        /\ lease' = Append(lease, r)
    BY DEF Acquires
  <2>2. /\ lease' \in Seq(LeaseRecords)
        /\ Len(lease') = Len(lease) + 1 /\ Len(lease) + 1 \in 0..MaxLeases
        /\ DOMAIN lease = 1..Len(lease) /\ DOMAIN lease' = 1..Len(lease) + 1
        /\ \A l \in 1..Len(lease) : lease'[l] = lease[l]
        /\ lease'[Len(lease) + 1] = r
    BY <2>1, AcquiringALease
  <2>3. ASSUME NEW l \in DOMAIN lease' PROVE lease'[l].from \in 0..Len(lease) + 1
    <3>1. CASE l = Len(lease) + 1
      BY <1>1, <2>1, <2>2, <3>1
    <3>2. CASE l \in 1..Len(lease)
      BY <1>1, <2>2, <3>2
    <3> QED BY <1>1, <2>2, <3>1, <3>2
  <2> QED BY <1>1, <2>2, <2>3
<1> QED BY LeaseSteps, <1>2, <1>3, <1>4

(* A call that holds a lease holds one of the task's.                      *)
LEMMA HeldLease ==
    ASSUME SupervisionTypeOK, NEW c \in Callers, call[c].at \in Holding
    PROVE  call[c].lease \in DOMAIN lease /\ call[c].lease \in LeaseNumbers
<1>1. /\ lease \in Seq(LeaseRecords) /\ Len(lease) \in 0..MaxLeases
      /\ call[c].lease \in 0..Len(lease) /\ call[c].lease # 0
  BY DEF SupervisionTypeOK, CallOK
<1> QED BY <1>1, SupervisionAssumption DEF LeaseNumbers

(* Then of the calls.                                                      *)
LastSteps(c) == Revoke(c) \/ Acquire(c) \/ Ingest(c) \/ PutEpisode(c) \/ Throw(c)
Reads(c) == ListLeases(c) \/ GetLease(c) \/ ReadTask(c)

LEMMA CallMoves ==
    ASSUME SupervisionTypeOK, NEW c \in Callers, CallerStep(c)
    PROVE  \E r : call' = [call EXCEPT ![c] = r] /\ CallOK(r, Len(lease))
<1>1. /\ CallOK(call[c], Len(lease)) /\ Len(lease) \in Nat
      /\ lease \in Seq(LeaseRecords) /\ revision \in Nat /\ episodes \in Seq(Episodes)
  BY DEF SupervisionTypeOK
<1>2. /\ call[c] \in CallRecords
      /\ {"list", "acquire", "classify", "ingest", "append"} \subseteq Points
  BY <1>1 DEF CallOK, Points
<1>3. CASE Begin(c)
  BY <1>3, Begins
<1>4. CASE EndCall(c)
  BY <1>1, <1>4, NoCallOK DEF EndCall
<1>5. CASE Release(c) /\ ~EndCall(c)
  <2> DEFINE r == [call[c] EXCEPT !.at = "list"]
  <2>1. r \in CallRecords
    BY <1>1, <1>2, GoingOn
  <2>2. r.at = "list" /\ r.lease = call[c].lease
    BY <1>1 DEF CallOK, CallRecords
  <2>3. call' = [call EXCEPT ![c] = r]
    BY <1>5 DEF Release
  <2> HIDE DEF r
  <2> QED BY <1>1, <2>1, <2>2, <2>3 DEF CallOK, Holding
<1>6. CASE ListLeases(c)
  <2>1. PICK n \in Nat : n = Len(lease) + 1
    BY <1>1
  <2> DEFINE r == [call[c] EXCEPT !.at = "acquire", !.number = n]
  <2>2. r \in CallRecords
    BY <1>2, GoingOn
  <2>3. r.at = "acquire" /\ r.lease = call[c].lease
    BY <1>1 DEF CallOK, CallRecords
  <2>4. call' = [call EXCEPT ![c] = r]
    BY <1>6, <2>1 DEF ListLeases
  <2> HIDE DEF r
  <2> QED BY <1>1, <2>2, <2>3, <2>4 DEF CallOK, Holding
<1>7. CASE GetLease(c)
  <2>1. call[c].at \in Holding
    BY <1>7 DEF GetLease, At, Holding
  <2>2. lease[call[c].lease] \in LeaseRecords
    BY <1>1, <2>1, HeldLease
  <2>3. lease[call[c].lease].live \in BOOLEAN
    BY <2>2 DEF LeaseRecords
  <2>4. PICK b \in BOOLEAN : b = lease[call[c].lease].live
    BY <2>3, Zenon
  <2> DEFINE r == [call[c] EXCEPT !.at = "classify", !.live = b]
  <2>5. r \in CallRecords
    BY <1>2, GoingOn
  <2>6. r.at = "classify" /\ r.lease = call[c].lease
    BY <1>1 DEF CallOK, CallRecords
  <2>7. call' = [call EXCEPT ![c] = r]
    BY <1>7, <2>4 DEF GetLease
  <2>8. call[c].lease # 0
    BY <1>1, <2>1 DEF CallOK
  <2> HIDE DEF r
  <2> QED BY <1>1, <2>5, <2>6, <2>7, <2>8 DEF CallOK
<1>8. CASE Classify(c) /\ ~EndCall(c)
  <2>1. call[c].at \in Holding
    BY <1>8 DEF Classify, At, Holding
  <2>2. PICK n \in Nat : n = sequence[call[c].lease] + 1 /\ n # 0
    <3>1. sequence \in [LeaseNumbers -> Nat] /\ call[c].lease \in LeaseNumbers
      BY <2>1, HeldLease DEF SupervisionTypeOK
    <3>2. sequence[call[c].lease] \in Nat
      BY <3>1
    <3> QED BY <3>2
  <2>3. PICK kind \in Verdicts :
          call' = [call EXCEPT ![c].at = "ingest", ![c].number = sequence[call[c].lease] + 1,
                               ![c].kind = kind]
    BY <1>8 DEF Classify
  <2> DEFINE r == [call[c] EXCEPT !.at = "ingest", !.number = n, !.kind = kind]
  <2>4. r \in CallRecords
    BY <1>2, GoingOn
  <2>5. r.at = "ingest" /\ r.lease = call[c].lease /\ r.number # 0 /\ r.kind \in Verdicts
    BY <1>1, <2>2 DEF CallOK, CallRecords
  <2>6. call' = [call EXCEPT ![c] = r]
    BY <2>2, <2>3
  <2>7. call[c].lease # 0
    BY <1>1, <2>1 DEF CallOK
  <2> HIDE DEF r
  <2> QED BY <1>1, <2>4, <2>5, <2>6, <2>7 DEF CallOK
<1>9. CASE ReadTask(c)
  <2> DEFINE r == [call[c] EXCEPT !.at = "append", !.revision = revision, !.episodes = episodes]
  <2>1. r \in CallRecords
    BY <1>1, <1>2, GoingOn
  <2>2. r.at = "append" /\ r.lease = call[c].lease
    BY <1>1 DEF CallOK, CallRecords
  <2>3. call' = [call EXCEPT ![c] = r]
    BY <1>9 DEF ReadTask
  <2> HIDE DEF r
  <2> QED BY <1>1, <2>1, <2>2, <2>3 DEF CallOK, Holding
<1>10. LastSteps(c) => EndCall(c)
  BY DEF LastSteps, Revoke, Acquire, Ingest, PutEpisode, Throw
<1> QED BY <1>3, <1>4, <1>5, <1>6, <1>7, <1>8, <1>9, <1>10 DEF CallerStep, Begin, LastSteps

LEMMA CallsTyped ==
    ASSUME SupervisionTypeOK, SupervisionNext
    PROVE  DOMAIN call' = Callers /\ \A d \in Callers : CallOK(call'[d], Len(lease'))
<1>1. Len(lease') \in Nat /\ Len(lease) <= Len(lease') /\ Len(lease) \in Nat
  BY LeasesTyped DEF SupervisionTypeOK
<1>2. CASE \E c \in Callers : CallerStep(c)
  <2> PICK c \in Callers : CallerStep(c)
    BY <1>2
  <2> PICK r : call' = [call EXCEPT ![c] = r] /\ CallOK(r, Len(lease))
    BY CallMoves
  <2>1. CallOK(r, Len(lease'))
    BY <1>1 DEF CallOK
  <2> QED BY <1>1, <2>1, CallsOK
<1>3. CASE TaskWritten \/ BrokerAcquires \/ LeaseEnds
  <2>1. UNCHANGED call
    BY <1>3 DEF TaskWritten, BrokerAcquires, LeaseEnds
  <2>2. \A d \in Callers : CallOK(call[d], Len(lease))
    BY DEF SupervisionTypeOK
  <2>3. \A d \in Callers : CallOK(call[d], Len(lease'))
    BY <1>1, <2>2 DEF CallOK
  <2> QED BY <2>1, <2>3 DEF SupervisionTypeOK
<1>4. CASE Restart
  <2>1. call' = [c \in Callers |-> NoCall]
    BY <1>4 DEF Restart
  <2> QED BY <1>1, <2>1, NoCallOK
<1> QED BY <1>2, <1>3, <1>4 DEF SupervisionNext

(* Steps that touch neither receipts nor verdicts nor the ledger.          *)
Quiet(c) ==
    \/ Release(c) \/ Revoke(c) \/ ListLeases(c) \/ Acquire(c)
    \/ GetLease(c) \/ ReadTask(c) \/ Throw(c)

LEMMA QuietSteps ==
    ASSUME NEW c, Quiet(c) \/ BrokerAcquires \/ LeaseEnds
    PROVE  UNCHANGED <<receipt, watch, ledger, calls>>
BY DEF Quiet, Release, Revoke, ListLeases, Acquire, GetLease, ReadTask, Throw, At, BrokerAcquires,
       LeaseEnds, holdings

(* Then of the verdicts and of the ledger.                                 *)
Rest ==
    /\ receipt \in [Keys -> Receipts \cup {"none"}]
    /\ sequence \in [LeaseNumbers -> Nat]
    /\ events \subseteq Events /\ told \subseteq Events
    /\ before \in [LeaseNumbers -> Nat]
    /\ revision \in Nat /\ episodes \in Seq(Episodes)
    /\ answered \subseteq [place : Nat, episode : Episodes]
    /\ calls \in Nat

LEMMA VerdictsTyped ==
    ASSUME SupervisionTypeOK, NEW c \in Callers, Classify(c) \/ Ingest(c)
    PROVE  Rest'
<1>1. Rest
  BY DEF SupervisionTypeOK, Rest
<1>2. CASE Classify(c)
  <2>1. call[c].lease \in LeaseNumbers
    BY <1>2, HeldLease DEF Classify, At, Holding
  <2>2. sequence' = sequence \/ sequence' = [sequence EXCEPT ![call[c].lease] = @ + 1]
    BY <1>2 DEF Classify
  <2>3. sequence' \in [LeaseNumbers -> Nat]
    <3>1. sequence \in [LeaseNumbers -> Nat]
      BY <1>1 DEF Rest
    <3> QED BY <2>1, <2>2, <3>1
  <2>4. UNCHANGED <<receipt, events, told, before, ledger, calls>>
    BY <1>2 DEF Classify, At, holdings
  <2> QED BY <1>1, <2>3, <2>4 DEF Rest, ledger
<1>3. CASE Ingest(c)
  <2> DEFINE verdict == [lease |-> call[c].lease, number |-> call[c].number, kind |-> call[c].kind]
  <2>1. call[c].lease \in LeaseNumbers
    BY <1>3, HeldLease DEF Ingest, At, Holding
  <2>2. call[c].number \in Nat \ {0} /\ call[c].kind \in Verdicts
    BY <1>3 DEF SupervisionTypeOK, CallOK, CallRecords, Ingest, At
  <2>3. verdict \in Events
    BY <2>1, <2>2 DEF Events
  <2>4. events' \in {events, events \cup {verdict}} /\ told' = told \cup {verdict}
    BY <1>3 DEF Ingest
  <2>5. UNCHANGED <<receipt, sequence, before, ledger, calls>>
    BY <1>3 DEF Ingest, At, holdings
  <2> HIDE DEF verdict
  <2> QED BY <1>1, <2>3, <2>4, <2>5 DEF Rest, ledger
<1> QED BY <1>2, <1>3

LEMMA LedgerTyped ==
    ASSUME SupervisionTypeOK, NEW c \in Callers, PutEpisode(c)
    PROVE  Rest'
<1>1. Rest
  BY DEF SupervisionTypeOK, Rest
<1>2. call[c].revision \in Nat /\ call[c].episodes \in Seq(Episodes)
  BY DEF SupervisionTypeOK, CallOK, CallRecords
<1>3. UNCHANGED <<receipt, watch, calls>>
  BY DEF PutEpisode, At, holdings
<1>4. ASSUME NEW e \in Episodes PROVE Append(call[c].episodes, e) \in Seq(Episodes)
  BY <1>2, AppendProperties
<1>5. (\E e \in Episodes : Put(c, e)) \/ UNCHANGED <<revision, episodes>>
  BY DEF PutEpisode, ledger
<1>6. revision' \in Nat /\ episodes' \in Seq(Episodes)
  <2>1. CASE \E e \in Episodes : Put(c, e)
    BY <1>2, <1>4, <2>1 DEF Put
  <2>2. CASE UNCHANGED <<revision, episodes>>
    BY <1>1, <2>2 DEF Rest
  <2> QED BY <1>5, <2>1, <2>2
<1>7. Len(call[c].episodes) + 1 \in Nat
  BY <1>2
<1>8. \A e \in Episodes :
         AnswerEpisode(c, e) => answered' \subseteq [place : Nat, episode : Episodes]
  BY <1>1, <1>7 DEF AnswerEpisode, Rest
<1>9. answered' = answered \/ \E e \in Episodes : AnswerEpisode(c, e)
  BY DEF PutEpisode, ledger
<1> QED BY <1>1, <1>3, <1>6, <1>8, <1>9 DEF Rest, watch

LEMMA RestTyped ==
    ASSUME SupervisionTypeOK, SupervisionNext
    PROVE  Rest'
<1>1. Rest
  BY DEF SupervisionTypeOK, Rest
<1>2. CASE \E c \in Callers : CallerStep(c)
  <2> PICK c \in Callers : CallerStep(c)
    BY <1>2
  <2>1. CASE Begin(c)
    BY <1>1, <2>1, Begins DEF Rest, watch, ledger
  <2>2. CASE Quiet(c)
    BY <1>1, <2>2, QuietSteps DEF Rest, watch, ledger
  <2>3. CASE Classify(c) \/ Ingest(c)
    BY <2>3, VerdictsTyped
  <2>4. CASE PutEpisode(c)
    BY <2>4, LedgerTyped
  <2> QED BY <2>1, <2>2, <2>3, <2>4 DEF CallerStep, Begin, Quiet
<1>3. CASE BrokerAcquires \/ LeaseEnds
  BY <1>1, <1>3, QuietSteps DEF Rest, watch, ledger
<1>4. CASE TaskWritten
  <2>1. UNCHANGED <<receipt, watch, episodes, answered, calls>> /\ revision' = revision + 1
    BY <1>4 DEF TaskWritten, holdings
  <2> QED BY <1>1, <2>1 DEF Rest, watch
<1>5. CASE Restart
  <2>1. /\ receipt' = [k \in Keys |-> "none"] /\ sequence' = [l \in LeaseNumbers |-> 0]
        /\ before' = [l \in LeaseNumbers |->
              IF sequence[l] > before[l] THEN sequence[l] ELSE before[l]]
        /\ UNCHANGED <<events, told, ledger, calls>>
    BY <1>5 DEF Restart
  <2>2. receipt' \in [Keys -> Receipts \cup {"none"}] /\ sequence' \in [LeaseNumbers -> Nat]
        /\ before' \in [LeaseNumbers -> Nat]
    BY <1>1, <2>1 DEF Rest
  <2> QED BY <1>1, <2>1, <2>2 DEF Rest, ledger
<1> QED BY <1>2, <1>3, <1>4, <1>5 DEF SupervisionNext

LEMMA TypingInit == SupervisionInit => SupervisionTypeOK
<1> SUFFICES ASSUME SupervisionInit PROVE SupervisionTypeOK
  OBVIOUS
<1>1. lease = <<>> /\ episodes = <<>> /\ <<>> \in Seq(LeaseRecords) /\ <<>> \in Seq(Episodes)
      /\ Len(lease) = 0 /\ DOMAIN lease = {}
  BY EmptySeq DEF SupervisionInit
<1>2. Len(lease) \in 0..MaxLeases
  BY <1>1, SupervisionAssumption
<1>3. DOMAIN call = Callers /\ \A c \in Callers : CallOK(call[c], Len(lease))
  BY <1>1, NoCallOK DEF SupervisionInit
<1>4. Rest
  BY <1>1 DEF SupervisionInit, Rest
<1> QED BY <1>1, <1>2, <1>3, <1>4 DEF SupervisionTypeOK, Rest

LEMMA TypingStep == SupervisionTypeOK /\ [SupervisionNext]_supervisionVars => SupervisionTypeOK'
<1>1. ASSUME SupervisionTypeOK, SupervisionNext PROVE SupervisionTypeOK'
  BY <1>1, LeasesTyped, CallsTyped, RestTyped DEF SupervisionTypeOK, Rest
<1>2. ASSUME SupervisionTypeOK, UNCHANGED supervisionVars PROVE SupervisionTypeOK'
  BY <1>2 DEF SupervisionTypeOK, CallOK, supervisionVars, holdings, watch, ledger
<1> QED BY <1>1, <1>2

(* Every reachable state is well typed, and a call in flight names a lease *)
(* of the task.                                                            *)
THEOREM SupervisionTyping == SupervisionSpec => []SupervisionTypeOK
BY TypingInit, TypingStep, PTL DEF SupervisionSpec

-----------------------------------------------------------------------------
(* What a step of a call brings it to.                                     *)
LEMMA Onward ==
    ASSUME SupervisionTypeOK, NEW c \in Callers, CallerStep(c)
    PROVE  /\ \A d \in Callers \ {c} : call'[d] = call[d]
           /\ Renewing(c)' =>
                 \/ Release(c) /\ call'[c].lease = call[c].lease /\ lease[call[c].lease].live
                 \/ Renewing(c) /\ call'[c].lease = call[c].lease /\ ListLeases(c)
           /\ call'[c].at = "ingest" => Classify(c) /\ call'[c].lease = call[c].lease
           /\ call'[c].at = "append" => ReadTask(c)
<1>1. PICK r : call' = [call EXCEPT ![c] = r]
  BY CallMoves
<1>2. call'[c] = r /\ \A d \in Callers \ {c} : call'[d] = call[d]
  BY <1>1, OneCall
<1>3. call[c] \in CallRecords /\ c \in DOMAIN call
  BY DEF SupervisionTypeOK, CallOK
<1>4. CASE Begin(c)
  <2> PICK s : call' = [call EXCEPT ![c] = s] /\ Fresh(s)
    BY <1>4, Begins
  <2>1. call'[c] = s
    BY OneCall
  <2> QED BY <1>2, <2>1 DEF Fresh, Renewing
<1>5. CASE EndCall(c)
  <2>1. call'[c].at = "none"
    BY <1>3, <1>5 DEF EndCall, NoCall, Begun
  <2> QED BY <1>2, <2>1 DEF Renewing
<1>6. CASE Release(c) /\ ~EndCall(c)
  <2>1. call' = [call EXCEPT ![c].at = "list"] /\ lease[call[c].lease].live
    BY <1>6 DEF Release
  <2>2. call'[c].at = "list" /\ call'[c].lease = call[c].lease
    BY <1>3, <2>1 DEF CallRecords
  <2> QED BY <1>2, <1>6, <2>1, <2>2 DEF Renewing
<1>7. CASE ListLeases(c)
  <2>1. call'[c].at = "acquire" /\ call'[c].lease = call[c].lease /\ call[c].at = "list"
    BY <1>3, <1>7 DEF CallRecords, ListLeases, At
  <2> QED BY <1>2, <1>7, <2>1 DEF Renewing
<1>8. CASE GetLease(c)
  <2>1. call'[c].at = "classify"
    BY <1>3, <1>8 DEF CallRecords, GetLease
  <2> QED BY <1>2, <2>1 DEF Renewing
<1>9. CASE Classify(c) /\ ~EndCall(c)
  <2>1. PICK n, kind :
          call' = [call EXCEPT ![c].at = "ingest", ![c].number = n, ![c].kind = kind]
    BY <1>9 DEF Classify
  <2>2. call'[c].at = "ingest" /\ call'[c].lease = call[c].lease
    BY <1>3, <2>1 DEF CallRecords
  <2> QED BY <1>2, <1>9, <2>2 DEF Renewing
<1>10. CASE ReadTask(c)
  <2>1. call'[c].at = "append"
    BY <1>3, <1>10 DEF CallRecords, ReadTask
  <2> QED BY <1>2, <1>10, <2>1 DEF Renewing
<1>11. LastSteps(c) => EndCall(c)
  BY DEF LastSteps, Revoke, Acquire, Ingest, PutEpisode, Throw
<1> QED BY <1>4, <1>5, <1>6, <1>7, <1>8, <1>9, <1>10, <1>11 DEF CallerStep, Begin, LastSteps

-----------------------------------------------------------------------------
(* The lineage of the leases.                                              *)

LEMMA NamedLease ==
    ASSUME SupervisionTypeOK
    PROVE  /\ \A l \in DOMAIN lease : lease[l].from # 0 => lease[l].from \in DOMAIN lease
           /\ \A c \in Callers : Renewing(c) => call[c].lease \in DOMAIN lease
<1>1. DOMAIN lease = 1..Len(lease) /\ Len(lease) \in Nat
  BY DEF SupervisionTypeOK
<1> QED BY <1>1 DEF SupervisionTypeOK, CallOK, Renewing

(* Leases that end disturb no lineage, as long as no renewal is new.       *)
LEMMA LineageKept ==
    ASSUME SupervisionTypeOK, LineageInv, DOMAIN lease' = DOMAIN lease,
           \A l \in DOMAIN lease :
               lease'[l].from = lease[l].from /\ (lease'[l].live => lease[l].live),
           \A d \in Callers : Renewing(d)' => Renewing(d) /\ call'[d].lease = call[d].lease
    PROVE  LineageInv'
<1>1. RenewalIsOneLineage'
  <2>1. RenewalIsOneLineage
    BY DEF LineageInv
  <2> SUFFICES ASSUME NEW l \in DOMAIN lease, lease[l].from # 0
               PROVE  /\ ~lease'[lease[l].from].live
                      /\ \A k \in DOMAIN lease : lease[k].from = lease[l].from => k = l
    BY DEF RenewalIsOneLineage
  <2>2. lease[l].from \in DOMAIN lease
    BY NamedLease
  <2> QED BY <2>1, <2>2 DEF RenewalIsOneLineage
<1>2. ASSUME NEW c \in Callers, Renewing(c)'
      PROVE  /\ ~lease'[call'[c].lease].live
             /\ \A l \in DOMAIN lease' : lease'[l].from # call'[c].lease
             /\ \A d \in Callers : Renewing(d)' /\ call'[d].lease = call'[c].lease => d = c
  <2>1. Renewing(c) /\ call'[c].lease = call[c].lease /\ call[c].lease \in DOMAIN lease
    BY <1>2, NamedLease
  <2> QED BY <2>1 DEF LineageInv
<1> QED BY <1>1, <1>2 DEF LineageInv

(* A lease acquired after its predecessor ended, with no other successor.  *)
LEMMA LineageGrown ==
    ASSUME SupervisionTypeOK, LineageInv, NEW r, Acquires(r),
           r.from # 0 => ~lease[r.from].live /\ \A l \in DOMAIN lease : lease[l].from # r.from,
           \A d \in Callers : Renewing(d)' =>
               Renewing(d) /\ call'[d].lease = call[d].lease /\ call[d].lease # r.from
    PROVE  LineageInv'
<1> DEFINE n == Len(lease) + 1
<1>1. /\ DOMAIN lease = 1..Len(lease) /\ DOMAIN lease' = 1..n /\ Len(lease) \in Nat
      /\ \A l \in 1..Len(lease) : lease'[l] = lease[l]
      /\ lease'[n] = r /\ r.from \in 0..Len(lease)
  BY AcquiringALease DEF Acquires, SupervisionTypeOK
<1>2. DOMAIN lease' = DOMAIN lease \cup {n} /\ n \notin DOMAIN lease
  BY <1>1
<1>3. r.from # 0 => r.from \in DOMAIN lease
  BY <1>1
<1>4. \A l \in DOMAIN lease : lease'[l] = lease[l]
  BY <1>1
<1>5. lease'[n] = r
  BY <1>1
<1> HIDE DEF n
<1>6. RenewalIsOneLineage
  BY DEF LineageInv
<1>7. ASSUME NEW l \in DOMAIN lease', lease'[l].from # 0
      PROVE  /\ ~lease'[lease'[l].from].live
             /\ \A k \in DOMAIN lease' : lease'[k].from = lease'[l].from => k = l
  <2>1. CASE l = n
    BY <1>2, <1>3, <1>4, <1>5, <1>7, <2>1
  <2>2. CASE l \in DOMAIN lease
    <3>1. lease'[l] = lease[l] /\ lease[l].from \in DOMAIN lease
      BY <1>4, <1>7, <2>2, NamedLease
    <3> QED BY <1>2, <1>4, <1>5, <1>6, <1>7, <2>2, <3>1 DEF RenewalIsOneLineage
  <2> QED BY <1>2, <2>1, <2>2
<1>8. ASSUME NEW c \in Callers, Renewing(c)'
      PROVE  /\ ~lease'[call'[c].lease].live
             /\ \A l \in DOMAIN lease' : lease'[l].from # call'[c].lease
             /\ \A d \in Callers : Renewing(d)' /\ call'[d].lease = call'[c].lease => d = c
  <2>1. /\ Renewing(c) /\ call'[c].lease = call[c].lease /\ call[c].lease \in DOMAIN lease
        /\ call[c].lease # r.from
    BY <1>8, NamedLease
  <2> QED BY <1>2, <1>4, <1>5, <2>1 DEF LineageInv
<1> QED BY <1>7, <1>8 DEF LineageInv, RenewalIsOneLineage

LEMMA NoGrowth ==
    ASSUME SupervisionTypeOK,
           (\E c \in Callers : CallerStep(c) /\ ~Acquire(c)) \/ TaskWritten \/ LeaseEnds \/ Restart
    PROVE  /\ DOMAIN lease' = DOMAIN lease
           /\ \A l \in DOMAIN lease :
                 lease'[l].from = lease[l].from /\ (lease'[l].live => lease[l].live)
<1>1. lease' = lease \/ \E m \in DOMAIN lease : lease' = Ended(m)
  <2>1. CASE \E c \in Callers : Release(c) \/ Revoke(c)
    BY <2>1, HeldLease DEF Release, Revoke, At, Holding
  <2>2. CASE \E c \in Callers : Begin(c)
    BY <2>2, Begins
  <2>3. CASE \E c \in Callers : \/ ListLeases(c) \/ GetLease(c) \/ Classify(c) \/ Ingest(c)
                                \/ ReadTask(c) \/ PutEpisode(c) \/ Throw(c)
    BY <2>3 DEF ListLeases, GetLease, Classify, Ingest, ReadTask, PutEpisode, Throw, holdings
  <2>4. CASE TaskWritten \/ LeaseEnds \/ Restart
    BY <2>4 DEF TaskWritten, LeaseEnds, Restart, holdings
  <2> QED BY <2>1, <2>2, <2>3, <2>4 DEF CallerStep, Begin
<1> QED BY <1>1, EndingALease

(* The release of a renewal is the only one to end that lease.             *)
LEMMA LineageReleased ==
    ASSUME SupervisionTypeOK, LineageInv, NEW c \in Callers, Release(c), lease[call[c].lease].live
    PROVE  LineageInv'
<1> DEFINE m == call[c].lease
<1>1. m \in DOMAIN lease /\ lease' = Ended(m)
  BY HeldLease DEF Release, At, Holding
<1>2. /\ DOMAIN lease' = DOMAIN lease /\ ~lease'[m].live
      /\ \A l \in DOMAIN lease : lease'[l].from = lease[l].from /\ (lease'[l].live => lease[l].live)
  BY <1>1, EndingALease
<1>3. CallerStep(c)
  BY DEF CallerStep
<1>4. \A d \in Callers \ {c} : call'[d] = call[d]
  BY <1>3, Onward
<1>5. Renewing(c)' => call'[c].lease = m
  BY <1>3, Onward
<1>6. lease[m].live
  OBVIOUS
<1> HIDE DEF m
<1>7. RenewalIsOneLineage
  BY DEF LineageInv
<1>8. \A l \in DOMAIN lease : lease[l].from # m
  <2> SUFFICES ASSUME NEW l \in DOMAIN lease, lease[l].from = m PROVE FALSE
    OBVIOUS
  <2>1. m # 0
    BY <1>1 DEF SupervisionTypeOK
  <2> QED BY <1>6, <1>7, <2>1 DEF RenewalIsOneLineage
<1>9. \A d \in Callers : Renewing(d) => call[d].lease # m
  BY <1>6 DEF LineageInv
<1>10. RenewalIsOneLineage'
  <2> SUFFICES ASSUME NEW l \in DOMAIN lease, lease[l].from # 0
               PROVE  /\ ~lease'[lease[l].from].live
                      /\ \A k \in DOMAIN lease : lease[k].from = lease[l].from => k = l
    BY <1>2 DEF RenewalIsOneLineage
  <2>1. lease[l].from \in DOMAIN lease
    BY NamedLease
  <2> QED BY <1>2, <1>7, <2>1 DEF RenewalIsOneLineage
<1>11. ASSUME NEW d \in Callers, Renewing(d)'
       PROVE  /\ ~lease'[call'[d].lease].live
              /\ \A l \in DOMAIN lease' : lease'[l].from # call'[d].lease
              /\ \A e \in Callers : Renewing(e)' /\ call'[e].lease = call'[d].lease => e = d
  <2>1. \A e \in Callers \ {c} : Renewing(e)' => Renewing(e) /\ call'[e].lease = call[e].lease
    BY <1>4 DEF Renewing
  <2>2. CASE d = c
    <3>1. call'[d].lease = m
      BY <1>5, <1>11, <2>2
    <3>2. \A e \in Callers \ {c} : Renewing(e)' => call'[e].lease # m
      BY <1>9, <2>1
    <3> QED BY <1>2, <1>8, <2>2, <3>1, <3>2
  <2>3. CASE d # c
    <3>1. Renewing(d) /\ call'[d].lease = call[d].lease /\ call[d].lease \in DOMAIN lease
      BY <1>11, <2>1, <2>3, NamedLease
    <3>2. call[d].lease # m
      BY <1>9, <3>1
    <3>3. \A e \in Callers : Renewing(e)' /\ call'[e].lease = call'[d].lease => Renewing(e) /\ e # c
      BY <1>5, <2>1, <3>1, <3>2
    <3> QED BY <1>2, <2>1, <3>1, <3>3 DEF LineageInv
  <2> QED BY <2>2, <2>3
<1> QED BY <1>10, <1>11 DEF LineageInv

LEMMA LineageAcquired ==
    ASSUME SupervisionTypeOK, LineageInv, NEW c \in Callers, Acquire(c)
    PROVE  LineageInv'
<1> DEFINE r == [live |-> TRUE, id |-> call[c].number, from |-> call[c].lease]
<1>1. call' = [call EXCEPT ![c] = NoCall] /\ call[c].at = "acquire"
  BY DEF Acquire, EndCall, At
<1>2. call'[c] = NoCall /\ \A d \in Callers \ {c} : call'[d] = call[d]
  BY <1>1, OneCall
<1>3. \A d \in Callers : Renewing(d)' => d # c /\ Renewing(d) /\ call'[d].lease = call[d].lease
  BY <1>2 DEF Renewing, NoCall, Begun
<1>4. CASE lease' = lease
  BY <1>3, <1>4, LineageKept
<1>5. CASE lease' = Append(lease, r) /\ Len(lease) < MaxLeases
  <2>1. call[c].number \in Nat /\ call[c].lease \in 0..Len(lease) /\ Len(lease) \in Nat
    BY DEF SupervisionTypeOK, CallOK, CallRecords
  <2>2. r \in LeaseRecords /\ r.from = call[c].lease
    BY <2>1 DEF LeaseRecords
  <2> HIDE DEF r
  <2>3. Acquires(r)
    BY <1>5, <2>1, <2>2 DEF Acquires
  <2>4. r.from # 0 => Renewing(c)
    BY <1>1, <2>2 DEF Renewing
  <2>5. r.from # 0 => ~lease[r.from].live /\ \A l \in DOMAIN lease : lease[l].from # r.from
    BY <2>2, <2>4 DEF LineageInv
  <2>6. \A d \in Callers : Renewing(d)' => call[d].lease # r.from
    <3> SUFFICES ASSUME NEW d \in Callers, Renewing(d)', call[d].lease = r.from PROVE FALSE
      OBVIOUS
    <3>1. Renewing(d) /\ d # c
      BY <1>3
    <3>2. Renewing(c)
      BY <2>4, <3>1 DEF Renewing
    <3> QED BY <2>2, <3>1, <3>2 DEF LineageInv
  <2> QED BY <1>3, <2>3, <2>5, <2>6, LineageGrown
<1> QED BY <1>4, <1>5 DEF Acquire

LEMMA LineageStep ==
    SupervisionTypeOK /\ LineageInv /\ [SupervisionNext]_supervisionVars => LineageInv'
<1> SUFFICES ASSUME SupervisionTypeOK, LineageInv, [SupervisionNext]_supervisionVars
             PROVE  LineageInv'
  OBVIOUS
<1>1. ASSUME NEW c \in Callers, CallerStep(c) PROVE LineageInv'
  <2>1. CASE Acquire(c)
    BY <2>1, LineageAcquired
  <2>2. CASE Release(c) /\ lease[call[c].lease].live
    BY <2>2, LineageReleased
  <2>3. CASE ~Acquire(c) /\ ~(Release(c) /\ lease[call[c].lease].live)
    <3>1. \A d \in Callers : Renewing(d)' => Renewing(d) /\ call'[d].lease = call[d].lease
      BY <1>1, <2>3, Onward DEF Renewing
    <3> QED BY <1>1, <2>3, <3>1, NoGrowth, LineageKept
  <2> QED BY <2>1, <2>2, <2>3
<1>2. CASE TaskWritten \/ LeaseEnds
  <2>1. UNCHANGED call
    BY <1>2 DEF TaskWritten, LeaseEnds
  <2>2. \A d \in Callers : Renewing(d)' => Renewing(d) /\ call'[d].lease = call[d].lease
    BY <2>1 DEF Renewing
  <2> QED BY <1>2, <2>2, NoGrowth, LineageKept
<1>3. CASE BrokerAcquires
  <2> DEFINE r == [live |-> TRUE, id |-> 0, from |-> 0]
  <2>1. Len(lease) \in Nat
    BY DEF SupervisionTypeOK
  <2>2. r \in LeaseRecords /\ r.from = 0
    BY DEF LeaseRecords
  <2>3. lease' = Append(lease, r) /\ Len(lease) < MaxLeases /\ UNCHANGED call
    BY <1>3 DEF BrokerAcquires
  <2> HIDE DEF r
  <2>4. Acquires(r)
    BY <2>1, <2>2, <2>3 DEF Acquires
  <2>5. \A d \in Callers : Renewing(d)' =>
          Renewing(d) /\ call'[d].lease = call[d].lease /\ call[d].lease # r.from
    BY <2>2, <2>3 DEF Renewing
  <2> QED BY <2>2, <2>4, <2>5, LineageGrown
<1>4. CASE Restart
  <2>1. \A d \in Callers : ~Renewing(d)'
    BY <1>4 DEF Restart, Renewing, NoCall, Begun
  <2> QED BY <1>4, <2>1, NoGrowth, LineageKept
<1>5. CASE UNCHANGED supervisionVars
  BY <1>5 DEF supervisionVars, holdings, LineageInv, RenewalIsOneLineage, Renewing
<1> QED BY <1>1, <1>2, <1>3, <1>4, <1>5 DEF SupervisionNext

(* A renewed lease has ended and has one successor, whichever renewals     *)
(* race, die half way or are replayed.                                     *)
THEOREM RenewalsAreOneLineage == SupervisionSpec => []RenewalIsOneLineage
<1>1. SupervisionInit => LineageInv
  BY DEF SupervisionInit, LineageInv, RenewalIsOneLineage, Renewing, NoCall, Begun
<1>2. LineageInv => RenewalIsOneLineage
  BY DEF LineageInv
<1> QED BY <1>1, <1>2, LineageStep, SupervisionTyping, PTL DEF SupervisionSpec

-----------------------------------------------------------------------------
(* The ledger.                                                             *)

LEMMA LedgerKept ==
    ASSUME LedgerInv, UNCHANGED ledger,
           \A d \in Callers : call'[d].at = "append" => call'[d] = call[d]
    PROVE  LedgerInv'
BY DEF LedgerInv, EpisodesStand, ledger

LEMMA EpisodeRead ==
    ASSUME SupervisionTypeOK, LedgerInv, NEW c \in Callers, ReadTask(c)
    PROVE  LedgerInv'
<1>1. UNCHANGED ledger /\ \A d \in Callers \ {c} : call'[d] = call[d]
  BY Onward DEF ReadTask, CallerStep
<1>2. call' = [call EXCEPT ![c].at = "append", ![c].revision = revision, ![c].episodes = episodes]
  BY DEF ReadTask
<1>3. call[c] \in CallRecords /\ c \in DOMAIN call /\ revision \in Nat
  BY DEF SupervisionTypeOK, CallOK
<1>4. call'[c].revision = revision /\ call'[c].episodes = episodes
  BY <1>2, <1>3 DEF CallRecords
<1> QED BY <1>1, <1>3, <1>4 DEF LedgerInv, EpisodesStand, ledger

(* A put over the revision that was read lengthens the stored episodes; an *)
(* IDENTICAL one finds its episode at its place.                           *)
LEMMA EpisodePut ==
    ASSUME SupervisionTypeOK, LedgerInv, NEW c \in Callers, PutEpisode(c)
    PROVE  LedgerInv'
<1>1. /\ call[c] \in CallRecords /\ call[c].at = "append" /\ revision \in Nat
      /\ episodes \in Seq(Episodes)
  BY DEF SupervisionTypeOK, CallOK, PutEpisode, At
<1>2. call[c].revision \in Nat /\ call[c].episodes \in Seq(Episodes)
  BY <1>1 DEF CallRecords
<1>3. \A d \in Callers : call'[d].at = "append" => d # c /\ call'[d] = call[d]
  <2>1. call' = [call EXCEPT ![c] = NoCall]
    BY DEF PutEpisode, EndCall
  <2>2. call'[c] = NoCall /\ \A d \in Callers \ {c} : call'[d] = call[d]
    BY <2>1, OneCall
  <2> QED BY <2>2 DEF NoCall, Begun
<1>4. ASSUME NEW e \in Episodes
      PROVE  LET q == Append(call[c].episodes, e) IN
             /\ DOMAIN q = 1..Len(call[c].episodes) + 1
             /\ \A i \in 1..Len(call[c].episodes) : q[i] = call[c].episodes[i]
             /\ q[Len(call[c].episodes) + 1] = e
  BY <1>2, AppendProperties
<1>5. \A d \in Callers : call[d].at = "append" =>
         call[d].revision \in Nat /\ call[d].revision <= revision
  BY DEF LedgerInv, SupervisionTypeOK, CallOK, CallRecords
<1>6. CASE \E e \in Episodes : revision = call[c].revision /\ Put(c, e) /\ AnswerEpisode(c, e)
  <2> PICK e \in Episodes : revision = call[c].revision /\ Put(c, e) /\ AnswerEpisode(c, e)
    BY <1>6
  <2>1. call[c].episodes = episodes
    BY <1>1 DEF LedgerInv
  <2>2. revision' = revision + 1 /\ episodes' = Append(episodes, e)
    BY <2>1 DEF Put
  <2>3. /\ DOMAIN episodes = 1..Len(episodes) /\ DOMAIN episodes' = 1..Len(episodes) + 1
        /\ \A i \in 1..Len(episodes) : episodes'[i] = episodes[i]
        /\ episodes'[Len(episodes) + 1] = e /\ Len(episodes) \in Nat
    BY <1>1, <1>4, <2>1, <2>2
  <2>4. answered' = answered \cup {[place |-> Len(episodes) + 1, episode |-> e]}
    BY <2>1 DEF AnswerEpisode
  <2>5. \A a \in answered : a.place \in DOMAIN episodes /\ episodes[a.place] = a.episode
    BY DEF LedgerInv, EpisodesStand
  <2>6. EpisodesStand'
    <3> SUFFICES ASSUME NEW a \in answered'
                 PROVE  a.place \in DOMAIN episodes' /\ episodes'[a.place] = a.episode
      BY DEF EpisodesStand
    <3>1. CASE a \in answered
      BY <2>3, <2>5, <3>1
    <3>2. CASE a = [place |-> Len(episodes) + 1, episode |-> e]
      BY <2>3, <3>2
    <3> QED BY <2>4, <3>1, <3>2
  <2> QED BY <1>1, <1>3, <1>5, <2>2, <2>6, SMTT(30) DEF LedgerInv
<1>7. CASE \E e \in Episodes : /\ episodes = Append(call[c].episodes, e) /\ AnswerEpisode(c, e)
                               /\ UNCHANGED <<revision, episodes>>
  <2> PICK e \in Episodes : /\ episodes = Append(call[c].episodes, e) /\ AnswerEpisode(c, e)
                            /\ UNCHANGED <<revision, episodes>>
    BY <1>7
  <2>1. Len(call[c].episodes) + 1 \in DOMAIN episodes /\ episodes[Len(call[c].episodes) + 1] = e
    BY <1>2, <1>4
  <2>2. EpisodesStand'
    BY <2>1 DEF EpisodesStand, LedgerInv, AnswerEpisode
  <2> QED BY <1>3, <2>2 DEF LedgerInv
<1>8. CASE UNCHANGED ledger
  BY <1>3, <1>8, LedgerKept
<1> QED BY <1>6, <1>7, <1>8 DEF PutEpisode

LEMMA LedgerStep ==
    SupervisionTypeOK /\ LedgerInv /\ [SupervisionNext]_supervisionVars => LedgerInv'
<1> SUFFICES ASSUME SupervisionTypeOK, LedgerInv, [SupervisionNext]_supervisionVars PROVE LedgerInv'
  OBVIOUS
<1>1. ASSUME NEW c \in Callers, CallerStep(c) PROVE LedgerInv'
  <2>1. CASE ReadTask(c)
    BY <2>1, EpisodeRead
  <2>2. CASE PutEpisode(c)
    BY <2>2, EpisodePut
  <2>3. CASE ~ReadTask(c) /\ ~PutEpisode(c)
    <3>1. \A d \in Callers : call'[d].at = "append" => call'[d] = call[d]
      BY <1>1, <2>3, Onward
    <3>2. CASE Begin(c)
      BY <3>1, <3>2, Begins, LedgerKept
    <3>3. CASE Quiet(c)
      BY <3>1, <3>3, QuietSteps, LedgerKept
    <3>4. CASE Classify(c) \/ Ingest(c)
      BY <3>1, <3>4, LedgerKept DEF Classify, Ingest
    <3> QED BY <1>1, <2>3, <3>2, <3>3, <3>4 DEF CallerStep, Begin, Quiet
  <2> QED BY <2>1, <2>2, <2>3
<1>2. CASE TaskWritten
  <2>1. revision' = revision + 1 /\ UNCHANGED <<episodes, answered, call>>
    BY <1>2 DEF TaskWritten
  <2>2. revision \in Nat /\ \A d \in Callers : call[d].revision \in Nat
    BY DEF SupervisionTypeOK, CallOK, CallRecords
  <2> QED BY <2>1, <2>2 DEF LedgerInv, EpisodesStand
<1>3. CASE BrokerAcquires \/ LeaseEnds
  BY <1>3, LedgerKept DEF BrokerAcquires, LeaseEnds
<1>4. CASE Restart
  BY <1>4, LedgerKept DEF Restart, NoCall, Begun
<1>5. CASE UNCHANGED supervisionVars
  BY <1>5, LedgerKept DEF supervisionVars
<1> QED BY <1>1, <1>2, <1>3, <1>4, <1>5 DEF SupervisionNext

(* A cost episode that was answered stays in the task record at the place  *)
(* its id gives, whatever races for the record.                            *)
THEOREM AnsweredEpisodesStand == SupervisionSpec => []EpisodesStand
<1>1. SupervisionInit => LedgerInv
  BY DEF SupervisionInit, LedgerInv, EpisodesStand, NoCall, Begun
<1>2. LedgerInv => EpisodesStand
  BY DEF LedgerInv
<1> QED BY <1>1, <1>2, LedgerStep, SupervisionTyping, PTL DEF SupervisionSpec

-----------------------------------------------------------------------------
(* The verdicts.                                                           *)

LEMMA WatchKept ==
    ASSUME WatchInv, UNCHANGED watch,
           \A d \in Callers : call'[d].at = "ingest" => call'[d] = call[d]
    PROVE  WatchInv'
BY DEF WatchInv, VerdictsAreStored, Unshared, Counted, Renumbered, watch

LEMMA VerdictCounted ==
    ASSUME SupervisionTypeOK, WatchInv, NEW c \in Callers, Classify(c), ~EndCall(c)
    PROVE  WatchInv'
<1>1. PICK l \in LeaseNumbers, n \in Nat :
         /\ l = call[c].lease /\ n = sequence[l] + 1
         /\ sequence[l] \in Nat /\ sequence \in [LeaseNumbers -> Nat]
  <2>1. call[c].lease \in LeaseNumbers /\ sequence \in [LeaseNumbers -> Nat]
    BY HeldLease DEF Classify, At, Holding, SupervisionTypeOK
  <2> QED BY <2>1
<1>2. sequence' = [sequence EXCEPT ![l] = n] /\ UNCHANGED <<events, told, before>>
  BY <1>1 DEF Classify
<1>3. PICK kind : call' = [call EXCEPT ![c].at = "ingest", ![c].number = n, ![c].kind = kind]
  BY <1>1 DEF Classify
<1>4. call[c] \in CallRecords /\ c \in DOMAIN call
  BY DEF SupervisionTypeOK, CallOK
<1>5. call'[c].number = n /\ call'[c].lease = l
  BY <1>1, <1>3, <1>4 DEF CallRecords
<1>6. \A d \in Callers \ {c} : call'[d] = call[d]
  BY Onward DEF CallerStep
<1>7. sequence'[l] = n /\ \A k \in LeaseNumbers \ {l} : sequence'[k] = sequence[k]
  BY <1>1, <1>2
<1>8. n \in Nat /\ sequence[l] < n
  BY <1>1
<1>9. \A k \in LeaseNumbers, i \in Nat : Counted(k, i) => Counted(k, i)' /\ (k = l => i < n)
  <2> SUFFICES ASSUME NEW k \in LeaseNumbers, NEW i \in Nat, i <= sequence[k]
               PROVE  i <= sequence'[k] /\ (k = l => i < n)
    BY DEF Counted
  <2>1. CASE k = l
    BY <1>1, <1>7, <1>8, <2>1
  <2>2. CASE k # l
    BY <1>7, <2>2
  <2> QED BY <2>1, <2>2
<1>10. \A e \in events : e.lease \in LeaseNumbers /\ e.number \in Nat
  BY DEF SupervisionTypeOK, Events
<1>11. \A d \in Callers :
          call[d].at = "ingest" => call[d].lease \in LeaseNumbers /\ call[d].number \in Nat
  BY HeldLease DEF Holding, SupervisionTypeOK, CallOK, CallRecords
<1>12. VerdictsAreStored'
  BY <1>2 DEF WatchInv, VerdictsAreStored
<1>13. \A e \in events : ~Renumbered(e.lease, e.number) => Counted(e.lease, e.number)'
  BY <1>9, <1>10 DEF WatchInv
<1>14. ASSUME ~Renumbered(l, n) PROVE Unshared(c)'
  <2>1. Counted(l, n)'
    BY <1>7, <1>8 DEF Counted
  <2>2. \A e \in events : e.lease = l => e.number # n
    BY <1>8, <1>9, <1>10, <1>14 DEF WatchInv
  <2>3. \A d \in Callers \ {c} : call[d].at = "ingest" /\ call[d].lease = l => call[d].number # n
    BY <1>8, <1>9, <1>11, <1>14 DEF WatchInv, Unshared
  <2> QED BY <1>2, <1>5, <1>6, <2>1, <2>2, <2>3 DEF Unshared, Counted
<1>15. ASSUME NEW d \in Callers \ {c}, call[d].at = "ingest",
              ~Renumbered(call[d].lease, call[d].number)
       PROVE  Unshared(d)'
  <2>1. Unshared(d) /\ call'[d] = call[d]
    BY <1>6, <1>15 DEF WatchInv
  <2>2. Counted(call[d].lease, call[d].number)'
    BY <1>6, <1>9, <1>11, <1>15, <2>1 DEF Unshared, Counted
  <2>3. ~(call'[c].lease = call[d].lease /\ call'[c].number = call[d].number)
    BY <1>5, <1>8, <1>9, <1>11, <1>15, <2>1 DEF Unshared
  <2>4. \A e \in Callers : call'[e].at = "ingest" /\ call'[e].lease = call[d].lease
                           /\ call'[e].number = call[d].number
                           => e = d
    BY <1>6, <2>1, <2>3 DEF Unshared
  <2> QED BY <1>2, <2>1, <2>2, <2>4 DEF Unshared, Counted
<1>16. \A d \in Callers :
          call'[d].at = "ingest" /\ ~Renumbered(call'[d].lease, call'[d].number) => Unshared(d)'
  BY <1>5, <1>6, <1>14, <1>15
<1> QED BY <1>2, <1>12, <1>13, <1>16 DEF WatchInv, Renumbered

LEMMA VerdictIngested ==
    ASSUME SupervisionTypeOK, WatchInv, NEW c \in Callers, Ingest(c)
    PROVE  WatchInv'
<1> DEFINE verdict == [lease |-> call[c].lease, number |-> call[c].number, kind |-> call[c].kind]
           stored == \E e \in events : e.lease = verdict.lease /\ e.number = verdict.number
<1>1. /\ events' = IF stored THEN events ELSE events \cup {verdict}
      /\ told' = told \cup {verdict} /\ UNCHANGED <<sequence, before>>
      /\ call[c].at = "ingest" /\ call' = [call EXCEPT ![c] = NoCall]
  BY DEF Ingest, EndCall, At
<1>2. verdict.lease = call[c].lease /\ verdict.number = call[c].number
  OBVIOUS
<1>3. ~Renumbered(call[c].lease, call[c].number) => Unshared(c) /\ ~stored
  BY <1>1 DEF WatchInv, Unshared
<1>4. events \subseteq events' /\ events' \subseteq events \cup {verdict}
  BY <1>1
<1>5. ~Renumbered(call[c].lease, call[c].number) => verdict \in events'
  BY <1>1, <1>3
<1>6. \A d \in Callers : call'[d].at = "ingest" => d # c /\ call'[d] = call[d]
  BY <1>1, OneCall DEF NoCall, Begun
<1> HIDE DEF verdict, stored
<1>7. VerdictsAreStored'
  <2> SUFFICES ASSUME NEW v \in told' PROVE v \in events' \/ Renumbered(v.lease, v.number)
    BY <1>1 DEF VerdictsAreStored, Renumbered
  <2>1. CASE v \in told
    BY <1>4, <2>1 DEF WatchInv, VerdictsAreStored, Renumbered
  <2>2. CASE v = verdict
    BY <1>2, <1>5, <2>2
  <2> QED BY <1>1, <2>1, <2>2
<1>8. ASSUME NEW e \in events', ~Renumbered(e.lease, e.number) PROVE Counted(e.lease, e.number)
  <2>1. CASE e \in events
    BY <1>8, <2>1 DEF WatchInv
  <2>2. CASE e = verdict
    BY <1>2, <1>3, <1>8, <2>2 DEF Unshared
  <2> QED BY <1>4, <2>1, <2>2
<1>9. ASSUME NEW d \in Callers, call'[d].at = "ingest",
             ~Renumbered(call'[d].lease, call'[d].number)
      PROVE  Unshared(d)'
  <2>1. d # c /\ call'[d] = call[d] /\ call[d].at = "ingest" /\ Unshared(d)
    BY <1>6, <1>9 DEF WatchInv
  <2>2. ~(verdict.lease = call[d].lease /\ verdict.number = call[d].number)
    BY <1>1, <1>2, <2>1 DEF Unshared
  <2>3. \A e \in events' : e.lease = call[d].lease => e.number # call[d].number
    BY <1>4, <2>1, <2>2 DEF Unshared
  <2>4. \A e \in Callers : call'[e].at = "ingest" /\ call'[e].lease = call[d].lease
                           /\ call'[e].number = call[d].number
                           => e = d
    BY <1>6, <2>1 DEF Unshared
  <2> QED BY <1>1, <2>1, <2>3, <2>4 DEF Unshared, Counted
<1> QED BY <1>1, <1>7, <1>8, <1>9 DEF WatchInv, Counted, Renumbered

LEMMA VerdictsRestart ==
    ASSUME SupervisionTypeOK, WatchInv, Restart
    PROVE  WatchInv'
<1>1. /\ before' = [l \in LeaseNumbers |-> IF sequence[l] > before[l] THEN sequence[l] ELSE before[l]]
      /\ UNCHANGED <<events, told>> /\ call' = [c \in Callers |-> NoCall]
  BY DEF Restart
<1>2. \A l \in LeaseNumbers, n \in Nat : Renumbered(l, n) \/ Counted(l, n) => Renumbered(l, n)'
  <2>1. sequence \in [LeaseNumbers -> Nat] /\ before \in [LeaseNumbers -> Nat]
    BY DEF SupervisionTypeOK
  <2>2. \A l \in LeaseNumbers : before'[l] \in Nat /\ before[l] <= before'[l] /\ sequence[l] <= before'[l]
    BY <1>1, <2>1
  <2> QED BY <2>1, <2>2 DEF Renumbered, Counted
<1>3. VerdictsAreStored' /\ \A e \in events : Renumbered(e.lease, e.number)'
  <2>1. \A e \in events \cup told : e.lease \in LeaseNumbers /\ e.number \in Nat
    BY DEF SupervisionTypeOK, Events
  <2>2. VerdictsAreStored'
    BY <1>1, <1>2, <2>1 DEF WatchInv, VerdictsAreStored, Renumbered
  <2>3. \A e \in events : Renumbered(e.lease, e.number)'
    BY <1>2, <2>1 DEF WatchInv
  <2> QED BY <2>2, <2>3
<1>4. \A d \in Callers : call'[d].at # "ingest"
  BY <1>1 DEF NoCall, Begun
<1> QED BY <1>1, <1>3, <1>4 DEF WatchInv, Renumbered

LEMMA WatchStep == SupervisionTypeOK /\ WatchInv /\ [SupervisionNext]_supervisionVars => WatchInv'
<1> SUFFICES ASSUME SupervisionTypeOK, WatchInv, [SupervisionNext]_supervisionVars PROVE WatchInv'
  OBVIOUS
<1>1. ASSUME NEW c \in Callers, CallerStep(c) PROVE WatchInv'
  <2>1. CASE Classify(c) /\ ~EndCall(c)
    BY <2>1, VerdictCounted
  <2>2. CASE Ingest(c)
    BY <2>2, VerdictIngested
  <2>3. CASE Classify(c) /\ EndCall(c)
    <3>1. call' = [call EXCEPT ![c] = NoCall]
      BY <2>3 DEF EndCall
    <3>2. \A d \in Callers : call'[d].at = "ingest" => call'[d] = call[d]
      BY <3>1, OneCall DEF NoCall, Begun
    <3>3. UNCHANGED <<events, told, before>>
      BY <2>3 DEF Classify
    <3>4. \A k \in LeaseNumbers, i \in Nat : Counted(k, i) => Counted(k, i)'
      <4>1. sequence' = sequence \/ sequence' = [sequence EXCEPT ![call[c].lease] = @ + 1]
        BY <2>3 DEF Classify
      <4>2. sequence \in [LeaseNumbers -> Nat]
        BY DEF SupervisionTypeOK
      <4>3. \A k \in LeaseNumbers : sequence[k] \in Nat /\ sequence[k] <= sequence'[k]
        BY <4>1, <4>2
      <4>4. \A k \in LeaseNumbers : sequence'[k] \in Nat
        BY <4>1, <4>2
      <4> QED BY <4>3, <4>4 DEF Counted
    <3>5. \A e \in events : e.lease \in LeaseNumbers /\ e.number \in Nat
      BY DEF SupervisionTypeOK, Events
    <3>6. \A d \in Callers :
             call[d].at = "ingest" => call[d].lease \in LeaseNumbers /\ call[d].number \in Nat
      BY HeldLease DEF Holding, SupervisionTypeOK, CallOK, CallRecords
    <3>7. VerdictsAreStored'
      BY <3>3 DEF WatchInv, VerdictsAreStored
    <3>8. \A e \in events : ~Renumbered(e.lease, e.number) => Counted(e.lease, e.number)'
      BY <3>4, <3>5 DEF WatchInv
    <3>9. ASSUME NEW d \in Callers, call'[d].at = "ingest",
                 ~Renumbered(call'[d].lease, call'[d].number)
          PROVE  Unshared(d)'
      <4>1. call'[d] = call[d] /\ call[d].at = "ingest" /\ Unshared(d)
        BY <3>2, <3>9 DEF WatchInv
      <4>2. Counted(call[d].lease, call[d].number)'
        BY <3>4, <3>6, <4>1 DEF Unshared, Counted
      <4> QED BY <3>2, <3>3, <4>1, <4>2 DEF Unshared, Counted
    <3> QED BY <3>3, <3>7, <3>8, <3>9 DEF WatchInv, Renumbered
  <2>4. CASE ~Classify(c) /\ ~Ingest(c)
    <3>1. \A d \in Callers : call'[d].at = "ingest" => call'[d] = call[d]
      BY <1>1, <2>4, Onward
    <3>2. UNCHANGED watch
      <4>1. CASE Begin(c)
        BY <4>1, Begins
      <4>2. CASE Quiet(c)
        BY <4>2, QuietSteps
      <4>3. CASE PutEpisode(c)
        BY <4>3 DEF PutEpisode
      <4> QED BY <1>1, <2>4, <4>1, <4>2, <4>3 DEF CallerStep, Begin, Quiet
    <3> QED BY <3>1, <3>2, WatchKept
  <2> QED BY <2>1, <2>2, <2>3, <2>4
<1>2. CASE TaskWritten \/ BrokerAcquires \/ LeaseEnds
  BY <1>2, WatchKept DEF TaskWritten, BrokerAcquires, LeaseEnds
<1>3. CASE Restart
  BY <1>3, VerdictsRestart
<1>4. CASE UNCHANGED supervisionVars
  BY <1>4, WatchKept DEF supervisionVars
<1> QED BY <1>1, <1>2, <1>3, <1>4 DEF SupervisionNext

(* A verdict that supervise returned is stored, or a restart made the      *)
(* supervisor count from one again for its lease.                          *)
THEOREM ReturnedVerdictsAreStored == SupervisionSpec => []VerdictsAreStored
<1>1. SupervisionInit => WatchInv
  BY DEF SupervisionInit, WatchInv, VerdictsAreStored, NoCall, Begun
<1>2. WatchInv => VerdictsAreStored
  BY DEF WatchInv
<1> QED BY <1>1, <1>2, WatchStep, SupervisionTyping, PTL DEF SupervisionSpec

-----------------------------------------------------------------------------
(***************************************************************************)
(* Proofs about one body lease, for any clients, bodies, expiries and      *)
(* bounds.  Every write in flight was computed from a record that was once *)
(* stored, and the guarded write lets it replace only that record; so      *)
(* whatever a write may not do to the record it was computed from, it does *)
(* not do to the durable lease.                                            *)
(***************************************************************************)

USE LeaseAssumption

(* The three things an engine step of a client may be.  It returns with an *)
(* answer, having perhaps refreshed the cache,                             *)
Answers(c) == {NoRecord, row, cache}
    \cup (IF pc[c] = "get_fill" THEN {cur[c]} ELSE {})
    \cup (IF pc[c] = "put_cache" THEN {op[c].rec} ELSE {})

Returns(c) ==
    /\ pc[c] # "idle"
    /\ \E k \in Kinds, r \in Answers(c) : Finish(c, k, r)
    /\ cache' \in Answers(c)
    /\ UNCHANGED <<row, version, history>>

(* it goes on to the next await, having perhaps read the row,              *)
Moves(c) ==
    \E s \in (PutWaits \cup GetWaits) \ {"put_cache"} :
        /\ pc' = [pc EXCEPT ![c] = s]
        /\ s \in PutWaits <=> pc[c] \in PutWaits
        /\ s \in GetWaits <=> pc[c] \in GetWaits
        /\ ReadRow(c) \/ UNCHANGED <<cur, curVersion>>
        /\ s \in {"put_cas", "get_fill"} => ReadRow(c) /\ row # NoRecord
        /\ s = "put_reread" => row # NoRecord
        /\ s = "put_cas" => Conflict(op[c].rec, op[c].exp, row) = "none"
        /\ UNCHANGED <<row, version, cache, history, op, res, raced>>

(* or it stores its record, over no row or over the row it judged.         *)
Stores(c) ==
    /\ pc[c] \in {"put_insert", "put_cas"} /\ WriteRow(c)
    /\ pc[c] = "put_insert" => row = NoRecord
    /\ pc[c] = "put_cas" => version = curVersion[c]
    /\ pc' = [pc EXCEPT ![c] = "put_cache"]
    /\ UNCHANGED <<cache, op, cur, curVersion, res>>

LEMMA JudgeIsOne ==
    ASSUME LeaseTypeOK, NEW c \in Clients, pc[c] \in {"put_read", "put_reread"}, JudgePut(c),
           pc[c] = "put_read" => row # NoRecord,
           pc[c] = "put_reread" => row # NoRecord,
           UNCHANGED <<row, version, cache, history>>
    PROVE  Returns(c) \/ Moves(c)
<1>1. ASSUME NEW k \in Kinds, Finish(c, k, row) PROVE Returns(c)
  BY <1>1 DEF Returns, Answers
<1>2. CASE ReadRow(c) /\ pc' = [pc EXCEPT ![c] = "put_cas"] /\ UNCHANGED <<res, op, raced>>
           /\ Conflict(op[c].rec, op[c].exp, row) = "none"
  BY <1>2 DEF Moves, PutWaits, GetWaits
<1>3. Conflict(op[c].rec, op[c].exp, row) \in Refusals \cup {"none"}
  BY DEF Conflict, Refusals
<1> QED BY <1>1, <1>2, <1>3 DEF JudgePut, Kinds

LEMMA EngineStep ==
    ASSUME LeaseTypeOK, NEW c \in Clients, EngineCall(c),
           pc[c] = "put_reread" => row # NoRecord
    PROVE  Returns(c) \/ Moves(c) \/ Stores(c)
<1> USE DEF LeaseTypeOK, TypeOK
<1>1. CASE PutRead(c) /\ row # NoRecord
  BY <1>1, JudgeIsOne DEF PutRead
<1>2. CASE PutRead(c) /\ row = NoRecord
  BY <1>2 DEF PutRead, JudgePut, Moves, PutWaits, GetWaits, Finish, DropLocals
<1>3. CASE PutReread(c)
  BY <1>3, JudgeIsOne DEF PutReread
<1>4. CASE PutInsert(c)
  BY <1>4 DEF PutInsert, Stores, Moves, PutWaits, GetWaits, aux
<1>5. CASE PutCas(c)
  BY <1>5 DEF PutCas, Stores, Moves, PutWaits, GetWaits, aux
<1>6. CASE PutFresh(c)
  BY <1>6 DEF PutFresh, Returns, Answers, Kinds, Refusals
<1>7. CASE PutCache(c)
  BY <1>7 DEF PutCache, SetCache, Returns, Answers, Kinds
<1>8. CASE GetCache(c)
  <2>1. CASE Finish(c, "FOUND", cache)
    BY <1>8, <2>1 DEF GetCache, Returns, Answers, Kinds
  <2>2. CASE ~Finish(c, "FOUND", cache)
    BY <1>8, <2>2 DEF GetCache, Moves, PutWaits, GetWaits
  <2> QED BY <2>1, <2>2
<1>9. CASE GetRead(c)
  <2>1. CASE Finish(c, "FOUND", NoRecord)
    BY <1>9, <2>1 DEF GetRead, Returns, Answers, Kinds
  <2>2. CASE ~Finish(c, "FOUND", NoRecord)
    BY <1>9, <2>2 DEF GetRead, Moves, PutWaits, GetWaits
  <2> QED BY <2>1, <2>2
<1>10. CASE GetFill(c)
  BY <1>10 DEF GetFill, SetCache, Returns, Answers, Kinds
<1> QED BY <1>1, <1>2, <1>3, <1>4, <1>5, <1>6, <1>7, <1>8, <1>9, <1>10 DEF EngineCall

LEMMA AbandonReturns ==
    ASSUME LeaseTypeOK, NEW c \in Clients, Abandon(c)
    PROVE  Returns(c)
BY DEF Abandon, Returns, Answers, Finish, Answer, None, Kinds

-----------------------------------------------------------------------------
(* Type correctness.                                                       *)

LEMMA ReturnsType ==
    ASSUME LeaseTypeOK, NEW c \in Clients, Returns(c)
    PROVE  TypeOK'
<1>1. PICK k \in Kinds, r \in Answers(c) : Finish(c, k, r)
  BY DEF Returns
<1>2. \A a \in Answers(c) : a \in Leases \cup {NoRecord}
  BY DEF Answers, LeaseTypeOK, TypeOK
<1>3. Answer(k, r) \in [kind : Kinds, rec : Leases \cup {NoRecord}]
  BY <1>2 DEF Answer
<1>4. res' \in [Clients -> [kind : Kinds, rec : Leases \cup {NoRecord}]]
  BY <1>1, <1>3 DEF Finish, LeaseTypeOK, TypeOK
<1>5. op' \in [Clients -> [rec : Leases \cup {NoRecord}, exp : Int]]
  BY <1>1 DEF Finish, DropLocals, NoOp, NoExpected, LeaseTypeOK, TypeOK
<1>6. pc' = [pc EXCEPT ![c] = "idle"] /\ op' = [op EXCEPT ![c] = NoOp]
  BY <1>1 DEF Finish, DropLocals
<1>7. \A d \in Clients : pc'[d] \in PutWaits => op'[d].rec \in Leases
  BY <1>6 DEF PutWaits, LeaseTypeOK, TypeOK
<1>8. /\ pc' \in [Clients -> {"idle"} \cup PutWaits \cup GetWaits]
      /\ cur' \in [Clients -> Leases \cup {NoRecord}]
      /\ curVersion' \in [Clients -> Nat]
      /\ raced' \in [Clients -> BOOLEAN]
  BY <1>1 DEF Finish, DropLocals, LeaseTypeOK, TypeOK
<1>9. cache' \in Leases \cup {NoRecord}
  BY <1>2 DEF Returns
<1> QED BY <1>4, <1>5, <1>7, <1>8, <1>9 DEF Returns, LeaseTypeOK, TypeOK

LEMMA MovesType ==
    ASSUME LeaseTypeOK, NEW c \in Clients, Moves(c)
    PROVE  TypeOK'
<1>1. PICK s \in (PutWaits \cup GetWaits) \ {"put_cache"} :
        /\ pc' = [pc EXCEPT ![c] = s]
        /\ s \in PutWaits <=> pc[c] \in PutWaits
        /\ ReadRow(c) \/ UNCHANGED <<cur, curVersion>>
        /\ UNCHANGED <<row, version, cache, history, op, res, raced>>
  BY DEF Moves
<1>2. pc' \in [Clients -> {"idle"} \cup PutWaits \cup GetWaits]
  BY <1>1 DEF LeaseTypeOK, TypeOK
<1>3. cur' \in [Clients -> Leases \cup {NoRecord}] /\ curVersion' \in [Clients -> Nat]
  <2>1. /\ cur \in [Clients -> Leases \cup {NoRecord}] /\ curVersion \in [Clients -> Nat]
        /\ row \in Leases \cup {NoRecord} /\ version \in Nat
    BY DEF LeaseTypeOK, TypeOK
  <2>2. CASE ReadRow(c)
    BY <2>1, <2>2 DEF ReadRow
  <2>3. CASE UNCHANGED <<cur, curVersion>>
    BY <2>1, <2>3
  <2> QED BY <1>1, <2>2, <2>3
<1>4. \A d \in Clients : pc'[d] \in PutWaits => op'[d].rec \in Leases
  BY <1>1 DEF LeaseTypeOK, TypeOK
<1> QED BY <1>1, <1>2, <1>3, <1>4 DEF LeaseTypeOK, TypeOK

LEMMA StoresType ==
    ASSUME LeaseTypeOK, NEW c \in Clients, Stores(c)
    PROVE  TypeOK'
<1>1. pc[c] \in PutWaits /\ "put_cache" \in PutWaits
  BY DEF Stores, PutWaits
<1>2. row' \in Leases /\ version' \in Nat /\ history' \subseteq Leases
  BY <1>1 DEF Stores, WriteRow, LeaseTypeOK, TypeOK
<1>3. raced' \in [Clients -> BOOLEAN]
  BY Zenon DEF Stores, WriteRow
<1> QED BY <1>1, <1>2, <1>3 DEF Stores, LeaseTypeOK, TypeOK

LEMMA StartPutType ==
    ASSUME LeaseTypeOK, NEW c \in Clients, NEW r \in Leases, NEW e \in Int, StartPut(c, r, e)
    PROVE  TypeOK'
BY DEF StartPut, None, Answer, aux, PutWaits, GetWaits, Kinds, Refusals, LeaseTypeOK, TypeOK

LEMMA StartGetType ==
    ASSUME LeaseTypeOK, NEW c \in Clients, StartGet(c)
    PROVE  TypeOK'
BY DEF StartGet, None, NoOp, NoExpected, aux, PutWaits, GetWaits, Kinds, LeaseTypeOK, TypeOK

LEMMA ConsumedType ==
    ASSUME LeaseTypeOK, NEW c \in Clients, Consumed(c)
    PROVE  TypeOK'
BY DEF Consumed, None, Kinds, LeaseTypeOK, TypeOK

(* What a call hands the engine has the type of its arguments.             *)
LEMMA LeaseWrites ==
    /\ NoRecord \notin Leases
    /\ \A b \in Bodies, e \in Expiries :
          [rev |-> 1, state |-> "ACTIVE", body |-> b, expires |-> e] \in Leases
    /\ \A l \in Leases : l.rev \in Nat /\ l.state \in LeaseStates /\ NextRevision(l) \in Leases
    /\ \A l \in Leases, s \in LeaseStates : [NextRevision(l) EXCEPT !.state = s] \in Leases
    /\ \A l \in Leases, e \in Nat : [NextRevision(l) EXCEPT !.expires = e] \in Leases
<1>1. NoRecord \notin Leases
  OBVIOUS
<1>2. ASSUME NEW b \in Bodies, NEW e \in Expiries
      PROVE  [rev |-> 1, state |-> "ACTIVE", body |-> b, expires |-> e] \in Leases
  BY DEF Leases, LeaseStates
<1>3. ASSUME NEW l \in Leases
      PROVE  l.rev \in Nat /\ l.state \in LeaseStates /\ NextRevision(l) \in Leases
  BY DEF Leases, NextRevision
<1>4. ASSUME NEW l \in Leases, NEW s \in LeaseStates
      PROVE  [NextRevision(l) EXCEPT !.state = s] \in Leases
  BY <1>3 DEF Leases
<1>5. ASSUME NEW l \in Leases, NEW e \in Nat
      PROVE  [NextRevision(l) EXCEPT !.expires = e] \in Leases
  BY <1>3 DEF Leases
<1> QED BY <1>1, <1>2, <1>3, <1>4, <1>5

LEMMA PutEndedType ==
    ASSUME LeaseTypeOK, NEW c \in Clients, NEW l \in Leases, NEW s \in LeaseStates,
           PutEnded(c, l, s), UNCHANGED <<now, mirror>>, liveSeen' \in [Clients -> BOOLEAN]
    PROVE  LeaseTypeOK'
<1>1. TypeOK'
  BY StartPutType, LeaseWrites DEF PutEnded
<1>2. stage' \in [Clients -> Stages] /\ UNCHANGED <<at, arg, base>>
  BY DEF PutEnded, Goto, Stages, LeaseTypeOK
<1> QED BY <1>1, <1>2 DEF LeaseTypeOK

LEMMA DoneType ==
    ASSUME LeaseTypeOK, NEW c \in Clients, Over(c), TypeOK', now' = now, mirror' \in BOOLEAN,
           liveSeen' \in [Clients -> BOOLEAN]
    PROVE  LeaseTypeOK'
BY DEF LeaseTypeOK, Over, Goto, Stages, NoArg, LeaseStates

LEMMA MirrorType ==
    ASSUME LeaseTypeOK, NEW c \in Clients, NEW h \in BOOLEAN, SetMirror(c, h)
    PROVE  mirror' \in BOOLEAN
BY Zenon DEF SetMirror, LeaseTypeOK

LEMMA WatchType ==
    ASSUME WatchGate
    PROVE  liveSeen' \in [Clients -> BOOLEAN]
BY Zenon DEF WatchGate

LEMMA CallType ==
    ASSUME LeaseTypeOK, WatchGate, NEW c \in Clients, Call(c)
    PROVE  LeaseTypeOK'
<1> USE WatchType DEF LeaseTypeOK
<1>1. CASE BeginAcquire(c)
  <2>1. TypeOK'
    BY <1>1, StartPutType, LeaseWrites DEF BeginAcquire
  <2> QED BY <1>1, <2>1 DEF BeginAcquire, Goto, Stages
<1>2. CASE BeginEnd(c)
  BY <1>2, StartGetType DEF BeginEnd, Goto, Stages, LeaseStates, TerminalStates
<1>3. CASE BeginExpire(c)
  BY <1>3, ConsumedType DEF BeginExpire, Goto, Stages
<1>4. CASE BeginRenew(c)
  BY <1>4, StartGetType DEF BeginRenew, Goto, Stages, LeaseStates
<1>5. CASE BeginGate(c)
  BY <1>5, StartGetType DEF BeginGate, Goto, Stages
<1> QED BY <1>1, <1>2, <1>3, <1>4, <1>5 DEF Call

LEMMA ContinueType ==
    ASSUME LeaseTypeOK, WatchGate, NEW c \in Clients, Continue(c),
           stage[c] = "renew_gate" => base[c] # NoRecord
    PROVE  LeaseTypeOK'
<1> USE WatchType
<1>0. ASSUME Done(c), now' = now, mirror' \in BOOLEAN PROVE LeaseTypeOK'
  BY <1>0, ConsumedType, DoneType DEF Done
<1>m. mirror \in BOOLEAN /\ res[c].rec \in Leases \cup {NoRecord} /\ row \in Leases \cup {NoRecord}
  BY DEF LeaseTypeOK, TypeOK
<1>1. CASE AcquireDone(c) \/ EndDone(c)
  BY <1>0, <1>1, MirrorType DEF AcquireDone, EndDone
<1>2. CASE EndJudge(c)
  <2>1. arg[c].to \in LeaseStates
    BY DEF LeaseTypeOK
  <2> QED BY <1>0, <1>2, <1>m, <2>1, PutEndedType DEF EndJudge
<1>3. CASE ExpireJudge(c)
  <2>1. "EXPIRED" \in LeaseStates
    BY DEF LeaseStates, TerminalStates
  <2> QED BY <1>0, <1>3, <1>m, <2>1, PutEndedType DEF ExpireJudge
<1>4. CASE RenewRead(c)
  <2>1. CASE Done(c)
    BY <1>0, <1>4, <1>m, <2>1 DEF RenewRead
  <2>2. CASE ~Done(c)
    <3>1. TypeOK' /\ UNCHANGED <<now, mirror, arg>>
      BY <1>4, <2>2, StartGetType DEF RenewRead
    <3>2. base' \in [Clients -> Leases \cup {NoRecord}] /\ at' \in [Clients -> Nat]
      BY <1>4, <1>m, <2>2 DEF RenewRead, LeaseTypeOK
    <3>3. stage' \in [Clients -> Stages]
      BY <1>4, <2>2 DEF RenewRead, Goto, Stages, LeaseTypeOK
    <3> QED BY <3>1, <3>2, <3>3 DEF LeaseTypeOK
  <2> QED BY <2>1, <2>2
<1>5. CASE RenewJudge(c)
  <2>1. CASE Done(c)
    BY <1>0, <1>5, <1>m, <2>1 DEF RenewJudge
  <2>2. CASE ~Done(c)
    <3>1. base[c] \in Leases /\ arg[c].until \in Nat
      BY <1>5, <2>2 DEF RenewJudge, Returned, LeaseTypeOK
    <3>2. TypeOK'
      <4>1. /\ [NextRevision(base[c]) EXCEPT !.expires = arg[c].until] \in Leases
            /\ base[c].rev \in Int
        BY <3>1, LeaseWrites
      <4>2. StartPut(c, [NextRevision(base[c]) EXCEPT !.expires = arg[c].until], base[c].rev)
        BY <1>5, <2>2 DEF RenewJudge
      <4> QED BY <4>1, <4>2, StartPutType
    <3> QED BY <1>5, <2>2, <3>2 DEF RenewJudge, Goto, Stages, LeaseTypeOK
  <2> QED BY <2>1, <2>2
<1>6. CASE RenewDone(c) \/ GateDone(c)
  BY <1>0, <1>6, <1>m DEF RenewDone, GateDone
<1> QED BY <1>1, <1>2, <1>3, <1>4, <1>5, <1>6 DEF Continue

-----------------------------------------------------------------------------
(* A record may be stored over revision e: it is an acquisition, or it     *)
(* follows a record of that revision that was stored.                      *)
Renews(r, b) == r = [NextRevision(b) EXCEPT !.expires = r.expires]
Ends(r, b) ==
    /\ b.state = "ACTIVE" /\ r.state \in TerminalStates
    /\ r = [NextRevision(b) EXCEPT !.state = r.state]

Follows(r, e) ==
    \/ e = 0 /\ r.rev = 1 /\ r.state = "ACTIVE"
    \/ \E b \in history : e = b.rev /\ (Renews(r, b) \/ Ends(r, b))

Stored(r) == r \in history \cup {NoRecord}

(* What a client holds was stored, what it is going to store follows a     *)
(* stored record, and what it judged is the row while the version stands.  *)
ClientOK(c) ==
    /\ Stored(cur[c]) /\ Stored(base[c]) /\ Stored(res[c].rec)
    /\ stage[c] = "none" => pc[c] = "idle"
    /\ stage[c] = "end_get" => arg[c].to \in TerminalStates
    /\ stage[c] = "renew_gate" => base[c] # NoRecord
    /\ pc[c] = "put_reread" => row # NoRecord
    /\ pc[c] = "put_cache" => op[c].rec \in history
    /\ pc[c] \in PutWaits => Follows(op[c].rec, op[c].exp)
    /\ pc[c] = "put_cas" =>
          /\ cur[c] # NoRecord /\ curVersion[c] <= version
          /\ curVersion[c] = version => cur[c] = row
          /\ Conflict(op[c].rec, op[c].exp, cur[c]) = "none"

(* The row is the latest of the stored records, told apart by revision.    *)
RowOK ==
    /\ row = NoRecord => history = {}
    /\ row # NoRecord => row \in history
    /\ \A r \in history : r.rev <= row.rev /\ (r.rev = row.rev => r = row)
    /\ Stored(cache)

LeaseInv == LeaseTypeOK /\ RowOK /\ \A c \in Clients : ClientOK(c)

(* The write of a client: an acquisition where there was no lease, or the  *)
(* successor of the durable lease.                                         *)
LEMMA StoredFollows ==
    ASSUME LeaseInv, NEW c \in Clients, Stores(c)
    PROVE  /\ row' = op[c].rec /\ row' \in Leases /\ history' = history \cup {row'}
           /\ \/ row = NoRecord /\ row'.rev = 1 /\ row'.state = "ACTIVE"
              \/ row # NoRecord /\ (Renews(row', row) \/ Ends(row', row))
<1>1. /\ row' = op[c].rec /\ op[c].rec \in Leases /\ history' = history \cup {row'}
      /\ Follows(op[c].rec, op[c].exp) /\ row \in Leases \cup {NoRecord}
  BY DEF Stores, WriteRow, PutWaits, LeaseInv, ClientOK, LeaseTypeOK, TypeOK
<1>2. CASE row = NoRecord
  <2>1. history = {}
    BY <1>2 DEF LeaseInv, RowOK
  <2> QED BY <1>1, <1>2, <2>1 DEF Follows
<1>3. CASE row # NoRecord
  <2>1. pc[c] = "put_cas" /\ version = curVersion[c] /\ ClientOK(c)
    BY <1>3 DEF Stores, LeaseInv
  <2>2. Conflict(op[c].rec, op[c].exp, row) = "none"
    BY <2>1 DEF ClientOK
  <2>3. row.rev # 0 /\ (op[c].exp = -1 \/ op[c].exp = row.rev)
    BY <2>2 DEF Conflict, NoRevision, NoExpected
  <2>4. PICK b \in history : op[c].exp = b.rev /\ (Renews(op[c].rec, b) \/ Ends(op[c].rec, b))
    BY <1>1, <2>3 DEF Follows
  <2>5. b.rev \in Nat
    BY LeaseWrites DEF LeaseInv, LeaseTypeOK, TypeOK
  <2>6. b = row
    BY <2>3, <2>4, <2>5 DEF LeaseInv, RowOK
  <2> QED BY <1>1, <1>3, <2>4, <2>6
<1> QED BY <1>1, <1>2, <1>3

LEMMA NextIsOneMore ==
    ASSUME NEW b \in Leases, NEW r \in Leases, Renews(r, b) \/ Ends(r, b)
    PROVE  r.rev = b.rev + 1
BY DEF Renews, Ends, NextRevision, Leases

LEMMA RowStored ==
    ASSUME LeaseInv, NEW c \in Clients, Stores(c)
    PROVE  RowOK'
<1>1. row' \in Leases /\ row' # NoRecord /\ history' = history \cup {row'} /\ cache' = cache
  BY StoredFollows, LeaseWrites DEF Stores
<1>2. ASSUME NEW r \in history PROVE r.rev < row'.rev
  <2>1. row # NoRecord /\ row \in Leases /\ r.rev <= row.rev /\ r \in Leases
    BY DEF LeaseInv, RowOK, LeaseTypeOK, TypeOK
  <2>2. row'.rev = row.rev + 1
    BY <1>1, <2>1, StoredFollows, NextIsOneMore
  <2> QED BY <2>1, <2>2, LeaseWrites
<1>3. \A r \in history : r.rev \in Nat
  BY LeaseWrites DEF LeaseInv, LeaseTypeOK, TypeOK
<1>4. row'.rev \in Nat
  BY <1>1, LeaseWrites
<1> QED BY <1>1, <1>2, <1>3, <1>4 DEF LeaseInv, RowOK, Stored

(* A client that does not move keeps what it has, whatever is stored.      *)
Kept(d) ==
    /\ pc'[d] = pc[d] /\ op'[d] = op[d] /\ cur'[d] = cur[d] /\ curVersion'[d] = curVersion[d]
    /\ res'[d] = res[d] /\ stage'[d] = stage[d] /\ base'[d] = base[d]
    /\ arg'[d] = arg[d] /\ at'[d] = at[d]

Grows ==
    /\ history \subseteq history'
    /\ version' = version + 1 \/ UNCHANGED <<row, version>>
    /\ row # NoRecord => row' # NoRecord

LEMMA KeptClient ==
    ASSUME LeaseInv, NEW d \in Clients, Kept(d), Grows
    PROVE  ClientOK(d)'
<1>1. ClientOK(d) /\ version \in Nat /\ curVersion[d] \in Nat
  BY DEF LeaseInv, LeaseTypeOK, TypeOK
<1>2. Stored(cur[d])' /\ Stored(base[d])' /\ Stored(res[d].rec)'
  BY <1>1 DEF ClientOK, Stored, Kept, Grows
<1>3. Follows(op[d].rec, op[d].exp) => Follows(op[d].rec, op[d].exp)'
  <2>1. op'[d] = op[d] /\ history \subseteq history'
    BY DEF Kept, Grows
  <2> QED BY <2>1, ZenonT(60) DEF Follows, Renews, Ends, NextRevision
<1>4. pc'[d] = "put_cas" =>
          /\ cur'[d] # NoRecord /\ curVersion'[d] <= version'
          /\ curVersion'[d] = version' => cur'[d] = row'
          /\ Conflict(op[d].rec, op[d].exp, cur[d])' = "none"
  BY <1>1 DEF ClientOK, Kept, Grows, Conflict
<1> QED BY <1>1, <1>2, <1>3, <1>4 DEF ClientOK, Kept, Grows

LEMMA OthersKept ==
    ASSUME LeaseTypeOK, NEW c \in Clients, NEW d \in Clients, c # d,
           Call(c) \/ Continue(c) \/ EngineRuns(c) \/ Crash(c)
    PROVE  Kept(d)
<1> USE DEF Kept, LeaseTypeOK, TypeOK
<1>1. CASE Call(c)
  BY <1>1 DEF Call, BeginAcquire, BeginEnd, BeginExpire, BeginRenew, BeginGate, StartPut, StartGet,
              Consumed, Goto
<1>2. CASE Continue(c)
  <2>1. CASE Done(c)
    BY <2>1 DEF Done, Over, Goto, Consumed
  <2>2. CASE ~Done(c)
    BY <1>2, <2>2 DEF Continue, AcquireDone, EndJudge, EndDone, ExpireJudge, RenewRead, RenewJudge,
                      RenewDone, GateDone, PutEnded, StartPut, StartGet, Goto
  <2> QED BY <2>1, <2>2
<1>3. CASE EngineRuns(c)
  <2> USE DEF Finish, DropLocals, jobVars
  <2>1. CASE PutRead(c) \/ PutReread(c)
    BY <1>3, <2>1 DEF EngineRuns, PutRead, PutReread, JudgePut, ReadRow
  <2>2. CASE PutInsert(c) \/ PutCas(c)
    BY <1>3, <2>2 DEF EngineRuns, PutInsert, PutCas, WriteRow
  <2>3. CASE PutFresh(c) \/ PutCache(c)
    BY <1>3, <2>3 DEF EngineRuns, PutFresh, PutCache
  <2>4. CASE GetCache(c) \/ GetRead(c) \/ GetFill(c)
    BY <1>3, <2>4 DEF EngineRuns, GetCache, GetRead, GetFill, ReadRow
  <2> QED BY <1>3, <2>1, <2>2, <2>3, <2>4 DEF EngineRuns, EngineCall
<1>4. CASE Crash(c)
  BY <1>4 DEF Crash, Abandon, DropLocals, Over, Goto
<1> QED BY <1>1, <1>2, <1>3, <1>4

LEMMA ReturnsClient ==
    ASSUME LeaseInv, NEW c \in Clients, Returns(c),
           UNCHANGED <<base, stage, arg>> \/ Over(c)
    PROVE  ClientOK(c)' /\ Grows /\ RowOK'
<1>1. PICK k \in Kinds, r \in Answers(c) : Finish(c, k, r)
  BY DEF Returns
<1>2. \A a \in Answers(c) : Stored(a)
  BY DEF Answers, Stored, LeaseInv, RowOK, ClientOK, PutWaits
<1>3. pc'[c] = "idle" /\ cur'[c] = NoRecord /\ res'[c].rec = r
  BY <1>1 DEF Finish, DropLocals, Answer, LeaseInv, LeaseTypeOK, TypeOK
<1>4. UNCHANGED <<row, version, history>> /\ Stored(cache')
  BY <1>2 DEF Returns
<1>5. ClientOK(c)'
  <2>1. Stored(base[c])' /\ (stage'[c] = "renew_gate" => base'[c] # NoRecord)
    BY <1>4 DEF ClientOK, LeaseInv, LeaseTypeOK, Stored, Over, Goto
  <2>2. stage'[c] = "end_get" => arg'[c].to \in TerminalStates
    BY DEF ClientOK, LeaseInv, LeaseTypeOK, Over, Goto
  <2> QED BY <1>2, <1>3, <1>4, <2>1, <2>2 DEF ClientOK, Stored, PutWaits
<1> QED BY <1>4, <1>5 DEF Grows, RowOK, LeaseInv, Stored

LEMMA MovesClient ==
    ASSUME LeaseInv, NEW c \in Clients, Moves(c), UNCHANGED <<base, stage, arg>>
    PROVE  ClientOK(c)' /\ Grows /\ RowOK'
<1>1. PICK s \in (PutWaits \cup GetWaits) \ {"put_cache"} :
        /\ pc' = [pc EXCEPT ![c] = s]
        /\ s \in PutWaits <=> pc[c] \in PutWaits
        /\ s \in GetWaits <=> pc[c] \in GetWaits
        /\ ReadRow(c) \/ UNCHANGED <<cur, curVersion>>
        /\ s \in {"put_cas", "get_fill"} => ReadRow(c) /\ row # NoRecord
        /\ s = "put_reread" => row # NoRecord
        /\ s = "put_cas" => Conflict(op[c].rec, op[c].exp, row) = "none"
        /\ UNCHANGED <<row, version, cache, history, op, res, raced>>
  BY DEF Moves
<1>2. pc'[c] = s /\ (ReadRow(c) => cur'[c] = row /\ curVersion'[c] = version)
  BY <1>1 DEF ReadRow, LeaseInv, LeaseTypeOK, TypeOK
<1>3. ClientOK(c) /\ RowOK /\ version \in Nat
  BY DEF LeaseInv, LeaseTypeOK, TypeOK
<1>4. Stored(cur[c])' /\ Stored(base[c])' /\ Stored(res[c].rec)'
  BY <1>1, <1>2, <1>3 DEF ClientOK, RowOK, Stored
<1>5. Follows(op[c].rec, op[c].exp) => Follows(op[c].rec, op[c].exp)'
  BY <1>1 DEF Follows, Renews, Ends, NextRevision
<1>6. pc'[c] = "put_cas" =>
          /\ cur'[c] # NoRecord /\ curVersion'[c] <= version' /\ cur'[c] = row'
          /\ Conflict(op[c].rec, op[c].exp, cur[c])' = "none"
  BY <1>1, <1>2, <1>3 DEF Conflict
<1>7. stage'[c] # "none"
  BY <1>1, <1>3 DEF ClientOK, PutWaits, GetWaits
<1>8. ClientOK(c)'
  BY <1>1, <1>2, <1>3, <1>4, <1>5, <1>6, <1>7 DEF ClientOK
<1> QED BY <1>1, <1>3, <1>8 DEF Grows, RowOK, Stored

LEMMA StoresClient ==
    ASSUME LeaseInv, NEW c \in Clients, Stores(c), UNCHANGED <<base, stage, arg>>
    PROVE  ClientOK(c)' /\ Grows /\ RowOK'
<1>1. RowOK' /\ row' = op[c].rec /\ row' \in Leases /\ history' = history \cup {row'}
  BY RowStored, StoredFollows
<1>2. Grows
  BY <1>1, LeaseWrites DEF Grows, Stores, WriteRow
<1>3. /\ pc'[c] = "put_cache" /\ op' = op /\ cur' = cur /\ res' = res
      /\ pc[c] \in PutWaits /\ ClientOK(c)
  BY DEF Stores, PutWaits, LeaseInv, LeaseTypeOK, TypeOK
<1>4. Follows(op[c].rec, op[c].exp)'
  BY <1>1, <1>3 DEF ClientOK, Follows, Renews, Ends, NextRevision
<1>5. Stored(cur[c])' /\ Stored(base[c])' /\ Stored(res[c].rec)'
  BY <1>1, <1>3 DEF ClientOK, Stored
<1>6. stage'[c] # "none"
  BY <1>3 DEF Stores, ClientOK
<1> QED BY <1>1, <1>2, <1>3, <1>4, <1>5, <1>6 DEF ClientOK

(* A call that hands the engine a put of a record that follows, or a get,  *)
(* or takes what the engine answered, keeps what the client holds sound.   *)
Starts(c) ==
    /\ res' = [res EXCEPT ![c] = None]
    /\ UNCHANGED <<row, version, cache, cur, curVersion, history>>
    /\ Stored(base'[c]) /\ (stage'[c] = "renew_gate" => base'[c] # NoRecord)
    /\ stage'[c] = "none" => pc'[c] = "idle"
    /\ stage'[c] = "end_get" => arg'[c].to \in TerminalStates
    /\ \/ pc'[c] = "put_read" /\ Follows(op'[c].rec, op'[c].exp)
       \/ pc'[c] \in {"get_cache", "idle"}

LEMMA StartsClient ==
    ASSUME LeaseInv, NEW c \in Clients, Starts(c)
    PROVE  ClientOK(c)' /\ Grows /\ RowOK'
<1>1. Follows(op'[c].rec, op'[c].exp) => Follows(op[c].rec, op[c].exp)'
  BY DEF Starts, Follows, Renews, Ends, NextRevision
<1>2. Stored(cur[c])' /\ Stored(base[c])' /\ Stored(res[c].rec)'
  BY DEF Starts, Stored, None, LeaseInv, ClientOK, LeaseTypeOK, TypeOK
<1>3. ClientOK(c)'
  BY <1>1, <1>2 DEF Starts, ClientOK, PutWaits
<1> QED BY <1>3 DEF Starts, Grows, RowOK, LeaseInv, Stored

LEMMA PutStarts ==
    ASSUME LeaseTypeOK, NEW c \in Clients, NEW r, NEW e, StartPut(c, r, e), Follows(r, e),
           Stored(base'[c]), stage'[c] \notin {"none", "end_get", "renew_gate"}
    PROVE  Starts(c)
BY DEF Starts, StartPut, aux, LeaseTypeOK, TypeOK

LEMMA DoneStarts ==
    ASSUME LeaseTypeOK, NEW c \in Clients, Done(c), pc[c] = "idle"
    PROVE  Starts(c)
BY DEF Starts, Done, Over, Goto, Consumed, Stored, LeaseTypeOK, TypeOK

LEMMA EndStarts ==
    ASSUME LeaseInv, NEW c \in Clients, NEW l, Stored(l), l # NoRecord, l.state = "ACTIVE",
           NEW s \in TerminalStates, PutEnded(c, l, s)
    PROVE  Starts(c)
<1>1. l \in history /\ l \in Leases
  BY DEF Stored, LeaseInv, LeaseTypeOK, TypeOK
<1>2. Ends([NextRevision(l) EXCEPT !.state = s], l)
  BY <1>1 DEF Ends, NextRevision, Leases
<1>3. Follows([NextRevision(l) EXCEPT !.state = s], l.rev)
  BY <1>1, <1>2 DEF Follows
<1>4. Stored(base'[c]) /\ stage'[c] = "end_put"
  BY DEF PutEnded, Goto, LeaseInv, ClientOK, LeaseTypeOK
<1> QED BY <1>3, <1>4, PutStarts DEF PutEnded, LeaseInv

LEMMA CallClient ==
    ASSUME LeaseInv, NEW c \in Clients, Call(c)
    PROVE  Starts(c)
<1> USE DEF LeaseInv, LeaseTypeOK, Goto
<1>1. Stored(base[c])
  BY DEF ClientOK
<1>2. CASE BeginAcquire(c)
  <2>1. PICK b \in Bodies, e \in Expiries :
          StartPut(c, [rev |-> 1, state |-> "ACTIVE", body |-> b, expires |-> e], 0)
    BY <1>2 DEF BeginAcquire
  <2>2. Follows([rev |-> 1, state |-> "ACTIVE", body |-> b, expires |-> e], 0)
    BY DEF Follows
  <2>3. base' = base /\ stage'[c] = "acquire_put"
    BY <1>2 DEF BeginAcquire
  <2> QED BY <1>1, <2>1, <2>2, <2>3, PutStarts
<1>3. CASE BeginEnd(c) \/ BeginRenew(c) \/ BeginGate(c)
  BY <1>1, <1>3 DEF BeginEnd, BeginRenew, BeginGate, StartGet, Starts, aux, TypeOK, TerminalStates
<1>4. CASE BeginExpire(c)
  <2>1. pc[c] = "idle" /\ stage'[c] = "expire_list" /\ base' = base
    BY <1>4 DEF BeginExpire, ClientOK
  <2> QED BY <1>1, <1>4, <2>1 DEF BeginExpire, Consumed, Starts, TypeOK
<1> QED BY <1>2, <1>3, <1>4 DEF Call

LEMMA ContinueClient ==
    ASSUME LeaseInv, NEW c \in Clients, Continue(c)
    PROVE  Starts(c)
<1> USE DEF LeaseInv
<1>0. /\ ClientOK(c) /\ Stored(base[c]) /\ Stored(res[c].rec) /\ Stored(row)
      /\ stage[c] = "renew_gate" => base[c] # NoRecord
  BY DEF ClientOK, RowOK, Stored
<1>1. CASE Done(c)
  <2>1. pc[c] = "idle"
    BY DEF Continue, AcquireDone, EndJudge, EndDone, ExpireJudge, RenewRead, RenewJudge, RenewDone,
           GateDone, Returned
  <2> QED BY <1>1, <2>1, DoneStarts
<1>2. CASE EndJudge(c) /\ ~Done(c)
  <2>1. arg[c].to \in TerminalStates
    BY <1>0, <1>2 DEF ClientOK, EndJudge, Returned
  <2> QED BY <1>0, <1>2, <2>1, EndStarts DEF EndJudge
<1>3. CASE ExpireJudge(c) /\ ~Done(c)
  BY <1>0, <1>3, EndStarts DEF ExpireJudge, TerminalStates
<1>4. CASE RenewRead(c) /\ ~Done(c)
  BY <1>0, <1>4 DEF RenewRead, StartGet, Starts, Goto, aux, LeaseTypeOK, TypeOK
<1>5. CASE RenewJudge(c) /\ ~Done(c)
  <2> DEFINE r == [NextRevision(base[c]) EXCEPT !.expires = arg[c].until]
  <2>1. base[c] \in history /\ base[c] \in Leases
    BY <1>0, <1>5 DEF RenewJudge, Returned, Stored, LeaseTypeOK, TypeOK
  <2>2. Renews(r, base[c])
    BY <2>1 DEF Renews, NextRevision, Leases
  <2>3. Follows(r, base[c].rev)
    BY <2>1, <2>2 DEF Follows
  <2>4. StartPut(c, r, base[c].rev) /\ base' = base /\ stage'[c] = "renew_put"
    BY <1>5 DEF RenewJudge, Goto, LeaseTypeOK
  <2> HIDE DEF r
  <2> QED BY <1>0, <2>3, <2>4, PutStarts
<1> QED
  BY <1>1, <1>2, <1>3, <1>4, <1>5 DEF Continue, AcquireDone, EndDone, RenewDone, GateDone

-----------------------------------------------------------------------------
(* The inductive invariant.                                                *)

LEMMA LeaseInvInit == LeaseInit => LeaseInv
<1> SUFFICES ASSUME LeaseInit PROVE LeaseInv
  OBVIOUS
<1>1. TypeOK
  BY DEF LeaseInit, Init, TypeOK, None, NoOp, NoExpected, PutWaits, GetWaits, Kinds
<1>2. LeaseTypeOK
  BY <1>1 DEF LeaseInit, LeaseTypeOK, Stages, NoArg, LeaseStates
<1>3. RowOK /\ \A c \in Clients : ClientOK(c)
  BY DEF LeaseInit, Init, RowOK, ClientOK, Stored, None, PutWaits
<1> QED BY <1>2, <1>3 DEF LeaseInv

LEMMA ClientStep ==
    ASSUME LeaseInv, NEW c \in Clients, Call(c) \/ Continue(c) \/ EngineRuns(c) \/ Crash(c)
    PROVE  ClientOK(c)' /\ Grows /\ RowOK'
<1>1. CASE Call(c) \/ Continue(c)
  BY <1>1, CallClient, ContinueClient, StartsClient
<1>2. CASE EngineRuns(c)
  <2>1. Returns(c) \/ Moves(c) \/ Stores(c)
    BY <1>2, EngineStep DEF EngineRuns, LeaseInv, ClientOK
  <2>2. UNCHANGED <<base, stage, arg>>
    BY <1>2 DEF EngineRuns, jobVars
  <2> QED BY <2>1, <2>2, ReturnsClient, MovesClient, StoresClient
<1>3. CASE Crash(c)
  BY <1>3, AbandonReturns, ReturnsClient DEF Crash, LeaseInv
<1> QED BY <1>1, <1>2, <1>3

LEMMA ClientStepType ==
    ASSUME LeaseInv, WatchGate, NEW c \in Clients,
           Call(c) \/ Continue(c) \/ EngineRuns(c) \/ Crash(c)
    PROVE  LeaseTypeOK'
<1> USE DEF LeaseInv
<1>1. CASE Call(c) \/ Continue(c)
  BY <1>1, CallType, ContinueType DEF ClientOK
<1>2. CASE EngineRuns(c)
  <2>1. TypeOK'
    BY <1>2, EngineStep, ReturnsType, MovesType, StoresType DEF EngineRuns, ClientOK
  <2> QED BY <1>2, <2>1, WatchType DEF EngineRuns, jobVars, LeaseTypeOK
<1>3. CASE Crash(c)
  <2>1. TypeOK'
    BY <1>3, AbandonReturns, ReturnsType DEF Crash
  <2> QED BY <1>3, <2>1, WatchType, DoneType DEF Crash, LeaseTypeOK
<1> QED BY <1>1, <1>2, <1>3

LEMMA IdleStep ==
    ASSUME LeaseInv, WatchGate, Tick \/ Forget
    PROVE  LeaseInv' /\ UNCHANGED <<row, history>>
<1>1. /\ UNCHANGED <<row, version, pc, op, cur, curVersion, res, history, raced, jobVars>>
      /\ cache' \in {cache, NoRecord} /\ now' \in Nat /\ mirror' \in BOOLEAN
  <2>1. CASE Tick
    BY <2>1 DEF Tick, engineVars, LeaseInv, LeaseTypeOK
  <2>2. CASE LoseCache /\ UNCHANGED <<jobVars, now, mirror>>
    BY <2>2 DEF LoseCache, locals, aux, LeaseInv, LeaseTypeOK
  <2>3. CASE mirror' = FALSE /\ UNCHANGED <<engineVars, jobVars, now>>
    BY <2>3 DEF engineVars, LeaseInv, LeaseTypeOK
  <2> QED BY <2>1, <2>2, <2>3 DEF Forget
<1>2. LeaseTypeOK'
  BY <1>1, WatchType DEF LeaseInv, LeaseTypeOK, TypeOK, jobVars
<1>3. RowOK'
  BY <1>1 DEF LeaseInv, RowOK, Stored
<1>4. ASSUME NEW d \in Clients PROVE ClientOK(d)'
  BY <1>1, KeptClient DEF Kept, Grows, jobVars
<1> QED BY <1>1, <1>2, <1>3, <1>4 DEF LeaseInv

LEMMA LeaseInvStep == LeaseInv /\ [LeaseNext]_allVars => LeaseInv'
<1> SUFFICES ASSUME LeaseInv, [LeaseNext]_allVars PROVE LeaseInv'
  OBVIOUS
<1>1. ASSUME WatchGate, NEW c \in Clients, Call(c) \/ Continue(c) \/ EngineRuns(c) \/ Crash(c)
      PROVE  LeaseInv'
  <2>1. ClientOK(c)' /\ Grows /\ RowOK'
    BY <1>1, ClientStep
  <2>2. ASSUME NEW d \in Clients, d # c PROVE ClientOK(d)'
    BY <1>1, <2>1, <2>2, OthersKept, KeptClient DEF LeaseInv
  <2>3. LeaseTypeOK'
    BY <1>1, ClientStepType
  <2> QED BY <2>1, <2>2, <2>3 DEF LeaseInv
<1>2. CASE UNCHANGED allVars
  <2>1. UNCHANGED <<row, version, cache, pc, op, cur, curVersion, res, history, raced,
                    stage, at, arg, base, now, mirror, liveSeen>>
    BY <1>2 DEF allVars, engineVars, jobVars
  <2>2. LeaseTypeOK' /\ RowOK'
    BY <2>1 DEF LeaseInv, LeaseTypeOK, TypeOK, RowOK, Stored
  <2>3. ASSUME NEW d \in Clients PROVE ClientOK(d)'
    BY <2>1, KeptClient DEF Kept, Grows
  <2> QED BY <2>2, <2>3 DEF LeaseInv
<1> QED BY <1>1, <1>2, IdleStep DEF LeaseNext, LeaseStep

(* Every step stores the record of one client or leaves the row alone.     *)
LEMMA RowWrites ==
    ASSUME LeaseInv, LeaseNext
    PROVE  (\E c \in Clients : Stores(c)) \/ UNCHANGED <<row, history>>
<1>1. ASSUME NEW c \in Clients, Call(c) \/ Continue(c) PROVE UNCHANGED <<row, history>>
  BY <1>1, CallClient, ContinueClient DEF Starts
<1>2. ASSUME NEW c \in Clients, EngineRuns(c) PROVE Stores(c) \/ UNCHANGED <<row, history>>
  BY <1>2, EngineStep DEF EngineRuns, LeaseInv, ClientOK, Returns, Moves
<1>3. ASSUME NEW c \in Clients, Crash(c) PROVE UNCHANGED <<row, history>>
  BY <1>3 DEF Crash, Abandon
<1> QED BY <1>1, <1>2, <1>3, IdleStep DEF LeaseNext, LeaseStep

(* Whatever a client holds was stored, and whatever it writes follows a    *)
(* stored record.                                                          *)
THEOREM LeaseInvariance == LeaseSpec => []LeaseInv
BY LeaseInvInit, LeaseInvStep, PTL DEF LeaseSpec

(* body-lease.ts: "A released/revoked/expired lease never reactivates",    *)
(* with a cache in front of the durable row or without: a write follows    *)
(* the record it replaces, and a renewal keeps the state it read.          *)
THEOREM EndedStaysEnded == LeaseSpec => EndedNeverReactivates
<1>1. LeaseInv /\ [LeaseNext]_allVars =>
          [row # NoRecord /\ row.state \in TerminalStates => row'.state = row.state]_allVars
  <2> SUFFICES ASSUME LeaseInv, LeaseNext, row # NoRecord, row.state \in TerminalStates
               PROVE  row'.state = row.state
    OBVIOUS
  <2>1. ASSUME NEW c \in Clients, Stores(c) PROVE row'.state = row.state
    <3>1. Renews(row', row) \/ Ends(row', row)
      BY <2>1, StoredFollows
    <3>2. row \in Leases
      BY DEF LeaseInv, LeaseTypeOK, TypeOK
    <3> QED BY <3>1, <3>2 DEF Renews, Ends, NextRevision, Leases, TerminalStates
  <2>2. (\E c \in Clients : Stores(c)) \/ row' = row
    BY RowWrites
  <2> QED BY <2>1, <2>2
<1> QED BY <1>1, LeaseInvariance, PTL DEF LeaseSpec, EndedNeverReactivates

-----------------------------------------------------------------------------
(* Without the cache a get answers with the row as it was during the get.  *)
(* So an ended lease that a renewal starts from is still there when the    *)
(* renewal asks the gate, and what the gate answers was true.              *)
Read(c) ==
    IF pc[c] = "idle" THEN res[c].rec ELSE IF pc[c] = "get_fill" THEN cur[c] ELSE NoRecord

UncachedOK(c) ==
    /\ stage[c] \in {"renew_gate", "gate_get"} => pc[c] \in GetWaits \cup {"idle"}
    /\ pc[c] \in PutWaits =>
          op[c].exp = 0 \/ \E b \in history : b.rev = op[c].exp /\ b.state = "ACTIVE"
    /\ stage[c] = "renew_gate" /\ Read(c) # NoRecord /\ Read(c).state = "ACTIVE" =>
          base[c].state = "ACTIVE"
    /\ stage[c] = "gate_get" /\ Live(Read(c), at[c]) => liveSeen[c]

EndsLast == \A r \in history : r.state # "ACTIVE" => r = row

LifeInv == LeaseInv /\ EndsLast /\ \A c \in Clients : UncachedOK(c)

LEMMA Watched ==
    ASSUME WatchGate, NEW c \in Clients, stage'[c] = "gate_get"
    PROVE  /\ Live(row', at'[c]) => liveSeen'[c]
           /\ stage[c] = "gate_get" /\ liveSeen[c] => liveSeen'[c]
BY Zenon DEF WatchGate

LEMMA StoresOverActive ==
    ASSUME LifeInv, NEW c \in Clients, Stores(c), row # NoRecord
    PROVE  row.state = "ACTIVE"
<1>1. pc[c] = "put_cas" /\ version = curVersion[c] /\ ClientOK(c) /\ UncachedOK(c)
  BY DEF Stores, LifeInv, LeaseInv
<1>2. Conflict(op[c].rec, op[c].exp, row) = "none" /\ Follows(op[c].rec, op[c].exp)
  BY <1>1 DEF ClientOK, PutWaits
<1>3. row.rev # 0 /\ (op[c].exp = -1 \/ op[c].exp = row.rev)
  BY <1>2 DEF Conflict, NoRevision, NoExpected
<1>4. \A b \in history : b.rev \in Nat
  BY LeaseWrites DEF LifeInv, LeaseInv, LeaseTypeOK, TypeOK
<1>5. op[c].exp = row.rev
  BY <1>2, <1>3, <1>4 DEF Follows
<1>6. PICK b \in history : b.rev = row.rev /\ b.state = "ACTIVE"
  BY <1>1, <1>3, <1>5 DEF UncachedOK, PutWaits
<1> QED BY <1>6 DEF LifeInv, LeaseInv, RowOK

LEMMA EndsLastStep ==
    ASSUME LifeInv, LeaseNext
    PROVE  EndsLast'
<1>1. ASSUME NEW c \in Clients, Stores(c) PROVE EndsLast'
  <2>1. history' = history \cup {row'}
    BY <1>1, StoredFollows DEF LifeInv
  <2>2. ASSUME NEW r \in history, r.state # "ACTIVE" PROVE FALSE
    <3>1. r = row /\ row # NoRecord
      BY <2>2 DEF LifeInv, EndsLast, LeaseInv, RowOK
    <3> QED BY <1>1, <2>2, <3>1, StoresOverActive
  <2> QED BY <2>1, <2>2 DEF EndsLast
<1>2. (\E c \in Clients : Stores(c)) \/ UNCHANGED <<row, history>>
  BY RowWrites DEF LifeInv
<1> QED BY <1>1, <1>2 DEF LifeInv, EndsLast

(* The step of a get.                                                      *)
LEMMA GetStep ==
    ASSUME LeaseTypeOK, ~UseCache, NEW c \in Clients, EngineCall(c), pc[c] \in GetWaits
    PROVE  /\ pc'[c] \in GetWaits \cup {"idle"}
           /\ Read(c)' \in {NoRecord, Read(c), row}
           /\ row' = row
<1> USE DEF LeaseTypeOK, TypeOK, Read, GetWaits
<1>1. CASE GetCache(c)
  BY <1>1 DEF GetCache
<1>2. CASE GetRead(c)
  BY <1>2 DEF GetRead, Finish, DropLocals, Answer, ReadRow
<1>3. CASE GetFill(c)
  BY <1>3 DEF GetFill, Finish, DropLocals, Answer
<1> QED
  BY <1>1, <1>2, <1>3 DEF EngineCall, PutRead, PutInsert, PutReread, PutCas, PutFresh, PutCache

LEMMA PutStep ==
    ASSUME LeaseTypeOK, NEW c \in Clients, EngineCall(c), pc[c] \in PutWaits
    PROVE  pc'[c] = "idle" \/ (pc'[c] \in PutWaits /\ op'[c] = op[c])
<1> USE DEF LeaseTypeOK, TypeOK, PutWaits, Finish, DropLocals
<1>1. CASE PutRead(c) \/ PutReread(c)
  BY <1>1 DEF PutRead, PutReread, JudgePut
<1>2. CASE PutInsert(c) \/ PutCas(c)
  BY <1>2 DEF PutInsert, PutCas
<1>3. CASE PutFresh(c) \/ PutCache(c)
  BY <1>3 DEF PutFresh, PutCache
<1> QED BY <1>1, <1>2, <1>3 DEF EngineCall, GetCache, GetRead, GetFill

LEMMA EngineUncached ==
    ASSUME LifeInv, ~UseCache, WatchGate, NEW c \in Clients, EngineRuns(c),
           history \subseteq history'
    PROVE  UncachedOK(c)'
<1>1. UNCHANGED <<stage, at, arg, base>> /\ EngineCall(c) /\ LeaseTypeOK /\ UncachedOK(c)
  BY DEF EngineRuns, jobVars, LifeInv, LeaseInv
<1>2. CASE pc[c] \in GetWaits
  <2>1. /\ pc'[c] \in GetWaits \cup {"idle"} /\ row' = row
        /\ Read(c)' \in {NoRecord, Read(c), row}
    BY <1>1, <1>2, GetStep
  <2>2. pc'[c] \notin PutWaits
    BY <2>1 DEF GetWaits, PutWaits
  <2>3. stage[c] = "renew_gate" /\ base[c].state # "ACTIVE" => row.state # "ACTIVE"
    BY DEF LifeInv, LeaseInv, ClientOK, EndsLast, Stored
  <2>4. stage'[c] = "renew_gate" /\ Read(c)' # NoRecord /\ Read(c)'.state = "ACTIVE" =>
            base'[c].state = "ACTIVE"
    BY <1>1, <2>1, <2>3 DEF UncachedOK
  <2>5. stage'[c] = "gate_get" /\ Live(Read(c)', at'[c]) => liveSeen'[c]
    <3> SUFFICES ASSUME stage'[c] = "gate_get", Live(Read(c)', at'[c]) PROVE liveSeen'[c]
      OBVIOUS
    <3>1. CASE Read(c)' = row
      BY <2>1, <3>1, Watched
    <3>2. CASE Read(c)' = Read(c)
      BY <1>1, <3>2, Watched DEF UncachedOK
    <3>3. Read(c)' # NoRecord
      BY DEF Live
    <3> QED BY <2>1, <3>1, <3>2, <3>3
  <2> QED BY <1>1, <2>1, <2>2, <2>4, <2>5 DEF UncachedOK
<1>3. CASE pc[c] \in PutWaits
  <2>1. pc'[c] = "idle" \/ (pc'[c] \in PutWaits /\ op'[c] = op[c])
    BY <1>1, <1>3, PutStep
  <2>2. stage'[c] \notin {"renew_gate", "gate_get"}
    BY <1>1, <1>3 DEF UncachedOK, GetWaits, PutWaits
  <2>3. "idle" \notin PutWaits
    BY DEF PutWaits
  <2> QED BY <1>1, <1>3, <2>1, <2>2, <2>3 DEF UncachedOK
<1>4. pc[c] \in GetWaits \cup PutWaits
  BY <1>1 DEF EngineCall, PutRead, PutInsert, PutReread, PutCas, PutFresh, PutCache, GetCache,
              GetRead, GetFill, GetWaits, PutWaits
<1> QED BY <1>2, <1>3, <1>4

LEMMA CallUncached ==
    ASSUME LifeInv, NEW c \in Clients, Call(c) \/ Continue(c)
    PROVE  UncachedOK(c)'
<1> USE DEF LifeInv, LeaseInv, LeaseTypeOK, TypeOK, Goto
<1>0. history' = history /\ UncachedOK(c) /\ ClientOK(c)
  BY CallClient, ContinueClient DEF Starts
<1>1. CASE pc'[c] = "idle" /\ stage'[c] \notin {"renew_gate", "gate_get"}
  BY <1>1 DEF UncachedOK, PutWaits
<1>2. CASE pc'[c] = "get_cache"
  BY <1>2 DEF UncachedOK, Read, Live, GetWaits, PutWaits
<1>3. ASSUME NEW r, NEW l, StartPut(c, r, l.rev), l \in history, l.state = "ACTIVE",
             stage'[c] \in {"end_put", "renew_put"}
      PROVE  UncachedOK(c)'
  BY <1>0, <1>3 DEF StartPut, UncachedOK
<1>4. CASE BeginAcquire(c)
  BY <1>4 DEF BeginAcquire, StartPut, UncachedOK
<1>5. CASE BeginEnd(c) \/ BeginRenew(c) \/ BeginGate(c)
  <2>1. pc'[c] = "get_cache"
    BY <1>5 DEF BeginEnd, BeginRenew, BeginGate, StartGet
  <2> QED BY <1>2, <2>1
<1>6. CASE BeginExpire(c)
  BY <1>0, <1>1, <1>6 DEF BeginExpire, Consumed, ClientOK
<1>7. CASE Done(c)
  <2>1. pc[c] = "idle"
    BY <1>0, <1>7, DoneStarts, ContinueClient, CallClient DEF Starts, Done, Consumed, Over,
       Continue, AcquireDone, EndJudge, EndDone, ExpireJudge, RenewRead, RenewJudge, RenewDone,
       GateDone,
       Returned, ClientOK, Call, BeginAcquire, BeginEnd, BeginExpire, BeginRenew, BeginGate
  <2> QED BY <1>1, <1>7, <2>1 DEF Done, Over, Consumed
<1>8. CASE EndJudge(c) /\ ~Done(c)
  <2>1. res[c].rec \in history /\ res[c].rec.state = "ACTIVE" /\ PutEnded(c, res[c].rec, arg[c].to)
    BY <1>0, <1>8 DEF EndJudge, ClientOK, Stored
  <2> QED BY <1>3, <2>1 DEF PutEnded
<1>9. CASE ExpireJudge(c) /\ ~Done(c)
  <2>1. row \in history /\ row.state = "ACTIVE" /\ PutEnded(c, row, "EXPIRED")
    BY <1>9 DEF ExpireJudge, RowOK
  <2> QED BY <1>3, <2>1 DEF PutEnded
<1>10. CASE RenewRead(c) /\ ~Done(c)
  <2>1. pc'[c] = "get_cache"
    BY <1>10 DEF RenewRead, StartGet
  <2> QED BY <1>2, <2>1
<1>11. CASE RenewJudge(c) /\ ~Done(c)
  <2>1. /\ Returned(c, "renew_gate") /\ Authorizes(res[c].rec, at[c])
        /\ StartPut(c, [NextRevision(base[c]) EXCEPT !.expires = arg[c].until], base[c].rev)
        /\ stage'[c] = "renew_put"
    BY <1>11 DEF RenewJudge
  <2>2. base[c] \in history
    BY <1>0, <2>1 DEF ClientOK, Stored, Returned
  <2>3. base[c].state = "ACTIVE"
    BY <1>0, <2>1 DEF UncachedOK, Read, Returned, Authorizes
  <2> QED BY <1>3, <2>1, <2>2, <2>3
<1> QED
  BY <1>4, <1>5, <1>6, <1>7, <1>8, <1>9, <1>10, <1>11
     DEF Call, Continue, AcquireDone, EndDone, RenewDone, GateDone

LEMMA OtherUncached ==
    ASSUME LifeInv, WatchGate, NEW d \in Clients, Kept(d), history \subseteq history'
    PROVE  UncachedOK(d)'
<1>1. UncachedOK(d) /\ Read(d)' = Read(d)
  BY DEF LifeInv, Kept, Read
<1>2. stage'[d] = "gate_get" /\ Live(Read(d)', at'[d]) => liveSeen'[d]
  BY <1>1, Watched DEF UncachedOK, Kept
<1> QED BY <1>1, <1>2 DEF UncachedOK, Kept

LEMMA LifeInvInit == LeaseInit => LifeInv
<1> SUFFICES ASSUME LeaseInit PROVE LifeInv
  OBVIOUS
<1> QED BY LeaseInvInit DEF LeaseInit, Init, LifeInv, EndsLast, UncachedOK, PutWaits

LEMMA LifeInvStep == ~UseCache /\ LifeInv /\ [LeaseNext]_allVars => LifeInv'
<1> SUFFICES ASSUME ~UseCache, LifeInv, [LeaseNext]_allVars PROVE LifeInv'
  OBVIOUS
<1>1. LeaseInv'
  BY LeaseInvStep DEF LifeInv
<1>2. CASE LeaseNext
  <2>1. EndsLast' /\ WatchGate
    BY <1>2, EndsLastStep DEF LeaseNext
  <2>2. ASSUME NEW c \in Clients, Call(c) \/ Continue(c) \/ EngineRuns(c) \/ Crash(c),
               NEW d \in Clients
        PROVE  UncachedOK(d)'
    <3>1. history \subseteq history'
      BY <2>2, ClientStep DEF LifeInv, Grows
    <3>2. CASE d # c
      BY <2>1, <2>2, <3>1, <3>2, OthersKept, OtherUncached DEF LifeInv, LeaseInv
    <3>3. CASE d = c /\ Crash(c)
      BY <3>3 DEF Crash, Abandon, DropLocals, Over, Goto, UncachedOK, PutWaits, LifeInv, LeaseInv,
                  LeaseTypeOK, TypeOK
    <3> QED BY <2>1, <2>2, <3>1, <3>2, <3>3, CallUncached, EngineUncached
  <2>3. ASSUME Tick \/ Forget, NEW d \in Clients PROVE UncachedOK(d)'
    <3>1. Kept(d) /\ history' = history
      BY <2>3 DEF Tick, Forget, LoseCache, locals, aux, engineVars, jobVars, Kept
    <3> QED BY <2>1, <3>1, OtherUncached
  <2> QED BY <1>1, <1>2, <2>1, <2>2, <2>3 DEF LeaseNext, LeaseStep, LifeInv
<1>3. CASE UNCHANGED allVars
  <2>1. UNCHANGED <<row, version, cache, pc, op, cur, curVersion, res, history, raced,
                    stage, at, arg, base, now, mirror, liveSeen>>
    BY <1>3 DEF allVars, engineVars, jobVars
  <2> QED BY <1>1, <2>1 DEF LifeInv, EndsLast, UncachedOK, Read, Live
<1> QED BY <1>2, <1>3

(* Read from Postgres alone, whatever a renewal or the gate read is the    *)
(* durable lease of some instant of the call.                              *)
THEOREM LifeInvariance == ~UseCache => (LeaseSpec => []LifeInv)
<1> SUFFICES ASSUME ~UseCache PROVE LeaseSpec => []LifeInv
  OBVIOUS
<1>1. LifeInv /\ [LeaseNext]_allVars => LifeInv'
  BY LifeInvStep
<1> QED BY <1>1, LifeInvInit, PTL DEF LeaseSpec

(* lease-gate.ts: when the gate authorizes, the durable lease was ACTIVE   *)
(* and not due at some instant of the call, for any callers and bounds.    *)
THEOREM GateIsTruthful == ~UseCache => (LeaseSpec => []GateTellsTheTruth)
<1> SUFFICES ASSUME ~UseCache PROVE LeaseSpec => []GateTellsTheTruth
  OBVIOUS
<1>1. LifeInv => GateTellsTheTruth
  <2> SUFFICES ASSUME LifeInv, NEW c \in Clients, Returned(c, "gate_get"),
                      Authorizes(res[c].rec, at[c])
               PROVE  liveSeen[c]
    BY DEF GateTellsTheTruth
  <2>1. Read(c) = res[c].rec /\ res[c].rec \in Leases
    BY DEF Returned, Read, Authorizes, LifeInv, LeaseInv, LeaseTypeOK, TypeOK
  <2>2. Live(Read(c), at[c])
    <3>1. res[c].rec.expires \in Nat /\ at[c] \in Nat
      BY <2>1 DEF Leases, LifeInv, LeaseInv, LeaseTypeOK
    <3> QED BY <2>1, <3>1 DEF Live, Authorizes, IsExpired
  <2> QED BY <2>2 DEF LifeInv, UncachedOK, Returned
<1> QED BY <1>1, LifeInvariance, PTL

(* The durable lease goes through the life LeaseLifecycle promises: one    *)
(* acquisition, renewals of the revision before, one end, nothing after.   *)
THEOREM LeaseLivesItsLife == ~UseCache => (LeaseSpec => FollowsLeaseLifecycle)
<1> SUFFICES ASSUME ~UseCache PROVE LeaseSpec => FollowsLeaseLifecycle
  OBVIOUS
<1>1. LeaseInit => row = NoRecord
  BY DEF LeaseInit, Init
<1>2. LifeInv /\ [LeaseNext]_allVars => [Life!Acquire \/ Life!Renew \/ Life!End]_row
  <2> SUFFICES ASSUME LifeInv, LeaseNext, row' # row
               PROVE  Life!Acquire \/ Life!Renew \/ Life!End
    BY DEF allVars, engineVars
  <2>1. PICK c \in Clients : Stores(c)
    BY RowWrites DEF LifeInv
  <2>2. row' \in Leases /\ row' # NoRecord
    BY <2>1, StoredFollows, LeaseWrites DEF LifeInv
  <2>3. CASE row = NoRecord
    BY <2>1, <2>2, <2>3, StoredFollows DEF LifeInv, Renews, Ends, Life!Acquire
  <2>4. CASE row # NoRecord
    <3>1. row \in Leases /\ row.state = "ACTIVE" /\ (Renews(row', row) \/ Ends(row', row))
      BY <2>1, <2>4, StoredFollows, StoresOverActive DEF LifeInv, LeaseInv, LeaseTypeOK, TypeOK
    <3>2. CASE Renews(row', row)
      BY <2>2, <2>4, <3>1, <3>2 DEF Renews, NextRevision, Leases, Life!Renew
    <3>3. CASE Ends(row', row)
      BY <2>2, <2>4, <3>1, <3>3 DEF Ends, NextRevision, Leases, Life!End
    <3> QED BY <3>1, <3>2, <3>3
  <2> QED BY <2>3, <2>4
<1> QED BY <1>1, <1>2, LifeInvariance, PTL DEF LeaseSpec, FollowsLeaseLifecycle, Life!LifeSpec
=============================================================================
