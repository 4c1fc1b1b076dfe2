-------------------------- MODULE CompanionHostProofs --------------------------
(***************************************************************************)
(* Proofs about the companion host, for any orders, programs, commands and *)
(* disturbances.  What is kept in memory across an await is what has to be *)
(* said of it: a reconciliation holds everything up to its place in the    *)
(* log, a release holds the orders between those begun and those queued,   *)
(* a run has counted the steps that succeeded.                             *)
(***************************************************************************)
EXTENDS CompanionHost, SequenceTheorems, TLAPS

Busy == {"create", "step", "complete"}
Passing == {"release", "end"}

(* Where an entry may be, and what it holds there.                         *)
PlaceInv ==
    /\ host["direct"].pc \in {"idle", "ingest"} /\ host["direct"].rest = <<>>
    /\ host["direct"].pc = "ingest" => host["direct"].then = "idle"
    /\ \A e \in Entries : host[e].pc = "ingest" => host[e].next \in 1..(host[e].upto + 1)
    /\ host["drain"].pc = "ingest" => host["drain"].then \in Passing
    /\ host["drain"].pc \in Busy => host["drain"].then \in {"next", "end"}
    /\ host["drain"].rest # <<>> =>
          \/ host["drain"].pc = "next"
          \/ host["drain"].pc \in Busy /\ host["drain"].then = "next"
    /\ host["drain"].pc \notin {"step", "complete"} =>
          host["drain"].index = 0 /\ host["drain"].verified

(* A pass has in the store whatever lies before its place in the log.      *)
HeldBefore(m) == \A n \in 1..(m - 1) : IsHeld(n)

PassInv ==
    \A e \in Entries : host[e].pc = "ingest" => HeldBefore(host[e].next)

ReplayInv == PassInv /\ AckedIsHeld

Sorted(s) == \A i, j \in 1..Len(s) : i < j => s[i] < s[j]
Before(s, r) == \A i \in 1..Len(s), j \in 1..Len(r) : s[i] < r[j]

(* The tickets begun come before those released, these before those queued,*)
(* and they are all that were given out and not dropped.                   *)
TicketInv ==
    /\ Sorted(begun) /\ Sorted(host["drain"].rest) /\ Sorted(queue)
    /\ Before(begun, host["drain"].rest) /\ Before(begun, queue)
    /\ Before(host["drain"].rest, queue)
    /\ Range(begun) \cup Range(host["drain"].rest) \cup Range(queue) = 1..Len(order) \ dropped
    /\ dropped # {} => excused

(* A task runs from its creation on; a run has counted its successes.      *)
RunInv ==
    /\ \A o \in Orders : task[o] = "none" => done[o] = 0
    /\ host["drain"].pc = "step" =>
          task[Cur] = "RUNNING" /\ host["drain"].verified /\ done[Cur] = host["drain"].index
    /\ host["drain"].pc = "complete" =>
          task[Cur] = "RUNNING" /\ (host["drain"].verified <=> done[Cur] = Len(Program[Cur]))
    /\ VerdictIsEarned

-----------------------------------------------------------------------------
(* Types.                                                                  *)

LEMMA Names ==
  /\ "drain" \in Entries /\ "direct" \in Entries /\ "drain" # "direct"
  /\ \A e \in Entries : e # "drain" => e = "direct"
  /\ Out \in Hosts
BY DEF Entries, Out, Hosts, Points

LEMMA Typed ==
  ASSUME CompanionTypeOK
  PROVE  /\ host \in [Entries -> Hosts] /\ acked \in Nat /\ Len(log) \in Nat
         /\ \A e \in Entries :
               /\ host[e] \in Hosts /\ host[e].pc \in Points /\ host[e].then \in Points
               /\ host[e].next \in Nat /\ host[e].upto \in Nat /\ host[e].index \in Nat
               /\ host[e].rest \in Seq(Nat) /\ host[e].verified \in BOOLEAN
<1>1. host \in [Entries -> Hosts]
  BY DEF CompanionTypeOK
<1>2. ASSUME NEW e \in Entries
      PROVE  /\ host[e] \in Hosts /\ host[e].pc \in Points /\ host[e].then \in Points
             /\ host[e].next \in Nat /\ host[e].upto \in Nat /\ host[e].index \in Nat
             /\ host[e].rest \in Seq(Nat) /\ host[e].verified \in BOOLEAN
  BY <1>1 DEF Hosts
<1> QED BY <1>1, <1>2 DEF CompanionTypeOK

-----------------------------------------------------------------------------
(* What a step does to the place and the locals of an entry.               *)

Stays(e) == \A f \in Entries : f # e => host'[f] = host[f]

LEMMA Becomes ==
  ASSUME host \in [Entries -> Hosts], NEW e \in Entries, NEW h \in Hosts,
         host' = [host EXCEPT ![e] = h]
  PROVE  host' \in [Entries -> Hosts] /\ Stays(e) /\ host'[e] = h
BY DEF Stays

LEMMA GotoMoves ==
  ASSUME host \in [Entries -> Hosts], NEW e \in Entries, NEW p \in Points, Goto(e, p)
  PROVE  /\ host' \in [Entries -> Hosts] /\ Stays(e)
         /\ host'[e].pc = p /\ host'[e].next = host[e].next /\ host'[e].upto = host[e].upto
         /\ host'[e].rest = host[e].rest /\ host'[e].order = host[e].order
         /\ host'[e].index = host[e].index /\ host'[e].verified = host[e].verified
         /\ host'[e].then = host[e].then
<1> DEFINE h == [host[e] EXCEPT !.pc = p]
<1>1. host[e] \in Hosts
  OBVIOUS
<1>2. /\ h \in Hosts
      /\ h.pc = p /\ h.next = host[e].next /\ h.upto = host[e].upto
      /\ h.rest = host[e].rest /\ h.order = host[e].order
      /\ h.index = host[e].index /\ h.verified = host[e].verified
      /\ h.then = host[e].then
  BY <1>1 DEF Hosts
<1>3. host' = [host EXCEPT ![e] = h]
  BY DEF Goto
<1> HIDE DEF h
<1> QED BY <1>2, <1>3, Becomes

LEMMA ReconcileMoves ==
  ASSUME host \in [Entries -> Hosts], NEW e \in Entries, NEW p \in Points, Reconcile(e, p),
         acked \in Nat, Len(log) \in Nat
  PROVE  /\ host' \in [Entries -> Hosts] /\ Stays(e)
         /\ host'[e].pc = "ingest" /\ host'[e].next = acked + 1 /\ host'[e].upto = Len(log)
         /\ host'[e].rest = host[e].rest /\ host'[e].order = host[e].order
         /\ host'[e].index = host[e].index /\ host'[e].verified = host[e].verified
         /\ host'[e].then = p
<1> DEFINE h == [host[e] EXCEPT !.pc = "ingest", !.next = acked + 1, !.upto = Len(log), !.then = p]
<1>1. host[e] \in Hosts /\ "ingest" \in Points /\ acked + 1 \in Nat
  BY DEF Points
<1>2. /\ h \in Hosts
      /\ h.pc = "ingest" /\ h.next = acked + 1 /\ h.upto = Len(log)
      /\ h.rest = host[e].rest /\ h.order = host[e].order
      /\ h.index = host[e].index /\ h.verified = host[e].verified
      /\ h.then = p
  BY <1>1 DEF Hosts
<1>3. host' = [host EXCEPT ![e] = h]
  BY DEF Reconcile
<1> HIDE DEF h
<1> QED BY <1>2, <1>3, Becomes

LEMMA IngestMoves ==
  ASSUME host \in [Entries -> Hosts], NEW e \in Entries,
         host' = [host EXCEPT ![e].next = @ + 1]
  PROVE  /\ host' \in [Entries -> Hosts] /\ Stays(e)
         /\ host'[e].pc = host[e].pc /\ host'[e].next = host[e].next + 1
         /\ host'[e].upto = host[e].upto
         /\ host'[e].rest = host[e].rest /\ host'[e].order = host[e].order
         /\ host'[e].index = host[e].index /\ host'[e].verified = host[e].verified
         /\ host'[e].then = host[e].then
<1> DEFINE h == [host[e] EXCEPT !.next = host[e].next + 1]
<1>0. host[e] \in Hosts /\ host[e].next \in Nat
  BY DEF Hosts
<1>1. host[e] \in Hosts /\ host[e].next + 1 \in Nat
  BY <1>0
<1>2. /\ h \in Hosts
      /\ h.pc = host[e].pc /\ h.next = host[e].next + 1 /\ h.upto = host[e].upto
      /\ h.rest = host[e].rest /\ h.order = host[e].order
      /\ h.index = host[e].index /\ h.verified = host[e].verified
      /\ h.then = host[e].then
  BY <1>1 DEF Hosts
<1>3. host' = [host EXCEPT ![e] = h]
  OBVIOUS
<1> HIDE DEF h
<1> QED BY <1>2, <1>3, Becomes

(* An order is taken in hand: the head of what is released, or a command's.*)
LEMMA TakeMoves ==
  ASSUME host \in [Entries -> Hosts], NEW r \in Seq(Nat), NEW o \in Orders \cup {None},
         NEW p \in Points,
         host' = [host EXCEPT !["drain"].pc = "create", !["drain"].rest = r,
                              !["drain"].order = o, !["drain"].then = p]
  PROVE  /\ host' \in [Entries -> Hosts] /\ Stays("drain")
         /\ host'["drain"].pc = "create" /\ host'["drain"].upto = host["drain"].upto
         /\ host'["drain"].rest = r /\ host'["drain"].order = o
         /\ host'["drain"].index = host["drain"].index
         /\ host'["drain"].verified = host["drain"].verified
         /\ host'["drain"].then = p
<1> DEFINE h == [host["drain"] EXCEPT !.pc = "create", !.rest = r, !.order = o, !.then = p]
<1>1. host["drain"] \in Hosts /\ "create" \in Points
  BY Names DEF Points
<1>2. /\ h \in Hosts
      /\ h.pc = "create" /\ h.upto = host["drain"].upto /\ h.rest = r /\ h.order = o
      /\ h.index = host["drain"].index /\ h.verified = host["drain"].verified
      /\ h.then = p
  BY <1>1 DEF Hosts
<1>3. host' = [host EXCEPT !["drain"] = h]
  OBVIOUS
<1> HIDE DEF h
<1>4. "drain" \in Entries
  BY Names
<1>5. host' \in [Entries -> Hosts] /\ Stays("drain") /\ host'["drain"] = h
  BY <1>2, <1>3, <1>4, Becomes
<1> QED BY <1>2, <1>5

LEMMA GiveMoves ==
  ASSUME host \in [Entries -> Hosts], NEW o \in Orders,
         host' = [host EXCEPT !["drain"].pc = "create", !["drain"].order = o,
                              !["drain"].then = "end"]
  PROVE  /\ host' \in [Entries -> Hosts] /\ Stays("drain")
         /\ host'["drain"].pc = "create" /\ host'["drain"].upto = host["drain"].upto
         /\ host'["drain"].rest = host["drain"].rest /\ host'["drain"].order = o
         /\ host'["drain"].index = host["drain"].index
         /\ host'["drain"].verified = host["drain"].verified
         /\ host'["drain"].then = "end"
<1> DEFINE h == [host["drain"] EXCEPT !.pc = "create", !.order = o, !.then = "end"]
<1>1. host["drain"] \in Hosts /\ "create" \in Points /\ "end" \in Points
  BY Names DEF Points
<1>2. /\ h \in Hosts
      /\ h.pc = "create" /\ h.upto = host["drain"].upto
      /\ h.rest = host["drain"].rest /\ h.order = o
      /\ h.index = host["drain"].index /\ h.verified = host["drain"].verified
      /\ h.then = "end"
  BY <1>1 DEF Hosts
<1>3. host' = [host EXCEPT !["drain"] = h]
  OBVIOUS
<1> HIDE DEF h
<1> QED BY <1>2, <1>3, Becomes, Names

LEMMA OverMoves ==
  ASSUME host \in [Entries -> Hosts], OrderOver
  PROVE  /\ host' \in [Entries -> Hosts] /\ Stays("drain")
         /\ host'["drain"].pc = host["drain"].then /\ host'["drain"].upto = host["drain"].upto
         /\ host'["drain"].rest = host["drain"].rest /\ host'["drain"].order = None
         /\ host'["drain"].index = 0 /\ host'["drain"].verified
         /\ host'["drain"].then = host["drain"].then
<1> DEFINE h == [host["drain"] EXCEPT !.pc = host["drain"].then, !.order = None,
                                      !.index = 0, !.verified = TRUE]
<1>1. host["drain"] \in Hosts /\ host["drain"].then \in Points
  BY Names DEF Hosts
<1>2. /\ h \in Hosts
      /\ h.pc = host["drain"].then /\ h.upto = host["drain"].upto
      /\ h.rest = host["drain"].rest /\ h.order = None
      /\ h.index = 0 /\ h.verified
      /\ h.then = host["drain"].then
  BY <1>1 DEF Hosts
<1>3. host' = [host EXCEPT !["drain"] = h]
  BY DEF OrderOver
<1> HIDE DEF h
<1> QED BY <1>2, <1>3, Becomes, Names

LEMMA SucceedMoves ==
  ASSUME host \in [Entries -> Hosts], host' = [host EXCEPT !["drain"].index = @ + 1]
  PROVE  /\ host' \in [Entries -> Hosts] /\ Stays("drain")
         /\ host'["drain"].pc = host["drain"].pc /\ host'["drain"].upto = host["drain"].upto
         /\ host'["drain"].rest = host["drain"].rest
         /\ host'["drain"].order = host["drain"].order
         /\ host'["drain"].index = host["drain"].index + 1
         /\ host'["drain"].verified = host["drain"].verified
         /\ host'["drain"].then = host["drain"].then
<1> DEFINE h == [host["drain"] EXCEPT !.index = host["drain"].index + 1]
<1>0. host["drain"] \in Hosts /\ host["drain"].index \in Nat
  BY Names DEF Hosts
<1>1. host["drain"] \in Hosts /\ host["drain"].index + 1 \in Nat
  BY <1>0
<1>2. /\ h \in Hosts
      /\ h.pc = host["drain"].pc /\ h.upto = host["drain"].upto
      /\ h.rest = host["drain"].rest /\ h.order = host["drain"].order
      /\ h.index = host["drain"].index + 1 /\ h.verified = host["drain"].verified
      /\ h.then = host["drain"].then
  BY <1>1 DEF Hosts
<1>3. host' = [host EXCEPT !["drain"] = h]
  OBVIOUS
<1> HIDE DEF h
<1> QED BY <1>2, <1>3, Becomes, Names

LEMMA StopMoves ==
  ASSUME host \in [Entries -> Hosts], host' = [host EXCEPT !["drain"] = Stopped]
  PROVE  /\ host' \in [Entries -> Hosts] /\ Stays("drain")
         /\ host'["drain"].pc = "complete" /\ host'["drain"].upto = host["drain"].upto
         /\ host'["drain"].rest = host["drain"].rest
         /\ host'["drain"].order = host["drain"].order
         /\ host'["drain"].index = host["drain"].index
         /\ ~host'["drain"].verified
         /\ host'["drain"].then = host["drain"].then
<1>1. host["drain"] \in Hosts /\ "complete" \in Points
  BY Names DEF Points
<1>2. /\ Stopped \in Hosts
      /\ Stopped.pc = "complete" /\ Stopped.upto = host["drain"].upto
      /\ Stopped.rest = host["drain"].rest /\ Stopped.order = host["drain"].order
      /\ Stopped.index = host["drain"].index /\ ~Stopped.verified
      /\ Stopped.then = host["drain"].then
  BY <1>1 DEF Hosts, Stopped
<1> QED BY <1>2, Becomes, Names

-----------------------------------------------------------------------------
(* Type correctness.                                                       *)

HostOK ==
    /\ host \in [Entries -> Hosts] /\ host["drain"].rest \in Seq(1..Len(order))
    /\ \A e \in Entries : host[e].upto <= Len(log)
    /\ host["drain"].pc \in Busy <=> Cur # None

LogOK == log \in Seq(Events) /\ acked \in 0..Len(log)

DataOK ==
    /\ source \in Seq(Commands) /\ online \in BOOLEAN
    /\ session \in {"UNPAIRED", "ACTIVE", "EXPIRED"}
    /\ queue \in Seq(1..Len(order)) /\ order \in Seq(Local)
    /\ held \subseteq [seq : Nat, event : Events]
    /\ task \in [Orders -> {"none", "RUNNING", "VERIFIED", "UNVERIFIED"}]
    /\ commands \in 0..MaxCommands /\ disturbances \in 0..MaxDisturbances
    /\ begun \in Seq(1..Len(order)) /\ dropped \subseteq 1..Len(order) /\ excused \in BOOLEAN
    /\ done \in [Orders -> Nat] /\ \A o \in Orders : done[o] <= Len(Program[o])

LEMMA HostTypes ==
  ASSUME CompanionTypeOK, NEW e \in Entries, host' \in [Entries -> Hosts], Stays(e),
         Len(log') \in Nat, Len(log) <= Len(log'), host'[e].upto <= Len(log'),
         order' = order, host'["drain"].rest \in Seq(1..Len(order)),
         e = "drain" => (host'["drain"].pc \in Busy <=> host'["drain"].order # None)
  PROVE  HostOK'
<1>1. \A f \in Entries : host'[f].upto <= Len(log')
  <2>1. ASSUME NEW f \in Entries, f # e PROVE host'[f].upto <= Len(log')
    <3>1. host'[f].upto = host[f].upto /\ host[f].upto \in Nat /\ host[f].upto <= Len(log)
      BY <2>1, Typed DEF Stays, CompanionTypeOK
    <3> QED BY <3>1, Typed
  <2> QED BY <2>1
<1>2. host'["drain"].pc \in Busy <=> host'["drain"].order # None
  <2>1. CASE e = "drain"
    BY <2>1
  <2>2. CASE e # "drain"
    BY <2>2, Names DEF Stays, CompanionTypeOK, Busy, Cur
  <2> QED BY <2>1, <2>2
<1> QED BY <1>1, <1>2 DEF HostOK, Cur

LEMMA EmitType ==
  ASSUME CompanionTypeOK, NEW k, NEW o \in Orders \cup {None}, Emit(k, o),
         k \in StepKinds \cup {"queued", "released", "paired", "pairing-refused",
                               "session-ended", "denied"}
  PROVE  /\ log' \in Seq(Events) /\ Len(log') = Len(log) + 1 /\ Len(log') \in Nat
         /\ \A n \in 1..Len(log) : log'[n] = log[n]
<1>1. Event(k, o) \in Events /\ log \in Seq(Events)
  BY DEF Event, Events, CompanionTypeOK
<1>2. log' = Append(log, Event(k, o))
  BY DEF Emit
<1> QED BY <1>1, <1>2, AppendProperties

LEMMA TicketsGrow ==
  ASSUME NEW m \in Nat, NEW n \in Nat, m <= n, NEW s \in Seq(1..m)
  PROVE  s \in Seq(1..n)
BY SeqMonotonic

LEMMA TicketsAreNat ==
  ASSUME NEW m \in Nat, NEW s \in Seq(1..m)
  PROVE  s \in Seq(Nat)
<1>1. 1..m \subseteq Nat
  OBVIOUS
<1> QED BY <1>1, SeqMonotonic

(* An order in hand is an order, a ticket's is a local one.                *)
LEMMA CurIsOrder ==
  ASSUME CompanionTypeOK, host["drain"].pc \in Busy
  PROVE  Cur \in Orders /\ Len(Program[Cur]) \in Nat /\ Program[Cur] \in Seq(StepKinds)
<1>1. Cur \in Orders \cup {None} /\ Cur # None
  BY Typed, Names DEF Cur, Hosts, CompanionTypeOK, Busy
<1>2. Program \in [Orders -> Seq(StepKinds)]
  BY CompanionAssumption
<1> QED BY <1>1, <1>2

LEMMA TicketsAreOrders ==
  ASSUME CompanionTypeOK, NEW r \in Seq(1..Len(order)), r # <<>>
  PROVE  /\ Head(r) \in 1..Len(order) /\ Tail(r) \in Seq(1..Len(order))
         /\ Tail(r) \in Seq(Nat) /\ order[Head(r)] \in Orders /\ order[Head(r)] # None
<1>1. Head(r) \in 1..Len(order) /\ Tail(r) \in Seq(1..Len(order))
  BY HeadTailProperties
<1>2. order \in Seq(Local) /\ Len(order) \in Nat
  BY DEF CompanionTypeOK
<1>3. order[Head(r)] \in Local
  BY <1>1, <1>2, ElementOfSeq
<1> QED BY <1>1, <1>2, <1>3, TicketsAreNat, CompanionAssumption

-----------------------------------------------------------------------------
(* What a step that does not touch a part of the invariant keeps of it.    *)

LogGrows ==
    /\ log' \in Seq(Events) /\ Len(log') \in Nat /\ Len(log) <= Len(log')
    /\ \A n \in 1..Len(log) : log'[n] = log[n]

LEMMA LogStays ==
  ASSUME CompanionTypeOK, UNCHANGED log
  PROVE  LogGrows
BY DEF LogGrows, CompanionTypeOK

LEMMA EmitGrows ==
  ASSUME CompanionTypeOK, NEW k, NEW o \in Orders \cup {None}, Emit(k, o),
         k \in StepKinds \cup {"queued", "released", "paired", "pairing-refused",
                               "session-ended", "denied"}
  PROVE  LogGrows
<1>1. Len(log) \in Nat
  BY DEF CompanionTypeOK
<1> QED BY <1>1, EmitType DEF LogGrows

LEMMA LogTyped ==
  ASSUME CompanionTypeOK, LogGrows, UNCHANGED acked
  PROVE  LogOK'
BY Typed DEF LogOK, LogGrows, CompanionTypeOK

LEMMA TicketsKept ==
  ASSUME TicketInv, UNCHANGED <<begun, queue, order, dropped, excused>>,
         host'["drain"].rest = host["drain"].rest
  PROVE  TicketInv'
BY DEF TicketInv

LEMMA RunKept ==
  ASSUME RunInv, UNCHANGED <<task, done>>,
         host'["drain"].pc \notin {"step", "complete"} \/ host'["drain"] = host["drain"]
  PROVE  RunInv'
BY DEF RunInv, VerdictIsEarned, Cur

(* No pass begins or moves, and what is held stays.                        *)
LEMMA ReplayKept ==
  ASSUME CompanionTypeOK, ReplayInv, LogGrows, UNCHANGED <<acked, held>>,
         \A e \in Entries : host'[e].pc = "ingest" =>
            /\ host[e].pc = "ingest"
            /\ host'[e].next = host[e].next /\ host'[e].upto = host[e].upto
  PROVE  ReplayInv'
<1>1. PassInv'
  BY DEF ReplayInv, PassInv, HeldBefore, IsHeld
<1>2. \A n \in 1..acked' : IsHeld(n)'
  BY DEF ReplayInv, AckedIsHeld, IsHeld
<1>3. ASSUME NEW h \in held PROVE h.seq \in DOMAIN log' /\ h.event = log'[h.seq]
  <2>1. h.seq \in 1..Len(log) /\ h.event = log[h.seq] /\ Len(log) \in Nat
    BY DEF ReplayInv, AckedIsHeld, CompanionTypeOK
  <2>2. h.seq \in 1..Len(log') /\ DOMAIN log' = 1..Len(log')
    BY <2>1 DEF LogGrows
  <2> QED BY <2>1, <2>2 DEF LogGrows
<1>4. \A g, h \in held : g.seq = h.seq => g = h
  BY DEF ReplayInv, AckedIsHeld
<1> QED BY <1>1, <1>2, <1>3, <1>4 DEF ReplayInv, AckedIsHeld

(* A pass begins where the acknowledgements end.                           *)
LEMMA ReplayBegins ==
  ASSUME CompanionTypeOK, ReplayInv, UNCHANGED <<acked, held, log>>, NEW e \in Entries,
         Stays(e), host'[e].next = acked + 1
  PROVE  ReplayInv'
<1>1. acked \in 0..Len(log) /\ Len(log) \in Nat
  BY Typed DEF CompanionTypeOK
<1>2. acked + 1 - 1 = acked
  BY <1>1
<1>3. \A n \in 1..acked : IsHeld(n)'
  BY DEF IsHeld, ReplayInv, AckedIsHeld
<1>4. \A f \in Entries : f # e => host'[f] = host[f]
  BY DEF Stays
<1>5. ASSUME NEW f \in Entries, host'[f].pc = "ingest"
      PROVE  \A n \in 1..(host'[f].next - 1) : IsHeld(n)'
  <2>1. CASE f = e
    <3>0. host'[f].next = acked + 1
      BY <2>1
    <3>1. host'[f].next - 1 = acked
      BY <3>0, <1>1, <1>2
    <3> QED BY <3>1, <1>3
  <2>2. CASE f # e
    <3>1. host'[f] = host[f] /\ host[f].pc = "ingest"
      BY <2>2, <1>4, <1>5
    <3>2. \A n \in 1..(host[f].next - 1) : IsHeld(n)
      BY <3>1 DEF ReplayInv, PassInv, HeldBefore
    <3> QED BY <3>1, <3>2 DEF IsHeld
  <2> QED BY <2>1, <2>2
<1>6. PassInv'
  BY <1>5 DEF PassInv, HeldBefore
<1> QED BY <1>6 DEF ReplayInv, AckedIsHeld, IsHeld

-----------------------------------------------------------------------------
(* The inductive invariant, and what the moves of the host keep of it.     *)

CompanionInv ==
    /\ CompanionTypeOK /\ PlaceInv /\ TicketInv /\ RunInv
    /\ LogIsDurable => ReplayInv

LEMMA Whole ==
  ASSUME HostOK', LogOK', DataOK', PlaceInv', TicketInv', RunInv', LogIsDurable => ReplayInv'
  PROVE  CompanionInv'
BY DEF CompanionInv, CompanionTypeOK, HostOK, LogOK, DataOK, Busy

LEMMA GotoKeeps ==
  ASSUME CompanionInv, NEW p \in {"tick", "poll", "end"}, Goto("drain", p),
         host["drain"].pc \notin Busy, host["drain"].rest = <<>>,
         LogGrows, DataOK',
         UNCHANGED <<begun, queue, order, dropped, excused, task, done, acked, held>>
  PROVE  CompanionInv'
<1>1. /\ host' \in [Entries -> Hosts] /\ Stays("drain") /\ host'["drain"].pc = p
      /\ host'["drain"].upto = host["drain"].upto /\ host'["drain"].rest = host["drain"].rest
      /\ host'["drain"].order = host["drain"].order
      /\ host'["drain"].index = host["drain"].index
      /\ host'["drain"].verified = host["drain"].verified
  <2>1. p \in Points /\ host \in [Entries -> Hosts] /\ "drain" \in Entries
    BY Names, Typed DEF Points, CompanionInv
  <2> QED BY <2>1, GotoMoves
<1>2. host'["drain"].upto <= Len(log') /\ Len(log') \in Nat
  BY <1>1, Names, Typed DEF CompanionInv, CompanionTypeOK, LogGrows
<1>3. HostOK'
  BY <1>1, <1>2, HostTypes, Names DEF CompanionInv, CompanionTypeOK, LogGrows, Busy, Cur
<1>4. PlaceInv'
  BY <1>1, Names DEF CompanionInv, PlaceInv, Stays, Busy
<1>5. TicketInv' /\ RunInv'
  BY <1>1, TicketsKept, RunKept DEF CompanionInv
<1>6. LogIsDurable => ReplayInv'
  BY <1>1, ReplayKept DEF CompanionInv, Stays
<1> QED BY <1>3, <1>4, <1>5, <1>6, LogTyped, Whole DEF CompanionInv

LEMMA ReconcileKeeps ==
  ASSUME CompanionInv, NEW e \in Entries, NEW p \in Points, Reconcile(e, p),
         host[e].pc \notin Busy, host[e].rest = <<>>,
         e = "drain" => p \in Passing, e = "direct" => p = "idle",
         DataOK',
         UNCHANGED <<log, begun, queue, order, dropped, excused, task, done, acked, held>>
  PROVE  CompanionInv'
<1>1. /\ host' \in [Entries -> Hosts] /\ Stays(e) /\ host'[e].pc = "ingest"
      /\ host'[e].next = acked + 1 /\ host'[e].upto = Len(log)
      /\ host'[e].rest = host[e].rest /\ host'[e].order = host[e].order
      /\ host'[e].index = host[e].index /\ host'[e].verified = host[e].verified
      /\ host'[e].then = p
  BY Typed, ReconcileMoves DEF CompanionInv
<1>2. LogGrows /\ Len(log) \in Nat
  BY LogStays, Typed DEF CompanionInv
<1>3. host'["drain"].rest = host["drain"].rest /\ host["drain"].rest \in Seq(1..Len(order))
  BY <1>1, Names DEF Stays, CompanionInv, CompanionTypeOK
<1>4. e = "drain" => (host'["drain"].pc \in Busy <=> host'["drain"].order # None)
  BY <1>1 DEF CompanionInv, CompanionTypeOK, Busy, Cur
<1>5. HostOK'
  BY <1>1, <1>2, <1>3, <1>4, HostTypes DEF CompanionInv
<1>6. PlaceInv'
  <2>1. acked + 1 \in 1..(Len(log) + 1)
    BY Typed DEF CompanionInv, CompanionTypeOK
  <2> QED BY <1>1, <2>1, Names DEF CompanionInv, PlaceInv, Stays, Busy
<1>7. host'["drain"].pc \notin {"step", "complete"} \/ host'["drain"] = host["drain"]
  BY <1>1, Names DEF Stays
<1>8. TicketInv' /\ RunInv'
  BY <1>3, <1>7, TicketsKept, RunKept DEF CompanionInv
<1>9. LogIsDurable => ReplayInv'
  BY <1>1, ReplayBegins DEF CompanionInv
<1> QED BY <1>2, <1>5, <1>6, <1>8, <1>9, LogTyped, Whole DEF CompanionInv

(* An order is over: the run goes on where it was to.                      *)
LEMMA OverKeeps ==
  ASSUME CompanionInv, OrderOver, host["drain"].pc \in Busy,
         DataOK', RunInv',
         UNCHANGED <<log, begun, queue, order, dropped, excused, acked, held>>
  PROVE  CompanionInv'
<1>1. /\ host' \in [Entries -> Hosts] /\ Stays("drain")
      /\ host'["drain"].pc = host["drain"].then /\ host'["drain"].upto = host["drain"].upto
      /\ host'["drain"].rest = host["drain"].rest /\ host'["drain"].order = None
      /\ host'["drain"].index = 0 /\ host'["drain"].verified
      /\ host'["drain"].then = host["drain"].then
  BY Typed, OverMoves DEF CompanionInv
<1>2. host["drain"].then \in {"next", "end"}
  BY DEF CompanionInv, PlaceInv
<1>3. LogGrows
  BY LogStays DEF CompanionInv
<1>4. HostOK'
  BY <1>1, <1>2, <1>3, HostTypes, Names DEF CompanionInv, CompanionTypeOK, LogGrows, Busy
<1>5. PlaceInv'
  BY <1>1, <1>2, Names DEF CompanionInv, PlaceInv, Stays, Busy
<1>6. TicketInv'
  BY <1>1, TicketsKept DEF CompanionInv
<1>7. LogIsDurable => ReplayInv'
  BY <1>1, <1>2, <1>3, ReplayKept DEF CompanionInv, Stays
<1> QED BY <1>3, <1>4, <1>5, <1>6, <1>7, LogTyped, Whole DEF CompanionInv

(* A step that leaves the host alone.                                      *)
LEMMA OutsideKeeps ==
  ASSUME CompanionInv, LogGrows, DataOK',
         UNCHANGED <<host, begun, queue, order, dropped, excused, task, done, acked, held>>
  PROVE  CompanionInv'
<1>1. HostOK'
  BY Typed, Names DEF CompanionInv, CompanionTypeOK, HostOK, LogGrows, Busy, Cur
<1>2. PlaceInv' /\ TicketInv' /\ RunInv'
  BY TicketsKept, RunKept DEF CompanionInv, PlaceInv
<1>3. LogIsDurable => ReplayInv'
  BY ReplayKept DEF CompanionInv
<1> QED BY <1>1, <1>2, <1>3, LogTyped, Whole DEF CompanionInv

LEMMA SubmitKeeps ==
  ASSUME CompanionInv, NEW c \in Commands, Submit(c)
  PROVE  CompanionInv'
<1>1. LogGrows
  BY LogStays DEF CompanionInv, Submit
<1>2. DataOK'
  BY CompanionAssumption DEF CompanionInv, CompanionTypeOK, DataOK, Submit, device, ledger
<1> QED BY <1>1, <1>2, OutsideKeeps DEF Submit, ledger

LEMMA DisturbCounts ==
  ASSUME CompanionInv, Disturb
  PROVE  disturbances' \in 0..MaxDisturbances
BY CompanionAssumption DEF CompanionInv, CompanionTypeOK, Disturb

LEMMA DeviceKeeps ==
  ASSUME CompanionInv, DeviceMoves
  PROVE  CompanionInv'
<1>1. LogGrows
  BY LogStays DEF CompanionInv, DeviceMoves
<1>2. online' \in BOOLEAN
  BY Zenon DEF DeviceMoves
<1>3. DataOK'
  BY <1>2, DisturbCounts DEF CompanionInv, CompanionTypeOK, DataOK, DeviceMoves, ledger
<1> QED BY <1>1, <1>3, OutsideKeeps DEF DeviceMoves, ledger

LEMMA ExpiryKeeps ==
  ASSUME CompanionInv, SessionExpires
  PROVE  CompanionInv'
<1>1. LogGrows
  BY LogStays DEF CompanionInv, SessionExpires
<1>2. DataOK'
  BY DisturbCounts DEF CompanionInv, CompanionTypeOK, DataOK, SessionExpires, ledger
<1> QED BY <1>1, <1>2, OutsideKeeps DEF SessionExpires, ledger

LEMMA EndSessionKeeps ==
  ASSUME CompanionInv, EndSession
  PROVE  CompanionInv'
<1>1. LogGrows
  BY EmitGrows DEF CompanionInv, EndSession
<1>2. DataOK'
  BY CompanionAssumption DEF CompanionInv, CompanionTypeOK, DataOK, EndSession, Disturb, ledger
<1> QED BY <1>1, <1>2, OutsideKeeps DEF EndSession, ledger

LEMMA DrainKeeps ==
  ASSUME CompanionInv, Drain
  PROVE  CompanionInv'
<1>1. LogGrows
  BY LogStays DEF CompanionInv, Drain
<1>2. DataOK'
  BY DEF CompanionInv, CompanionTypeOK, DataOK, Drain, device, ledger
<1>3. host["drain"].pc \notin Busy /\ host["drain"].rest = <<>>
  BY DEF CompanionInv, PlaceInv, Drain, Busy
<1> QED BY <1>1, <1>2, <1>3, GotoKeeps DEF Drain, ledger

LEMMA TickKeeps ==
  ASSUME CompanionInv, Tick
  PROVE  CompanionInv'
<1>1. LogGrows
  BY LogStays DEF CompanionInv, Tick
<1>2. DataOK'
  BY DEF CompanionInv, CompanionTypeOK, DataOK, Tick, device, ledger
<1>3. host["drain"].pc \notin Busy /\ host["drain"].rest = <<>>
  BY DEF CompanionInv, PlaceInv, Tick, Busy
<1>4. CASE Goto("drain", "poll")
  BY <1>1, <1>2, <1>3, <1>4, GotoKeeps DEF Tick, ledger
<1>5. CASE Reconcile("drain", "release")
  BY <1>2, <1>3, <1>5, Names, ReconcileKeeps DEF Tick, ledger, Points, Passing
<1> QED BY <1>4, <1>5 DEF Tick

LEMMA DirectReconcileKeeps ==
  ASSUME CompanionInv, DirectReconcile
  PROVE  CompanionInv'
<1>1. DataOK'
  BY CompanionAssumption
     DEF CompanionInv, CompanionTypeOK, DataOK, DirectReconcile, device, ledger
<1>2. host["direct"].pc \notin Busy /\ host["direct"].rest = <<>>
  BY DEF CompanionInv, PlaceInv, DirectReconcile, Busy
<1> QED BY <1>1, <1>2, Names, ReconcileKeeps DEF DirectReconcile, ledger, Points

LEMMA DirectPairKeeps ==
  ASSUME CompanionInv, DirectPair
  PROVE  CompanionInv'
<1>1. LogGrows
  BY EmitGrows DEF CompanionInv, DirectPair, Pair
<1>2. DataOK'
  BY CompanionAssumption, SMTT(30)
     DEF CompanionInv, CompanionTypeOK, DataOK, DirectPair, Pair, ledger
<1>3. Goto("direct", "idle")
  BY DEF DirectPair, Pair
<1>4. /\ host' \in [Entries -> Hosts] /\ Stays("direct") /\ host'["direct"].pc = "idle"
      /\ host'["direct"].upto = host["direct"].upto
      /\ host'["direct"].rest = host["direct"].rest
  <2>1. "idle" \in Points /\ "direct" \in Entries /\ host \in [Entries -> Hosts]
    BY Names, Typed DEF Points, CompanionInv
  <2> QED BY <1>3, <2>1, GotoMoves
<1>5. host'["drain"] = host["drain"]
  BY <1>4, Names DEF Stays
<1>6. host'["direct"].upto <= Len(log')
  BY <1>1, <1>4, Names, Typed DEF CompanionInv, CompanionTypeOK, LogGrows
<1>7. order' = order
  BY DEF DirectPair, ledger
<1>8. HostOK'
  BY <1>1, <1>4, <1>5, <1>6, <1>7, HostTypes, Names DEF CompanionInv, CompanionTypeOK, LogGrows
<1>9. PlaceInv'
  BY <1>4, <1>5, Names DEF CompanionInv, PlaceInv
<1>10. TicketInv' /\ RunInv'
  BY <1>5, TicketsKept, RunKept DEF CompanionInv, DirectPair, ledger
<1>11. LogIsDurable => ReplayInv'
  BY <1>1, <1>4, ReplayKept DEF CompanionInv, Stays, DirectPair
<1> QED BY <1>1, <1>2, <1>8, <1>9, <1>10, <1>11, LogTyped, Whole DEF CompanionInv, DirectPair

LEMMA StepsOverKeeps ==
  ASSUME CompanionInv, StepsOver
  PROVE  CompanionInv'
<1>1. LogGrows
  BY LogStays DEF CompanionInv, StepsOver
<1>2. DataOK'
  BY DEF CompanionInv, CompanionTypeOK, DataOK, StepsOver, device, ledger
<1>3. /\ host' \in [Entries -> Hosts] /\ Stays("drain") /\ host'["drain"].pc = "complete"
      /\ host'["drain"].upto = host["drain"].upto /\ host'["drain"].rest = host["drain"].rest
      /\ host'["drain"].order = host["drain"].order
      /\ host'["drain"].index = host["drain"].index
      /\ host'["drain"].verified = host["drain"].verified
      /\ host'["drain"].then = host["drain"].then
  <2>1. "complete" \in Points /\ "drain" \in Entries /\ host \in [Entries -> Hosts]
    BY Names, Typed DEF Points, CompanionInv
  <2> QED BY <2>1, GotoMoves DEF StepsOver
<1>4. HostOK'
  BY <1>1, <1>3, HostTypes, Names
     DEF CompanionInv, CompanionTypeOK, LogGrows, StepsOver, ledger, Busy, Cur
<1>5. PlaceInv'
  BY <1>3, Names DEF CompanionInv, PlaceInv, Stays, Busy, StepsOver
<1>6. TicketInv'
  BY <1>3, TicketsKept DEF CompanionInv, StepsOver, ledger
<1>7. RunInv'
  BY <1>3 DEF CompanionInv, RunInv, VerdictIsEarned, StepsOver, Cur
<1>8. LogIsDurable => ReplayInv'
  BY <1>1, <1>3, ReplayKept DEF CompanionInv, Stays, StepsOver
<1> QED BY <1>1, <1>2, <1>4, <1>5, <1>6, <1>7, <1>8, LogTyped, Whole DEF CompanionInv, StepsOver

-----------------------------------------------------------------------------
(* Reconciliation.                                                         *)

LEMMA MaxIsEither ==
  ASSUME NEW a \in Nat, NEW b \in Nat
  PROVE  /\ Max({a, b}) \in Nat /\ (Max({a, b}) = a \/ Max({a, b}) = b)
         /\ Max({a, b}) >= a /\ Max({a, b}) >= b
<1>1. \E x \in {a, b} : \A y \in {a, b} : x >= y
  OBVIOUS
<1>2. Max({a, b}) \in {a, b} /\ \A y \in {a, b} : Max({a, b}) >= y
  BY <1>1 DEF Max
<1> QED BY <1>2

LEMMA IngestKeeps ==
  ASSUME CompanionInv, NEW e \in Entries, Ingest(e)
  PROVE  CompanionInv'
<1> DEFINE n == host[e].next
<1>1. LogGrows
  BY LogStays DEF CompanionInv, Ingest
<1>2. /\ host' \in [Entries -> Hosts] /\ Stays(e)
      /\ host'[e].pc = host[e].pc /\ host'[e].next = n + 1 /\ host'[e].upto = host[e].upto
      /\ host'[e].rest = host[e].rest /\ host'[e].order = host[e].order
      /\ host'[e].index = host[e].index /\ host'[e].verified = host[e].verified
      /\ host'[e].then = host[e].then
  BY Typed, IngestMoves DEF CompanionInv, Ingest
<1>3. n \in 1..Len(log) /\ n \in Nat /\ Len(log) \in Nat /\ host[e].upto \in Nat
  <2>1. n \in Nat /\ Len(log) \in Nat /\ host[e].upto \in Nat /\ host[e].upto <= Len(log)
    BY Typed DEF CompanionInv, CompanionTypeOK
  <2>2. n <= host[e].upto
    BY DEF Ingest
  <2>3. n \in 1..(host[e].upto + 1)
    BY DEF CompanionInv, PlaceInv, Ingest
  <2> QED BY <2>1, <2>2, <2>3
<1>4. held' = IF IsHeld(n) THEN held ELSE held \cup {[seq |-> n, event |-> log[n]]}
  BY DEF Ingest
<1>5. log[n] \in Events
  BY <1>3 DEF CompanionInv, CompanionTypeOK
<1>6. held' \subseteq [seq : Nat, event : Events]
  BY <1>3, <1>4, <1>5 DEF CompanionInv, CompanionTypeOK
<1>7. DataOK'
  BY <1>6 DEF CompanionInv, CompanionTypeOK, DataOK, Ingest, device, ledger
<1>8. HostOK'
  <2>1. host'["drain"].rest = host["drain"].rest /\ host'["drain"].order = host["drain"].order
    BY <1>2, Names DEF Stays
  <2>2. host'["drain"].rest \in Seq(1..Len(order)) /\ order' = order
    BY <2>1 DEF CompanionInv, CompanionTypeOK, Ingest, ledger
  <2>3. e = "drain" => (host'["drain"].pc \in Busy <=> host'["drain"].order # None)
    BY <1>2, <2>1 DEF CompanionInv, CompanionTypeOK, Busy, Cur
  <2>4. host'[e].upto <= Len(log') /\ Len(log') \in Nat /\ Len(log) <= Len(log')
    BY <1>1, <1>2, <1>3 DEF CompanionInv, CompanionTypeOK, LogGrows, Ingest
  <2> QED BY <1>2, <2>2, <2>3, <2>4, HostTypes DEF CompanionInv
<1>9. PlaceInv'
  <2>1. n + 1 \in 1..(host[e].upto + 1)
    BY <1>3 DEF Ingest
  <2> QED BY <1>2, <2>1, Names DEF CompanionInv, PlaceInv, Stays, Busy
<1>10. TicketInv'
  BY <1>2, Names, TicketsKept DEF CompanionInv, Ingest, ledger, Stays
<1>11. RunInv'
  BY <1>2, Names, RunKept DEF CompanionInv, Ingest, Stays
<1>12. ASSUME LogIsDurable PROVE ReplayInv'
  <2> DEFINE new == [seq |-> n, event |-> log[n]]
  <2>1. ReplayInv /\ log' = log /\ acked' = acked
    BY <1>12 DEF CompanionInv, Ingest
  <2>2. n <= host[e].upto /\ host[e].pc = "ingest"
    BY DEF Ingest
  <2>3. new.seq = n /\ new.event = log[n]
    OBVIOUS
  <2> HIDE DEF new
  <2>4. held' = held \/ (~IsHeld(n) /\ held' = held \cup {new})
    BY <1>4 DEF new
  <2>a. \E h \in held' : h.seq = n
    BY <2>3, <2>4, <1>4 DEF IsHeld, new
  <2>b. held \subseteq held'
    BY <2>4
  <2>5. (\E h \in held' : h.seq = n) /\ \A m \in Nat : IsHeld(m) => IsHeld(m)'
    BY <2>a, <2>b DEF IsHeld
  <2>6. \A m \in 1..n : IsHeld(m)'
    <3>1. \A m \in 1..(n - 1) : IsHeld(m)
      BY <2>1, <2>2 DEF ReplayInv, PassInv, HeldBefore
    <3>2. \A m \in 1..n : m = n \/ m \in 1..(n - 1)
      BY <1>3
    <3>3. \A m \in 1..(n - 1) : m \in Nat /\ IsHeld(m)'
      BY <3>1, <2>5
    <3> QED BY <3>2, <3>3, <2>a DEF IsHeld
  <2>7. ASSUME NEW f \in Entries, host'[f].pc = "ingest"
        PROVE  \A m \in 1..(host'[f].next - 1) : IsHeld(m)'
    <3>1. CASE f = e
      <4>1. host'[f].next = n + 1
        BY <3>1, <1>2
      <4>2. host'[f].next - 1 = n
        BY <4>1, <1>3
      <4> QED BY <4>2, <2>6
    <3>2. CASE f # e
      <4>1. host'[f] = host[f] /\ host[f].pc = "ingest"
        BY <3>2, <1>2, <2>7 DEF Stays
      <4>2. \A m \in 1..(host[f].next - 1) : IsHeld(m)
        BY <4>1, <2>1 DEF ReplayInv, PassInv, HeldBefore
      <4> QED BY <4>1, <4>2, <2>5
    <3> QED BY <3>1, <3>2
  <2>8. PassInv'
    BY <2>7 DEF PassInv, HeldBefore
  <2>9. \A m \in 1..acked' : IsHeld(m)'
    BY <2>1, <2>5 DEF ReplayInv, AckedIsHeld
  <2>10. \A h \in held' : h.seq \in DOMAIN log' /\ h.event = log'[h.seq]
    <3>1. DOMAIN log = 1..Len(log)
      BY DEF CompanionInv, CompanionTypeOK
    <3> QED BY <3>1, <1>3, <2>1, <2>3, <2>4 DEF ReplayInv, AckedIsHeld
  <2>11. \A g, h \in held' : g.seq = h.seq => g = h
    BY <2>1, <2>3, <2>4 DEF ReplayInv, AckedIsHeld, IsHeld
  <2> QED BY <2>8, <2>9, <2>10, <2>11 DEF ReplayInv, AckedIsHeld
<1> QED BY <1>1, <1>7, <1>8, <1>9, <1>10, <1>11, <1>12, LogTyped, Whole DEF CompanionInv, Ingest

LEMMA AcknowledgeKeeps ==
  ASSUME CompanionInv, NEW e \in Entries, Acknowledge(e)
  PROVE  CompanionInv'
<1> DEFINE p == host[e].then
<1>1. LogGrows
  BY LogStays DEF CompanionInv, Acknowledge
<1>2. /\ host' \in [Entries -> Hosts] /\ Stays(e)
      /\ host'[e].pc = p /\ host'[e].next = host[e].next /\ host'[e].upto = host[e].upto
      /\ host'[e].rest = host[e].rest /\ host'[e].order = host[e].order
      /\ host'[e].index = host[e].index /\ host'[e].verified = host[e].verified
      /\ host'[e].then = p
  <2>1. p \in Points /\ host \in [Entries -> Hosts]
    BY Typed DEF CompanionInv
  <2> QED BY <2>1, GotoMoves DEF Acknowledge
<1>3. /\ e = "drain" => p \in Passing
      /\ e = "direct" => p = "idle"
      /\ p \notin {"ingest", "step", "complete"}
  BY Names DEF CompanionInv, PlaceInv, Acknowledge, Passing
<1>4. DataOK'
  BY DEF CompanionInv, CompanionTypeOK, DataOK, Acknowledge, device, ledger
<1>5. HostOK'
  <2>1. host'["drain"].rest = host["drain"].rest /\ host'["drain"].order = host["drain"].order
    BY <1>2, Names DEF Stays
  <2>2. host'["drain"].rest \in Seq(1..Len(order)) /\ order' = order
    BY <2>1 DEF CompanionInv, CompanionTypeOK, Acknowledge, ledger
  <2>3. e = "drain" => (host'["drain"].pc \in Busy <=> host'["drain"].order # None)
    BY <1>2, <1>3, <2>1
       DEF CompanionInv, CompanionTypeOK, Busy, Cur, Acknowledge, Passing
  <2>4. host'[e].upto <= Len(log') /\ Len(log') \in Nat /\ Len(log) <= Len(log')
    BY <1>1, <1>2, Typed DEF CompanionInv, CompanionTypeOK, LogGrows, Acknowledge
  <2> QED BY <1>2, <2>2, <2>3, <2>4, HostTypes DEF CompanionInv
<1>6. PlaceInv'
  BY <1>2, <1>3, Names DEF CompanionInv, PlaceInv, Stays, Busy, Passing, Acknowledge
<1>7. TicketInv'
  BY <1>2, Names, TicketsKept DEF CompanionInv, Acknowledge, ledger, Stays
<1>8. RunInv'
  BY <1>2, <1>3, Names, RunKept DEF CompanionInv, Acknowledge, Stays
<1>9. /\ acked \in 0..Len(log) /\ Len(log) \in Nat
      /\ host[e].next \in 1..(host[e].upto + 1)
      /\ host[e].upto \in Nat /\ host[e].upto <= Len(log)
  BY Typed DEF CompanionInv, CompanionTypeOK, PlaceInv, Acknowledge
<1>10. acked' = Max({acked, host[e].next - 1})
  BY DEF Acknowledge, LastReplayed
<1>11. acked' \in 0..Len(log) /\ (acked' = acked \/ acked' = host[e].next - 1)
  <2>1. acked \in Nat /\ host[e].next - 1 \in Nat /\ host[e].next - 1 <= Len(log)
    BY <1>9
  <2>2. Max({acked, host[e].next - 1}) \in {acked, host[e].next - 1}
    BY <2>1, MaxIsEither
  <2> QED BY <1>9, <1>10, <2>1, <2>2
<1>12. LogOK'
  BY <1>11 DEF CompanionInv, CompanionTypeOK, LogOK, Acknowledge
<1>13. ASSUME LogIsDurable PROVE ReplayInv'
  <2>1. ReplayInv /\ UNCHANGED <<log, held>>
    BY <1>13 DEF CompanionInv, Acknowledge
  <2>2. \A m \in 1..(host[e].next - 1) : IsHeld(m)
    BY <2>1 DEF ReplayInv, PassInv, HeldBefore, Acknowledge
  <2>3. \A m \in 1..acked' : IsHeld(m)'
    BY <2>1, <2>2, <1>11 DEF ReplayInv, AckedIsHeld, IsHeld
  <2>4. PassInv'
    BY <2>1, <1>2, <1>3 DEF ReplayInv, PassInv, HeldBefore, IsHeld, Stays
  <2> QED BY <2>1, <2>3, <2>4 DEF ReplayInv, AckedIsHeld
<1> QED BY <1>4, <1>5, <1>6, <1>7, <1>8, <1>12, <1>13, Whole

-----------------------------------------------------------------------------
(* Tickets: sequences of numbers that grow.                                *)

LEMMA AppendRange ==
  ASSUME NEW s \in Seq(Nat), NEW x \in Nat
  PROVE  Range(Append(s, x)) = Range(s) \cup {x}
<1>1. /\ Append(s, x) \in Seq(Nat) /\ Len(Append(s, x)) = Len(s) + 1 /\ Len(s) \in Nat
      /\ \A i \in 1..Len(s) : Append(s, x)[i] = s[i]
      /\ Append(s, x)[Len(s) + 1] = x
  BY AppendProperties
<1>2. DOMAIN s = 1..Len(s) /\ DOMAIN Append(s, x) = 1..(Len(s) + 1)
  BY <1>1
<1>3. ASSUME NEW y \in Range(Append(s, x)) PROVE y \in Range(s) \cup {x}
  <2>1. PICK i \in 1..(Len(s) + 1) : y = Append(s, x)[i]
    BY <1>2 DEF Range
  <2>2. i \in 1..Len(s) \/ i = Len(s) + 1
    BY <1>1
  <2> QED BY <1>1, <1>2, <2>1, <2>2 DEF Range
<1>4. ASSUME NEW y \in Range(s) PROVE y \in Range(Append(s, x))
  <2>1. PICK i \in 1..Len(s) : y = s[i]
    BY <1>2 DEF Range
  <2>2. i \in 1..(Len(s) + 1) /\ y = Append(s, x)[i]
    BY <1>1, <2>1
  <2> QED BY <1>2, <2>2 DEF Range
<1>5. x \in Range(Append(s, x))
  <2>1. Len(s) + 1 \in 1..(Len(s) + 1)
    BY <1>1
  <2> QED BY <1>1, <1>2, <2>1 DEF Range
<1> QED BY <1>3, <1>4, <1>5

LEMMA TailRange ==
  ASSUME NEW r \in Seq(Nat), r # <<>>
  PROVE  Range(r) = {Head(r)} \cup Range(Tail(r))
<1>1. /\ Tail(r) \in Seq(Nat) /\ Len(r) \in Nat /\ Len(r) >= 1
      /\ Len(Tail(r)) = Len(r) - 1 /\ Head(r) = r[1]
      /\ \A i \in 1..(Len(r) - 1) : Tail(r)[i] = r[i + 1]
  BY HeadTailProperties
<1>2. DOMAIN r = 1..Len(r) /\ DOMAIN Tail(r) = 1..(Len(r) - 1)
  BY <1>1
<1>3. ASSUME NEW y \in Range(r) PROVE y \in {Head(r)} \cup Range(Tail(r))
  <2>1. PICK i \in 1..Len(r) : y = r[i]
    BY <1>2 DEF Range
  <2>2. CASE i = 1
    BY <2>1, <2>2, <1>1
  <2>3. CASE i # 1
    <3>1. i - 1 \in 1..(Len(r) - 1) /\ i - 1 + 1 = i
      BY <1>1, <2>3
    <3>2. y = Tail(r)[i - 1]
      BY <3>1, <2>1, <1>1
    <3> QED BY <3>1, <3>2, <1>2 DEF Range
  <2> QED BY <2>2, <2>3
<1>4. ASSUME NEW y \in Range(Tail(r)) PROVE y \in Range(r)
  <2>1. PICK i \in 1..(Len(r) - 1) : y = Tail(r)[i]
    BY <1>2 DEF Range
  <2>2. i + 1 \in 1..Len(r) /\ y = r[i + 1]
    BY <1>1, <2>1
  <2> QED BY <1>2, <2>2 DEF Range
<1>5. Head(r) \in Range(r)
  <2>1. 1 \in DOMAIN r
    BY <1>1, <1>2
  <2> QED BY <1>1, <2>1 DEF Range
<1> QED BY <1>3, <1>4, <1>5

(* The head of what follows may be appended to what goes before.           *)
LEMMA TakeHead ==
  ASSUME NEW b \in Seq(Nat), NEW r \in Seq(Nat), r # <<>>,
         Sorted(b), Sorted(r), Before(b, r)
  PROVE  /\ Sorted(Append(b, Head(r))) /\ Sorted(Tail(r))
         /\ Before(Append(b, Head(r)), Tail(r))
         /\ Range(Append(b, Head(r))) \cup Range(Tail(r)) = Range(b) \cup Range(r)
         /\ \A q \in Seq(Nat) : Before(b, q) /\ Before(r, q) =>
               Before(Append(b, Head(r)), q) /\ Before(Tail(r), q)
<1> DEFINE a == Append(b, Head(r))
           t == Tail(r)
<1>1. /\ t \in Seq(Nat) /\ Len(r) \in Nat /\ Len(r) >= 1
      /\ Len(t) = Len(r) - 1 /\ Head(r) = r[1] /\ Head(r) \in Nat
      /\ \A i \in 1..(Len(r) - 1) : t[i] = r[i + 1]
  BY HeadTailProperties
<1>2. /\ a \in Seq(Nat) /\ Len(a) = Len(b) + 1 /\ Len(b) \in Nat
      /\ \A i \in 1..Len(b) : a[i] = b[i]
      /\ a[Len(b) + 1] = r[1]
  BY <1>1, AppendProperties
<1>3. Range(a) \cup Range(t) = Range(b) \cup Range(r)
  BY <1>1, AppendRange, TailRange
<1> HIDE DEF a, t
<1>a. 1 \in 1..Len(r) /\ \A i \in 1..Len(a) : i \in 1..Len(b) \/ i = Len(b) + 1
  BY <1>1, <1>2
<1>b. \A i \in 1..Len(t) : i \in 1..(Len(r) - 1) /\ i + 1 \in 1..Len(r) /\ 1 < i + 1
  BY <1>1
<1>4. ASSUME NEW i \in 1..Len(a), NEW j \in 1..Len(a), i < j PROVE a[i] < a[j]
  <2>1. i \in 1..Len(b)
    BY <1>2, <1>4
  <2>2. CASE j \in 1..Len(b)
    <3>1. b[i] < b[j]
      BY <1>4, <2>1, <2>2 DEF Sorted
    <3> QED BY <1>2, <2>1, <2>2, <3>1
  <2>3. CASE j = Len(b) + 1
    <3>1. b[i] < r[1]
      BY <1>a, <2>1 DEF Before
    <3> QED BY <1>2, <2>1, <2>3, <3>1
  <2> QED BY <1>a, <2>2, <2>3
<1>5. ASSUME NEW i \in 1..Len(t), NEW j \in 1..Len(t), i < j PROVE t[i] < t[j]
  <2>1. i + 1 \in 1..Len(r) /\ j + 1 \in 1..Len(r) /\ i + 1 < j + 1
    BY <1>b, <1>5
  <2>2. r[i + 1] < r[j + 1]
    BY <2>1 DEF Sorted
  <2> QED BY <1>1, <1>b, <2>2
<1>6. ASSUME NEW i \in 1..Len(a), NEW j \in 1..Len(t) PROVE a[i] < t[j]
  <2>1. t[j] = r[j + 1] /\ j + 1 \in 1..Len(r) /\ 1 < j + 1
    BY <1>1, <1>b
  <2>2. CASE i \in 1..Len(b)
    <3>1. b[i] < r[j + 1]
      BY <2>1, <2>2 DEF Before
    <3> QED BY <1>2, <2>1, <2>2, <3>1
  <2>3. CASE i = Len(b) + 1
    <3>1. r[1] < r[j + 1]
      BY <1>a, <2>1 DEF Sorted
    <3> QED BY <1>2, <2>1, <2>3, <3>1
  <2> QED BY <1>a, <2>2, <2>3
<1>7. ASSUME NEW q \in Seq(Nat), Before(b, q), Before(r, q)
      PROVE  Before(a, q) /\ Before(t, q)
  <2>1. ASSUME NEW i \in 1..Len(a), NEW j \in 1..Len(q) PROVE a[i] < q[j]
    <3>1. CASE i \in 1..Len(b)
      BY <3>1, <1>2, <1>7 DEF Before
    <3>2. CASE i = Len(b) + 1
      BY <3>2, <1>a, <1>2, <1>7 DEF Before
    <3> QED BY <1>a, <3>1, <3>2
  <2>2. ASSUME NEW i \in 1..Len(t), NEW j \in 1..Len(q) PROVE t[i] < q[j]
    BY <1>b, <1>1, <1>7 DEF Before
  <2> QED BY <2>1, <2>2 DEF Before
<1>8. Sorted(a) /\ Sorted(t) /\ Before(a, t)
  BY <1>4, <1>5, <1>6 DEF Sorted, Before
<1> QED BY <1>3, <1>7, <1>8 DEF a, t

(* A new ticket goes to the end.                                           *)
LEMMA LastTicket ==
  ASSUME NEW n \in Nat, NEW q \in Seq(1..n), Sorted(q)
  PROVE  /\ Append(q, n + 1) \in Seq(1..(n + 1)) /\ Sorted(Append(q, n + 1))
         /\ \A s \in Seq(1..n) : Before(s, q) => Before(s, Append(q, n + 1))
         /\ Range(Append(q, n + 1)) = Range(q) \cup {n + 1}
<1> DEFINE a == Append(q, n + 1)
<1>1. q \in Seq(1..(n + 1)) /\ q \in Seq(Nat) /\ n + 1 \in 1..(n + 1) /\ n + 1 \in Nat
  BY TicketsGrow, TicketsAreNat
<1>2. /\ a \in Seq(1..(n + 1)) /\ Len(a) = Len(q) + 1 /\ Len(q) \in Nat
      /\ \A i \in 1..Len(q) : a[i] = q[i]
      /\ a[Len(q) + 1] = n + 1
  BY <1>1, AppendProperties
<1>3. Range(a) = Range(q) \cup {n + 1}
  BY <1>1, AppendRange
<1>4. \A i \in 1..Len(q) : q[i] \in 1..n
  BY ElementOfSeq
<1> HIDE DEF a
<1>a. \A i \in 1..Len(a) : i \in 1..Len(q) \/ i = Len(q) + 1
  BY <1>2
<1>5. ASSUME NEW i \in 1..Len(a), NEW j \in 1..Len(a), i < j PROVE a[i] < a[j]
  <2>1. i \in 1..Len(q) /\ a[i] = q[i] /\ q[i] \in 1..n
    BY <1>2, <1>4, <1>5, SMTT(30)
  <2>2. CASE j \in 1..Len(q)
    BY <1>2, <1>5, <2>1, <2>2 DEF Sorted
  <2>3. CASE j = Len(q) + 1
    BY <1>2, <2>1, <2>3
  <2> QED BY <1>a, <2>2, <2>3
<1>6. ASSUME NEW s \in Seq(1..n), Before(s, q) PROVE Before(s, a)
  <2>1. ASSUME NEW i \in 1..Len(s), NEW j \in 1..Len(a) PROVE s[i] < a[j]
    <3>1. s[i] \in 1..n
      BY ElementOfSeq
    <3>2. CASE j \in 1..Len(q)
      BY <1>2, <1>6, <3>2 DEF Before
    <3>3. CASE j = Len(q) + 1
      BY <1>2, <3>1, <3>3
    <3> QED BY <1>a, <3>2, <3>3
  <2> QED BY <2>1 DEF Before
<1>7. Sorted(a)
  BY <1>5 DEF Sorted
<1> QED BY <1>2, <1>3, <1>6, <1>7 DEF a

LEMMA RangesApart ==
  ASSUME NEW s \in Seq(Nat), NEW r \in Seq(Nat), Before(s, r)
  PROVE  Range(s) \cap Range(r) = {}
<1>1. DOMAIN s = 1..Len(s) /\ DOMAIN r = 1..Len(r)
  OBVIOUS
<1>2. ASSUME NEW x \in Range(s), x \in Range(r) PROVE FALSE
  <2>1. PICK i \in 1..Len(s) : x = s[i]
    BY <1>1 DEF Range
  <2>2. PICK j \in 1..Len(r) : x = r[j]
    BY <1>1, <1>2 DEF Range
  <2>3. s[i] < r[j] /\ s[i] \in Nat
    BY <1>1 DEF Before
  <2> QED BY <2>1, <2>2, <2>3
<1> QED BY <1>2

LEMMA NoTickets ==
  /\ <<>> \in Seq(Nat) /\ Sorted(<<>>) /\ Range(<<>>) = {}
  /\ \A s \in Seq(Nat) : Before(<<>>, s) /\ Before(s, <<>>)
BY DEF Sorted, Before, Range

LEMMA TicketTypes ==
  ASSUME CompanionTypeOK
  PROVE  /\ Len(order) \in Nat
         /\ begun \in Seq(1..Len(order)) /\ begun \in Seq(Nat)
         /\ queue \in Seq(1..Len(order)) /\ queue \in Seq(Nat)
         /\ host["drain"].rest \in Seq(1..Len(order)) /\ host["drain"].rest \in Seq(Nat)
<1>1. /\ Len(order) \in Nat /\ begun \in Seq(1..Len(order)) /\ queue \in Seq(1..Len(order))
      /\ host["drain"].rest \in Seq(1..Len(order))
  BY DEF CompanionTypeOK
<1> QED BY <1>1, TicketsAreNat

-----------------------------------------------------------------------------
(* The queue and the orders.                                               *)

(* An order is taken from the head of what is released.                    *)
LEMMA TakeKeeps ==
  ASSUME CompanionInv, host["drain"].pc \notin Busy,
         NEW r \in Seq(1..Len(order)), r # <<>>, BeginNext(r), TicketInv', DataOK',
         UNCHANGED <<order, dropped, excused, task, done, acked, held>>
  PROVE  CompanionInv'
<1>1. /\ Tail(r) \in Seq(1..Len(order)) /\ Tail(r) \in Seq(Nat)
      /\ order[Head(r)] \in Orders /\ order[Head(r)] # None
  BY TicketsAreOrders DEF CompanionInv
<1>2. LogGrows
  <2>1. Emit("released", order[Head(r)])
    BY DEF BeginNext
  <2> QED BY <1>1, <2>1, EmitGrows DEF CompanionInv
<1>3. /\ host' \in [Entries -> Hosts] /\ Stays("drain")
      /\ host'["drain"].pc = "create" /\ host'["drain"].upto = host["drain"].upto
      /\ host'["drain"].rest = Tail(r) /\ host'["drain"].order = order[Head(r)]
      /\ host'["drain"].index = host["drain"].index
      /\ host'["drain"].verified = host["drain"].verified
      /\ host'["drain"].then = "next"
  <2>1. "next" \in Points /\ host \in [Entries -> Hosts]
    BY Typed DEF Points, CompanionInv
  <2>2. host' = [host EXCEPT !["drain"].pc = "create", !["drain"].rest = Tail(r),
                             !["drain"].order = order[Head(r)], !["drain"].then = "next"]
    BY DEF BeginNext
  <2> QED BY <1>1, <2>1, <2>2, TakeMoves
<1>4. host'["drain"].upto <= Len(log') /\ Len(log') \in Nat /\ Len(log) <= Len(log')
  <2>1. host["drain"].upto \in Nat /\ Len(log) \in Nat /\ host["drain"].upto <= Len(log)
    BY Names, Typed DEF CompanionInv, CompanionTypeOK
  <2> QED BY <1>2, <1>3, <2>1 DEF LogGrows
<1>5. HostOK'
  BY <1>1, <1>3, <1>4, HostTypes, Names DEF CompanionInv, Busy
<1>6. PlaceInv'
  BY <1>3, Names DEF CompanionInv, PlaceInv, Stays, Busy
<1>7. RunInv'
  BY <1>3, RunKept DEF CompanionInv
<1>8. LogIsDurable => ReplayInv'
  BY <1>2, <1>3, ReplayKept DEF CompanionInv, Stays
<1> QED BY <1>2, <1>5, <1>6, <1>7, <1>8, LogTyped, Whole DEF CompanionInv

LEMMA BeginRestKeeps ==
  ASSUME CompanionInv, BeginRest
  PROVE  CompanionInv'
<1> DEFINE r == host["drain"].rest
<1>1. CompanionTypeOK /\ PlaceInv /\ TicketInv /\ host["drain"].pc \notin Busy
  BY DEF CompanionInv, BeginRest, Busy
<1>2. UNCHANGED <<queue, order, dropped, excused, task, done, acked, held>> /\ BeginNext(r)
  BY DEF BeginRest
<1>3. CASE r = <<>>
  <2>1. Goto("drain", "poll") /\ UNCHANGED <<log, begun>>
    BY <1>2, <1>3 DEF BeginNext
  <2>2. DataOK'
    BY <1>1, <2>1 DEF CompanionTypeOK, DataOK, BeginRest, device
  <2> QED BY <1>1, <1>2, <1>3, <2>1, <2>2, LogStays, GotoKeeps
<1>4. CASE r # <<>>
  <2>1. /\ begun' = Append(begun, Head(r)) /\ host'["drain"].rest = Tail(r)
        /\ Head(r) \in 1..Len(order) /\ begun \in Seq(1..Len(order))
    <3>1. host["drain"] \in Hosts /\ host \in [Entries -> Hosts] /\ "drain" \in Entries
      BY <1>1, Names, Typed
    <3>2. Tail(r) \in Seq(Nat) /\ order[Head(r)] \in Orders /\ Head(r) \in 1..Len(order)
      BY <1>1, <1>4, TicketTypes, TicketsAreOrders
    <3>3. host' = [host EXCEPT !["drain"].pc = "create", !["drain"].rest = Tail(r),
                               !["drain"].order = order[Head(r)], !["drain"].then = "next"]
      BY <1>2, <1>4 DEF BeginNext
    <3>4. "next" \in Points
      BY DEF Points
    <3>5. host'["drain"].rest = Tail(r)
      BY <3>1, <3>2, <3>3, <3>4, TakeMoves
    <3> QED BY <1>1, <1>2, <1>4, <3>2, <3>5, TicketTypes DEF BeginNext
  <2>2. DataOK'
    BY <1>1, <2>1, AppendProperties DEF CompanionTypeOK, DataOK, BeginRest, device
  <2>3. TicketInv'
    BY <1>1, <1>2, <1>4, <2>1, TakeHead, TicketTypes DEF TicketInv
  <2> QED BY <1>1, <1>2, <1>4, <2>2, <2>3, TakeKeeps, TicketTypes
<1> QED BY <1>3, <1>4

LEMMA ReleaseAllKeeps ==
  ASSUME CompanionInv, ReleaseAll
  PROVE  CompanionInv'
<1>1. /\ CompanionTypeOK /\ PlaceInv /\ TicketInv /\ host["drain"].pc \notin Busy
      /\ host["drain"].rest = <<>>
  BY DEF CompanionInv, PlaceInv, ReleaseAll, Busy
<1>2. /\ UNCHANGED <<order, dropped, excused, task, done, acked, held>> /\ BeginNext(queue)
      /\ queue' = <<>>
  BY DEF ReleaseAll
<1>3. CASE queue = <<>>
  <2>1. Goto("drain", "poll") /\ UNCHANGED <<log, begun>>
    BY <1>2, <1>3 DEF BeginNext
  <2>2. DataOK'
    BY <1>1, <1>3, <2>1 DEF CompanionTypeOK, DataOK, ReleaseAll, device
  <2> QED BY <1>1, <1>2, <1>3, <2>1, <2>2, LogStays, GotoKeeps
<1>4. CASE queue # <<>>
  <2>1. /\ begun' = Append(begun, Head(queue)) /\ host'["drain"].rest = Tail(queue)
        /\ Head(queue) \in 1..Len(order) /\ begun \in Seq(1..Len(order))
    <3>1. host["drain"] \in Hosts /\ host \in [Entries -> Hosts] /\ "drain" \in Entries
      BY <1>1, Names, Typed
    <3>2. /\ Tail(queue) \in Seq(Nat) /\ order[Head(queue)] \in Orders
          /\ Head(queue) \in 1..Len(order)
      BY <1>1, <1>4, TicketTypes, TicketsAreOrders
    <3>3. host' = [host EXCEPT !["drain"].pc = "create", !["drain"].rest = Tail(queue),
                               !["drain"].order = order[Head(queue)], !["drain"].then = "next"]
      BY <1>2, <1>4 DEF BeginNext
    <3>4. "next" \in Points
      BY DEF Points
    <3>5. host'["drain"].rest = Tail(queue)
      BY <3>1, <3>2, <3>3, <3>4, TakeMoves
    <3> QED BY <1>1, <1>2, <1>4, <3>2, <3>5, TicketTypes DEF BeginNext
  <2>2. DataOK'
    BY <1>1, <1>2, <2>1, AppendProperties DEF CompanionTypeOK, DataOK, ReleaseAll, device
  <2>3. TicketInv'
    <3>1. /\ Sorted(begun') /\ Sorted(Tail(queue)) /\ Before(begun', Tail(queue))
          /\ Range(begun') \cup Range(Tail(queue)) = Range(begun) \cup Range(queue)
          /\ begun' \in Seq(Nat) /\ Tail(queue) \in Seq(Nat)
      BY <1>1, <1>4, <2>1, <2>2, TakeHead, TicketTypes, AppendProperties DEF TicketInv
    <3> QED BY <1>1, <1>2, <2>1, <3>1, NoTickets DEF TicketInv
  <2> QED BY <1>1, <1>2, <1>4, <2>2, <2>3, TakeKeeps, TicketTypes
<1> QED BY <1>3, <1>4

LEMMA EndTickKeeps ==
  ASSUME CompanionInv, EndTick
  PROVE  CompanionInv'
<1> DEFINE h == IF Idle THEN Out ELSE [Out EXCEPT !.pc = "tick"]
<1>1. LogGrows
  BY LogStays DEF CompanionInv, EndTick
<1>2. DataOK'
  BY DEF CompanionInv, CompanionTypeOK, DataOK, EndTick, device, ledger
<1>3. /\ h \in Hosts /\ h.pc \in {"idle", "tick"} /\ h.upto = 0 /\ h.rest = <<>>
      /\ h.order = None /\ h.index = 0 /\ h.verified
  BY Names DEF Out, Hosts, Points
<1>4. host' = [host EXCEPT !["drain"] = h]
  BY DEF EndTick
<1> HIDE DEF h
<1>5. host' \in [Entries -> Hosts] /\ Stays("drain") /\ host'["drain"] = h
  BY <1>3, <1>4, Names, Typed, Becomes DEF CompanionInv
<1>6. host["drain"].rest = <<>> /\ <<>> \in Seq(1..Len(order))
  BY DEF CompanionInv, PlaceInv, EndTick, Busy
<1>7. HostOK'
  <2>1. host'["drain"].upto <= Len(log') /\ Len(log') \in Nat /\ Len(log) <= Len(log')
    BY <1>1, <1>3, <1>5 DEF LogGrows
  <2>2. host'["drain"].rest \in Seq(1..Len(order)) /\ order' = order
    BY <1>3, <1>5, <1>6 DEF EndTick, ledger
  <2>3. host'["drain"].pc \notin Busy /\ host'["drain"].order = None
    BY <1>3, <1>5 DEF Busy
  <2> QED BY <1>5, <2>1, <2>2, <2>3, HostTypes, Names DEF CompanionInv
<1>8. PlaceInv'
  BY <1>3, <1>5, Names DEF CompanionInv, PlaceInv, Stays, Busy
<1>9. TicketInv' /\ RunInv'
  BY <1>3, <1>5, <1>6, TicketsKept, RunKept DEF CompanionInv, EndTick, ledger
<1>10. LogIsDurable => ReplayInv'
  BY <1>1, <1>3, <1>5, ReplayKept DEF CompanionInv, Stays, EndTick
<1> QED BY <1>1, <1>2, <1>7, <1>8, <1>9, <1>10, LogTyped, Whole DEF CompanionInv, EndTick

(* A command's order is queued: it takes the next ticket.                  *)
LEMMA QueueKeeps ==
  ASSUME CompanionInv, host["drain"].pc = "poll", Goto("drain", "end"), NEW o \in Local,
         order' = Append(order, o), queue' = Append(queue, Len(order) + 1), Emit("queued", o),
         source' \in Seq(Commands),
         UNCHANGED <<online, session, acked, held, task, commands, disturbances,
                     begun, dropped, excused, done>>
  PROVE  CompanionInv'
<1> DEFINE n == Len(order)
<1>1. CompanionTypeOK /\ PlaceInv /\ TicketInv /\ o \in Orders /\ host["drain"].rest = <<>>
  BY CompanionAssumption DEF CompanionInv, PlaceInv, Busy
<1>2. /\ order' \in Seq(Local) /\ Len(order') = n + 1 /\ n \in Nat
  BY <1>1, TicketTypes, AppendProperties DEF CompanionTypeOK
<1>3. LogGrows
  BY <1>1, EmitGrows
<1>4. /\ begun \in Seq(1..n) /\ queue \in Seq(1..n) /\ begun \in Seq(Nat)
      /\ begun \in Seq(1..(n + 1))
  BY <1>1, <1>2, TicketTypes, TicketsGrow
<1>5. /\ Append(queue, n + 1) \in Seq(1..(n + 1)) /\ Sorted(Append(queue, n + 1))
      /\ Before(begun, Append(queue, n + 1))
      /\ Range(Append(queue, n + 1)) = Range(queue) \cup {n + 1}
  BY <1>1, <1>2, <1>4, LastTicket DEF TicketInv
<1>6. dropped \subseteq 1..n
  BY <1>1 DEF CompanionTypeOK
<1>7. DataOK'
  BY <1>1, <1>2, <1>4, <1>5, <1>6 DEF CompanionTypeOK, DataOK
<1>8. /\ host' \in [Entries -> Hosts] /\ Stays("drain") /\ host'["drain"].pc = "end"
      /\ host'["drain"].upto = host["drain"].upto /\ host'["drain"].rest = <<>>
      /\ host'["drain"].order = host["drain"].order
      /\ host'["drain"].index = host["drain"].index
      /\ host'["drain"].verified = host["drain"].verified
  <2>1. "end" \in Points /\ host \in [Entries -> Hosts] /\ "drain" \in Entries
    BY <1>1, Names, Typed DEF Points
  <2> QED BY <1>1, <2>1, GotoMoves
<1>9. HostOK'
  <2>1. \A e \in Entries : host'[e].upto = host[e].upto
    BY <1>8 DEF Stays
  <2>2. \A e \in Entries : host[e].upto <= Len(log) /\ host[e].upto \in Nat /\ Len(log) \in Nat
    BY <1>1, Typed DEF CompanionTypeOK
  <2>3. \A e \in Entries : host'[e].upto <= Len(log')
    BY <1>3, <2>1, <2>2 DEF LogGrows
  <2>4. host["drain"].order = None
    BY <1>1 DEF CompanionTypeOK, Cur
  <2>5. <<>> \in Seq(1..Len(order'))
    OBVIOUS
  <2> QED BY <1>8, <2>3, <2>4, <2>5 DEF HostOK, Busy, Cur
<1>10. PlaceInv'
  BY <1>1, <1>8, Names DEF PlaceInv, Stays, Busy
<1>11. TicketInv'
  <2>1. 1..Len(order') \ dropped = (1..n \ dropped) \cup {n + 1}
    BY <1>2, <1>6
  <2>2. /\ Sorted(begun) /\ Range(begun) \cup Range(<<>>) \cup Range(queue) = 1..n \ dropped
        /\ dropped # {} => excused
    BY <1>1 DEF TicketInv
  <2>a. n + 1 \in Nat /\ queue' \in Seq(1..(n + 1))
    BY <1>2, <1>5
  <2>b. queue' \in Seq(Nat)
    BY <2>a, TicketsAreNat
  <2>3. Sorted(<<>>) /\ Before(begun, <<>>) /\ Before(<<>>, queue')
    BY <1>4, <2>b, NoTickets
  <2>4. Range(begun) \cup Range(<<>>) \cup Range(queue') = 1..Len(order') \ dropped
    BY <1>5, <2>1, <2>2
  <2> QED BY <1>5, <1>8, <2>2, <2>3, <2>4 DEF TicketInv
<1>12. RunInv'
  BY <1>8, RunKept DEF CompanionInv
<1>13. LogIsDurable => ReplayInv'
  BY <1>3, <1>8, ReplayKept DEF CompanionInv, Stays
<1> QED BY <1>1, <1>3, <1>7, <1>9, <1>10, <1>11, <1>12, <1>13, LogTyped, Whole

LEMMA GiveKeeps ==
  ASSUME CompanionInv, host["drain"].pc = "poll", NEW o \in Orders, DataOK',
         host' = [host EXCEPT !["drain"].pc = "create", !["drain"].order = o,
                              !["drain"].then = "end"],
         UNCHANGED <<log, acked, held, task, queue, order, begun, dropped, excused, done>>
  PROVE  CompanionInv'
<1>1. host["drain"].rest = <<>> /\ host["drain"].index = 0 /\ host["drain"].verified
  BY DEF CompanionInv, PlaceInv, Busy
<1>2. /\ host' \in [Entries -> Hosts] /\ Stays("drain")
      /\ host'["drain"].pc = "create" /\ host'["drain"].upto = host["drain"].upto
      /\ host'["drain"].rest = host["drain"].rest /\ host'["drain"].order = o
      /\ host'["drain"].index = host["drain"].index
      /\ host'["drain"].verified = host["drain"].verified
      /\ host'["drain"].then = "end"
  BY GiveMoves, Typed DEF CompanionInv
<1>3. LogGrows
  BY LogStays DEF CompanionInv
<1>4. HostOK'
  <2>1. host'["drain"].upto <= Len(log') /\ Len(log') \in Nat /\ Len(log) <= Len(log')
    BY <1>2, Names, Typed DEF CompanionInv, CompanionTypeOK
  <2>2. host'["drain"].rest \in Seq(1..Len(order))
    BY <1>2 DEF CompanionInv, CompanionTypeOK
  <2>3. o # None /\ host'["drain"].pc \in Busy
    BY <1>2, CompanionAssumption DEF Busy
  <2> QED BY <1>2, <2>1, <2>2, <2>3, HostTypes, Names DEF CompanionInv
<1>5. PlaceInv'
  BY <1>1, <1>2, Names DEF CompanionInv, PlaceInv, Stays, Busy
<1>6. TicketInv' /\ RunInv'
  BY <1>2, TicketsKept, RunKept DEF CompanionInv
<1>7. LogIsDurable => ReplayInv'
  BY <1>2, <1>3, ReplayKept DEF CompanionInv, Stays
<1> QED BY <1>3, <1>4, <1>5, <1>6, <1>7, LogTyped, Whole DEF CompanionInv

LEMMA PollKeeps ==
  ASSUME CompanionInv, Poll
  PROVE  CompanionInv'
<1>1. /\ CompanionTypeOK /\ host["drain"].pc = "poll" /\ host["drain"].pc \notin Busy
      /\ host["drain"].rest = <<>>
  BY DEF CompanionInv, PlaceInv, Poll, Busy
<1>2. UNCHANGED <<online, acked, held, task, commands, disturbances, begun, dropped, excused, done>>
  BY DEF Poll
<1>3. CASE source = <<>>
  <2>1. Goto("drain", "end") /\ UNCHANGED <<source, session, queue, log, order>>
    BY <1>3 DEF Poll
  <2>2. DataOK'
    BY <1>1, <1>2, <2>1 DEF CompanionTypeOK, DataOK
  <2> QED BY <1>1, <1>2, <2>1, <2>2, LogStays, GotoKeeps
<1>4. CASE source # <<>>
  <2> DEFINE c == Head(source)
  <2>1. c \in Commands /\ source' \in Seq(Commands)
    <3>1. source \in Seq(Commands) /\ source' = Tail(source)
      BY <1>1, <1>4 DEF CompanionTypeOK, Poll
    <3> QED BY <1>4, <3>1, HeadTailProperties
  <2>2. CASE c.kind = "run-work-order"
    <3>1. RunOrder(c.order) /\ UNCHANGED session
      BY <1>4, <2>2 DEF Poll
    <3>2. c.order \in Orders
      BY <2>1, <2>2 DEF Commands
    <3> HIDE DEF c
    <3>3. CASE ~(c.order \in Local /\ ~online)
      <4>1. /\ host' = [host EXCEPT !["drain"].pc = "create", !["drain"].order = c.order,
                                    !["drain"].then = "end"]
            /\ UNCHANGED <<queue, log, order>>
        BY <3>1, <3>3 DEF RunOrder
      <4>2. DataOK'
        BY <1>1, <1>2, <2>1, <3>1, <4>1 DEF CompanionTypeOK, DataOK
      <4> QED BY <1>1, <1>2, <3>2, <4>1, <4>2, GiveKeeps
    <3>4. CASE c.order \in Local /\ ~online
      <4>1. Goto("drain", "end")
        BY <3>1, <3>4 DEF RunOrder
      <4>2. CASE UNCHANGED <<queue, log, order>>
        <5>1. DataOK'
          BY <1>1, <1>2, <2>1, <3>1, <4>2 DEF CompanionTypeOK, DataOK
        <5> QED BY <1>1, <1>2, <4>1, <4>2, <5>1, LogStays, GotoKeeps
      <4>3. CASE /\ order' = Append(order, c.order)
                 /\ queue' = Append(queue, Len(order) + 1)
                 /\ Emit("queued", c.order)
        BY <1>1, <1>2, <2>1, <3>1, <3>4, <4>1, <4>3, QueueKeeps
      <4> QED BY <3>1, <3>4, <4>2, <4>3 DEF RunOrder
    <3> QED BY <3>3, <3>4
  <2>3. CASE c.kind = "pair-companion"
    <3>1. Pair("drain", "end") /\ UNCHANGED <<queue, order>>
      BY <1>4, <2>3 DEF Poll
    <3>2. LogGrows /\ Goto("drain", "end") /\ session' \in {"UNPAIRED", "ACTIVE", "EXPIRED"}
      BY <1>1, <3>1, EmitGrows DEF Pair, CompanionTypeOK
    <3>3. DataOK'
      BY <1>1, <1>2, <2>1, <3>1, <3>2 DEF CompanionTypeOK, DataOK
    <3> QED BY <1>1, <1>2, <3>1, <3>2, <3>3, GotoKeeps
  <2>4. CASE c.kind \notin {"run-work-order", "pair-companion"}
    <3>1. Reconcile("drain", "end") /\ UNCHANGED <<session, queue, log, order>>
      BY <1>4, <2>4 DEF Poll
    <3>2. DataOK'
      BY <1>1, <1>2, <2>1, <3>1 DEF CompanionTypeOK, DataOK
    <3>3. "end" \in Points /\ "end" \in Passing /\ "drain" \in Entries /\ "drain" # "direct"
      BY DEF Points, Passing, Entries
    <3> QED BY <1>1, <1>2, <3>1, <3>2, <3>3, ReconcileKeeps
  <2> QED BY <2>2, <2>3, <2>4
<1> QED BY <1>3, <1>4

-----------------------------------------------------------------------------
(* The run of an order.                                                    *)

(* What a step of a run keeps that moves the drain within an order.        *)
LEMMA BusyKeeps ==
  ASSUME CompanionInv, host["drain"].pc \in Busy, LogGrows, DataOK', RunInv',
         host' \in [Entries -> Hosts], Stays("drain"),
         host'["drain"].pc \in {"step", "complete"},
         host'["drain"].upto = host["drain"].upto, host'["drain"].rest = host["drain"].rest,
         host'["drain"].order = host["drain"].order, host'["drain"].then = host["drain"].then,
         UNCHANGED <<begun, queue, order, dropped, excused, acked, held>>
  PROVE  CompanionInv'
<1>1. HostOK'
  <2>1. host'["drain"].upto <= Len(log') /\ Len(log') \in Nat /\ Len(log) <= Len(log')
    <3>1. host["drain"].upto \in Nat /\ Len(log) \in Nat /\ host["drain"].upto <= Len(log)
      BY Names, Typed DEF CompanionInv, CompanionTypeOK
    <3> QED BY <3>1 DEF LogGrows
  <2>2. host'["drain"].rest \in Seq(1..Len(order))
    BY DEF CompanionInv, CompanionTypeOK
  <2>3. host'["drain"].order # None /\ host'["drain"].pc \in Busy
    BY DEF CompanionInv, CompanionTypeOK, Cur, Busy
  <2> QED BY <2>1, <2>2, <2>3, HostTypes, Names DEF CompanionInv
<1>2. PlaceInv'
  BY Names DEF CompanionInv, PlaceInv, Stays, Busy
<1>3. TicketInv'
  BY TicketsKept DEF CompanionInv
<1>4. LogIsDurable => ReplayInv'
  BY ReplayKept DEF CompanionInv, Stays
<1> QED BY <1>1, <1>2, <1>3, <1>4, LogTyped, Whole DEF CompanionInv

LEMMA OverRuns ==
  ASSUME CompanionInv, host["drain"].pc \in Busy, OrderOver
  PROVE  host'["drain"].pc \in {"next", "end"}
<1>1. host'["drain"].pc = host["drain"].then
  BY Typed, OverMoves DEF CompanionInv
<1> QED BY <1>1 DEF CompanionInv, PlaceInv

LEMMA CreateTaskKeeps ==
  ASSUME CompanionInv, CreateTask
  PROVE  CompanionInv'
<1>1. /\ CompanionTypeOK /\ RunInv /\ host["drain"].pc = "create" /\ host["drain"].pc \in Busy
      /\ Cur \in Orders /\ host["drain"].index = 0 /\ host["drain"].verified
  BY CurIsOrder DEF CompanionInv, PlaceInv, CreateTask, Busy
<1>2. UNCHANGED <<source, online, session, queue, log, acked, held, commands, order, begun,
                  dropped, excused, done>>
  BY DEF CreateTask, device, ledger
<1>3. LogGrows
  BY <1>1, <1>2, LogStays
<1>4. CASE /\ IsNew(Cur) /\ task' = [task EXCEPT ![Cur] = "RUNNING"]
           /\ Goto("drain", "step") /\ UNCHANGED disturbances
  <2>1. /\ host' \in [Entries -> Hosts] /\ Stays("drain") /\ host'["drain"].pc = "step"
        /\ host'["drain"].upto = host["drain"].upto /\ host'["drain"].rest = host["drain"].rest
        /\ host'["drain"].order = host["drain"].order
        /\ host'["drain"].index = host["drain"].index
        /\ host'["drain"].verified = host["drain"].verified
        /\ host'["drain"].then = host["drain"].then
    <3>1. "step" \in Points /\ "drain" \in Entries /\ host \in [Entries -> Hosts]
      BY <1>1, Names, Typed DEF Points
    <3> QED BY <1>4, <3>1, GotoMoves
  <2>2. DataOK'
    BY <1>1, <1>2, <1>4 DEF CompanionTypeOK, DataOK
  <2>3. RunInv'
    <3>1. done[Cur] = 0 /\ Cur' = Cur
      BY <1>1, <1>4, <2>1 DEF RunInv, IsNew, Cur
    <3>2. \A o \in Orders : task'[o] = IF o = Cur THEN "RUNNING" ELSE task[o]
      BY <1>1, <1>4 DEF CompanionTypeOK
    <3> QED BY <1>1, <1>2, <2>1, <3>1, <3>2 DEF RunInv, VerdictIsEarned
  <2> QED BY <1>1, <1>2, <1>3, <2>1, <2>2, <2>3, BusyKeeps
<1>5. CASE OrderOver /\ UNCHANGED task /\ (Disturb \/ UNCHANGED disturbances)
  <2>1. disturbances' \in 0..MaxDisturbances
    BY <1>1, <1>5, DisturbCounts DEF CompanionTypeOK
  <2>2. DataOK'
    BY <1>1, <1>2, <1>5, <2>1 DEF CompanionTypeOK, DataOK
  <2>3. RunInv'
    BY <1>1, <1>2, <1>5, OverRuns, RunKept
  <2> QED BY <1>1, <1>2, <1>5, <2>2, <2>3, OverKeeps
<1> QED BY <1>4, <1>5 DEF CreateTask

LEMMA CompleteTaskKeeps ==
  ASSUME CompanionInv, CompleteTask
  PROVE  CompanionInv'
<1>1. /\ CompanionTypeOK /\ RunInv /\ host["drain"].pc = "complete" /\ host["drain"].pc \in Busy
      /\ Cur \in Orders /\ OrderOver
  BY CurIsOrder DEF CompanionInv, CompleteTask, Busy
<1>2. UNCHANGED <<source, online, session, queue, log, acked, held, commands, order, begun,
                  dropped, excused, done>>
  BY DEF CompleteTask, device, ledger
<1>3. disturbances' \in 0..MaxDisturbances
  BY <1>1, DisturbCounts DEF CompleteTask, CompanionTypeOK
<1>4. host'["drain"].pc \in {"next", "end"}
  BY <1>1, OverRuns
<1>5. CASE UNCHANGED task
  <2>1. DataOK'
    BY <1>1, <1>2, <1>3, <1>5 DEF CompanionTypeOK, DataOK
  <2>2. RunInv'
    BY <1>1, <1>2, <1>4, <1>5, RunKept
  <2> QED BY <1>1, <1>2, <2>1, <2>2, OverKeeps
<1>6. CASE task' = [task EXCEPT ![Cur] = IF host["drain"].verified THEN "VERIFIED"
                                                                   ELSE "UNVERIFIED"]
  <2>1. DataOK'
    BY <1>1, <1>2, <1>3, <1>6 DEF CompanionTypeOK, DataOK
  <2>2. \A o \in Orders : o # Cur => task'[o] = task[o]
    BY <1>1, <1>6 DEF CompanionTypeOK
  <2>3. /\ task'[Cur] \in {"VERIFIED", "UNVERIFIED"}
        /\ task'[Cur] = "VERIFIED" <=> host["drain"].verified
    BY <1>1, <1>6 DEF CompanionTypeOK
  <2>4. host["drain"].verified <=> done[Cur] = Len(Program[Cur])
    BY <1>1 DEF RunInv
  <2>5. VerdictIsEarned'
    BY <1>1, <1>2, <2>2, <2>3, <2>4 DEF RunInv, VerdictIsEarned
  <2>6. RunInv'
    BY <1>1, <1>2, <1>4, <2>2, <2>3, <2>5 DEF RunInv
  <2> QED BY <1>1, <1>2, <2>1, <2>6, OverKeeps
<1> QED BY <1>5, <1>6 DEF CompleteTask

LEMMA StepKeeps ==
  ASSUME CompanionInv, Step
  PROVE  CompanionInv'
<1> DEFINE k == Program[Cur][host["drain"].index + 1]
<1>1. /\ CompanionTypeOK /\ RunInv /\ host["drain"].pc = "step" /\ host["drain"].pc \in Busy
      /\ Cur \in Orders /\ Cur \in Orders \cup {None}
      /\ host["drain"].index \in Nat /\ host["drain"].index < Len(Program[Cur])
      /\ Program[Cur] \in Seq(StepKinds) /\ Len(Program[Cur]) \in Nat
      /\ host \in [Entries -> Hosts]
  BY CurIsOrder, Typed, Names DEF CompanionInv, Step, Busy
<1>2. UNCHANGED <<source, online, session, queue, acked, held, task, commands, order, begun,
                  dropped, excused>>
  BY DEF Step, device, ledger
<1>3. k \in StepKinds
  <2>1. host["drain"].index + 1 \in 1..Len(Program[Cur])
    BY <1>1
  <2> QED BY <1>1, <2>1, ElementOfSeq
<1>4. /\ done[Cur] = host["drain"].index /\ task[Cur] = "RUNNING" /\ host["drain"].verified
  BY <1>1 DEF RunInv
<1> HIDE DEF k
<1>5. ASSUME Succeed(k), UNCHANGED disturbances PROVE CompanionInv'
  <2>1. done' = [done EXCEPT ![Cur] = @ + 1] /\ host' = [host EXCEPT !["drain"].index = @ + 1]
    BY <1>5 DEF Succeed
  <2>2. LogGrows
    BY <1>1, <1>3, <1>5, LogStays, EmitGrows DEF Succeed
  <2>3. /\ host' \in [Entries -> Hosts] /\ Stays("drain")
        /\ host'["drain"].pc = host["drain"].pc /\ host'["drain"].upto = host["drain"].upto
        /\ host'["drain"].rest = host["drain"].rest
        /\ host'["drain"].order = host["drain"].order
        /\ host'["drain"].index = host["drain"].index + 1
        /\ host'["drain"].verified = host["drain"].verified
        /\ host'["drain"].then = host["drain"].then
    BY <1>1, <2>1, SucceedMoves
  <2>4. /\ done' \in [Orders -> Nat] /\ done'[Cur] = host["drain"].index + 1
        /\ \A o \in Orders : o # Cur => done'[o] = done[o]
    BY <1>1, <1>4, <2>1 DEF CompanionTypeOK
  <2>a. host["drain"].index + 1 <= Len(Program[Cur])
    BY <1>1
  <2>b. \A o \in Orders : done[o] <= Len(Program[o])
    BY <1>1 DEF CompanionTypeOK
  <2>5. \A o \in Orders : done'[o] <= Len(Program[o])
    BY <2>4, <2>a, <2>b
  <2>6. DataOK'
    BY <1>1, <1>2, <1>5, <2>4, <2>5 DEF CompanionTypeOK, DataOK
  <2>7. RunInv'
    <3>1. Cur' = Cur /\ task' = task
      BY <1>2, <2>3 DEF Cur
    <3>2. VerdictIsEarned'
      BY <1>1, <1>4, <2>4, <3>1 DEF RunInv, VerdictIsEarned
    <3> QED BY <1>1, <1>4, <2>3, <2>4, <3>1, <3>2 DEF RunInv
  <2> QED BY <1>1, <1>2, <2>2, <2>3, <2>6, <2>7, BusyKeeps
<1>6. ASSUME LogGrows, host' = [host EXCEPT !["drain"] = Stopped], UNCHANGED done,
             Disturb \/ UNCHANGED disturbances
      PROVE  CompanionInv'
  <2>1. /\ host' \in [Entries -> Hosts] /\ Stays("drain")
        /\ host'["drain"].pc = "complete" /\ host'["drain"].upto = host["drain"].upto
        /\ host'["drain"].rest = host["drain"].rest
        /\ host'["drain"].order = host["drain"].order
        /\ ~host'["drain"].verified
        /\ host'["drain"].then = host["drain"].then
    BY <1>1, <1>6, StopMoves
  <2>2. disturbances' \in 0..MaxDisturbances
    BY <1>1, <1>6, DisturbCounts DEF CompanionTypeOK
  <2>3. DataOK'
    BY <1>1, <1>2, <1>6, <2>2 DEF CompanionTypeOK, DataOK
  <2>4. RunInv'
    <3>1. Cur' = Cur /\ task' = task /\ done' = done
      BY <1>2, <1>6, <2>1 DEF Cur
    <3>2. done[Cur] # Len(Program[Cur])
      BY <1>1, <1>4
    <3> QED BY <1>1, <1>4, <2>1, <3>1, <3>2 DEF RunInv, VerdictIsEarned
  <2> QED BY <1>1, <1>2, <1>6, <2>1, <2>3, <2>4, BusyKeeps
<1>7. ASSUME Fail(k), Disturb \/ UNCHANGED disturbances PROVE CompanionInv'
  <2>1. LogGrows
    BY <1>1, <1>7, LogStays, EmitGrows DEF Fail
  <2> QED BY <1>6, <1>7, <2>1 DEF Fail
<1>8. ASSUME Disturb, host' = [host EXCEPT !["drain"] = Stopped], UNCHANGED <<log, done>>
      PROVE  CompanionInv'
  BY <1>1, <1>6, <1>8, LogStays
<1> QED BY <1>5, <1>7, <1>8 DEF Step, k

-----------------------------------------------------------------------------
(* What is lost.                                                           *)

LEMMA ThrowKeeps ==
  ASSUME CompanionInv, NEW e \in Entries, Throw(e)
  PROVE  CompanionInv'
<1> DEFINE r == host["drain"].rest
<1>1. CompanionTypeOK /\ PlaceInv /\ TicketInv /\ RunInv /\ host \in [Entries -> Hosts]
  BY Typed DEF CompanionInv
<1>2. UNCHANGED <<source, online, session, queue, acked, held, task, commands, order, begun, done>>
  BY DEF Throw, device
<1>3. LogGrows
  <2>1. CASE UNCHANGED log
    BY <1>1, <2>1, LogStays
  <2>2. CASE /\ host[e].pc = "step" /\ Cur \in Local /\ host[e].index < Len(Program[Cur])
             /\ Emit(Program[Cur][host[e].index + 1], Cur)
    <3>1. e = "drain"
      BY <1>1, <2>2, Names DEF PlaceInv
    <3>2. /\ Cur \in Orders \cup {None} /\ Program[Cur] \in Seq(StepKinds)
          /\ Len(Program[Cur]) \in Nat /\ host["drain"].index \in Nat
      BY <1>1, <2>2, <3>1, CurIsOrder, Typed, Names DEF Busy
    <3>3. host["drain"].index + 1 \in 1..Len(Program[Cur])
      BY <2>2, <3>1, <3>2
    <3>4. Program[Cur][host["drain"].index + 1] \in StepKinds
      BY <3>2, <3>3, ElementOfSeq
    <3> QED BY <1>1, <2>2, <3>1, <3>2, <3>4, EmitGrows
  <2> QED BY <2>1, <2>2 DEF Throw
<1>4. /\ Out \in Hosts /\ Out.pc = "idle" /\ Out.upto = 0 /\ Out.rest = <<>>
      /\ Out.order = None /\ Out.index = 0 /\ Out.verified
  BY Names DEF Out
<1>5. host' \in [Entries -> Hosts] /\ Stays(e) /\ host'[e] = Out
  BY <1>1, <1>4, Becomes DEF Throw
<1>6. disturbances' \in 0..MaxDisturbances
  BY DisturbCounts DEF Throw
<1>7. dropped' = dropped \cup Range(host[e].rest) /\ Range(<<>>) = {}
  BY NoTickets DEF Throw
<1>8. (e = "direct" => host[e].rest = <<>>) /\ (host[e].pc = "ingest" => host[e].rest = <<>>)
  BY <1>1, Names DEF PlaceInv, Busy
<1>9. excused' = TRUE \/ (excused' = excused /\ host[e].pc = "ingest")
  BY <1>1, Zenon DEF CompanionTypeOK, Throw
<1>10. /\ begun \in Seq(Nat) /\ queue \in Seq(Nat) /\ r \in Seq(Nat) /\ Len(order) \in Nat
       /\ r \in Seq(1..Len(order)) /\ <<>> \in Seq(1..Len(order))
  BY <1>1, TicketTypes
<1>11. Range(host[e].rest) \subseteq 1..Len(order)
  <2>1. CASE e = "drain"
    <3>1. \A i \in DOMAIN r : r[i] \in 1..Len(order)
      BY <1>10, SMTT(30)
    <3> QED BY <2>1, <3>1 DEF Range
  <2>2. CASE e = "direct"
    BY <2>2, <1>7, <1>8
  <2> QED BY <2>1, <2>2, Names
<1>12. excused' \in BOOLEAN
  BY <1>1, <1>9 DEF CompanionTypeOK
<1>13. DataOK'
  BY <1>1, <1>2, <1>6, <1>7, <1>11, <1>12 DEF CompanionTypeOK, DataOK
<1>14. HostOK'
  <2>1. host'[e].upto <= Len(log') /\ Len(log') \in Nat /\ Len(log) <= Len(log')
    BY <1>3, <1>4, <1>5 DEF LogGrows
  <2>2. host'["drain"].rest \in Seq(1..Len(order))
    BY <1>4, <1>5, <1>10, Names DEF Stays
  <2>3. e = "drain" => host'["drain"].pc \notin Busy /\ host'["drain"].order = None
    BY <1>4, <1>5 DEF Busy
  <2> QED BY <1>1, <1>2, <1>5, <2>1, <2>2, <2>3, HostTypes
<1>15. PlaceInv'
  BY <1>1, <1>4, <1>5, Names DEF PlaceInv, Stays, Busy
<1>16. TicketInv'
  <2>1. CASE host[e].rest = <<>>
    <3>1. dropped' = dropped /\ (dropped' # {} => excused')
      BY <1>1, <1>7, <1>9, <2>1 DEF TicketInv
    <3>2. host'["drain"].rest = host["drain"].rest
      BY <1>4, <1>5, <2>1, Names DEF Stays
    <3> QED BY <1>1, <1>2, <3>1, <3>2 DEF TicketInv
  <2>2. CASE host[e].rest # <<>>
    <3>1. e = "drain" /\ excused' = TRUE
      BY <1>8, <1>9, <2>2, Names
    <3>2. host'["drain"].rest = <<>> /\ dropped' = dropped \cup Range(r)
      BY <1>4, <1>5, <1>7, <3>1
    <3>3. Range(begun) \cap Range(r) = {} /\ Range(r) \cap Range(queue) = {}
      BY <1>1, <1>10, RangesApart DEF TicketInv
    <3>4. Range(begun) \cup Range(<<>>) \cup Range(queue) = 1..Len(order) \ dropped'
      BY <1>1, <1>7, <3>2, <3>3 DEF TicketInv
    <3> QED BY <1>1, <1>2, <1>10, <3>1, <3>2, <3>4, NoTickets DEF TicketInv
  <2> QED BY <2>1, <2>2
<1>17. RunInv'
  BY <1>1, <1>2, <1>4, <1>5, Names, RunKept DEF Stays
<1>18. LogIsDurable => ReplayInv'
  BY <1>1, <1>2, <1>3, <1>4, <1>5, ReplayKept DEF CompanionInv, Stays
<1> QED BY <1>1, <1>2, <1>3, <1>13, <1>14, <1>15, <1>16, <1>17, <1>18, LogTyped, Whole

LEMMA RestartKeeps ==
  ASSUME CompanionInv, Restart
  PROVE  CompanionInv'
<1> DEFINE r == host["drain"].rest
<1>1. CompanionTypeOK /\ PlaceInv /\ TicketInv /\ RunInv
  BY DEF CompanionInv
<1>2. /\ UNCHANGED <<source, online, held, task, commands, order, begun, done>>
      /\ session' = "UNPAIRED" /\ queue' = <<>> /\ excused' = TRUE
      /\ dropped' = dropped \cup Range(queue) \cup Range(r)
  BY DEF Restart
<1>3. /\ Out \in Hosts /\ Out.pc = "idle" /\ Out.upto = 0 /\ Out.rest = <<>>
      /\ Out.order = None /\ Out.index = 0 /\ Out.verified
  BY Names DEF Out
<1>4. host' \in [Entries -> Hosts] /\ \A e \in Entries : host'[e] = Out
  BY <1>3 DEF Restart
<1>5. disturbances' \in 0..MaxDisturbances
  BY DisturbCounts DEF Restart
<1>6. /\ begun \in Seq(Nat) /\ queue \in Seq(Nat) /\ r \in Seq(Nat) /\ Len(order) \in Nat
      /\ queue \in Seq(1..Len(order)) /\ r \in Seq(1..Len(order)) /\ <<>> \in Seq(1..Len(order))
  BY <1>1, TicketTypes
<1>7. Range(queue) \subseteq 1..Len(order) /\ Range(r) \subseteq 1..Len(order)
  <2>1. /\ \A i \in DOMAIN r : r[i] \in 1..Len(order)
        /\ \A i \in DOMAIN queue : queue[i] \in 1..Len(order)
    BY <1>6, SMTT(30)
  <2> QED BY <2>1 DEF Range
<1>8. DataOK'
  BY <1>1, <1>2, <1>5, <1>6, <1>7 DEF CompanionTypeOK, DataOK
<1>9. LogOK' /\ Len(log') \in Nat
  <2>1. CASE UNCHANGED <<log, acked>>
    BY <1>1, <2>1 DEF CompanionTypeOK, LogOK
  <2>2. CASE log' = <<>> /\ acked' = 0
    BY <2>2 DEF LogOK
  <2> QED BY <2>1, <2>2 DEF Restart
<1>10. HostOK'
  <2>1. \A e \in Entries : host'[e].upto <= Len(log')
    BY <1>3, <1>4, <1>9
  <2>2. host'["drain"].rest = <<>> /\ host'["drain"].order = None /\ host'["drain"].pc = "idle"
    BY <1>3, <1>4, Names
  <2>3. host'["drain"].rest \in Seq(1..Len(order'))
    BY <1>2, <1>6, <2>2
  <2>4. host'["drain"].pc \in Busy <=> host'["drain"].order # None
    BY <2>2 DEF Busy
  <2> QED BY <1>4, <2>1, <2>3, <2>4 DEF HostOK, Cur
<1>11. PlaceInv'
  BY <1>3, <1>4, Names DEF PlaceInv, Busy
<1>12. TicketInv'
  <2>1. /\ Range(begun) \cap Range(r) = {} /\ Range(begun) \cap Range(queue) = {}
        /\ Range(<<>>) = {}
    BY <1>1, <1>6, RangesApart, NoTickets DEF TicketInv
  <2>2. Range(begun) \cup Range(<<>>) \cup Range(<<>>) = 1..Len(order) \ dropped'
    BY <1>1, <1>2, <2>1 DEF TicketInv
  <2>3. host'["drain"].rest = <<>>
    BY <1>3, <1>4, Names
  <2> QED BY <1>1, <1>2, <1>6, <2>2, <2>3, NoTickets DEF TicketInv
<1>13. RunInv'
  BY <1>1, <1>2, <1>3, <1>4, Names, RunKept
<1>14. ASSUME LogIsDurable PROVE ReplayInv'
  <2>1. UNCHANGED <<log, acked>> /\ ReplayInv
    BY <1>14 DEF Restart, CompanionInv
  <2> QED BY <1>1, <1>2, <1>3, <1>4, <2>1, LogStays, ReplayKept
<1> QED BY <1>8, <1>9, <1>10, <1>11, <1>12, <1>13, <1>14, Whole

-----------------------------------------------------------------------------
(* The theorems.                                                           *)

LEMMA CompanionStart == Init => CompanionInv
<1> SUFFICES ASSUME Init PROVE CompanionInv
  OBVIOUS
<1>1. /\ Out \in Hosts /\ Out.pc = "idle" /\ Out.upto = 0 /\ Out.rest = <<>>
      /\ Out.order = None /\ Out.index = 0 /\ Out.verified
  BY Names DEF Out
<1>2. host \in [Entries -> Hosts] /\ \A e \in Entries : host[e] = Out
  BY <1>1 DEF Init
<1>3. /\ order = <<>> /\ queue = <<>> /\ begun = <<>> /\ log = <<>> /\ held = {} /\ acked = 0
      /\ dropped = {} /\ Len(order) = 0 /\ Len(log) = 0
  BY DEF Init
<1>4. CompanionTypeOK
  <2>1. \A o \in Orders : Len(Program[o]) \in Nat
    BY CompanionAssumption
  <2>2. /\ queue \in Seq(1..Len(order)) /\ order \in Seq(Local) /\ log \in Seq(Events)
        /\ begun \in Seq(1..Len(order)) /\ source \in Seq(Commands)
    BY <1>3 DEF Init
  <2>3. DataOK
    <3>1. commands \in 0..MaxCommands /\ disturbances \in 0..MaxDisturbances
      BY CompanionAssumption DEF Init
    <3>2. task \in [Orders -> {"none", "RUNNING", "VERIFIED", "UNVERIFIED"}]
      BY DEF Init
    <3>3. done \in [Orders -> Nat] /\ \A o \in Orders : done[o] <= Len(Program[o])
      BY <2>1 DEF Init
    <3>4. /\ online \in BOOLEAN /\ session \in {"UNPAIRED", "ACTIVE", "EXPIRED"}
          /\ excused \in BOOLEAN
      BY DEF Init
    <3> QED BY <1>3, <2>2, <3>1, <3>2, <3>3, <3>4 DEF DataOK
  <2>4. LogOK
    BY <1>3, <2>2 DEF LogOK
  <2>5. HostOK
    <3>1. \A e \in Entries : host[e].upto <= Len(log)
      BY <1>1, <1>2, <1>3
    <3>2. /\ host["drain"].rest = <<>> /\ host["drain"].order = None
          /\ host["drain"].pc = "idle"
      BY <1>1, <1>2, Names
    <3>3. host["drain"].rest \in Seq(1..Len(order))
      BY <3>2
    <3>4. host["drain"].pc \in Busy <=> host["drain"].order # None
      BY <3>2 DEF Busy
    <3> QED BY <1>2, <3>1, <3>3, <3>4 DEF HostOK, Cur
  <2> QED BY <2>3, <2>4, <2>5 DEF DataOK, LogOK, HostOK, CompanionTypeOK, Busy
<1>5. PlaceInv
  BY <1>1, <1>2, Names DEF PlaceInv, Busy
<1>6. TicketInv
  <2>1. host["drain"].rest = <<>>
    BY <1>1, <1>2, Names
  <2>2. <<>> \in Seq(Nat) /\ Len(<<>>) = 0
    OBVIOUS
  <2>3. Range(<<>>) = {}
    BY NoTickets
  <2>4. Sorted(<<>>) /\ Before(<<>>, <<>>)
    BY <2>2 DEF Sorted, Before
  <2>5. Range(<<>>) \cup Range(<<>>) \cup Range(<<>>) = 1..0 \ {}
    BY <2>3
  <2>6. Range(begun) \cup Range(host["drain"].rest) \cup Range(queue) = 1..Len(order) \ dropped
    BY <1>3, <2>1, <2>5
  <2> QED BY <1>3, <2>1, <2>4, <2>6 DEF TicketInv
<1>7. RunInv
  BY <1>1, <1>2, Names DEF Init, RunInv, VerdictIsEarned, Cur
<1>8. ReplayInv
  BY <1>1, <1>2, <1>3 DEF ReplayInv, PassInv, AckedIsHeld
<1> QED BY <1>4, <1>5, <1>6, <1>7, <1>8 DEF CompanionInv

LEMMA CompanionStep == CompanionInv /\ [Next]_vars => CompanionInv'
<1> SUFFICES ASSUME CompanionInv, [Next]_vars PROVE CompanionInv'
  OBVIOUS
<1>1. CASE DrainStep
  BY <1>1, Names, IngestKeeps, AcknowledgeKeeps, TickKeeps, ReleaseAllKeeps, BeginRestKeeps,
     PollKeeps, EndTickKeeps, CreateTaskKeeps, StepKeeps, StepsOverKeeps, CompleteTaskKeeps
     DEF DrainStep, Replay
<1>2. CASE Replay("direct")
  BY <1>2, Names, IngestKeeps, AcknowledgeKeeps DEF Replay
<1>3. CASE Drain \/ DirectPair \/ DirectReconcile \/ DeviceMoves \/ SessionExpires \/ EndSession
  BY <1>3, DrainKeeps, DirectPairKeeps, DirectReconcileKeeps, DeviceKeeps, ExpiryKeeps,
     EndSessionKeeps
<1>4. CASE (\E c \in Commands : Submit(c)) \/ (\E e \in Entries : Throw(e)) \/ Restart
  BY <1>4, SubmitKeeps, ThrowKeeps, RestartKeeps
<1>5. CASE UNCHANGED vars
  BY <1>5 DEF vars, device, ledger, CompanionInv, CompanionTypeOK, PlaceInv, TicketInv, RunInv,
              ReplayInv, PassInv, HeldBefore, IsHeld, AckedIsHeld, VerdictIsEarned, Cur
<1> QED BY <1>1, <1>2, <1>3, <1>4, <1>5 DEF Next

(* The inductive invariant: where the entries are, the tickets in order,   *)
(* what a run has counted and what a pass has in the store.                *)
THEOREM CompanionInvariance == CompanionSpec => []CompanionInv
<1>1. Init => CompanionInv
  BY CompanionStart
<1>2. CompanionInv /\ [Next]_vars => CompanionInv'
  BY CompanionStep
<1> QED BY <1>1, <1>2, PTL DEF CompanionSpec

(* The variables have their types: a pass never reads beyond the log, an   *)
(* order is in hand exactly while it is run, no step is counted twice.     *)
THEOREM CompanionTyping == CompanionSpec => []CompanionTypeOK
<1>1. CompanionInv => CompanionTypeOK
  BY DEF CompanionInv
<1> QED BY <1>1, CompanionInvariance, PTL

(* With an event log that outlives the process, what the watermark         *)
(* acknowledges is in the store, once and as the log has it, however many  *)
(* passes overlap and wherever one dies.                                   *)
THEOREM AcknowledgedIsHeld == LogIsDurable /\ CompanionSpec => []AckedIsHeld
<1>1. LogIsDurable /\ CompanionInv => AckedIsHeld
  BY DEF CompanionInv, ReplayInv
<1>2. CASE LogIsDurable
  <2>1. CompanionInv => AckedIsHeld
    BY <1>1, <1>2
  <2> QED BY <2>1, CompanionInvariance, PTL
<1>3. CASE ~LogIsDurable
  BY <1>3, PTL
<1> QED BY <1>2, <1>3

(* A task is verified exactly when every step of its program ran once and  *)
(* succeeded.                                                              *)
THEOREM VerdictsAreEarned == CompanionSpec => []VerdictIsEarned
<1>1. CompanionInv => VerdictIsEarned
  BY DEF CompanionInv, RunInv
<1> QED BY <1>1, CompanionInvariance, PTL

(* Three rows of tickets, each in order and each before the next, make one.*)
LEMMA JoinedInOrder ==
  ASSUME NEW s \in Seq(Nat), NEW t \in Seq(Nat), Sorted(s), Sorted(t), Before(s, t)
  PROVE  /\ s \o t \in Seq(Nat) /\ Sorted(s \o t)
         /\ Range(s \o t) = Range(s) \cup Range(t)
<1>1. /\ s \o t \in Seq(Nat) /\ Len(s \o t) = Len(s) + Len(t)
      /\ \A i \in 1..(Len(s) + Len(t)) :
            (s \o t)[i] = IF i <= Len(s) THEN s[i] ELSE t[i - Len(s)]
  BY ConcatProperties
<1>2. Len(s) \in Nat /\ Len(t) \in Nat
  OBVIOUS
<1>3. ASSUME NEW i \in 1..Len(s \o t), NEW j \in 1..Len(s \o t), i < j
      PROVE  (s \o t)[i] < (s \o t)[j]
  <2>1. CASE j <= Len(s)
    BY <1>1, <1>2, <1>3, <2>1 DEF Sorted
  <2>2. CASE i <= Len(s) /\ Len(s) < j
    <3>1. i \in 1..Len(s) /\ j - Len(s) \in 1..Len(t)
      BY <1>1, <1>2, <2>2
    <3>2. (s \o t)[i] = s[i] /\ (s \o t)[j] = t[j - Len(s)]
      BY <1>1, <1>2, <2>2
    <3> QED BY <3>1, <3>2 DEF Before
  <2>3. CASE Len(s) < i
    <3>1. /\ i - Len(s) \in 1..Len(t) /\ j - Len(s) \in 1..Len(t) /\ i - Len(s) < j - Len(s)
      BY <1>1, <1>2, <1>3, <2>3
    <3>2. (s \o t)[i] = t[i - Len(s)] /\ (s \o t)[j] = t[j - Len(s)]
      BY <1>1, <1>2, <1>3, <2>3
    <3> QED BY <3>1, <3>2 DEF Sorted
  <2> QED BY <1>1, <1>2, <2>1, <2>2, <2>3, SMTT(30)
<1>4. Range(s \o t) = Range(s) \cup Range(t)
  BY RangeConcatenation
<1> QED BY <1>1, <1>3, <1>4 DEF Sorted

LEMMA JoinedBefore ==
  ASSUME NEW s \in Seq(Nat), NEW t \in Seq(Nat), NEW u \in Seq(Nat), Before(s, u), Before(t, u)
  PROVE  Before(s \o t, u)
<1>1. /\ Len(s \o t) = Len(s) + Len(t)
      /\ \A i \in 1..(Len(s) + Len(t)) :
            (s \o t)[i] = IF i <= Len(s) THEN s[i] ELSE t[i - Len(s)]
  BY ConcatProperties
<1>2. Len(s) \in Nat /\ Len(t) \in Nat
  OBVIOUS
<1>3. ASSUME NEW i \in 1..Len(s \o t), NEW j \in 1..Len(u) PROVE (s \o t)[i] < u[j]
  <2>1. CASE i <= Len(s)
    BY <1>1, <1>2, <2>1 DEF Before
  <2>2. CASE Len(s) < i
    <3>1. i - Len(s) \in 1..Len(t) /\ (s \o t)[i] = t[i - Len(s)]
      BY <1>1, <1>2, <2>2
    <3> QED BY <3>1 DEF Before
  <2> QED BY <1>1, <1>2, <2>1, <2>2
<1> QED BY <1>3 DEF Before

(* An order once queued is run, waiting or in the hands of the release, in *)
(* the order it was queued, and none is lost but to a throw or a restart.  *)
THEOREM QueuedOrdersKeepTheirPlaces == CompanionSpec => []QueueKeepsItsOrders
<1>1. ASSUME CompanionInv PROVE QueueKeepsItsOrders
  <2> DEFINE r == host["drain"].rest
             p == begun \o r
  <2>1. CompanionTypeOK /\ TicketInv
    BY <1>1 DEF CompanionInv
  <2>2. begun \in Seq(Nat) /\ queue \in Seq(Nat) /\ r \in Seq(Nat)
    BY <2>1, TicketTypes
  <2>3. p \in Seq(Nat) /\ Sorted(p) /\ Range(p) = Range(begun) \cup Range(r)
    BY <2>1, <2>2, JoinedInOrder DEF TicketInv
  <2>4. Before(p, queue) /\ Sorted(queue)
    BY <2>1, <2>2, JoinedBefore DEF TicketInv
  <2>5. /\ Line = p \o queue /\ p \o queue \in Seq(Nat) /\ Sorted(p \o queue)
        /\ Range(p \o queue) = Range(p) \cup Range(queue)
    <3> HIDE DEF p
    <3>1. /\ p \o queue \in Seq(Nat) /\ Sorted(p \o queue)
          /\ Range(p \o queue) = Range(p) \cup Range(queue)
      BY <2>2, <2>3, <2>4, JoinedInOrder
    <3>2. Line = p \o queue
      BY DEF Line, p
    <3> QED BY <3>1, <3>2
  <2> HIDE DEF p
  <2>6. \A i, j \in DOMAIN Line : i < j => Line[i] < Line[j]
    BY <2>5 DEF Sorted
  <2>7. Range(Line) = 1..Len(order) \ dropped /\ (dropped # {} => excused)
    BY <2>1, <2>3, <2>5 DEF TicketInv
  <2> QED BY <2>6, <2>7 DEF QueueKeepsItsOrders
<1>2. CompanionInv => QueueKeepsItsOrders
  BY <1>1
<1> QED BY <1>2, CompanionInvariance, PTL
=============================================================================
