--------------------------- MODULE PacketInProofs ---------------------------
(***************************************************************************)
(* Proofs about the slow path (PacketIn).                                  *)
(*                                                                         *)
(* BaseInv makes the types inductive: what the threads, the dispatcher and *)
(* the destroyer of a switch hold at each of their steps.  OwnerInv adds   *)
(* that every packet is in one place (the pool, a thread, the dispatcher,  *)
(* a queue or a storage), there once, and that the packet the dispatcher   *)
(* is about to announce is stored under an id no controller knows.  Every  *)
(* action moves at most one packet (Moves), except the destruction of a    *)
(* switch, which moves its storage to the pool.                            *)
(***************************************************************************)
EXTENDS PacketIn, SequenceTheorems, FiniteSetTheorems, WellFoundedInduction, TLAPS

-----------------------------------------------------------------------------
(* Queues and storages as sequences *)

\* Taking the front of a queue shifts the rest.
LEMMA TailShifts ==
    ASSUME NEW S, NEW q \in Seq(S), q # <<>>
    PROVE  /\ Head(q) = q[1] /\ Head(q) \in S /\ 1 \in DOMAIN q
           /\ Tail(q) \in Seq(S) /\ Len(Tail(q)) = Len(q) - 1
           /\ DOMAIN Tail(q) = 1..(Len(q) - 1)
           /\ \A i \in DOMAIN Tail(q) : i + 1 \in DOMAIN q /\ Tail(q)[i] = q[i + 1]
<1>1. Len(q) \in Nat \ {0} /\ DOMAIN q = 1..Len(q)
  BY EmptySeq, LenProperties
<1>2. /\ Head(q) \in S /\ Tail(q) \in Seq(S) /\ Len(Tail(q)) = Len(q) - 1
      /\ \A i \in 1..Len(Tail(q)) : Tail(q)[i] = q[i + 1]
  BY HeadTailProperties
<1>3. DOMAIN Tail(q) = 1..(Len(q) - 1)
  BY <1>2, LenProperties
<1> QED
  BY <1>1, <1>2, <1>3

\* Appending keeps the rest where it is.
LEMMA AppendKeeps ==
    ASSUME NEW S, NEW q \in Seq(S), NEW e \in S
    PROVE  /\ Append(q, e) \in Seq(S) /\ Len(Append(q, e)) = Len(q) + 1
           /\ DOMAIN q = 1..Len(q) /\ DOMAIN Append(q, e) = 1..(Len(q) + 1)
           /\ Len(q) \in Nat
           /\ \A i \in DOMAIN q : Append(q, e)[i] = q[i]
           /\ Append(q, e)[Len(q) + 1] = e
<1>1. Append(q, e) \in Seq(S) /\ Len(Append(q, e)) = Len(q) + 1
  BY AppendProperties
<1> QED
  BY <1>1, AppendProperties, LenProperties

\* Erasing one entry closes the gap.
LEMMA RemoveAtCloses ==
    ASSUME NEW S, NEW q \in Seq(S), NEW k \in DOMAIN q
    PROVE  /\ RemoveAt(q, k) \in Seq(S) /\ Len(RemoveAt(q, k)) = Len(q) - 1
           /\ DOMAIN q = 1..Len(q) /\ DOMAIN RemoveAt(q, k) = 1..(Len(q) - 1)
           /\ Len(q) \in Nat /\ k \in Nat
           /\ \A i \in 1..(Len(q) - 1) :
                 RemoveAt(q, k)[i] = IF i < k THEN q[i] ELSE q[i + 1]
<1> DEFINE a == SubSeq(q, 1, k - 1)
           b == SubSeq(q, k + 1, Len(q))
<1>1. Len(q) \in Nat /\ DOMAIN q = 1..Len(q) /\ \A i \in 1..Len(q) : q[i] \in S
  BY LenProperties
<1>2. k \in Nat /\ 1 <= k /\ k <= Len(q)
  BY <1>1
<1>3. a \in Seq(S) /\ Len(a) = k - 1 /\ \A i \in 1..(k - 1) : a[i] = q[i]
  <2>1. /\ a \in Seq(S)
        /\ Len(a) = IF 1 <= k - 1 THEN (k - 1) - 1 + 1 ELSE 0
        /\ \A i \in 1..((k - 1) - 1 + 1) : a[i] = q[1 + i - 1]
    <3>1. \A i \in 1..(k - 1) : q[i] \in S
      BY <1>1, <1>2
    <3>2. 1 \in Int /\ k - 1 \in Int
      BY <1>2
    <3> QED
      BY <3>1, <3>2, SubSeqProperties
  <2> QED
    BY <1>2, <2>1
<1>4. b \in Seq(S) /\ Len(b) = Len(q) - k /\ \A i \in 1..(Len(q) - k) : b[i] = q[k + i]
  <2>1. /\ b \in Seq(S)
        /\ Len(b) = IF k + 1 <= Len(q) THEN Len(q) - (k + 1) + 1 ELSE 0
        /\ \A i \in 1..(Len(q) - (k + 1) + 1) : b[i] = q[(k + 1) + i - 1]
    <3>1. \A i \in (k + 1)..Len(q) : q[i] \in S
      BY <1>1, <1>2
    <3>2. k + 1 \in Int /\ Len(q) \in Int
      BY <1>1, <1>2
    <3> QED
      BY <3>1, <3>2, SubSeqProperties
  <2> QED
    BY <1>1, <1>2, <2>1
<1> HIDE DEF a, b
<1>5. /\ a \o b \in Seq(S) /\ Len(a \o b) = Len(a) + Len(b)
      /\ \A i \in 1..(Len(a) + Len(b)) : (a \o b)[i] = IF i <= Len(a) THEN a[i] ELSE b[i - Len(a)]
  BY <1>3, <1>4, ConcatProperties
<1>6. RemoveAt(q, k) = a \o b
  BY DEF RemoveAt, a, b
<1>7. /\ a \o b \in Seq(S) /\ Len(a \o b) = Len(q) - 1 /\ DOMAIN (a \o b) = 1..(Len(q) - 1)
  <2>1. Len(a \o b) = Len(q) - 1
    BY <1>1, <1>2, <1>3, <1>4, <1>5
  <2> QED
    BY <1>5, <2>1, LenProperties
<1>8. ASSUME NEW i \in 1..(Len(q) - 1)
      PROVE  (a \o b)[i] = IF i < k THEN q[i] ELSE q[i + 1]
  <2>1. (a \o b)[i] = IF i <= k - 1 THEN a[i] ELSE b[i - (k - 1)]
    BY <1>1, <1>2, <1>3, <1>4, <1>5
  <2>2. CASE i < k
    BY <1>2, <1>3, <2>1, <2>2
  <2>3. CASE ~(i < k)
    <3>1. i - (k - 1) \in 1..(Len(q) - k) /\ k + (i - (k - 1)) = i + 1
      BY <1>1, <1>2, <2>3
    <3>2. b[i - (k - 1)] = q[k + (i - (k - 1))]
      BY <1>4, <3>1
    <3> QED
      BY <1>1, <1>2, <2>1, <2>3, <3>1, <3>2
  <2> QED
    BY <2>2, <2>3
<1> QED
  BY <1>1, <1>2, <1>6, <1>7, <1>8

-----------------------------------------------------------------------------
(* The ids of the storage *)

\* With fewer packets than ids some id is free.
LEMMA SomeIdFree ==
    ASSUME TypeOK, NEW s \in Switches
    PROVE  \E id \in Ids : id \notin StoredIds(s)
<1> DEFINE n == Len(store[s])
           f == [k \in 1..n |-> store[s][k].id]
<1> SUFFICES ASSUME \A id \in Ids : id \in StoredIds(s) PROVE FALSE
  OBVIOUS
<1>1. n \in Nat /\ n < NumIds /\ DOMAIN store[s] = 1..n /\ \A k \in 1..n : store[s][k].id \in Ids
  <2>1. store[s] \in Seq([id : Ids, pkt : Packets]) /\ n <= MaxStore
    BY DEF TypeOK
  <2>2. n \in Nat /\ DOMAIN store[s] = 1..n
    BY <2>1, LenProperties
  <2>3. \A k \in 1..n : store[s][k] \in [id : Ids, pkt : Packets]
    BY <2>1, ElementOfSeq
  <2> QED
    BY <2>1, <2>2, <2>3, PacketInAssumption
<1>2. f \in Surjection(1..n, Ids)
  BY <1>1 DEF Surjection, StoredIds
<1>3. Cardinality(Ids) <= n
  BY <1>1, <1>2, FS_SurjCardinalityBound DEF ExistsSurjection
<1>4. Cardinality(Ids) = NumIds
  BY PacketInAssumption, FS_Interval DEF Ids
<1> QED
  BY <1>1, <1>3, <1>4, PacketInAssumption

\* NextId is an id of the range that no stored packet has.
LEMMA NextIdFree ==
    ASSUME TypeOK, NEW s \in Switches
    PROVE  NextId(s) \in Ids /\ NextId(s) \notin StoredIds(s)
<1> DEFINE after(k) == ((next_id[s] + k - 1) % NumIds) + 1
           Good == {k \in 1..NumIds : after(k) \notin StoredIds(s)}
<1>1. NumIds \in Nat \ {0} /\ next_id[s] \in 1..NumIds
  BY PacketInAssumption DEF TypeOK, Ids
<1>2. \A k \in 1..NumIds : after(k) \in Ids
  BY <1>1, SMTT(30) DEF Ids
<1>3. Good # {}
  <2>1. PICK id \in Ids : id \notin StoredIds(s)
    BY SomeIdFree
  <2>2. \E k \in 1..NumIds : after(k) = id
    <3> DEFINE m == IF id > next_id[s] THEN id - next_id[s] ELSE id - next_id[s] + NumIds
    <3>1. m \in 1..NumIds
      BY <1>1, <2>1 DEF Ids
    <3>2. \/ next_id[s] + m - 1 = id - 1
          \/ next_id[s] + m - 1 = (id - 1) + NumIds
      BY <1>1, <2>1 DEF Ids
    <3>3. id - 1 \in 0..(NumIds - 1)
      BY <2>1, <1>1 DEF Ids
    <3>4. (id - 1) % NumIds = id - 1 /\ ((id - 1) + NumIds) % NumIds = id - 1
      BY <1>1, <3>3, SMTT(30)
    <3>5. after(m) = (id - 1) + 1
      BY <3>2, <3>4
    <3>6. id - 1 + 1 = id
      BY <1>1, <2>1 DEF Ids
    <3> QED
      BY <3>1, <3>5, <3>6
  <2> QED
    BY <2>1, <2>2
<1>4. \E k \in Good : \A j \in Good : k <= j
  <2> DEFINE less == {ss \in Nat \X Nat : ss[1] < ss[2]}
  <2>1. IsWellFoundedOn(less, Nat)
    BY NatLessThanWellFounded, Zenon DEF OpToRel
  <2>2. \A i, j \in Nat : <<i, j>> \in less <=> i < j
    OBVIOUS
  <2>3. Good \in SUBSET Nat
    BY <1>1
  <2> HIDE DEF less, Good
  <2>4. \E k \in Good : \A j \in Good : ~(<<j, k>> \in less)
    BY <1>3, <2>1, <2>3, WFMin, ZenonT(30)
  <2>5. PICK k \in Good : \A j \in Good : ~(<<j, k>> \in less)
    BY <2>4
  <2>6. \A j \in Good : ~(j < k)
    BY <2>2, <2>3, <2>5
  <2>7. \A j \in Good : k <= j
    BY <2>3, <2>6
  <2> QED
    BY <2>7
<1>5. \E k \in 1..NumIds : after(k) \notin StoredIds(s) /\ \A j \in 1..(k - 1) : after(j) \in StoredIds(s)
  <2>1. PICK k \in Good : \A j \in Good : k <= j
    BY <1>4
  <2>2. \A j \in 1..(k - 1) : j \in 1..NumIds /\ ~(k <= j)
    BY <1>1, <2>1
  <2>3. \A j \in 1..(k - 1) : after(j) \in StoredIds(s)
    BY <2>1, <2>2
  <2> QED
    BY <2>1, <2>3
<1> HIDE DEF after
<1> DEFINE kk == CHOOSE k \in 1..NumIds :
                    after(k) \notin StoredIds(s) /\ \A j \in 1..(k - 1) : after(j) \in StoredIds(s)
<1>6. kk \in 1..NumIds /\ after(kk) \notin StoredIds(s)
  BY <1>5
<1>7. NextId(s) = after(kk)
  BY DEF NextId, after
<1> QED
  BY <1>2, <1>6, <1>7

-----------------------------------------------------------------------------
(* The storage's lookup and removal *)

\* A stored id is found where it is, with a packet; any other finds nothing.
LEMMA LookupFinds ==
    ASSUME TypeOK, NEW s \in Switches, NEW id
    PROVE  IF id \in StoredIds(s)
           THEN /\ Position(s, id) \in DOMAIN store[s]
                /\ store[s][Position(s, id)].id = id
                /\ Lookup(s, id) = store[s][Position(s, id)].pkt
                /\ Lookup(s, id) \in Packets
           ELSE Lookup(s, id) = NoPacket
<1>1. CASE id \in StoredIds(s)
  <2>1. \E k \in DOMAIN store[s] : store[s][k].id = id
    BY <1>1 DEF StoredIds
  <2>2. Position(s, id) \in DOMAIN store[s] /\ store[s][Position(s, id)].id = id
    BY <2>1 DEF Position
  <2>3. store[s] \in Seq([id : Ids, pkt : Packets])
    BY DEF TypeOK
  <2>4. store[s][Position(s, id)] \in [id : Ids, pkt : Packets]
    BY <2>2, <2>3, ElementOfSeq, LenProperties
  <2> QED
    BY <1>1, <2>2, <2>4 DEF Lookup
<1>2. CASE id \notin StoredIds(s)
  BY <1>2 DEF Lookup
<1> QED
  BY <1>1, <1>2

\* What get_packet leaves of the storages is well formed.
LEMMA GetPacketTyped ==
    ASSUME TypeOK, NEW s \in Switches, NEW id, get_packet(s, id)
    PROVE  /\ store' \in [Switches -> Seq([id : Ids, pkt : Packets])]
           /\ \A u \in Switches : Len(store'[u]) <= MaxStore
           /\ old' \in [Switches -> SUBSET Ids]
<1> DEFINE r == IF id \in StoredIds(s) THEN RemoveAt(store[s], Position(s, id)) ELSE store[s]
<1>1. store \in [Switches -> Seq([id : Ids, pkt : Packets])] /\ store[s] \in Seq([id : Ids, pkt : Packets])
      /\ \A u \in Switches : Len(store[u]) <= MaxStore
  BY DEF TypeOK
<1>2. store' = [store EXCEPT ![s] = r]
  BY DEF get_packet
<1>3. r \in Seq([id : Ids, pkt : Packets]) /\ Len(r) <= MaxStore
  <2>1. CASE id \in StoredIds(s)
    <3>1. Position(s, id) \in DOMAIN store[s]
      BY <2>1, LookupFinds
    <3>2. /\ RemoveAt(store[s], Position(s, id)) \in Seq([id : Ids, pkt : Packets])
          /\ Len(RemoveAt(store[s], Position(s, id))) = Len(store[s]) - 1
          /\ Len(store[s]) \in Nat
      BY <1>1, <3>1, RemoveAtCloses
    <3> QED
      BY <1>1, <2>1, <3>2, PacketInAssumption
  <2>2. CASE id \notin StoredIds(s)
    BY <1>1, <2>2
  <2> QED
    BY <2>1, <2>2
<1> HIDE DEF r
<1>4. old' \in [Switches -> SUBSET Ids]
  BY DEF get_packet, TypeOK
<1> QED
  BY <1>1, <1>2, <1>3, <1>4

-----------------------------------------------------------------------------
(* Type correctness *)

\* An I/O or controller thread has a packet exactly while it processes it, and is
\* in a switch until it has notified.
ThreadInv ==
    \A t \in Threads :
        /\ th[t].pc = "idle" <=> th[t].sw = 0
        /\ th[t].pc = "hold" <=> th[t].pkt # NoPacket

\* The dispatcher has a packet and room in its budget; an id it uses is one.
BgInv ==
    /\ bg.pc \in {"store", "cmm", "undo"} => bg.pkt \in Packets /\ bg.i < Budget
    /\ bg.pc \in {"cmm", "undo", "take"} => bg.id \in Ids

\* The switch under destruction; its queue is empty and stays so once it was drained.
DestroyInv ==
    /\ victim = 0 <=> dpc = "idle"
    /\ dpc = "destroy" => queue[victim] = <<>> /\ NoThreadIn(victim)

BaseInv == TypeOK /\ ThreadInv /\ BgInv /\ DestroyInv

\* The system starts well formed.
LEMMA BaseInit == Init => BaseInv
<1> SUFFICES ASSUME Init PROVE BaseInv
  OBVIOUS
<1>1. <<>> \in Seq(Packets) /\ <<>> \in Seq([id : Ids, pkt : Packets]) /\ Len(<<>>) = 0
  BY EmptySeq
<1>2. \A s \in Switches : queue[s] = <<>> /\ store[s] = <<>>
  BY DEF Init
<1>3. 1 \in Ids /\ 1 \in Switches /\ 1 \in 1..Rounds /\ 0 \in 0..Budget /\ 0 \in 0..NumIds /\ 0 \in 0..NumSw
      /\ 0 \in 0..PipeSize /\ 0 <= QueueCap /\ 0 <= MaxStore
  BY PacketInAssumption DEF Ids, Switches
<1>4. \A s \in Switches : Len(queue[s]) <= QueueCap /\ Len(store[s]) <= MaxStore
  BY <1>1, <1>2, <1>3
<1>5. TypeOK
  <2>1. th \in [Threads -> [pc : {"idle", "hold", "notify"}, pkt : Packets \cup {NoPacket}, sw : 0..NumSw]]
    BY <1>3 DEF Init
  <2>2. /\ queue \in [Switches -> Seq(Packets)]
        /\ store \in [Switches -> Seq([id : Ids, pkt : Packets])]
    BY <1>1 DEF Init
  <2>3. bg \in [pc : {"wait"} \cup DispatchSteps \cup ExpireSteps, sw : Switches,
               round : 1..Rounds, i : 0..Budget, pkt : Packets \cup {NoPacket}, id : 0..NumIds]
    BY <1>3 DEF Init
  <2> QED
    BY <1>3, <1>4, <2>1, <2>2, <2>3 DEF Init, TypeOK
<1>6. ThreadInv
  BY DEF Init, ThreadInv
<1>7. BgInv /\ DestroyInv
  BY DEF Init, BgInv, DestroyInv
<1> QED
  BY <1>5, <1>6, <1>7 DEF BaseInv

\* The background thread's locals.
BgType == [pc : {"wait"} \cup DispatchSteps \cup ExpireSteps, sw : Switches,
           round : 1..Rounds, i : 0..Budget, pkt : Packets \cup {NoPacket}, id : 0..NumIds]

\* The first switch, round and counter.
LEMMA Firsts ==
    /\ 1 \in Switches /\ 1 \in 1..Rounds /\ 0 \in 0..Budget /\ 0 \in 0..NumIds
    /\ 0 \in 0..NumSw /\ 0 \notin Switches /\ Switches \subseteq 0..NumSw
BY PacketInAssumption DEF Switches

\* Going on to the next switch of a dispatch.
LEMMA NextSwitchTyped ==
    ASSUME TypeOK, NextSwitch \/ ToDispatch \/ ToTimers
    PROVE  bg' \in BgType /\ bg'.pc \in {"switch", "timers"}
<1>1. bg \in BgType
  BY DEF TypeOK, BgType
<1>2. bg.sw < NumSw => bg.sw + 1 \in Switches
  BY <1>1, PacketInAssumption DEF BgType, Switches
<1>3. bg.round < Rounds => bg.round + 1 \in 1..Rounds
  BY <1>1, PacketInAssumption DEF BgType
<1>4. CASE ToDispatch
  BY <1>1, <1>4, Firsts DEF ToDispatch, BgType, DispatchSteps
<1>5. CASE ToTimers
  BY <1>1, <1>5, Firsts DEF ToTimers, BgType, ExpireSteps
<1>6. CASE NextSwitch
  <2>1. CASE bg.sw < NumSw
    BY <1>1, <1>2, <1>6, <2>1, Firsts DEF NextSwitch, BgType, DispatchSteps
  <2>2. CASE ~(bg.sw < NumSw) /\ bg.round < Rounds
    BY <1>1, <1>3, <1>6, <2>2, Firsts DEF NextSwitch, BgType, DispatchSteps
  <2>3. CASE ~(bg.sw < NumSw) /\ ~(bg.round < Rounds)
    BY <1>5, <1>6, <2>3 DEF NextSwitch
  <2> QED
    BY <2>1, <2>2, <2>3
<1> QED
  BY <1>4, <1>5, <1>6

\* Going on to the next switch of an expiration.
LEMMA ExpireNextTyped ==
    ASSUME TypeOK, ExpireNextSwitch \/ (TimersDone /\ UNCHANGED due)
    PROVE  bg' \in BgType /\ bg'.pc \in {"timers", "wait"} /\ due' \in BOOLEAN
<1>1. bg \in BgType /\ due \in BOOLEAN
  BY DEF TypeOK, BgType
<1>2. bg.sw < NumSw => bg.sw + 1 \in Switches
  BY <1>1, PacketInAssumption DEF BgType, Switches
<1>3. ASSUME TimersDone PROVE bg' \in BgType /\ bg'.pc = "wait"
  BY <1>1, <1>3, Firsts DEF TimersDone, BgType
<1>4. CASE bg.sw < NumSw /\ ExpireNextSwitch
  <2>1. bg' = [bg EXCEPT !.pc = "timers", !.sw = @ + 1, !.id = 0] /\ due' = due
    BY <1>4 DEF ExpireNextSwitch
  <2> QED
    BY <1>1, <1>2, <1>4, <2>1, Firsts DEF BgType, ExpireSteps
<1>5. CASE ~(bg.sw < NumSw) /\ ExpireNextSwitch
  <2>1. TimersDone /\ due' = FALSE
    BY <1>5 DEF ExpireNextSwitch
  <2> QED
    BY <1>3, <2>1
<1> QED
  BY <1>1, <1>3, <1>4, <1>5

\* The dispatcher is done with one packet.
LEMMA OneDoneTyped ==
    ASSUME BaseInv, OneDone, bg.pc \in {"store", "cmm", "undo"}
    PROVE  bg' \in BgType /\ bg'.pc = "read"
<1>1. bg \in BgType /\ bg.i < Budget
  BY DEF BaseInv, TypeOK, BgType, BgInv
<1>2. bg.i + 1 \in 0..Budget
  BY <1>1, PacketInAssumption DEF BgType
<1> QED
  BY <1>1, <1>2, Firsts DEF OneDone, BgType, DispatchSteps

\* The steps of the background thread that only move it, or its pipe and timer.
OnlyMoves ==
    \/ PipeEvent \/ Timeout \/ NetlinkEvent
    \/ EnterSwitch \/ EndOfPacketIns \/ PacketInFailed \/ EmptyPipe
    \/ NotDue \/ ExpireSwitch \/ Peek \/ ReadAge \/ ReadId

\* Such a step starts and ends outside the handling of one packet, but for the
\* failure of a PACKET_IN.
LEMMA OnlyMovesEffect ==
    ASSUME BaseInv, OnlyMoves
    PROVE  /\ bg' \in BgType /\ pipe' \in 0..PipeSize /\ pending' \in Nat /\ due' \in BOOLEAN
           /\ UNCHANGED <<pool, th, alive, switchState, destroyer>>
           /\ \/ bg.pc \notin {"store", "cmm", "undo"} /\ bg'.pc \notin {"store", "cmm", "undo"}
              \/ bg.pc = "cmm" /\ bg' = [bg EXCEPT !.pc = "undo"]
           /\ bg'.pc = "take" => bg'.id \in Ids
<1> USE DEF BaseInv
<1>1. bg \in BgType /\ pipe \in 0..PipeSize /\ pending \in Nat /\ due \in BOOLEAN
  BY DEF TypeOK, BgType
<1>2. CASE PipeEvent
  <2>1. bg' \in BgType /\ bg'.pc \in {"switch", "timers"}
    BY <1>2, NextSwitchTyped DEF PipeEvent
  <2> QED
    BY <1>1, <1>2, <2>1 DEF PipeEvent, timerState
<1>3. CASE Timeout
  <2>1. bg' \in BgType /\ bg'.pc \in {"switch", "timers"}
    BY <1>3, NextSwitchTyped DEF Timeout
  <2> QED
    BY <1>1, <1>3, <2>1 DEF Timeout, timerState
<1>4. CASE NetlinkEvent
  <2>1. bg' \in BgType /\ bg'.pc \in {"switch", "timers"}
    BY <1>4, NextSwitchTyped DEF NetlinkEvent
  <2> QED
    BY <1>1, <1>4, <2>1 DEF NetlinkEvent, timerState
<1>5. CASE EnterSwitch
  <2>1. bg' \in BgType /\ bg'.pc \in {"switch", "timers", "read"}
    <3>1. CASE bg.sw \in alive
      BY <1>1, <1>5, <3>1, Firsts DEF EnterSwitch, BgType, DispatchSteps
    <3>2. CASE bg.sw \notin alive
      BY <1>5, <3>2, NextSwitchTyped DEF EnterSwitch
    <3> QED
      BY <3>1, <3>2
  <2> QED
    BY <1>1, <1>5, <2>1 DEF EnterSwitch, timerState
<1>6. CASE EndOfPacketIns
  BY <1>1, <1>6 DEF EndOfPacketIns, timerState, BgType, DispatchSteps
<1>7. CASE PacketInFailed
  BY <1>1, <1>7 DEF PacketInFailed, timerState, BgType, DispatchSteps
<1>8. CASE EmptyPipe
  <2>1. bg' \in BgType /\ bg'.pc \in {"switch", "timers"}
    BY <1>8, NextSwitchTyped DEF EmptyPipe
  <2>2. pipe' \in 0..PipeSize /\ pending' \in Nat
    <3>1. bg.i \in Nat
      BY <1>1, PacketInAssumption DEF BgType
    <3> QED
      BY <1>1, <1>8, <3>1, PacketInAssumption DEF EmptyPipe, MinOf
  <2> QED
    BY <1>1, <1>8, <2>1, <2>2 DEF EmptyPipe
<1>9. CASE NotDue
  <2>1. bg' \in BgType /\ bg'.pc \in {"timers", "wait"}
    BY <1>9, ExpireNextTyped DEF NotDue, timerState
  <2> QED
    BY <1>1, <1>9, <2>1 DEF NotDue, timerState
<1>10. CASE ExpireSwitch
  <2>1. bg' \in BgType /\ bg'.pc \in {"timers", "wait", "peek"} /\ due' \in BOOLEAN
    <3>1. CASE bg.sw \in alive
      BY <1>1, <1>10, <3>1 DEF ExpireSwitch, BgType, ExpireSteps
    <3>2. CASE bg.sw \notin alive
      BY <1>10, <3>2, ExpireNextTyped DEF ExpireSwitch
    <3> QED
      BY <3>1, <3>2
  <2> QED
    BY <1>1, <1>10, <2>1 DEF ExpireSwitch
<1>11. CASE Peek
  <2>1. bg' \in BgType /\ bg'.pc \in {"timers", "wait", "age"} /\ due' \in BOOLEAN
    <3>1. CASE store[bg.sw] # <<>>
      BY <1>1, <1>11, <3>1 DEF Peek, BgType, ExpireSteps
    <3>2. CASE store[bg.sw] = <<>>
      BY <1>11, <3>2, ExpireNextTyped DEF Peek
    <3> QED
      BY <3>1, <3>2
  <2> QED
    BY <1>1, <1>11, <2>1 DEF Peek
<1>12. CASE ReadAge
  <2>1. bg' \in BgType /\ bg'.pc \in {"timers", "wait", "id"} /\ due' \in BOOLEAN
    <3>1. ExpireNextSwitch \/ (bg' = [bg EXCEPT !.pc = "id"] /\ UNCHANGED due)
      BY <1>12 DEF ReadAge
    <3>2. CASE bg' = [bg EXCEPT !.pc = "id"] /\ UNCHANGED due
      BY <1>1, <3>2 DEF BgType, ExpireSteps
    <3>3. CASE ExpireNextSwitch
      BY <3>3, ExpireNextTyped
    <3> QED
      BY <3>1, <3>2, <3>3
  <2> QED
    BY <1>1, <1>12, <2>1 DEF ReadAge
<1>13. CASE ReadId
  <2>1. PICK id \in IF store[bg.sw] = <<>> THEN Ids ELSE {store[bg.sw][1].id} :
          bg' = [bg EXCEPT !.pc = "take", !.id = id]
    BY <1>13 DEF ReadId
  <2>2. id \in Ids
    <3>1. CASE store[bg.sw] # <<>>
      <4>1. store[bg.sw] \in Seq([id : Ids, pkt : Packets])
        BY <1>1 DEF TypeOK, BgType
      <4>2. 1 \in 1..Len(store[bg.sw])
        BY <3>1, <4>1, EmptySeq
      <4>3. store[bg.sw][1] \in [id : Ids, pkt : Packets]
        BY <4>1, <4>2, ElementOfSeq
      <4> QED
        BY <2>1, <3>1, <4>3
    <3> QED
      BY <2>1, <3>1
  <2>3. id \in 0..NumIds
    BY <2>2, PacketInAssumption DEF Ids
  <2>4. bg' \in BgType /\ bg'.pc = "take" /\ bg'.id = id
    BY <1>1, <2>1, <2>3 DEF BgType, ExpireSteps
  <2> QED
    BY <1>1, <1>13, <2>2, <2>4 DEF ReadId, timerState
<1> QED
  BY <1>2, <1>3, <1>4, <1>5, <1>6, <1>7, <1>8, <1>9, <1>10, <1>11, <1>12, <1>13 DEF OnlyMoves

\* What the parts of the state that a step leaves alone contribute.
LEMMA OnlyMovesKeepBase == ASSUME BaseInv, OnlyMoves PROVE BaseInv'
<1>1. /\ bg' \in BgType /\ pipe' \in 0..PipeSize /\ pending' \in Nat /\ due' \in BOOLEAN
      /\ UNCHANGED <<pool, th, alive, switchState, destroyer>>
  BY OnlyMovesEffect
<1>2. TypeOK'
  BY <1>1 DEF BaseInv, TypeOK, BgType, switchState, destroyer
<1>3. ThreadInv' /\ DestroyInv'
  BY <1>1 DEF BaseInv, ThreadInv, DestroyInv, NoThreadIn, switchState, destroyer
<1>4. BgInv'
  <2>1. CASE bg.pc \notin {"store", "cmm", "undo"} /\ bg'.pc \notin {"store", "cmm", "undo"}
    BY <2>1, OnlyMovesEffect DEF BgInv
  <2>2. CASE bg.pc = "cmm" /\ bg' = [bg EXCEPT !.pc = "undo"]
    <3>1. bg \in BgType /\ bg.pkt \in Packets /\ bg.i < Budget /\ bg.id \in Ids
      BY <2>2 DEF BaseInv, BgInv, TypeOK, BgType
    <3>2. bg'.pkt = bg.pkt /\ bg'.i = bg.i /\ bg'.id = bg.id
      BY <2>2, <3>1 DEF BgType
    <3> QED
      BY <3>1, <3>2 DEF BgInv
  <2> QED
    BY <2>1, <2>2, OnlyMovesEffect
<1> QED
  BY <1>2, <1>3, <1>4 DEF BaseInv

\* The threads that run packets through the pipeline.
PipelineStep ==
    \/ \E t \in RxThreads, s \in Switches, p \in Packets : Receive(t, s, p)
    \/ \E t \in CtlThreads, s \in Switches, id \in Ids : PacketOut(t, s, id)
    \/ \E t \in Threads : ThreadStep(t)

ThType == [pc : {"idle", "hold", "notify"}, pkt : Packets \cup {NoPacket}, sw : 0..NumSw]

\* A thread that has a packet has a buffer of the pool, of a switch.
LEMMA HoldsPacket ==
    ASSUME BaseInv, NEW t \in Threads, th[t].pc \in {"hold", "notify"}
    PROVE  th[t].sw \in Switches /\ (th[t].pc = "hold" => th[t].pkt \in Packets)
<1>1. th[t] \in ThType
  BY DEF BaseInv, TypeOK, ThType
<1>2. th[t].sw # 0 /\ (th[t].pc = "hold" => th[t].pkt # NoPacket)
  BY DEF BaseInv, ThreadInv
<1>3. th[t].sw \in Switches
  BY <1>1, <1>2, PacketInAssumption DEF ThType, Switches
<1> QED
  BY <1>1, <1>2, <1>3 DEF ThType

\* The threads of the pipeline keep the types and the destroyer's facts.
LEMMA PipelineKeepsBase == ASSUME BaseInv, PipelineStep PROVE BaseInv'
<1> USE DEF BaseInv
<1>a. th \in [Threads -> ThType] /\ NoPacket \notin Packets
  BY PacketInAssumption DEF TypeOK, ThType
<1>b. \A s \in Switches : s \in 0..NumSw /\ s # 0
  BY Firsts
<1>1. ASSUME NEW t \in RxThreads, NEW s \in Switches, NEW p \in Packets, Receive(t, s, p)
      PROVE  BaseInv'
  <2>1. t \in Threads /\ th' = [th EXCEPT ![t] = [pc |-> "hold", pkt |-> p, sw |-> s]] /\ s # victim
    BY <1>1 DEF Receive, Threads, Open
  <2>2. th' \in [Threads -> ThType]
    BY <1>a, <1>b, <2>1 DEF ThType
  <2>3. TypeOK'
    BY <1>1, <2>2 DEF Receive, TypeOK, ThType, switchState, timerState, destroyer
  <2>4. ThreadInv'
    BY <1>a, <1>b, <2>1 DEF ThreadInv
  <2>5. BgInv'
    BY <1>1 DEF Receive, BgInv
  <2>6. DestroyInv'
    BY <1>a, <1>1, <2>1 DEF Receive, DestroyInv, NoThreadIn, switchState, destroyer
  <2> QED
    BY <2>3, <2>4, <2>5, <2>6
<1>2. ASSUME NEW t \in CtlThreads, NEW s \in Switches, NEW id \in Ids, PacketOut(t, s, id)
      PROVE  BaseInv'
  <2>1. t \in Threads /\ s # victim /\ get_packet(s, id)
    BY <1>2 DEF PacketOut, Threads, Open
  <2>2. \/ th' = th
        \/ \E p \in Packets : th' = [th EXCEPT ![t] = [pc |-> "hold", pkt |-> p, sw |-> s]]
    <3>1. CASE Lookup(s, id) = NoPacket
      BY <1>a, <1>2, <3>1 DEF PacketOut
    <3>2. CASE Lookup(s, id) # NoPacket
      <4>1. Lookup(s, id) \in Packets
        BY <3>2, LookupFinds
      <4> QED
        BY <1>2, <3>2, <4>1 DEF PacketOut
    <3> QED
      BY <3>1, <3>2
  <2>3. th' \in [Threads -> ThType]
    BY <1>a, <1>b, <2>1, <2>2 DEF ThType
  <2>4. /\ store' \in [Switches -> Seq([id : Ids, pkt : Packets])]
        /\ \A u \in Switches : Len(store'[u]) <= MaxStore
        /\ old' \in [Switches -> SUBSET Ids]
    BY <2>1, GetPacketTyped
  <2>5. TypeOK'
    BY <1>2, <2>3, <2>4 DEF PacketOut, TypeOK, ThType, timerState, destroyer
  <2>6. ThreadInv'
    BY <1>a, <1>b, <2>1, <2>2 DEF ThreadInv
  <2>7. BgInv'
    BY <1>2 DEF PacketOut, BgInv
  <2>8. DestroyInv'
    BY <1>a, <1>2, <2>1, <2>2 DEF PacketOut, DestroyInv, NoThreadIn, destroyer
  <2> QED
    BY <2>5, <2>6, <2>7, <2>8
<1>3. ASSUME NEW t \in Threads, ReleaseBuffer(t) PROVE BaseInv'
  <2>1. th' \in [Threads -> ThType] /\ th' = [th EXCEPT ![t] = [pc |-> "idle", pkt |-> NoPacket, sw |-> 0]]
    BY <1>a, <1>3, Firsts DEF ReleaseBuffer, Idle, ThType
  <2>2. th[t].pkt \in Packets
    BY <1>3, HoldsPacket DEF ReleaseBuffer
  <2>3. TypeOK'
    BY <1>3, <2>1, <2>2 DEF ReleaseBuffer, TypeOK, ThType, switchState, timerState, destroyer
  <2>4. ThreadInv'
    BY <1>a, <2>1 DEF ThreadInv
  <2>5. BgInv'
    BY <1>3 DEF ReleaseBuffer, BgInv
  <2>6. DestroyInv'
    BY <1>a, <1>3, <2>1 DEF ReleaseBuffer, DestroyInv, NoThreadIn, switchState, destroyer
  <2> QED
    BY <2>3, <2>4, <2>5, <2>6
<1>4. ASSUME NEW t \in Threads, platform_of1x_packet_in(t) PROVE BaseInv'
  <2>1. th[t].sw \in Switches /\ th[t].pkt \in Packets /\ th[t] \in ThType
    BY <1>a, <1>4, HoldsPacket DEF platform_of1x_packet_in
  <2>2. /\ th' \in [Threads -> ThType] /\ th'[t].pc = "notify" /\ th'[t].pkt = NoPacket
        /\ \A u \in Threads : th'[u].sw = th[u].sw
        /\ \A u \in Threads \ {t} : th'[u] = th[u]
    BY <1>a, <1>4, <2>1 DEF platform_of1x_packet_in, ThType
  <2>3. queue' \in [Switches -> Seq(Packets)] /\ \A u \in Switches : Len(queue'[u]) <= QueueCap
    <3> DEFINE q == queue[th[t].sw]
    <3>1. q \in Seq(Packets) /\ Len(q) < QueueCap
      BY <1>4, <2>1 DEF TypeOK, platform_of1x_packet_in
    <3>2. Append(q, th[t].pkt) \in Seq(Packets) /\ Len(Append(q, th[t].pkt)) = Len(q) + 1 /\ Len(q) \in Nat
      BY <2>1, <3>1, AppendKeeps
    <3>3. Len(Append(q, th[t].pkt)) <= QueueCap
      BY <3>1, <3>2, PacketInAssumption
    <3>4. queue' = [queue EXCEPT ![th[t].sw] = Append(q, th[t].pkt)]
      BY <1>4 DEF platform_of1x_packet_in
    <3>5. queue \in [Switches -> Seq(Packets)] /\ \A u \in Switches : Len(queue[u]) <= QueueCap
      BY DEF TypeOK
    <3> HIDE DEF q
    <3> QED
      BY <2>1, <3>2, <3>3, <3>4, <3>5
  <2>4. TypeOK'
    BY <1>4, <2>2, <2>3 DEF platform_of1x_packet_in, TypeOK, ThType, timerState, destroyer
  <2>5. ThreadInv'
    <3> SUFFICES ASSUME NEW u \in Threads
                 PROVE  (th'[u].pc = "idle" <=> th'[u].sw = 0) /\ (th'[u].pc = "hold" <=> th'[u].pkt # NoPacket)
      BY DEF ThreadInv
    <3>1. CASE u = t
      <4>1. th'[t].sw = th[t].sw /\ th[t].sw # 0
        BY <1>b, <2>1, <2>2
      <4>2. th'[t].pc = "notify" /\ th'[t].pkt = NoPacket
        BY <2>2
      <4> QED
        BY <3>1, <4>1, <4>2
    <3>2. CASE u # t
      BY <2>2, <3>2 DEF ThreadInv
    <3> QED
      BY <3>1, <3>2
  <2>6. BgInv'
    BY <1>4 DEF platform_of1x_packet_in, BgInv
  <2>7. DestroyInv'
    <3>1. dpc = "destroy" => th[t].sw # victim
      BY DEF DestroyInv, NoThreadIn
    <3>2. dpc = "destroy" => queue'[victim] = queue[victim]
      BY <1>4, <3>1 DEF platform_of1x_packet_in, TypeOK
    <3>3. dpc' = dpc /\ victim' = victim
      BY <1>4 DEF platform_of1x_packet_in, destroyer
    <3> QED
      BY <2>2, <3>2, <3>3 DEF DestroyInv, NoThreadIn
  <2> QED
    BY <2>4, <2>5, <2>6, <2>7
<1>5. ASSUME NEW t \in Threads, notify_packet_in(t) PROVE BaseInv'
  <2>1. th' \in [Threads -> ThType] /\ th' = [th EXCEPT ![t] = [pc |-> "idle", pkt |-> NoPacket, sw |-> 0]]
    BY <1>a, <1>5, Firsts DEF notify_packet_in, Idle, ThType
  <2>2. pipe' \in 0..PipeSize
    BY <1>5, PacketInAssumption DEF notify_packet_in, TypeOK, MinOf
  <2>3. TypeOK'
    BY <1>5, <2>1, <2>2 DEF notify_packet_in, TypeOK, ThType, switchState, timerState, destroyer
  <2>4. ThreadInv'
    BY <1>a, <2>1 DEF ThreadInv
  <2>5. BgInv'
    BY <1>5 DEF notify_packet_in, BgInv
  <2>6. DestroyInv'
    BY <1>a, <1>5, <2>1 DEF notify_packet_in, DestroyInv, NoThreadIn, switchState, destroyer
  <2> QED
    BY <2>3, <2>4, <2>5, <2>6
<1> QED
  BY <1>1, <1>2, <1>3, <1>4, <1>5 DEF PipelineStep, ThreadStep

\* The steps of the background thread that handle one packet, and the clock.
PacketStep ==
    \/ ReadPacketIn \/ store_packet \/ StoreFull \/ PacketInSent \/ UndoStore \/ Expire \/ Tick

\* What reading a packet-in does: the front of the queue goes to the dispatcher.
LEMMA ReadEffect ==
    ASSUME BaseInv, ReadPacketIn
    PROVE  /\ bg \in BgType /\ bg.sw \in Switches /\ queue[bg.sw] \in Seq(Packets) /\ queue[bg.sw] # <<>>
           /\ Head(queue[bg.sw]) \in Packets
           /\ queue' = [queue EXCEPT ![bg.sw] = Tail(queue[bg.sw])]
           /\ bg' \in BgType /\ bg.pc = "read" /\ bg'.pc = "store"
           /\ bg'.pkt = Head(queue[bg.sw]) /\ bg'.i = bg.i /\ bg.i < Budget
<1>1. bg \in BgType /\ bg.sw \in Switches /\ queue[bg.sw] \in Seq(Packets) /\ queue[bg.sw] # <<>>
  BY DEF BaseInv, TypeOK, BgType, ReadPacketIn
<1>2. Head(queue[bg.sw]) \in Packets
  BY <1>1, TailShifts
<1>3. bg' = [bg EXCEPT !.pc = "store", !.pkt = Head(queue[bg.sw])] /\ bg.pc = "read" /\ bg.i < Budget
      /\ queue' = [queue EXCEPT ![bg.sw] = Tail(queue[bg.sw])]
  BY DEF ReadPacketIn
<1>4. bg' \in BgType /\ bg'.pc = "store" /\ bg'.pkt = Head(queue[bg.sw]) /\ bg'.i = bg.i
  BY <1>1, <1>2, <1>3 DEF BgType, DispatchSteps
<1> QED
  BY <1>1, <1>2, <1>3, <1>4

\* What storing a packet does: it is appended under a fresh id the controller does not know.
LEMMA StoreEffect ==
    ASSUME BaseInv, store_packet
    PROVE  /\ bg \in BgType /\ bg.sw \in Switches /\ bg.pkt \in Packets
           /\ store[bg.sw] \in Seq([id : Ids, pkt : Packets]) /\ Len(store[bg.sw]) < MaxStore
           /\ bg'.id \in Ids /\ bg'.id \notin StoredIds(bg.sw)
           /\ store' = [store EXCEPT ![bg.sw] = Append(store[bg.sw], [id |-> bg'.id, pkt |-> bg.pkt])]
           /\ next_id' = [next_id EXCEPT ![bg.sw] = bg'.id]
           /\ known' = [known EXCEPT ![bg.sw] = @ \ {bg'.id}]
           /\ bg' \in BgType /\ bg.pc = "store" /\ bg'.pc = "cmm"
           /\ bg'.pkt = bg.pkt /\ bg'.sw = bg.sw /\ bg'.i = bg.i
<1>1. bg \in BgType /\ bg.sw \in Switches /\ bg.pkt \in Packets
      /\ store[bg.sw] \in Seq([id : Ids, pkt : Packets]) /\ Len(store[bg.sw]) < MaxStore
  BY DEF BaseInv, BgInv, TypeOK, BgType, store_packet
<1> DEFINE id == NextId(bg.sw)
<1>2. id \in Ids /\ id \notin StoredIds(bg.sw)
  BY <1>1, NextIdFree DEF BaseInv
<1>3. /\ store' = [store EXCEPT ![bg.sw] = Append(store[bg.sw], [id |-> id, pkt |-> bg.pkt])]
      /\ next_id' = [next_id EXCEPT ![bg.sw] = id]
      /\ known' = [known EXCEPT ![bg.sw] = @ \ {id}]
      /\ bg' = [bg EXCEPT !.pc = "cmm", !.id = id] /\ bg.pc = "store"
  BY DEF store_packet
<1> HIDE DEF id
<1>4. id \in 0..NumIds
  BY <1>2, PacketInAssumption DEF Ids
<1>5. bg' \in BgType /\ bg'.pc = "cmm" /\ bg'.id = id /\ bg'.pkt = bg.pkt /\ bg'.sw = bg.sw /\ bg'.i = bg.i
  BY <1>1, <1>3, <1>4 DEF BgType, DispatchSteps
<1> QED
  BY <1>1, <1>2, <1>3, <1>5

\* The background thread's handling of packets keeps the types and the destroyer's facts.
LEMMA PacketStepKeepsBase == ASSUME BaseInv, PacketStep PROVE BaseInv'
<1> USE DEF BaseInv
<1>a. bg \in BgType /\ bg.sw \in Switches
  BY DEF TypeOK, BgType
<1>b. ASSUME UNCHANGED <<th, queue, destroyer>> PROVE ThreadInv' /\ DestroyInv'
  BY <1>b DEF ThreadInv, DestroyInv, NoThreadIn, destroyer
<1>1. CASE ReadPacketIn
  <2>1. Tail(queue[bg.sw]) \in Seq(Packets) /\ Len(Tail(queue[bg.sw])) = Len(queue[bg.sw]) - 1
    BY <1>1, ReadEffect, TailShifts
  <2>2. Len(queue[bg.sw]) \in Nat
    BY <1>1, ReadEffect, LenProperties
  <2>3. queue \in [Switches -> Seq(Packets)] /\ \A u \in Switches : Len(queue[u]) <= QueueCap
    BY DEF TypeOK
  <2>4. queue' \in [Switches -> Seq(Packets)] /\ \A u \in Switches : Len(queue'[u]) <= QueueCap
    <3>1. Len(Tail(queue[bg.sw])) <= QueueCap
      BY <1>a, <2>1, <2>2, <2>3, PacketInAssumption
    <3>2. queue' = [queue EXCEPT ![bg.sw] = Tail(queue[bg.sw])]
      BY <1>1, ReadEffect
    <3> QED
      BY <1>a, <2>1, <2>3, <3>1, <3>2
  <2>5. TypeOK'
    BY <1>1, <2>4, ReadEffect DEF ReadPacketIn, TypeOK, BgType, timerState, destroyer
  <2>6. ThreadInv'
    BY <1>1 DEF ReadPacketIn, ThreadInv
  <2>7. BgInv'
    BY <1>1, ReadEffect DEF BgInv
  <2>8. DestroyInv'
    <3>1. dpc = "destroy" => bg.sw # victim
      BY <1>1, ReadEffect DEF DestroyInv
    <3>2. dpc = "destroy" => queue'[victim] = queue[victim]
      BY <1>1, <3>1 DEF ReadPacketIn, TypeOK
    <3>3. dpc' = dpc /\ victim' = victim /\ th' = th
      BY <1>1 DEF ReadPacketIn, destroyer
    <3> QED
      BY <3>2, <3>3 DEF DestroyInv, NoThreadIn
  <2> QED
    BY <2>5, <2>6, <2>7, <2>8
<1>2. CASE store_packet
  <2>1. store' \in [Switches -> Seq([id : Ids, pkt : Packets])] /\ \A u \in Switches : Len(store'[u]) <= MaxStore
    <3> DEFINE e == [id |-> bg'.id, pkt |-> bg.pkt]
               q == Append(store[bg.sw], e)
    <3>1. e \in [id : Ids, pkt : Packets]
      BY <1>2, StoreEffect
    <3>2. q \in Seq([id : Ids, pkt : Packets]) /\ Len(q) = Len(store[bg.sw]) + 1 /\ Len(store[bg.sw]) \in Nat
      BY <1>2, <3>1, StoreEffect, AppendKeeps
    <3>3. Len(q) <= MaxStore
      BY <1>2, <3>2, StoreEffect, PacketInAssumption
    <3>4. store' = [store EXCEPT ![bg.sw] = q]
      BY <1>2, StoreEffect
    <3>5. store \in [Switches -> Seq([id : Ids, pkt : Packets])] /\ \A u \in Switches : Len(store[u]) <= MaxStore
      BY DEF TypeOK
    <3> HIDE DEF e, q
    <3> QED
      BY <1>a, <3>2, <3>3, <3>4, <3>5
  <2>2. next_id' \in [Switches -> Ids] /\ known' \in [Switches -> SUBSET Ids]
    <3>1. /\ next_id' = [next_id EXCEPT ![bg.sw] = bg'.id] /\ bg'.id \in Ids
          /\ known' = [known EXCEPT ![bg.sw] = known[bg.sw] \ {bg'.id}]
      BY <1>2, StoreEffect
    <3>2. next_id \in [Switches -> Ids] /\ known \in [Switches -> SUBSET Ids]
      BY DEF TypeOK
    <3> QED
      BY <1>a, <3>1, <3>2
  <2>3. TypeOK'
    BY <1>2, <2>1, <2>2, StoreEffect DEF store_packet, TypeOK, BgType, timerState, destroyer
  <2>4. BgInv'
    BY <1>2, StoreEffect DEF BgInv
  <2> QED
    BY <1>b, <1>2, <2>3, <2>4 DEF store_packet
<1>3. CASE StoreFull
  <2>1. bg' \in BgType /\ bg'.pc = "read" /\ bg.pkt \in Packets
    BY <1>3, OneDoneTyped DEF StoreFull, BgInv
  <2>2. TypeOK'
    BY <1>3, <2>1 DEF StoreFull, TypeOK, BgType, switchState, timerState, destroyer
  <2>3. BgInv'
    BY <2>1 DEF BgInv
  <2> QED
    BY <1>b, <1>3, <2>2, <2>3 DEF StoreFull, switchState
<1>4. CASE PacketInSent
  <2>1. bg' \in BgType /\ bg'.pc = "read" /\ bg.id \in Ids
    BY <1>4, OneDoneTyped DEF PacketInSent, BgInv
  <2>2. known' \in [Switches -> SUBSET Ids]
    <3>1. known' = [known EXCEPT ![bg.sw] = IF bg.sw = victim THEN known[bg.sw] ELSE known[bg.sw] \cup {bg.id}]
      BY <1>4 DEF PacketInSent
    <3>2. known \in [Switches -> SUBSET Ids]
      BY DEF TypeOK
    <3> QED
      BY <1>a, <2>1, <3>1, <3>2
  <2>3. TypeOK'
    BY <1>4, <2>1, <2>2 DEF PacketInSent, TypeOK, BgType, timerState, destroyer
  <2>4. BgInv'
    BY <2>1 DEF BgInv
  <2> QED
    BY <1>b, <1>4, <2>3, <2>4 DEF PacketInSent
<1>5. CASE UndoStore
  <2>1. bg' \in BgType /\ bg'.pc = "read" /\ bg.pkt \in Packets
    BY <1>5, OneDoneTyped DEF UndoStore, BgInv
  <2>2. /\ store' \in [Switches -> Seq([id : Ids, pkt : Packets])]
        /\ \A u \in Switches : Len(store'[u]) <= MaxStore
        /\ old' \in [Switches -> SUBSET Ids]
    BY <1>a, <1>5, GetPacketTyped DEF UndoStore
  <2>3. TypeOK'
    BY <1>5, <2>1, <2>2 DEF UndoStore, TypeOK, BgType, timerState, destroyer
  <2>4. BgInv'
    BY <2>1 DEF BgInv
  <2> QED
    BY <1>b, <1>5, <2>3, <2>4 DEF UndoStore
<1>6. CASE Expire
  <2>1. bg' \in BgType /\ bg'.pc = "peek"
    BY <1>a, <1>6, Firsts DEF Expire, BgType, ExpireSteps
  <2>2. /\ store' \in [Switches -> Seq([id : Ids, pkt : Packets])]
        /\ \A u \in Switches : Len(store'[u]) <= MaxStore
        /\ old' \in [Switches -> SUBSET Ids]
    BY <1>a, <1>6, GetPacketTyped DEF Expire
  <2>3. {Lookup(bg.sw, bg.id)} \ {NoPacket} \subseteq Packets
    BY <1>a, LookupFinds
  <2>4. TypeOK'
    BY <1>6, <2>1, <2>2, <2>3 DEF Expire, TypeOK, BgType, timerState, destroyer
  <2>5. BgInv'
    BY <2>1 DEF BgInv
  <2> QED
    BY <1>b, <1>6, <2>4, <2>5 DEF Expire
<1>7. CASE Tick
  <2>1. \A s \in Switches : StoredIds(s) \subseteq Ids
    <3> SUFFICES ASSUME NEW s \in Switches, NEW k \in DOMAIN store[s] PROVE store[s][k].id \in Ids
      BY DEF StoredIds
    <3>1. store[s] \in Seq([id : Ids, pkt : Packets])
      BY DEF TypeOK
    <3>2. store[s][k] \in [id : Ids, pkt : Packets]
      BY <3>1, ElementOfSeq, LenProperties
    <3> QED
      BY <3>2
  <2>2. old' \in [Switches -> SUBSET Ids]
    BY <1>7, <2>1 DEF Tick
  <2>3. TypeOK'
    BY <1>7, <2>2 DEF Tick, TypeOK, destroyer
  <2>4. BgInv'
    BY <1>7 DEF Tick, BgInv
  <2> QED
    BY <1>b, <1>7, <2>3, <2>4 DEF Tick
<1> QED
  BY <1>1, <1>2, <1>3, <1>4, <1>5, <1>6, <1>7 DEF PacketStep

\* Creating and destroying switches keeps the types and the destroyer's facts.
LEMMA SwitchStepKeepsBase ==
    ASSUME BaseInv, (\E s \in Switches : CreateSwitch(s) \/ destroy_switch(s)) \/ Destroyer
    PROVE  BaseInv'
<1> USE DEF BaseInv
<1>a. ASSUME UNCHANGED th PROVE ThreadInv'
  BY <1>a DEF ThreadInv
<1>b. ASSUME UNCHANGED bg PROVE BgInv'
  BY <1>b DEF BgInv
<1>c. dpc # "idle" => victim \in Switches
  BY PacketInAssumption DEF TypeOK, DestroyInv, Switches
<1>1. ASSUME NEW s \in Switches, CreateSwitch(s) PROVE BaseInv'
  <2>1. TypeOK'
    BY <1>1 DEF CreateSwitch, TypeOK, switchState, timerState, destroyer
  <2>2. DestroyInv'
    BY <1>1 DEF CreateSwitch, DestroyInv, NoThreadIn, switchState, destroyer
  <2> QED
    BY <1>a, <1>b, <1>1, <2>1, <2>2 DEF CreateSwitch
<1>2. ASSUME NEW s \in Switches, destroy_switch(s) PROVE BaseInv'
  <2>1. s \in 0..NumSw /\ s # 0
    BY Firsts
  <2>2. TypeOK'
    BY <1>2, <2>1 DEF destroy_switch, TypeOK, switchState, timerState
  <2>3. DestroyInv'
    BY <1>2, <2>1 DEF destroy_switch, DestroyInv
  <2> QED
    BY <1>a, <1>b, <1>2, <2>2, <2>3 DEF destroy_switch
<1>3. CASE drain_packet_ins
  <2> DEFINE q == queue[victim]
  <2>1. victim \in Switches /\ q \in Seq(Packets) /\ q # <<>> /\ queue' = [queue EXCEPT ![victim] = Tail(q)]
    BY <1>c, <1>3 DEF drain_packet_ins, TypeOK
  <2>2. Head(q) \in Packets /\ Tail(q) \in Seq(Packets) /\ Len(Tail(q)) = Len(q) - 1 /\ Len(q) \in Nat
    BY <2>1, TailShifts, LenProperties
  <2>3. queue \in [Switches -> Seq(Packets)] /\ \A u \in Switches : Len(queue[u]) <= QueueCap
    BY DEF TypeOK
  <2>4. Len(Tail(q)) <= QueueCap
    BY <2>1, <2>2, <2>3, PacketInAssumption
  <2>5. pool' = pool \cup {Head(q)} /\ UNCHANGED <<th, alive, store, next_id, old, known, pipe, timerState, bg, victim, dpc>>
        /\ drained' = TRUE /\ dpc = "drain"
    BY <1>3 DEF drain_packet_ins
  <2> HIDE DEF q
  <2>6. queue' \in [Switches -> Seq(Packets)] /\ \A u \in Switches : Len(queue'[u]) <= QueueCap
    BY <2>1, <2>2, <2>3, <2>4
  <2>7. TypeOK'
    BY <2>2, <2>5, <2>6 DEF TypeOK, timerState
  <2>8. DestroyInv'
    BY <2>5 DEF DestroyInv
  <2> QED
    BY <1>a, <1>b, <2>5, <2>7, <2>8
<1>4. CASE Drained
  <2>1. TypeOK'
    BY <1>4 DEF Drained, TypeOK, switchState, timerState
  <2>2. DestroyInv'
    BY <1>4 DEF Drained, DestroyInv, NoThreadIn, switchState
  <2> QED
    BY <1>a, <1>b, <1>4, <2>1, <2>2 DEF Drained
<1>5. CASE DestroySwitch
  <2>1. victim \in Switches
    BY <1>c, <1>5 DEF DestroySwitch
  <2>2. <<>> \in Seq(Packets) /\ <<>> \in Seq([id : Ids, pkt : Packets]) /\ Len(<<>>) = 0
    BY EmptySeq
  <2>3. 1 \in Ids /\ 0 <= QueueCap /\ 0 <= MaxStore /\ 0 \in 0..NumSw
    BY PacketInAssumption DEF Ids
  <2>4. queue' \in [Switches -> Seq(Packets)] /\ \A u \in Switches : Len(queue'[u]) <= QueueCap
    BY <1>5, <2>1, <2>2, <2>3 DEF DestroySwitch, TypeOK
  <2>5. store' \in [Switches -> Seq([id : Ids, pkt : Packets])] /\ \A u \in Switches : Len(store'[u]) <= MaxStore
    BY <1>5, <2>1, <2>2, <2>3 DEF DestroySwitch, TypeOK
  <2>6. \A k \in DOMAIN store[victim] : store[victim][k].pkt \in Packets
    <3> SUFFICES ASSUME NEW k \in DOMAIN store[victim] PROVE store[victim][k].pkt \in Packets
      OBVIOUS
    <3>1. store[victim] \in Seq([id : Ids, pkt : Packets])
      BY <2>1 DEF TypeOK
    <3>2. store[victim][k] \in [id : Ids, pkt : Packets]
      BY <3>1, ElementOfSeq, LenProperties
    <3> QED
      BY <3>2
  <2>7. pool' \subseteq Packets
    BY <1>5, <2>6 DEF DestroySwitch, TypeOK
  <2>8. next_id' \in [Switches -> Ids] /\ old' \in [Switches -> SUBSET Ids] /\ known' \in [Switches -> SUBSET Ids]
    BY <1>5, <2>1, <2>3 DEF DestroySwitch, TypeOK
  <2>9. /\ alive' = alive \ {victim} /\ victim' = 0 /\ dpc' = "idle"
        /\ UNCHANGED <<th, pipe, timerState, bg, drained>>
    BY <1>5 DEF DestroySwitch
  <2>10. TypeOK'
    BY <2>3, <2>4, <2>5, <2>7, <2>8, <2>9 DEF TypeOK, timerState
  <2>11. DestroyInv'
    BY <2>9 DEF DestroyInv
  <2> QED
    BY <1>a, <1>b, <2>9, <2>10, <2>11
<1> QED
  BY <1>1, <1>2, <1>3, <1>4, <1>5 DEF Destroyer

\* The steps of the system by what they may change.
LEMMA StepKinds ==
    Next => \/ OnlyMoves \/ PipelineStep \/ PacketStep
            \/ (\E s \in Switches : CreateSwitch(s) \/ destroy_switch(s)) \/ Destroyer
BY DEF Next, OnlyMoves, PipelineStep, PacketStep, Dispatch, ExpireStep

\* Well-formedness is inductive.
LEMMA BaseStep == BaseInv /\ [Next]_vars => BaseInv'
<1> SUFFICES ASSUME BaseInv, [Next]_vars PROVE BaseInv'
  OBVIOUS
<1>1. CASE Next
  BY <1>1, StepKinds, OnlyMovesKeepBase, PipelineKeepsBase, PacketStepKeepsBase, SwitchStepKeepsBase
<1>2. CASE UNCHANGED vars
  <2>1. TypeOK'
    BY <1>2 DEF vars, BaseInv, TypeOK, switchState, timerState, destroyer
  <2>2. ThreadInv' /\ BgInv' /\ DestroyInv'
    BY <1>2 DEF vars, BaseInv, ThreadInv, BgInv, DestroyInv, NoThreadIn, switchState, timerState, destroyer
  <2> QED
    BY <2>1, <2>2 DEF BaseInv
<1> QED
  BY <1>1, <1>2

\* The invariant holds throughout, whether or not a switch is freed in time.
LEMMA BaseAlways == Spec => []BaseInv
BY BaseInit, BaseStep, PTL DEF Spec

\* Every queue and storage stays within its limits (LSI_PKT_IN_QUEUE_SLOTS,
\* LSI_PKT_IN_STORAGE_MAX_BUF), pending_to_read never becomes negative and the
\* storage always finds a free id, for every number of switches, threads and packets.
THEOREM TypeCorrect == Spec => []TypeOK
BY BaseAlways, PTL DEF BaseInv

-----------------------------------------------------------------------------
(* Packets in sequences *)

\* Packet p is in queue q; p, or id i, is in storage q; p is stored under id i.
HeldIn(q, p) == \E k \in DOMAIN q : q[k] = p
StoredIn(q, p) == \E k \in DOMAIN q : q[k].pkt = p
HasId(q, i) == \E k \in DOMAIN q : q[k].id = i
StoredAs(q, i, p) == \E k \in DOMAIN q : q[k].id = i /\ q[k].pkt = p

\* No packet is twice in a queue, no packet and no id twice in a storage.
Distinct(q) == \A j, k \in DOMAIN q : j # k => q[j] # q[k]
DistinctEntries(q) == \A j, k \in DOMAIN q : j # k => q[j].id # q[k].id /\ q[j].pkt # q[k].pkt

\* Taking the front of a queue takes that packet and no other.
LEMMA TailTakes ==
    ASSUME NEW S, NEW q \in Seq(S), q # <<>>, Distinct(q)
    PROVE  /\ Distinct(Tail(q)) /\ HeldIn(q, Head(q))
           /\ \A p : HeldIn(Tail(q), p) <=> HeldIn(q, p) /\ p # Head(q)
<1>1. /\ Head(q) = q[1] /\ 1 \in DOMAIN q
      /\ DOMAIN Tail(q) = 1..(Len(q) - 1) /\ DOMAIN q = 1..Len(q) /\ Len(q) \in Nat
      /\ \A i \in DOMAIN Tail(q) : i + 1 \in DOMAIN q /\ Tail(q)[i] = q[i + 1]
  BY TailShifts, LenProperties
<1>2. Distinct(Tail(q))
  <2> SUFFICES ASSUME NEW j \in DOMAIN Tail(q), NEW k \in DOMAIN Tail(q), j # k
               PROVE  Tail(q)[j] # Tail(q)[k]
    BY DEF Distinct
  <2>1. j + 1 # k + 1
    BY <1>1
  <2> QED
    BY <1>1, <2>1 DEF Distinct
<1>3. HeldIn(q, Head(q))
  BY <1>1 DEF HeldIn
<1>4. ASSUME NEW p PROVE HeldIn(Tail(q), p) <=> HeldIn(q, p) /\ p # Head(q)
  <2>1. ASSUME HeldIn(Tail(q), p) PROVE HeldIn(q, p) /\ p # Head(q)
    <3>1. PICK i \in DOMAIN Tail(q) : Tail(q)[i] = p
      BY <2>1 DEF HeldIn
    <3>2. i + 1 \in DOMAIN q /\ q[i + 1] = p /\ i + 1 # 1
      BY <1>1, <3>1
    <3> QED
      BY <1>1, <3>2 DEF HeldIn, Distinct
  <2>2. ASSUME HeldIn(q, p), p # Head(q) PROVE HeldIn(Tail(q), p)
    <3>1. PICK i \in DOMAIN q : q[i] = p
      BY <2>2 DEF HeldIn
    <3>2. i - 1 \in DOMAIN Tail(q) /\ (i - 1) + 1 = i
      BY <1>1, <2>2, <3>1
    <3>3. Tail(q)[i - 1] = q[(i - 1) + 1]
      BY <1>1, <3>2
    <3> QED
      BY <3>1, <3>2, <3>3 DEF HeldIn
  <2> QED
    BY <2>1, <2>2
<1> QED
  BY <1>2, <1>3, <1>4

\* Queueing a packet adds that packet and no other.
LEMMA AppendAdds ==
    ASSUME NEW S, NEW q \in Seq(S), NEW e \in S, Distinct(q), ~HeldIn(q, e)
    PROVE  /\ Distinct(Append(q, e))
           /\ \A p : HeldIn(Append(q, e), p) <=> HeldIn(q, p) \/ p = e
<1> DEFINE r == Append(q, e)
           n == Len(q)
<1>1. /\ n \in Nat /\ DOMAIN q = 1..n /\ DOMAIN r = 1..(n + 1)
      /\ r[n + 1] = e
      /\ \A i \in DOMAIN q : r[i] = q[i]
  BY AppendKeeps
<1> HIDE DEF r, n
<1>2. /\ n + 1 \in DOMAIN r /\ DOMAIN q \subseteq DOMAIN r
      /\ \A i \in DOMAIN r : i \in DOMAIN q \/ i = n + 1
  BY <1>1
<1>3. \A i \in DOMAIN q : q[i] # e
  BY DEF HeldIn
<1>4. Distinct(r)
  BY <1>1, <1>2, <1>3 DEF Distinct
<1>5. \A p : HeldIn(r, p) <=> HeldIn(q, p) \/ p = e
  BY <1>1, <1>2 DEF HeldIn
<1> QED
  BY <1>4, <1>5 DEF r

\* Storing a packet adds that entry and no other.
LEMMA StoreAdds ==
    ASSUME NEW S, NEW q \in Seq(S), NEW e \in S,
           DistinctEntries(q), ~StoredIn(q, e.pkt), ~HasId(q, e.id)
    PROVE  /\ DistinctEntries(Append(q, e)) /\ StoredAs(Append(q, e), e.id, e.pkt)
           /\ \A p : StoredIn(Append(q, e), p) <=> StoredIn(q, p) \/ p = e.pkt
<1> DEFINE r == Append(q, e)
           n == Len(q)
<1>1. /\ n \in Nat /\ DOMAIN q = 1..n /\ DOMAIN r = 1..(n + 1)
      /\ r[n + 1] = e
      /\ \A j \in DOMAIN q : r[j] = q[j]
  BY AppendKeeps
<1> HIDE DEF r, n
<1>2. /\ n + 1 \in DOMAIN r /\ DOMAIN q \subseteq DOMAIN r
      /\ \A j \in DOMAIN r : j \in DOMAIN q \/ j = n + 1
  BY <1>1
<1>3. \A j \in DOMAIN q : q[j].id # e.id /\ q[j].pkt # e.pkt
  BY DEF StoredIn, HasId
<1>4. DistinctEntries(r)
  BY <1>1, <1>2, <1>3 DEF DistinctEntries
<1>5. StoredAs(r, e.id, e.pkt)
  BY <1>1, <1>2 DEF StoredAs
<1>6. \A p : StoredIn(r, p) <=> StoredIn(q, p) \/ p = e.pkt
  BY <1>1, <1>2 DEF StoredIn
<1> QED
  BY <1>4, <1>5, <1>6 DEF r

\* Erasing an entry takes its packet and no other.
LEMMA RemoveTakes ==
    ASSUME NEW S, NEW q \in Seq(S), NEW k \in DOMAIN q, DistinctEntries(q)
    PROVE  /\ DistinctEntries(RemoveAt(q, k)) /\ StoredIn(q, q[k].pkt)
           /\ \A p : StoredIn(RemoveAt(q, k), p) <=> StoredIn(q, p) /\ p # q[k].pkt
           /\ \A i, p : StoredAs(q, i, p) /\ i # q[k].id => StoredAs(RemoveAt(q, k), i, p)
<1> DEFINE r == RemoveAt(q, k)
           n == Len(q)
           from(j) == IF j < k THEN j ELSE j + 1
<1>1. /\ n \in Nat /\ k \in Nat /\ DOMAIN q = 1..n /\ DOMAIN r = 1..(n - 1)
      /\ \A j \in 1..(n - 1) : r[j] = IF j < k THEN q[j] ELSE q[j + 1]
  BY RemoveAtCloses
<1> HIDE DEF r, n
<1>2. /\ \A j \in DOMAIN r : from(j) \in DOMAIN q /\ from(j) # k /\ r[j] = q[from(j)]
      /\ \A i, j \in DOMAIN r : i # j => from(i) # from(j)
  BY <1>1
<1>3. \A i \in DOMAIN q \ {k} : \E j \in DOMAIN r : r[j] = q[i]
  <2> SUFFICES ASSUME NEW i \in DOMAIN q, i # k PROVE \E j \in DOMAIN r : r[j] = q[i]
    OBVIOUS
  <2>1. CASE i < k
    BY <1>1, <2>1
  <2>2. CASE ~(i < k)
    <3>1. i - 1 \in DOMAIN r /\ ~(i - 1 < k) /\ (i - 1) + 1 = i
      BY <1>1, <2>2
    <3>2. r[i - 1] = q[(i - 1) + 1]
      BY <1>1, <3>1
    <3> QED
      BY <3>1, <3>2
  <2> QED
    BY <2>1, <2>2
<1> HIDE DEF from
<1>4. DistinctEntries(r)
  BY <1>2 DEF DistinctEntries
<1>5. StoredIn(q, q[k].pkt)
  BY DEF StoredIn
<1>6. ASSUME NEW p PROVE StoredIn(r, p) <=> StoredIn(q, p) /\ p # q[k].pkt
  <2>1. ASSUME StoredIn(r, p) PROVE StoredIn(q, p) /\ p # q[k].pkt
    BY <1>2, <2>1 DEF StoredIn, DistinctEntries
  <2>2. ASSUME StoredIn(q, p), p # q[k].pkt PROVE StoredIn(r, p)
    BY <1>3, <2>2 DEF StoredIn
  <2> QED
    BY <2>1, <2>2
<1>7. ASSUME NEW i, NEW p, StoredAs(q, i, p), i # q[k].id PROVE StoredAs(r, i, p)
  BY <1>3, <1>7 DEF StoredAs
<1> QED
  BY <1>4, <1>5, <1>6, <1>7 DEF r

-----------------------------------------------------------------------------
(* One owner per packet *)

InPool(p) == p \in pool
OfThread(t, p) == th[t].pkt = p
OfBg(p) == bg.pc = "store" /\ bg.pkt = p
InQueue(s, p) == HeldIn(queue[s], p)
InStorage(s, p) == StoredIn(store[s], p)

\* Packet p is with an owner of kind k, which is the thread or switch a.
At(k, a, p) ==
    \/ k = "pool" /\ a = 0 /\ InPool(p)
    \/ k = "thread" /\ a \in Threads /\ OfThread(a, p)
    \/ k = "bg" /\ a = 0 /\ OfBg(p)
    \/ k = "queue" /\ a \in Switches /\ InQueue(a, p)
    \/ k = "store" /\ a \in Switches /\ InStorage(a, p)

\* Every packet is in one place, and there once.
OnePlace ==
    \A p \in Packets : \E k, a : At(k, a, p) /\ \A l, b : At(l, b, p) => l = k /\ b = a

NoCopies == \A s \in Switches : Distinct(queue[s]) /\ DistinctEntries(store[s])

\* Until a PACKET_IN was sent the packet is stored under its id, and no controller
\* knows that id.
EntryInv ==
    bg.pc \in {"cmm", "undo"} =>
        StoredAs(store[bg.sw], bg.id, bg.pkt) /\ bg.id \notin known[bg.sw]

OwnerInv == BaseInv /\ OnePlace /\ NoCopies /\ EntryInv

\* The step takes packet o from the place k0, a0 and puts it into the place k1, a1.
Moves(o, k0, a0, k1, a1) ==
    \A p \in Packets : \A k, a :
        At(k, a, p)' <=> (   \/ At(k, a, p) /\ ~(p = o /\ k = k0 /\ a = a0)
                             \/ p = o /\ k = k1 /\ a = a1)

\* A step that moves one packet leaves every packet in one place.
LEMMA MoveKeepsOnePlace ==
    ASSUME OnePlace, NEW o \in Packets, NEW k0, NEW a0, NEW k1, NEW a1, At(k0, a0, o),
           Moves(o, k0, a0, k1, a1)
    PROVE  OnePlace'
<1> USE DEF Moves
<1> SUFFICES ASSUME NEW p \in Packets
             PROVE  \E k, a : At(k, a, p)' /\ \A l, b : At(l, b, p)' => l = k /\ b = a
  BY DEF OnePlace
<1>1. PICK k, a : At(k, a, p) /\ \A l, b : At(l, b, p) => l = k /\ b = a
  BY DEF OnePlace
<1>2. CASE p # o
  <2>1. \A l, b : At(l, b, p)' <=> At(l, b, p)
    BY <1>2
  <2> QED
    BY <1>1, <2>1
<1>3. CASE p = o
  <2>1. k = k0 /\ a = a0
    BY <1>1, <1>3
  <2>2. \A l, b : At(l, b, p)' <=> l = k1 /\ b = a1
    BY <1>1, <1>3, <2>1
  <2> QED
    BY <2>2
<1> QED
  BY <1>2, <1>3

\* A packet in one place is in no other.
LEMMA OnlyThere ==
    ASSUME OnePlace, NEW p \in Packets, NEW k, NEW a, NEW l, NEW b, At(k, a, p), At(l, b, p)
    PROVE  k = l /\ a = b
BY DEF OnePlace

\* A step that moves no packet.
LEMMA NoMoveKeepsOnePlace ==
    ASSUME OnePlace, UNCHANGED <<pool, queue, store>>,
           \A t \in Threads : th'[t].pkt = th[t].pkt,
           \A p \in Packets : OfBg(p)' <=> OfBg(p)
    PROVE  OnePlace'
<1>1. ASSUME NEW p \in Packets, NEW k, NEW a PROVE At(k, a, p)' <=> At(k, a, p)
  <2>1. InPool(p)' <=> InPool(p)
    BY DEF InPool
  <2>2. \A t \in Threads : OfThread(t, p)' <=> OfThread(t, p)
    BY DEF OfThread
  <2>3. \A s \in Switches : (InQueue(s, p)' <=> InQueue(s, p)) /\ (InStorage(s, p)' <=> InStorage(s, p))
    BY DEF InQueue, InStorage, HeldIn, StoredIn
  <2>4. OfBg(p)' <=> OfBg(p)
    OBVIOUS
  <2> QED
    BY <2>1, <2>2, <2>3, <2>4 DEF At
<1> QED
  BY <1>1 DEF OnePlace

\* get_packet takes the entry of that id out, and nothing else.
LEMMA GetPacketTakes ==
    ASSUME OwnerInv, NEW s \in Switches, NEW id, get_packet(s, id)
    PROVE  /\ \A u \in Switches \ {s} : store'[u] = store[u]
           /\ DistinctEntries(store'[s])
           /\ IF id \in StoredIds(s)
              THEN /\ Lookup(s, id) \in Packets /\ InStorage(s, Lookup(s, id))
                   /\ \A p : StoredIn(store'[s], p) <=> StoredIn(store[s], p) /\ p # Lookup(s, id)
                   /\ \A i, p : StoredAs(store[s], i, p) /\ i # id => StoredAs(store'[s], i, p)
              ELSE Lookup(s, id) = NoPacket /\ store' = store
<1>1. store \in [Switches -> Seq([id : Ids, pkt : Packets])] /\ store[s] \in Seq([id : Ids, pkt : Packets])
      /\ DistinctEntries(store[s])
  BY DEF OwnerInv, BaseInv, TypeOK, NoCopies
<1>2. CASE id \in StoredIds(s)
  <2> DEFINE k == Position(s, id)
  <2>1. k \in DOMAIN store[s] /\ store[s][k].id = id /\ Lookup(s, id) = store[s][k].pkt /\ Lookup(s, id) \in Packets
    BY <1>2, LookupFinds DEF OwnerInv, BaseInv
  <2>2. store' = [store EXCEPT ![s] = RemoveAt(store[s], k)]
    BY <1>2 DEF get_packet
  <2> HIDE DEF k
  <2>3. store'[s] = RemoveAt(store[s], k) /\ \A u \in Switches \ {s} : store'[u] = store[u]
    BY <1>1, <2>2
  <2>4. /\ DistinctEntries(RemoveAt(store[s], k)) /\ StoredIn(store[s], store[s][k].pkt)
        /\ \A p : StoredIn(RemoveAt(store[s], k), p) <=> StoredIn(store[s], p) /\ p # store[s][k].pkt
        /\ \A i, p : StoredAs(store[s], i, p) /\ i # store[s][k].id => StoredAs(RemoveAt(store[s], k), i, p)
    BY <1>1, <2>1, RemoveTakes
  <2> QED
    BY <1>2, <2>1, <2>3, <2>4 DEF InStorage
<1>3. CASE id \notin StoredIds(s)
  <2>1. store' = [store EXCEPT ![s] = store[s]]
    BY <1>3 DEF get_packet
  <2>2. store' = store
    BY <1>1, <2>1
  <2>3. Lookup(s, id) = NoPacket
    BY <1>3 DEF Lookup
  <2> QED
    BY <1>1, <1>3, <2>2, <2>3
<1> QED
  BY <1>2, <1>3

\* The dispatcher finds its packet under its id.
LEMMA EntryFound ==
    ASSUME OwnerInv, bg.pc \in {"cmm", "undo"}
    PROVE  /\ bg.sw \in Switches /\ bg.id \in StoredIds(bg.sw)
           /\ Lookup(bg.sw, bg.id) = bg.pkt /\ bg.pkt \in Packets
<1>1. bg.sw \in Switches /\ bg.pkt \in Packets
  BY DEF OwnerInv, BaseInv, TypeOK, BgInv
<1>2. PICK k \in DOMAIN store[bg.sw] : store[bg.sw][k].id = bg.id /\ store[bg.sw][k].pkt = bg.pkt
  BY DEF OwnerInv, EntryInv, StoredAs
<1>3. bg.id \in StoredIds(bg.sw)
  BY <1>2 DEF StoredIds
<1>4. /\ Position(bg.sw, bg.id) \in DOMAIN store[bg.sw]
      /\ store[bg.sw][Position(bg.sw, bg.id)].id = bg.id
      /\ Lookup(bg.sw, bg.id) = store[bg.sw][Position(bg.sw, bg.id)].pkt
  BY <1>1, <1>3, LookupFinds DEF OwnerInv, BaseInv
<1>5. Position(bg.sw, bg.id) = k
  BY <1>1, <1>2, <1>4 DEF OwnerInv, NoCopies, DistinctEntries
<1> QED
  BY <1>1, <1>2, <1>3, <1>4, <1>5

\* A part of the state that does not change keeps its packets.
LEMMA Frame ==
    /\ UNCHANGED pool => \A p : InPool(p)' <=> InPool(p)
    /\ UNCHANGED th => \A t, p : OfThread(t, p)' <=> OfThread(t, p)
    /\ UNCHANGED bg \/ (bg.pc # "store" /\ bg'.pc # "store") => \A p : OfBg(p)' <=> OfBg(p)
    /\ UNCHANGED queue => \A s, p : InQueue(s, p)' <=> InQueue(s, p)
    /\ UNCHANGED store => \A s, p : InStorage(s, p)' <=> InStorage(s, p)
BY DEF InPool, OfThread, OfBg, InQueue, InStorage, HeldIn, StoredIn

\* The dispatcher's entry stays while its storage and the controllers' ids do.
LEMMA SameEntry == ASSUME EntryInv, UNCHANGED <<store, known, bg>> PROVE EntryInv'
BY DEF EntryInv, StoredAs

\* Sequences that do not change stay free of copies.
LEMMA SameCopies == ASSUME NoCopies, UNCHANGED <<queue, store>> PROVE NoCopies'
BY DEF NoCopies, Distinct, DistinctEntries

\* A packet arrives: from the pool to a thread.
LEMMA ReceiveKeeps ==
    ASSUME OwnerInv, NEW t \in RxThreads, NEW s \in Switches, NEW o \in Packets, Receive(t, s, o)
    PROVE  OnePlace' /\ NoCopies' /\ EntryInv'
<1>1. t \in Threads /\ th[t].pc = "idle" /\ o \in pool /\ pool' = pool \ {o}
      /\ th' = [th EXCEPT ![t] = [pc |-> "hold", pkt |-> o, sw |-> s]]
      /\ UNCHANGED <<queue, store, known, bg>>
  BY DEF Receive, Threads, switchState
<1>2. \A p \in Packets : InPool(p)' <=> InPool(p) /\ p # o
  BY <1>1 DEF InPool
<1>3. \A p \in Packets : ~OfThread(t, p)
  <2>1. th[t].pkt = NoPacket
    BY <1>1 DEF OwnerInv, BaseInv, ThreadInv
  <2> QED
    BY <2>1, PacketInAssumption DEF OfThread
<1>4. th \in [Threads -> ThType]
  BY DEF OwnerInv, BaseInv, TypeOK, ThType
<1>5. \A p \in Packets : \A u \in Threads : OfThread(u, p)' <=> OfThread(u, p) \/ (p = o /\ u = t)
  BY <1>1, <1>3, <1>4 DEF OfThread
<1>6. Moves(o, "pool", 0, "thread", t)
  BY <1>1, <1>2, <1>5, Frame DEF At, Moves
<1>7. At("pool", 0, o)
  BY <1>1 DEF At, InPool
<1>8. OnePlace'
  BY <1>6, <1>7, MoveKeepsOnePlace DEF OwnerInv
<1> QED
  BY <1>1, <1>8, SameEntry, SameCopies DEF OwnerInv

\* A thread releases its packet: to the pool.
LEMMA ReleaseKeeps ==
    ASSUME OwnerInv, NEW t \in Threads, ReleaseBuffer(t)
    PROVE  OnePlace' /\ NoCopies' /\ EntryInv'
<1> DEFINE o == th[t].pkt
<1>1. th[t].pc = "hold" /\ pool' = pool \cup {o}
      /\ th' = [th EXCEPT ![t] = [pc |-> "idle", pkt |-> NoPacket, sw |-> 0]]
      /\ UNCHANGED <<queue, store, known, bg>>
  BY DEF ReleaseBuffer, Idle, switchState
<1>2. o \in Packets /\ NoPacket \notin Packets
  BY <1>1, HoldsPacket, PacketInAssumption DEF OwnerInv
<1>3. th \in [Threads -> ThType]
  BY DEF OwnerInv, BaseInv, TypeOK, ThType
<1>4. \A p \in Packets : InPool(p)' <=> InPool(p) \/ p = o
  BY <1>1 DEF InPool
<1>5. \A p \in Packets : \A u \in Threads : OfThread(u, p)' <=> OfThread(u, p) /\ ~(p = o /\ u = t)
  BY <1>1, <1>2, <1>3 DEF OfThread
<1>7. At("thread", t, o)
  BY DEF At, OfThread
<1> HIDE DEF o
<1>6. Moves(o, "thread", t, "pool", 0)
  BY <1>1, <1>4, <1>5, Frame DEF At, Moves
<1>8. OnePlace'
  BY <1>2, <1>6, <1>7, MoveKeepsOnePlace DEF OwnerInv
<1> QED
  BY <1>1, <1>8, SameEntry, SameCopies DEF OwnerInv

\* A thread queues its packet.
LEMMA PacketInKeeps ==
    ASSUME OwnerInv, NEW t \in Threads, platform_of1x_packet_in(t)
    PROVE  OnePlace' /\ NoCopies' /\ EntryInv'
<1> DEFINE o == th[t].pkt
           s == th[t].sw
<1>1. th[t].pc = "hold" /\ queue' = [queue EXCEPT ![s] = Append(queue[s], o)]
      /\ th' = [th EXCEPT ![t].pc = "notify", ![t].pkt = NoPacket]
      /\ UNCHANGED <<pool, store, known, bg>>
  BY DEF platform_of1x_packet_in
<1>2. o \in Packets /\ NoPacket \notin Packets /\ s \in Switches
  BY <1>1, HoldsPacket, PacketInAssumption DEF OwnerInv
<1>3. th \in [Threads -> ThType] /\ queue \in [Switches -> Seq(Packets)] /\ queue[s] \in Seq(Packets)
  BY <1>2 DEF OwnerInv, BaseInv, TypeOK, ThType
<1>4. \A p \in Packets : \A u \in Threads : OfThread(u, p)' <=> OfThread(u, p) /\ ~(p = o /\ u = t)
  <2>1. th'[t].pkt = NoPacket /\ \A u \in Threads \ {t} : th'[u] = th[u]
    BY <1>1, <1>3 DEF ThType
  <2> QED
    BY <1>2, <2>1 DEF OfThread
<1>5. At("thread", t, o)
  BY DEF At, OfThread
<1> HIDE DEF o, s
<1>6. ~HeldIn(queue[s], o)
  <2>1. ASSUME HeldIn(queue[s], o) PROVE FALSE
    <3>1. At("queue", s, o)
      BY <1>2, <2>1 DEF At, InQueue
    <3>2. "thread" = "queue"
      BY <1>2, <1>5, <3>1, OnlyThere DEF OwnerInv
    <3> QED
      BY <3>2
  <2> QED
    BY <2>1
<1>7. /\ Distinct(Append(queue[s], o))
      /\ \A p : HeldIn(Append(queue[s], o), p) <=> HeldIn(queue[s], p) \/ p = o
  BY <1>2, <1>3, <1>6, AppendAdds DEF OwnerInv, NoCopies
<1>8. queue'[s] = Append(queue[s], o) /\ \A u \in Switches \ {s} : queue'[u] = queue[u]
  BY <1>1, <1>2, <1>3
<1>9. \A p \in Packets : \A u \in Switches : InQueue(u, p)' <=> InQueue(u, p) \/ (p = o /\ u = s)
  <2> SUFFICES ASSUME NEW p \in Packets, NEW u \in Switches
               PROVE  HeldIn(queue'[u], p) <=> HeldIn(queue[u], p) \/ (p = o /\ u = s)
    BY DEF InQueue, HeldIn
  <2> QED
    BY <1>7, <1>8
<1>10. Moves(o, "thread", t, "queue", s)
  BY <1>1, <1>2, <1>4, <1>9, Frame DEF At, Moves
<1>11. OnePlace'
  BY <1>2, <1>5, <1>10, MoveKeepsOnePlace DEF OwnerInv
<1>12. NoCopies'
  <2>1. ASSUME NEW u \in Switches PROVE Distinct(queue'[u]) /\ DistinctEntries(store'[u])
    BY <1>1, <1>7, <1>8 DEF OwnerInv, NoCopies
  <2> QED
    BY <2>1 DEF NoCopies, Distinct, DistinctEntries
<1> QED
  BY <1>1, <1>11, <1>12, SameEntry DEF OwnerInv

\* What get_packet means for the places of the packets, whoever calls it.
LEMMA TakeEffect ==
    ASSUME OwnerInv, NEW s \in Switches, NEW id, get_packet(s, id), UNCHANGED queue
    PROVE  /\ NoCopies'
           /\ IF id \in StoredIds(s)
              THEN /\ Lookup(s, id) \in Packets /\ At("store", s, Lookup(s, id))
                   /\ \A p \in Packets : \A u \in Switches :
                         InStorage(u, p)' <=> InStorage(u, p) /\ ~(p = Lookup(s, id) /\ u = s)
              ELSE Lookup(s, id) = NoPacket /\ store' = store
           /\ \A u \in Switches : \A i, p :
                 StoredAs(store[u], i, p) /\ ~(u = s /\ i = id) => StoredAs(store'[u], i, p)
<1>1. /\ \A u \in Switches \ {s} : store'[u] = store[u]
      /\ DistinctEntries(store'[s])
      /\ IF id \in StoredIds(s)
         THEN /\ Lookup(s, id) \in Packets /\ InStorage(s, Lookup(s, id))
              /\ \A p : StoredIn(store'[s], p) <=> StoredIn(store[s], p) /\ p # Lookup(s, id)
              /\ \A i, p : StoredAs(store[s], i, p) /\ i # id => StoredAs(store'[s], i, p)
         ELSE Lookup(s, id) = NoPacket /\ store' = store
  BY GetPacketTakes
<1>2. NoCopies'
  <2>1. ASSUME NEW u \in Switches PROVE Distinct(queue'[u]) /\ DistinctEntries(store'[u])
    BY <1>1 DEF OwnerInv, NoCopies
  <2> QED
    BY <2>1 DEF NoCopies, Distinct, DistinctEntries
<1>3. ASSUME NEW p, NEW u \in Switches PROVE InStorage(u, p)' <=> StoredIn(store'[u], p)
  BY DEF InStorage, StoredIn
<1>4. CASE id \in StoredIds(s)
  <2>1. At("store", s, Lookup(s, id))
    BY <1>1, <1>4 DEF At
  <2>2. ASSUME NEW p \in Packets, NEW u \in Switches
        PROVE  InStorage(u, p)' <=> InStorage(u, p) /\ ~(p = Lookup(s, id) /\ u = s)
    BY <1>1, <1>3, <1>4 DEF InStorage
  <2>3. ASSUME NEW u \in Switches, NEW i, NEW p, StoredAs(store[u], i, p), ~(u = s /\ i = id)
        PROVE  StoredAs(store'[u], i, p)
    BY <1>1, <1>4, <2>3
  <2> QED
    BY <1>1, <1>2, <1>4, <2>1, <2>2, <2>3
<1>5. CASE id \notin StoredIds(s)
  BY <1>1, <1>2, <1>5
<1> QED
  BY <1>4, <1>5

\* A controller takes a stored packet: from the storage to its thread, never the one
\* the dispatcher is about to announce.
LEMMA PacketOutKeeps ==
    ASSUME OwnerInv, NEW t \in CtlThreads, NEW s \in Switches, NEW id \in Ids, PacketOut(t, s, id)
    PROVE  OnePlace' /\ NoCopies' /\ EntryInv'
<1> DEFINE o == Lookup(s, id)
<1>1. t \in Threads /\ th[t].pc = "idle" /\ id \in known[s] /\ get_packet(s, id)
      /\ th' = [th EXCEPT ![t] = IF o = NoPacket THEN th[t] ELSE [pc |-> "hold", pkt |-> o, sw |-> s]]
      /\ UNCHANGED <<pool, queue, known, bg>>
  BY DEF PacketOut, Threads
<1>2. NoCopies'
  BY <1>1, TakeEffect
<1>3. EntryInv'
  <2> SUFFICES ASSUME bg.pc \in {"cmm", "undo"}
               PROVE  StoredAs(store'[bg.sw], bg.id, bg.pkt) /\ bg.id \notin known[bg.sw]
    BY <1>1 DEF EntryInv, StoredAs
  <2>1. bg.sw \in Switches /\ StoredAs(store[bg.sw], bg.id, bg.pkt) /\ bg.id \notin known[bg.sw]
    BY EntryFound DEF OwnerInv, EntryInv
  <2>2. ~(bg.sw = s /\ bg.id = id)
    BY <1>1, <2>1
  <2> QED
    BY <1>1, <2>1, <2>2, TakeEffect
<1>4. th \in [Threads -> ThType] /\ NoPacket \notin Packets
  BY PacketInAssumption DEF OwnerInv, BaseInv, TypeOK, ThType
<1>5. OnePlace'
  <2>1. CASE id \in StoredIds(s)
    <3>1. /\ o \in Packets /\ At("store", s, o)
          /\ \A p \in Packets : \A u \in Switches : InStorage(u, p)' <=> InStorage(u, p) /\ ~(p = o /\ u = s)
      BY <1>1, <2>1, TakeEffect
    <3>2. \A p \in Packets : ~OfThread(t, p)
      <4>1. th[t].pkt = NoPacket
        BY <1>1 DEF OwnerInv, BaseInv, ThreadInv
      <4> QED
        BY <1>4, <4>1 DEF OfThread
    <3>3. th' = [th EXCEPT ![t] = [pc |-> "hold", pkt |-> o, sw |-> s]]
      BY <1>1, <1>4, <3>1
    <3> HIDE DEF o
    <3>4. \A p \in Packets : \A u \in Threads : OfThread(u, p)' <=> OfThread(u, p) \/ (p = o /\ u = t)
      BY <1>1, <1>4, <3>2, <3>3 DEF OfThread
    <3>5. Moves(o, "store", s, "thread", t)
      BY <1>1, <3>1, <3>4, Frame DEF At, Moves
    <3> QED
      BY <3>1, <3>5, MoveKeepsOnePlace DEF OwnerInv
  <2>2. CASE id \notin StoredIds(s)
    <3>1. o = NoPacket /\ store' = store
      BY <1>1, <2>2, TakeEffect
    <3>2. th' = th
      BY <1>1, <1>4, <3>1
    <3>3. \A p \in Packets : OfBg(p)' <=> OfBg(p)
      BY <1>1, Frame
    <3> QED
      BY <1>1, <3>1, <3>2, <3>3, NoMoveKeepsOnePlace DEF OwnerInv
  <2> QED
    BY <2>1, <2>2
<1> QED
  BY <1>2, <1>3, <1>5

\* The dispatcher reads a packet-in: from the queue to itself.
LEMMA ReadKeeps ==
    ASSUME OwnerInv, ReadPacketIn
    PROVE  OnePlace' /\ NoCopies' /\ EntryInv'
<1> DEFINE s == bg.sw
           q == queue[s]
           o == Head(q)
<1>1. /\ s \in Switches /\ q \in Seq(Packets) /\ q # <<>> /\ o \in Packets
      /\ queue' = [queue EXCEPT ![s] = Tail(q)]
      /\ bg.pc = "read" /\ bg'.pc = "store" /\ bg'.pkt = o
  BY ReadEffect DEF OwnerInv
<1>2. UNCHANGED <<pool, th, store, known>> /\ queue \in [Switches -> Seq(Packets)]
  BY DEF ReadPacketIn, OwnerInv, BaseInv, TypeOK
<1>3. /\ Distinct(Tail(q)) /\ HeldIn(q, o)
      /\ \A p : HeldIn(Tail(q), p) <=> HeldIn(q, p) /\ p # o
  BY <1>1, TailTakes DEF OwnerInv, NoCopies
<1>4. queue'[s] = Tail(q) /\ \A u \in Switches \ {s} : queue'[u] = queue[u]
  BY <1>1, <1>2
<1>5. \A p \in Packets : OfBg(p)' <=> OfBg(p) \/ p = o
  BY <1>1 DEF OfBg
<1>6. At("queue", s, o)
  BY <1>1, <1>3 DEF At, InQueue
<1>7. EntryInv'
  BY <1>1 DEF EntryInv
<1>8. ASSUME NEW u \in Switches PROVE Distinct(queue'[u]) /\ DistinctEntries(store'[u])
  BY <1>2, <1>3, <1>4 DEF OwnerInv, NoCopies
<1>9. NoCopies'
  BY <1>8 DEF NoCopies, Distinct, DistinctEntries
<1>10. \A p \in Packets : \A u \in Switches : InQueue(u, p)' <=> InQueue(u, p) /\ ~(p = o /\ u = s)
  <2> SUFFICES ASSUME NEW p \in Packets, NEW u \in Switches
               PROVE  HeldIn(queue'[u], p) <=> HeldIn(queue[u], p) /\ ~(p = o /\ u = s)
    BY DEF InQueue, HeldIn
  <2> QED
    BY <1>3, <1>4
<1>11. \A p \in Packets : ~OfBg(p)
  BY <1>1 DEF OfBg
<1> HIDE DEF s, q, o
<1>12. Moves(o, "queue", s, "bg", 0)
  BY <1>2, <1>5, <1>10, <1>11, Frame DEF At, Moves
<1>13. OnePlace'
  BY <1>1, <1>6, <1>12, MoveKeepsOnePlace DEF OwnerInv
<1> QED
  BY <1>7, <1>9, <1>13

\* The dispatcher stores its packet.
LEMMA StoreKeeps ==
    ASSUME OwnerInv, store_packet
    PROVE  OnePlace' /\ NoCopies' /\ EntryInv'
<1>0. PICK id \in Ids : id = bg'.id
  BY StoreEffect DEF OwnerInv
<1> DEFINE s == bg.sw
           q == store[s]
           o == bg.pkt
           e == [id |-> id, pkt |-> o]
           r == Append(q, e)
<1>1. /\ s \in Switches /\ q \in Seq([id : Ids, pkt : Packets]) /\ o \in Packets
      /\ id \in Ids /\ id \notin StoredIds(s)
      /\ store' = [store EXCEPT ![s] = r]
      /\ known' = [known EXCEPT ![s] = @ \ {id}]
      /\ bg.pc = "store" /\ bg'.pc = "cmm" /\ bg'.pkt = o /\ bg'.sw = s
  BY <1>0, StoreEffect DEF OwnerInv
<1>2. /\ UNCHANGED <<pool, th, queue>> /\ store \in [Switches -> Seq([id : Ids, pkt : Packets])]
      /\ known \in [Switches -> SUBSET Ids]
  BY DEF store_packet, OwnerInv, BaseInv, TypeOK
<1>3. At("bg", 0, o)
  BY <1>1 DEF At, OfBg
<1>4. ~StoredIn(q, o)
  <2>1. ASSUME StoredIn(q, o) PROVE FALSE
    <3>1. At("store", s, o)
      BY <1>1, <2>1 DEF At, InStorage
    <3>2. "bg" = "store"
      BY <1>1, <1>3, <3>1, OnlyThere DEF OwnerInv
    <3> QED
      BY <3>2
  <2> QED
    BY <2>1
<1>5. ~HasId(q, id)
  BY <1>1 DEF StoredIds, HasId
<1>6. e \in [id : Ids, pkt : Packets] /\ e.id = id /\ e.pkt = o
  BY <1>1
<1>7. DistinctEntries(q)
  BY <1>1 DEF OwnerInv, NoCopies
<1>8. /\ DistinctEntries(r) /\ StoredAs(r, id, o)
      /\ \A p : StoredIn(r, p) <=> StoredIn(q, p) \/ p = o
  <2> HIDE DEF s, q, o, e
  <2> DEFINE E == [id : Ids, pkt : Packets]
  <2>0. q \in Seq(E) /\ e \in E
    BY <1>1, <1>6
  <2> HIDE DEF E
  <2>1. ~StoredIn(q, e.pkt) /\ ~HasId(q, e.id)
    BY <1>4, <1>5, <1>6
  <2>2. /\ DistinctEntries(Append(q, e)) /\ StoredAs(Append(q, e), e.id, e.pkt)
        /\ \A p : StoredIn(Append(q, e), p) <=> StoredIn(q, p) \/ p = e.pkt
    BY <2>0, <1>7, <2>1, StoreAdds
  <2> QED
    BY <1>6, <2>2
<1>9. \A p \in Packets : (OfBg(p) <=> p = o) /\ ~(OfBg(p)')
  BY <1>1 DEF OfBg
<1>10. EntryInv'
  <2>1. store'[bg'.sw] = r /\ bg'.id \notin known'[bg'.sw]
    BY <1>0, <1>1, <1>2
  <2>2. StoredAs(store'[bg'.sw], bg'.id, bg'.pkt)
    BY <1>0, <1>1, <1>8, <2>1
  <2> QED
    BY <2>1, <2>2 DEF EntryInv, StoredAs
<1> HIDE DEF r
<1>11. store'[s] = r /\ \A u \in Switches \ {s} : store'[u] = store[u]
  BY <1>1, <1>2
<1>12. ASSUME NEW u \in Switches PROVE Distinct(queue'[u]) /\ DistinctEntries(store'[u])
  BY <1>2, <1>8, <1>11 DEF OwnerInv, NoCopies
<1>13. NoCopies'
  BY <1>12 DEF NoCopies, Distinct, DistinctEntries
<1>14. \A p \in Packets : \A u \in Switches : InStorage(u, p)' <=> InStorage(u, p) \/ (p = o /\ u = s)
  <2> SUFFICES ASSUME NEW p \in Packets, NEW u \in Switches
               PROVE  StoredIn(store'[u], p) <=> StoredIn(store[u], p) \/ (p = o /\ u = s)
    BY DEF InStorage, StoredIn
  <2> QED
    BY <1>8, <1>11
<1> HIDE DEF s, q, o, e
<1>15. Moves(o, "bg", 0, "store", s)
  BY <1>1, <1>2, <1>9, <1>14, Frame DEF At, Moves
<1>16. OnePlace'
  BY <1>1, <1>3, <1>15, MoveKeepsOnePlace DEF OwnerInv
<1> QED
  BY <1>10, <1>13, <1>16

\* The storage is full: the dispatcher's packet goes back to the pool.
LEMMA StoreFullKeeps ==
    ASSUME OwnerInv, StoreFull
    PROVE  OnePlace' /\ NoCopies' /\ EntryInv'
<1> DEFINE o == bg.pkt
<1>1. bg.pc = "store" /\ pool' = pool \cup {o} /\ UNCHANGED <<th, queue, store, known>>
  BY DEF StoreFull, switchState
<1>2. bg'.pc = "read" /\ o \in Packets
  BY <1>1, OneDoneTyped DEF OwnerInv, BaseInv, BgInv, StoreFull
<1>3. \A p \in Packets : (OfBg(p) <=> p = o) /\ ~(OfBg(p)')
  BY <1>1, <1>2 DEF OfBg
<1>4. \A p \in Packets : InPool(p)' <=> InPool(p) \/ p = o
  BY <1>1 DEF InPool
<1>5. At("bg", 0, o)
  BY <1>1 DEF At, OfBg
<1>6. EntryInv'
  BY <1>2 DEF EntryInv
<1> HIDE DEF o
<1>7. Moves(o, "bg", 0, "pool", 0)
  BY <1>1, <1>3, <1>4, Frame DEF At, Moves
<1>8. OnePlace'
  BY <1>2, <1>5, <1>7, MoveKeepsOnePlace DEF OwnerInv
<1> QED
  BY <1>1, <1>6, <1>8, SameCopies DEF OwnerInv

\* A stored packet is taken back to the pool by the background thread.
LEMMA TakeToPool ==
    ASSUME OwnerInv, NEW s \in Switches, NEW id, id \in StoredIds(s), get_packet(s, id),
           pool' = pool \cup {Lookup(s, id)}, UNCHANGED <<th, queue>>,
           bg.pc # "store", bg'.pc # "store"
    PROVE  OnePlace'
<1> DEFINE o == Lookup(s, id)
<1>1. /\ o \in Packets /\ At("store", s, o)
      /\ \A p \in Packets : \A u \in Switches : InStorage(u, p)' <=> InStorage(u, p) /\ ~(p = o /\ u = s)
  BY TakeEffect
<1>2. \A p \in Packets : InPool(p)' <=> InPool(p) \/ p = o
  BY DEF InPool
<1> HIDE DEF o
<1>3. Moves(o, "store", s, "pool", 0)
  BY <1>1, <1>2, Frame DEF At, Moves
<1> QED
  BY <1>1, <1>3, MoveKeepsOnePlace DEF OwnerInv

\* The PACKET_IN failed: what is released is what is taken out.
LEMMA UndoKeeps ==
    ASSUME OwnerInv, UndoStore
    PROVE  OnePlace' /\ NoCopies' /\ EntryInv'
<1>1. bg.pc = "undo" /\ get_packet(bg.sw, bg.id) /\ pool' = pool \cup {bg.pkt} /\ UNCHANGED <<th, queue>>
  BY DEF UndoStore
<1>2. bg.sw \in Switches /\ bg.id \in StoredIds(bg.sw) /\ Lookup(bg.sw, bg.id) = bg.pkt
  BY <1>1, EntryFound
<1>3. bg'.pc = "read"
  BY <1>1, OneDoneTyped DEF OwnerInv, UndoStore
<1>4. OnePlace'
  BY <1>1, <1>2, <1>3, TakeToPool
<1>5. NoCopies'
  BY <1>1, <1>2, TakeEffect
<1> QED
  BY <1>3, <1>4, <1>5 DEF EntryInv

\* A stored packet expires, unless it is gone already.
LEMMA ExpireKeeps ==
    ASSUME OwnerInv, Expire
    PROVE  OnePlace' /\ NoCopies' /\ EntryInv'
<1>1. bg.pc = "take" /\ get_packet(bg.sw, bg.id) /\ UNCHANGED <<th, queue>>
      /\ pool' = pool \cup ({Lookup(bg.sw, bg.id)} \ {NoPacket})
  BY DEF Expire
<1>2. bg.sw \in Switches /\ bg'.pc = "peek" /\ NoPacket \notin Packets
  BY PacketInAssumption DEF Expire, OwnerInv, BaseInv, TypeOK
<1>3. NoCopies'
  BY <1>1, <1>2, TakeEffect
<1>4. OnePlace'
  <2>1. CASE bg.id \in StoredIds(bg.sw)
    <3>1. Lookup(bg.sw, bg.id) \in Packets
      BY <1>1, <1>2, <2>1, TakeEffect
    <3>2. pool' = pool \cup {Lookup(bg.sw, bg.id)}
      BY <1>1, <1>2, <3>1
    <3> QED
      BY <1>1, <1>2, <2>1, <3>2, TakeToPool
  <2>2. CASE bg.id \notin StoredIds(bg.sw)
    <3>1. store' = store /\ pool' = pool
      BY <1>1, <1>2, <2>2, TakeEffect
    <3>2. \A p \in Packets : OfBg(p)' <=> OfBg(p)
      BY <1>1, <1>2, Frame
    <3> QED
      BY <1>1, <3>1, <3>2, NoMoveKeepsOnePlace DEF OwnerInv
  <2> QED
    BY <2>1, <2>2
<1> QED
  BY <1>2, <1>3, <1>4 DEF EntryInv

\* A packet of the switch under destruction is drained: from its queue to the pool.
LEMMA DrainKeeps ==
    ASSUME OwnerInv, drain_packet_ins
    PROVE  OnePlace' /\ NoCopies' /\ EntryInv'
<1> DEFINE s == victim
           q == queue[s]
           o == Head(q)
<1>1. s \in Switches
  BY PacketInAssumption DEF drain_packet_ins, OwnerInv, BaseInv, TypeOK, DestroyInv, Switches
<1>2. /\ q \in Seq(Packets) /\ q # <<>> /\ queue' = [queue EXCEPT ![s] = Tail(q)] /\ pool' = pool \cup {o}
      /\ UNCHANGED <<th, store, known, bg>> /\ queue \in [Switches -> Seq(Packets)] /\ Distinct(q)
  BY <1>1 DEF drain_packet_ins, OwnerInv, BaseInv, TypeOK, NoCopies
<1> HIDE DEF s
<1>3. /\ Distinct(Tail(q)) /\ HeldIn(q, o)
      /\ \A p : HeldIn(Tail(q), p) <=> HeldIn(q, p) /\ p # o
  BY <1>2, TailTakes
<1>4. queue'[s] = Tail(q) /\ \A u \in Switches \ {s} : queue'[u] = queue[u]
  BY <1>1, <1>2
<1>5. o \in Packets
  BY <1>2, TailShifts
<1>6. At("queue", s, o)
  BY <1>1, <1>3 DEF At, InQueue
<1>7. \A p \in Packets : InPool(p)' <=> InPool(p) \/ p = o
  BY <1>2 DEF InPool
<1>8. ASSUME NEW u \in Switches PROVE Distinct(queue'[u]) /\ DistinctEntries(store'[u])
  BY <1>2, <1>3, <1>4 DEF OwnerInv, NoCopies
<1>9. NoCopies'
  BY <1>8 DEF NoCopies, Distinct, DistinctEntries
<1>10. \A p \in Packets : \A u \in Switches : InQueue(u, p)' <=> InQueue(u, p) /\ ~(p = o /\ u = s)
  <2> SUFFICES ASSUME NEW p \in Packets, NEW u \in Switches
               PROVE  HeldIn(queue'[u], p) <=> HeldIn(queue[u], p) /\ ~(p = o /\ u = s)
    BY DEF InQueue, HeldIn
  <2> QED
    BY <1>3, <1>4
<1> HIDE DEF q, o
<1>11. Moves(o, "queue", s, "pool", 0)
  BY <1>2, <1>7, <1>10, Frame DEF At, Moves
<1>12. OnePlace'
  BY <1>5, <1>6, <1>11, MoveKeepsOnePlace DEF OwnerInv
<1> QED
  BY <1>2, <1>9, <1>12, SameEntry DEF OwnerInv

\* Destroying a switch returns everything its storage holds; its queue is empty, and
\* the dispatcher is elsewhere.
LEMMA DestroyKeeps ==
    ASSUME Quiesced, OwnerInv, DestroySwitch
    PROVE  OnePlace' /\ NoCopies' /\ EntryInv'
<1>1. victim \in Switches
  BY PacketInAssumption DEF DestroySwitch, OwnerInv, BaseInv, TypeOK, DestroyInv, Switches
<1>2. PICK v \in Switches : v = victim
  BY <1>1
<1>3. /\ pool' = pool \cup {store[v][k].pkt : k \in DOMAIN store[v]}
      /\ queue' = [queue EXCEPT ![v] = <<>>] /\ store' = [store EXCEPT ![v] = <<>>]
      /\ known' = [known EXCEPT ![v] = {}] /\ UNCHANGED <<th, bg>> /\ queue[v] = <<>>
      /\ bg.sw # v \/ bg.pc \in {"wait", "switch", "timers"}
  BY <1>2 DEF DestroySwitch, OwnerInv, BaseInv, DestroyInv, InSwitch
<1>4. /\ queue \in [Switches -> Seq(Packets)] /\ store \in [Switches -> Seq([id : Ids, pkt : Packets])]
      /\ known \in [Switches -> SUBSET Ids] /\ bg.sw \in Switches
  BY DEF OwnerInv, BaseInv, TypeOK
<1>5. /\ queue' = queue /\ store'[v] = <<>>
      /\ \A u \in Switches \ {v} : store'[u] = store[u] /\ known'[u] = known[u]
  BY <1>3, <1>4
<1>6. EntryInv'
  <2> SUFFICES ASSUME bg.pc \in {"cmm", "undo"}
               PROVE  StoredAs(store'[bg.sw], bg.id, bg.pkt) /\ bg.id \notin known'[bg.sw]
    BY <1>3 DEF EntryInv, StoredAs
  <2>1. bg.sw # v
    BY <1>3
  <2> QED
    BY <1>4, <1>5, <2>1 DEF OwnerInv, EntryInv
<1>7. NoCopies'
  <2>1. DistinctEntries(<<>>)
    <3>1. DOMAIN <<>> = {}
      OBVIOUS
    <3> QED
      BY <3>1 DEF DistinctEntries
  <2>2. ASSUME NEW u \in Switches PROVE Distinct(queue'[u]) /\ DistinctEntries(store'[u])
    BY <1>5, <2>1 DEF OwnerInv, NoCopies
  <2> QED
    BY <2>2 DEF NoCopies, Distinct, DistinctEntries
<1>8. \A p \in Packets : InPool(p)' <=> InPool(p) \/ InStorage(v, p)
  BY <1>3 DEF InPool, InStorage, StoredIn
<1>9. \A p \in Packets : \A u \in Switches : InStorage(u, p)' <=> InStorage(u, p) /\ u # v
  <2> SUFFICES ASSUME NEW p \in Packets, NEW u \in Switches
               PROVE  StoredIn(store'[u], p) <=> StoredIn(store[u], p) /\ u # v
    BY DEF InStorage, StoredIn
  <2>1. ~StoredIn(<<>>, p)
    <3>1. DOMAIN <<>> = {}
      OBVIOUS
    <3> QED
      BY <3>1 DEF StoredIn
  <2> QED
    BY <1>5, <2>1
<1>10. OnePlace'
  <2> SUFFICES ASSUME NEW p \in Packets
               PROVE  \E k, a : At(k, a, p)' /\ \A l, b : At(l, b, p)' => l = k /\ b = a
    BY DEF OnePlace
  <2>1. PICK k, a : At(k, a, p) /\ \A l, b : At(l, b, p) => l = k /\ b = a
    BY DEF OwnerInv, OnePlace
  <2>2. \A l, b : At(l, b, p)' <=> (   \/ At(l, b, p) /\ ~(l = "store" /\ b = v)
                                       \/ l = "pool" /\ b = 0 /\ InStorage(v, p))
    BY <1>3, <1>5, <1>8, <1>9, Frame DEF At
  <2>3. InStorage(v, p) <=> At("store", v, p)
    BY DEF At
  <2> QED
    BY <2>1, <2>2, <2>3
<1> QED
  BY <1>6, <1>7, <1>10

\* The other steps move no packet.
LEMMA OthersKeep ==
    ASSUME OwnerInv,
           \/ OnlyMoves \/ PacketInSent \/ Tick \/ Drained
           \/ \E t \in Threads : notify_packet_in(t)
           \/ \E s \in Switches : CreateSwitch(s) \/ destroy_switch(s)
    PROVE  OnePlace' /\ NoCopies' /\ EntryInv'
<1>1. ASSUME UNCHANGED <<pool, th, queue, store, known, bg>> PROVE OnePlace' /\ NoCopies' /\ EntryInv'
  <2>1. \A p \in Packets : OfBg(p)' <=> OfBg(p)
    BY <1>1, Frame
  <2> QED
    BY <1>1, <2>1, NoMoveKeepsOnePlace, SameCopies, SameEntry DEF OwnerInv
<1>2. CASE OnlyMoves
  <2>1. /\ UNCHANGED <<pool, th, queue, store, known>>
        /\ \/ bg.pc \notin {"store", "cmm", "undo"} /\ bg'.pc \notin {"store", "cmm", "undo"}
           \/ bg.pc = "cmm" /\ bg' = [bg EXCEPT !.pc = "undo"]
    BY <1>2, OnlyMovesEffect DEF OwnerInv, switchState
  <2>2. bg \in BgType
    BY DEF OwnerInv, BaseInv, TypeOK, BgType
  <2>3. bg.pc # "store" /\ bg'.pc # "store"
    BY <2>1, <2>2 DEF BgType
  <2>4. \A p \in Packets : OfBg(p)' <=> OfBg(p)
    BY <2>3, Frame
  <2>5. OnePlace'
    BY <2>1, <2>4, NoMoveKeepsOnePlace DEF OwnerInv
  <2>6. EntryInv'
    <3>1. CASE bg'.pc \notin {"cmm", "undo"}
      BY <3>1 DEF EntryInv
    <3>2. CASE bg.pc = "cmm" /\ bg' = [bg EXCEPT !.pc = "undo"]
      <4>1. bg'.sw = bg.sw /\ bg'.id = bg.id /\ bg'.pkt = bg.pkt
        BY <2>2, <3>2 DEF BgType
      <4>2. StoredAs(store[bg.sw], bg.id, bg.pkt) /\ bg.id \notin known[bg.sw]
        BY <3>2 DEF OwnerInv, EntryInv
      <4> QED
        BY <2>1, <4>1, <4>2 DEF EntryInv, StoredAs
    <3> QED
      BY <2>1, <3>1, <3>2
  <2> QED
    BY <2>1, <2>5, <2>6, SameCopies DEF OwnerInv
<1>3. CASE PacketInSent
  <2>1. UNCHANGED <<pool, th, queue, store>> /\ bg.pc = "cmm"
    BY <1>3 DEF PacketInSent
  <2>2. bg'.pc = "read"
    BY <1>3, OneDoneTyped DEF OwnerInv, PacketInSent
  <2>3. \A p \in Packets : OfBg(p)' <=> OfBg(p)
    BY <2>1, <2>2, Frame
  <2>4. OnePlace'
    BY <2>1, <2>3, NoMoveKeepsOnePlace DEF OwnerInv
  <2>5. EntryInv'
    BY <2>2 DEF EntryInv
  <2> QED
    BY <2>1, <2>4, <2>5, SameCopies DEF OwnerInv
<1>4. CASE Tick
  BY <1>1, <1>4 DEF Tick
<1>5. CASE Drained
  BY <1>1, <1>5 DEF Drained, switchState
<1>6. ASSUME NEW t \in Threads, notify_packet_in(t) PROVE OnePlace' /\ NoCopies' /\ EntryInv'
  <2>1. UNCHANGED <<pool, queue, store, known, bg>> /\ th[t].pc = "notify"
        /\ th' = [th EXCEPT ![t] = [pc |-> "idle", pkt |-> NoPacket, sw |-> 0]]
    BY <1>6 DEF notify_packet_in, Idle, switchState
  <2>2. th[t].pkt = NoPacket /\ th \in [Threads -> ThType]
    BY <2>1 DEF OwnerInv, BaseInv, ThreadInv, TypeOK, ThType
  <2>3. \A u \in Threads : th'[u].pkt = th[u].pkt
    BY <2>1, <2>2
  <2>4. \A p \in Packets : OfBg(p)' <=> OfBg(p)
    BY <2>1, Frame
  <2> QED
    BY <2>1, <2>3, <2>4, NoMoveKeepsOnePlace, SameCopies, SameEntry DEF OwnerInv
<1>7. ASSUME NEW s \in Switches, CreateSwitch(s) \/ destroy_switch(s) PROVE OnePlace' /\ NoCopies' /\ EntryInv'
  BY <1>1, <1>7 DEF CreateSwitch, destroy_switch, switchState
<1> QED
  BY <1>2, <1>3, <1>4, <1>5, <1>6, <1>7

\* At first every packet is in the pool.
LEMMA OwnerInit == Init => OwnerInv
<1> SUFFICES ASSUME Init PROVE OwnerInv
  OBVIOUS
<1>1. BaseInv
  BY BaseInit
<1>2. NoPacket \notin Packets /\ DOMAIN <<>> = {}
  BY PacketInAssumption
<1>3. \A s \in Switches : queue[s] = <<>> /\ store[s] = <<>>
  BY DEF Init
<1>4. NoCopies
  BY <1>2, <1>3 DEF NoCopies, Distinct, DistinctEntries
<1>5. EntryInv
  BY DEF Init, EntryInv
<1>6. ASSUME NEW p \in Packets PROVE At("pool", 0, p) /\ \A l, b : At(l, b, p) => l = "pool" /\ b = 0
  <2>1. InPool(p) /\ ~OfBg(p) /\ \A t \in Threads : ~OfThread(t, p)
    BY <1>2 DEF Init, InPool, OfBg, OfThread
  <2>2. \A s \in Switches : ~InQueue(s, p) /\ ~InStorage(s, p)
    BY <1>2, <1>3 DEF InQueue, InStorage, HeldIn, StoredIn
  <2> QED
    BY <2>1, <2>2 DEF At
<1>7. OnePlace
  BY <1>6 DEF OnePlace
<1> QED
  BY <1>1, <1>4, <1>5, <1>7 DEF OwnerInv

\* One place per packet is inductive, when a switch is not freed under the dispatcher.
LEMMA OwnerStep == ASSUME Quiesced PROVE OwnerInv /\ [Next]_vars => OwnerInv'
<1> SUFFICES ASSUME OwnerInv, [Next]_vars PROVE OwnerInv'
  OBVIOUS
<1>1. BaseInv'
  BY BaseStep DEF OwnerInv
<1>2. CASE PipelineStep
  BY <1>1, <1>2, ReceiveKeeps, PacketOutKeeps, ReleaseKeeps, PacketInKeeps, OthersKeep
  DEF PipelineStep, ThreadStep, OwnerInv
<1>3. CASE PacketStep
  BY <1>1, <1>3, ReadKeeps, StoreKeeps, StoreFullKeeps, UndoKeeps, ExpireKeeps, OthersKeep
  DEF PacketStep, OwnerInv
<1>4. CASE OnlyMoves \/ \E s \in Switches : CreateSwitch(s) \/ destroy_switch(s)
  BY <1>1, <1>4, OthersKeep DEF OwnerInv
<1>5. CASE Destroyer
  BY <1>1, <1>5, DrainKeeps, DestroyKeeps, OthersKeep DEF Destroyer, OwnerInv
<1>6. CASE UNCHANGED vars
  <2>1. UNCHANGED <<pool, th, queue, store, known, bg>>
    BY <1>6 DEF vars, switchState
  <2>2. \A p \in Packets : OfBg(p)' <=> OfBg(p)
    BY <2>1, Frame
  <2> QED
    BY <1>1, <2>1, <2>2, NoMoveKeepsOnePlace, SameCopies, SameEntry DEF OwnerInv
<1> QED
  BY <1>2, <1>3, <1>4, <1>5, <1>6, StepKinds

\* The invariant holds throughout.
LEMMA OwnerAlways == ASSUME Quiesced PROVE Spec => []OwnerInv
BY OwnerInit, OwnerStep, PTL DEF Spec

\* The dispatcher's assertion ("Storage corruption") holds: from store_packet to the
\* outcome of the PACKET_IN, no controller, no expiration and no destruction of a
\* switch takes the packet out of the storage.  It needs the drivers to wait for the
\* dispatcher before they free a switch.
THEOREM NeverStorageCorruption == ASSUME Quiesced PROVE Spec => []NoStorageCorruption
<1>1. OwnerInv => NoStorageCorruption
  BY EntryFound DEF NoStorageCorruption
<1> QED
  BY <1>1, OwnerAlways, PTL

\* A packet that is in one place, and there once, has one owner.
LEMMA OnePlaceOneOwner ==
    ASSUME OwnerInv, NEW p \in Packets
    PROVE  \E x : Owners(p) = {x}
<1> DEFINE P == IF p \in pool THEN {<<"pool">>} ELSE {}
           T == {<<"thread", t>> : t \in {t \in Threads : th[t].pkt = p}}
           B == IF bg.pc = "store" /\ bg.pkt = p THEN {<<"bg">>} ELSE {}
           Q == UNION {{<<"queue", s, k>> : k \in {k \in DOMAIN queue[s] : queue[s][k] = p}} : s \in Switches}
           S == UNION {{<<"store", s, k>> : k \in {k \in DOMAIN store[s] : store[s][k].pkt = p}} : s \in Switches}
<1>1. Owners(p) = P \cup T \cup B \cup Q \cup S
  BY DEF Owners
<1>2. PICK k, a : At(k, a, p) /\ \A l, b : At(l, b, p) => l = k /\ b = a
  BY DEF OwnerInv, OnePlace
<1>3. k # "pool" => P = {}
  BY <1>2 DEF At, InPool
<1>4. k # "thread" => T = {}
  <2>1. k # "thread" => \A t \in Threads : th[t].pkt # p
    BY <1>2 DEF At, OfThread
  <2> QED
    BY <2>1
<1>5. k # "bg" => B = {}
  BY <1>2 DEF At, OfBg
<1>6. k # "queue" => Q = {}
  <2>1. k # "queue" => \A s \in Switches : ~HeldIn(queue[s], p)
    BY <1>2 DEF At, InQueue
  <2>2. k # "queue" => \A s \in Switches : \A i \in DOMAIN queue[s] : queue[s][i] # p
    BY <2>1 DEF HeldIn
  <2> QED
    BY <2>2
<1>7. k # "store" => S = {}
  <2>1. k # "store" => \A s \in Switches : ~StoredIn(store[s], p)
    BY <1>2 DEF At, InStorage
  <2>2. k # "store" => \A s \in Switches : \A i \in DOMAIN store[s] : store[s][i].pkt # p
    BY <2>1 DEF StoredIn
  <2> QED
    BY <2>2
<1>8. CASE k = "pool"
  <2>1. P = {<<"pool">>}
    BY <1>2, <1>8 DEF At, InPool
  <2> HIDE DEF P, T, B, Q, S
  <2> QED
    BY <1>1, <1>4, <1>5, <1>6, <1>7, <1>8, <2>1
<1>9. CASE k = "thread"
  <2>1. a \in Threads /\ th[a].pkt = p /\ \A t \in Threads : th[t].pkt = p => t = a
    BY <1>2, <1>9 DEF At, OfThread
  <2>2. T = {<<"thread", a>>}
    BY <2>1
  <2> HIDE DEF P, T, B, Q, S
  <2> QED
    BY <1>1, <1>3, <1>5, <1>6, <1>7, <1>9, <2>2
<1>10. CASE k = "bg"
  <2>1. B = {<<"bg">>}
    BY <1>2, <1>10 DEF At, OfBg
  <2> HIDE DEF P, T, B, Q, S
  <2> QED
    BY <1>1, <1>3, <1>4, <1>6, <1>7, <1>10, <2>1
<1>11. CASE k = "queue"
  <2>1. a \in Switches /\ HeldIn(queue[a], p) /\ \A s \in Switches : HeldIn(queue[s], p) => s = a
    BY <1>2, <1>11 DEF At, InQueue
  <2>2. PICK i \in DOMAIN queue[a] : queue[a][i] = p
    BY <2>1 DEF HeldIn
  <2>3. \A j \in DOMAIN queue[a] : queue[a][j] = p => j = i
    BY <2>1, <2>2 DEF OwnerInv, NoCopies, Distinct
  <2>4. \A s \in Switches : \A j \in DOMAIN queue[s] : queue[s][j] = p => s = a /\ j = i
    BY <2>1, <2>3 DEF HeldIn
  <2>5. Q = {<<"queue", a, i>>}
    BY <2>1, <2>2, <2>4
  <2> HIDE DEF P, T, B, Q, S
  <2> QED
    BY <1>1, <1>3, <1>4, <1>5, <1>7, <1>11, <2>5
<1>12. CASE k = "store"
  <2>1. a \in Switches /\ StoredIn(store[a], p) /\ \A s \in Switches : StoredIn(store[s], p) => s = a
    BY <1>2, <1>12 DEF At, InStorage
  <2>2. PICK i \in DOMAIN store[a] : store[a][i].pkt = p
    BY <2>1 DEF StoredIn
  <2>3. \A j \in DOMAIN store[a] : store[a][j].pkt = p => j = i
    BY <2>1, <2>2 DEF OwnerInv, NoCopies, DistinctEntries
  <2>4. \A s \in Switches : \A j \in DOMAIN store[s] : store[s][j].pkt = p => s = a /\ j = i
    BY <2>1, <2>3 DEF StoredIn
  <2>5. S = {<<"store", a, i>>}
    BY <2>1, <2>2, <2>4
  <2> HIDE DEF P, T, B, Q, S
  <2> QED
    BY <1>1, <1>3, <1>4, <1>5, <1>6, <1>12, <2>5
<1>13. k \in {"pool", "thread", "bg", "queue", "store"}
  BY <1>2 DEF At
<1> QED
  BY <1>8, <1>9, <1>10, <1>11, <1>12, <1>13

\* No buffer is released twice and none is lost: each is always with exactly one
\* owner, for every number of threads, switches and packets, whatever the controllers,
\* the expiration and the destruction of switches do.  It needs the drivers to wait
\* for the dispatcher before they free a switch.
THEOREM AlwaysOneOwner == ASSUME Quiesced PROVE Spec => []OneOwner
<1>1. OwnerInv => OneOwner
  <2> SUFFICES ASSUME OwnerInv, NEW p \in Packets PROVE Cardinality(Owners(p)) = 1
    BY DEF OneOwner
  <2>1. PICK x : Owners(p) = {x}
    BY OnePlaceOneOwner
  <2> QED
    BY <2>1, FS_Singleton
<1> QED
  BY <1>1, OwnerAlways, PTL

-----------------------------------------------------------------------------
(* The bytes of the notification pipe *)

\* The packet-in that was read and is not accounted for yet.
InHand == IF bg.pc \in {"store", "cmm", "undo"} THEN 1 ELSE 0

\* packet-ins processed in a switch are added to pending_to_read before it is left.
CountInv == bg.pc \notin {"read", "store", "cmm", "undo", "empty"} => bg.i = 0

ThrottleInv == BaseInv /\ CountInv /\ Throttled

\* The sets that are counted are finite.
LEMMA FiniteCounts ==
    ASSUME TypeOK
    PROVE  /\ IsFiniteSet(Queued) /\ Cardinality(Queued) \in Nat
           /\ IsFiniteSet(Notifying) /\ Cardinality(Notifying) \in Nat
<1>1. IsFiniteSet(Switches) /\ IsFiniteSet(1..QueueCap)
  BY PacketInAssumption, FS_Interval DEF Switches
<1>2. IsFiniteSet(Switches \X (1..QueueCap))
  BY <1>1, FS_Product
<1>3. Queued \subseteq Switches \X (1..QueueCap)
  BY DEF Queued
<1>4. IsFiniteSet(Threads)
  BY PacketInAssumption, FS_Union DEF Threads
<1>5. Notifying \subseteq Threads
  BY DEF Notifying
<1> QED
  BY <1>2, <1>3, <1>4, <1>5, FS_Subset, FS_CardinalityType

\* A queue whose length changes by one takes or leaves one place.
LEMMA QueueGrows ==
    ASSUME TypeOK, NEW s \in Switches, Len(queue[s]) < QueueCap,
           \A u \in Switches : Len(queue'[u]) = IF u = s THEN Len(queue[u]) + 1 ELSE Len(queue[u])
    PROVE  Cardinality(Queued') = Cardinality(Queued) + 1
<1> DEFINE x == <<s, Len(queue[s]) + 1>>
<1>t. QueueCap \in Nat /\ \A u \in Switches : Len(queue[u]) \in Nat
  BY PacketInAssumption, LenProperties DEF TypeOK
<1>2. x \in Switches \X (1..QueueCap) /\ x \notin Queued
  BY <1>t DEF Queued
<1>3. Queued' = Queued \cup {x}
  <2>1. ASSUME NEW y \in Switches \X (1..QueueCap) PROVE y \in Queued' <=> y \in Queued \cup {x}
    <3>1. PICK u \in Switches, n \in 1..QueueCap : y = <<u, n>>
      BY <2>1
    <3>2. y \in Queued' <=> n <= Len(queue'[u])
      BY <3>1 DEF Queued
    <3>3. y \in Queued <=> n <= Len(queue[u])
      BY <3>1 DEF Queued
    <3>4. CASE u = s
      BY <1>t, <3>1, <3>2, <3>3, <3>4
    <3>5. CASE u # s
      BY <3>1, <3>2, <3>3, <3>5
    <3> QED
      BY <3>4, <3>5
  <2>2. Queued' \subseteq Switches \X (1..QueueCap) /\ Queued \subseteq Switches \X (1..QueueCap)
    BY DEF Queued
  <2> QED
    BY <1>2, <2>1, <2>2
<1> QED
  BY <1>2, <1>3, FiniteCounts, FS_AddElement

LEMMA QueueShrinks ==
    ASSUME TypeOK, NEW s \in Switches, queue[s] # <<>>,
           \A u \in Switches : Len(queue'[u]) = IF u = s THEN Len(queue[u]) - 1 ELSE Len(queue[u])
    PROVE  Cardinality(Queued') = Cardinality(Queued) - 1
<1> DEFINE x == <<s, Len(queue[s])>>
<1>t. QueueCap \in Nat /\ \A u \in Switches : Len(queue[u]) \in Nat /\ Len(queue[u]) <= QueueCap
  BY PacketInAssumption, LenProperties DEF TypeOK
<1>1. Len(queue[s]) > 0
  <2>1. queue[s] \in Seq(Packets)
    BY DEF TypeOK
  <2> QED
    BY <1>t, <2>1, EmptySeq
<1>2. x \in Queued
  BY <1>t, <1>1 DEF Queued
<1>3. Queued' = Queued \ {x}
  <2>1. ASSUME NEW y \in Switches \X (1..QueueCap) PROVE y \in Queued' <=> y \in Queued \ {x}
    <3>1. PICK u \in Switches, n \in 1..QueueCap : y = <<u, n>>
      BY <2>1
    <3>2. y \in Queued' <=> n <= Len(queue'[u])
      BY <3>1 DEF Queued
    <3>3. y \in Queued <=> n <= Len(queue[u])
      BY <3>1 DEF Queued
    <3>4. CASE u = s
      BY <1>t, <3>1, <3>2, <3>3, <3>4
    <3>5. CASE u # s
      BY <3>1, <3>2, <3>3, <3>5
    <3> QED
      BY <3>4, <3>5
  <2>2. Queued' \subseteq Switches \X (1..QueueCap) /\ Queued \subseteq Switches \X (1..QueueCap)
    BY DEF Queued
  <2> QED
    BY <1>2, <2>1, <2>2
<1> QED
  BY <1>2, <1>3, FiniteCounts, FS_RemoveElement

\* Queues of the same lengths take the same places.
LEMMA SameQueued ==
    ASSUME \A u \in Switches : Len(queue'[u]) = Len(queue[u])
    PROVE  Queued' = Queued
BY DEF Queued

\* empty_packet_in_pipe reads a byte for each packet-in it owes, if there is one.
Emptied ==
    LET owed == pending + bg.i
        n == MinOf(pipe, MinOf(owed, DrainMax))
    IN pipe' = pipe - n /\ pending' = owed - n

\* A step of the dispatcher that handles no packet processes none; it leaves the
\* bytes and what they stand for alone, unless it empties the pipe.
LEMMA OnlyMovesCount ==
    ASSUME BaseInv, CountInv, OnlyMoves
    PROVE  /\ CountInv' /\ InHand' = InHand /\ bg'.i \in Nat
           /\ UNCHANGED <<th, queue, drained>>
           /\ (bg'.i = bg.i /\ UNCHANGED <<pipe, pending>>) \/ (bg'.i = 0 /\ Emptied)
<1>t. bg \in BgType /\ bg' \in BgType
  BY OnlyMovesEffect DEF BaseInv, TypeOK, BgType
<1>n. bg.i \in Nat /\ bg'.i \in Nat
  BY <1>t, PacketInAssumption DEF BgType
<1>u. UNCHANGED <<th, queue, drained>>
  BY OnlyMovesEffect DEF switchState, destroyer
<1>h. InHand' = InHand
  <2>1. CASE bg.pc \notin {"store", "cmm", "undo"} /\ bg'.pc \notin {"store", "cmm", "undo"}
    BY <2>1 DEF InHand
  <2>2. CASE bg.pc = "cmm" /\ bg' = [bg EXCEPT !.pc = "undo"]
    BY <1>t, <2>2 DEF InHand, BgType
  <2> QED
    BY <2>1, <2>2, OnlyMovesEffect
<1> DEFINE Goal ==
      CountInv' /\ ((bg'.i = bg.i /\ UNCHANGED <<pipe, pending>>) \/ (bg'.i = 0 /\ Emptied))
<1> SUFFICES Goal
  BY <1>n, <1>u, <1>h
<1>d. ASSUME ToDispatch, bg.pc = "wait" PROVE bg'.i = bg.i /\ CountInv'
  BY <1>t, <1>d DEF ToDispatch, CountInv, BgType
<1>m. ASSUME ToTimers PROVE bg'.i = 0 /\ CountInv'
  BY <1>t, <1>m DEF ToTimers, CountInv, BgType
<1>x. ASSUME NextSwitch PROVE bg'.i = 0 /\ CountInv'
  <2>1. CASE bg.sw < NumSw
    BY <1>t, <1>x, <2>1 DEF NextSwitch, CountInv, BgType
  <2>2. CASE ~(bg.sw < NumSw) /\ bg.round < Rounds
    BY <1>t, <1>x, <2>2 DEF NextSwitch, CountInv, BgType
  <2>3. CASE ~(bg.sw < NumSw) /\ ~(bg.round < Rounds)
    BY <1>m, <1>x, <2>3 DEF NextSwitch
  <2> QED
    BY <2>1, <2>2, <2>3
<1>y. ASSUME bg.pc \in ExpireSteps, ExpireNextSwitch \/ TimersDone PROVE bg'.i = bg.i /\ CountInv'
  <2>1. bg.i = 0
    BY <1>y DEF CountInv, ExpireSteps
  <2>2. bg'.i = bg.i
    BY <1>t, <1>y DEF ExpireNextSwitch, TimersDone, BgType
  <2> QED
    BY <2>1, <2>2 DEF CountInv
<1>1. CASE PipeEvent \/ Timeout
  BY <1>1, <1>d DEF PipeEvent, Timeout, timerState
<1>2. CASE NetlinkEvent
  <2>1. bg.i = 0
    BY <1>2 DEF NetlinkEvent, CountInv
  <2> QED
    BY <1>2, <1>m, <2>1 DEF NetlinkEvent, timerState
<1>3. CASE EnterSwitch
  <2>1. bg.i = 0 /\ UNCHANGED <<pipe, pending>>
    BY <1>3 DEF EnterSwitch, CountInv, timerState
  <2>2. CASE bg.sw \in alive
    <3>1. bg' = [bg EXCEPT !.pc = "read", !.i = 0]
      BY <1>3, <2>2 DEF EnterSwitch
    <3> QED
      BY <1>t, <2>1, <3>1 DEF CountInv, BgType
  <2>3. CASE bg.sw \notin alive
    BY <1>3, <1>x, <2>1, <2>3 DEF EnterSwitch
  <2> QED
    BY <2>2, <2>3
<1>4. CASE EndOfPacketIns
  BY <1>t, <1>4 DEF EndOfPacketIns, CountInv, BgType, timerState
<1>5. CASE PacketInFailed
  BY <1>t, <1>5 DEF PacketInFailed, CountInv, BgType, timerState
<1>6. CASE NotDue
  BY <1>y, <1>6 DEF NotDue, ExpireSteps, timerState
<1>7. ASSUME bg.pc \in ExpireSteps, bg'.i = bg.i PROVE CountInv'
  BY <1>7 DEF CountInv, ExpireSteps
<1>8. CASE ExpireSwitch
  <2>1. UNCHANGED <<pipe, pending>> /\ bg.pc \in ExpireSteps
    BY <1>8 DEF ExpireSwitch, ExpireSteps
  <2>2. ExpireNextSwitch \/ bg' = [bg EXCEPT !.pc = "peek"]
    BY <1>8 DEF ExpireSwitch
  <2> QED
    BY <1>t, <1>y, <1>7, <2>1, <2>2 DEF BgType
<1>9. CASE Peek
  <2>1. UNCHANGED <<pipe, pending>> /\ bg.pc \in ExpireSteps
    BY <1>9 DEF Peek, ExpireSteps
  <2>2. ExpireNextSwitch \/ bg' = [bg EXCEPT !.pc = "age"]
    BY <1>9 DEF Peek
  <2> QED
    BY <1>t, <1>y, <1>7, <2>1, <2>2 DEF BgType
<1>10. CASE ReadAge
  <2>1. UNCHANGED <<pipe, pending>> /\ bg.pc \in ExpireSteps
    BY <1>10 DEF ReadAge, ExpireSteps
  <2>2. ExpireNextSwitch \/ bg' = [bg EXCEPT !.pc = "id"]
    BY <1>10 DEF ReadAge
  <2> QED
    BY <1>t, <1>y, <1>7, <2>1, <2>2 DEF BgType
<1>11. CASE ReadId
  <2>1. UNCHANGED <<pipe, pending>> /\ bg.pc \in ExpireSteps
    BY <1>11 DEF ReadId, ExpireSteps, timerState
  <2>2. PICK id \in IF store[bg.sw] = <<>> THEN Ids ELSE {store[bg.sw][1].id} :
               bg' = [bg EXCEPT !.pc = "take", !.id = id]
    BY <1>11 DEF ReadId
  <2>3. bg'.i = bg.i
    BY <1>t, <2>2 DEF BgType
  <2> QED
    BY <1>7, <2>1, <2>3
<1>12. CASE EmptyPipe
  BY <1>x, <1>12 DEF EmptyPipe, Emptied
<1> QED
  BY <1>1, <1>2, <1>3, <1>4, <1>5, <1>6, <1>8, <1>9, <1>10, <1>11, <1>12 DEF OnlyMoves

\* A thread that has queued its packet-in is one more that will notify; one that
\* has notified is one less.
LEMMA NotifyingChanges ==
    ASSUME TypeOK, NEW t \in Threads, NEW r, th' = [th EXCEPT ![t] = r]
    PROVE  /\ th[t].pc # "notify" /\ r.pc = "notify" => Cardinality(Notifying') = Cardinality(Notifying) + 1
           /\ th[t].pc = "notify" /\ r.pc # "notify" => Cardinality(Notifying') = Cardinality(Notifying) - 1
           /\ th[t].pc # "notify" /\ r.pc # "notify" => Notifying' = Notifying
<1>t. /\ th'[t] = r /\ \A u \in Threads : u # t => th'[u] = th[u]
  BY DEF TypeOK
<1>1. ASSUME th[t].pc # "notify", r.pc = "notify" PROVE Cardinality(Notifying') = Cardinality(Notifying) + 1
  <2>1. Notifying' = Notifying \cup {t} /\ t \notin Notifying
    BY <1>t, <1>1 DEF Notifying
  <2> QED
    BY <2>1, FiniteCounts, FS_AddElement
<1>2. ASSUME th[t].pc = "notify", r.pc # "notify" PROVE Cardinality(Notifying') = Cardinality(Notifying) - 1
  <2>1. Notifying' = Notifying \ {t} /\ t \in Notifying
    BY <1>t, <1>2 DEF Notifying
  <2> QED
    BY <2>1, FiniteCounts, FS_RemoveElement
<1>3. ASSUME th[t].pc # "notify", r.pc # "notify" PROVE Notifying' = Notifying
  BY <1>t, <1>3 DEF Notifying
<1> QED
  BY <1>1, <1>2, <1>3

\* The property in numbers.
LEMMA ThrottledNumbers ==
    ASSUME BaseInv
    PROVE  /\ Throttled <=> (drained \/ pipe + Cardinality(Notifying)
                                        <= Cardinality(Queued) + pending + bg.i + InHand)
           /\ pipe \in Nat /\ PipeSize \in Nat /\ pipe <= PipeSize /\ pending \in Nat
           /\ bg.i \in Nat /\ InHand \in 0..1 /\ DrainMax \in Nat
           /\ Cardinality(Notifying) \in Nat /\ Cardinality(Queued) \in Nat
<1>1. bg \in BgType /\ TypeOK
  BY DEF BaseInv, TypeOK, BgType
<1>2. bg.i \in Nat /\ pipe \in Nat /\ pending \in Nat /\ PipeSize \in Nat /\ pipe <= PipeSize /\ DrainMax \in Nat
  BY <1>1, PacketInAssumption DEF BgType, TypeOK
<1>3. drained \in BOOLEAN
  BY <1>1 DEF TypeOK
<1> QED
  BY <1>1, <1>2, <1>3, FiniteCounts DEF Throttled, InHand

\* The threads that receive, queue and notify: a packet-in comes with the byte its
\* thread is about to write.
LEMMA PipelineKeepsThrottle ==
    ASSUME ThrottleInv, PipelineStep
    PROVE  CountInv' /\ Throttled'
<1>b. BaseInv /\ BaseInv' /\ TypeOK
  BY PipelineKeepsBase DEF ThrottleInv, BaseInv
<1> DEFINE n == Cardinality(Notifying)
           w == Cardinality(Queued)
<1>i. drained \/ pipe + n <= w + pending + bg.i + InHand
  BY <1>b, ThrottledNumbers DEF ThrottleInv
<1>n. n \in Nat /\ w \in Nat /\ pipe \in Nat /\ PipeSize \in Nat /\ pipe <= PipeSize
      /\ pending \in Nat /\ bg.i \in Nat /\ InHand \in 0..1
  BY <1>b, ThrottledNumbers
<1>u. UNCHANGED <<pending, bg, drained>>
  BY DEF PipelineStep, ThreadStep, Receive, PacketOut, ReleaseBuffer, platform_of1x_packet_in,
         notify_packet_in, timerState, destroyer
<1>c. CountInv' /\ InHand' = InHand /\ bg'.i = bg.i
  BY <1>u DEF ThrottleInv, CountInv, InHand
<1>m. ASSUME drained \/ pipe' + n' <= w' + pending + bg.i + InHand PROVE Throttled'
  BY <1>m, <1>u, <1>c DEF Throttled, InHand
<1>s. ASSUME UNCHANGED <<queue, pipe>>, NEW t \in Threads, NEW r, th' = [th EXCEPT ![t] = r],
             th[t].pc # "notify", r.pc # "notify"
      PROVE  Throttled'
  <2>1. n' = n
    BY <1>b, <1>s, NotifyingChanges
  <2>2. w' = w
    BY <1>s, SameQueued
  <2> QED
    BY <1>i, <1>m, <1>s, <2>1, <2>2
<1>1. ASSUME NEW t \in RxThreads, NEW s \in Switches, NEW p \in Packets, Receive(t, s, p) PROVE Throttled'
  <2> DEFINE r == [pc |-> "hold", pkt |-> p, sw |-> s]
  <2>1. th' = [th EXCEPT ![t] = r] /\ th[t].pc # "notify" /\ r.pc # "notify"
        /\ UNCHANGED <<queue, pipe>> /\ t \in Threads
    BY <1>1 DEF Receive, Threads, switchState
  <2> HIDE DEF r
  <2> QED
    BY <1>s, <2>1
<1>2. ASSUME NEW t \in CtlThreads, NEW s \in Switches, NEW id \in Ids, PacketOut(t, s, id) PROVE Throttled'
  <2>1. t \in Threads /\ th[t].pc = "idle" /\ UNCHANGED <<queue, pipe>>
    BY <1>2 DEF PacketOut, Threads
  <2>2. CASE Lookup(s, id) = NoPacket
    <3>1. th' = [th EXCEPT ![t] = th[t]]
      BY <1>2, <2>2 DEF PacketOut
    <3> QED
      BY <1>s, <2>1, <3>1
  <2>3. CASE Lookup(s, id) # NoPacket
    <3>1. th' = [th EXCEPT ![t] = [pc |-> "hold", pkt |-> Lookup(s, id), sw |-> s]]
      BY <1>2, <2>3 DEF PacketOut
    <3>2. [pc |-> "hold", pkt |-> Lookup(s, id), sw |-> s].pc # "notify"
      OBVIOUS
    <3> QED
      BY <1>s, <2>1, <3>1, <3>2
  <2> QED
    BY <2>2, <2>3
<1>3. ASSUME NEW t \in Threads, ReleaseBuffer(t) PROVE Throttled'
  <2> DEFINE r == [pc |-> "idle", pkt |-> NoPacket, sw |-> 0]
  <2>1. th' = [th EXCEPT ![t] = r] /\ th[t].pc # "notify" /\ r.pc # "notify"
        /\ UNCHANGED <<queue, pipe>>
    BY <1>3 DEF ReleaseBuffer, Idle, switchState
  <2> HIDE DEF r
  <2> QED
    BY <1>s, <2>1
<1>4. ASSUME NEW t \in Threads, platform_of1x_packet_in(t) PROVE Throttled'
  <2> DEFINE s == th[t].sw
             r == [th[t] EXCEPT !.pc = "notify", !.pkt = NoPacket]
  <2>1. th[t].pc = "hold" /\ Len(queue[s]) < QueueCap /\ UNCHANGED pipe
        /\ queue' = [queue EXCEPT ![s] = Append(queue[s], th[t].pkt)]
        /\ th' = [th EXCEPT ![t] = r]
    BY <1>4 DEF platform_of1x_packet_in
  <2>2. s \in Switches /\ th[t].pkt \in Packets /\ r.pc = "notify"
    <3>1. th[t] \in ThType
      BY <1>b DEF TypeOK, ThType
    <3> QED
      BY <1>b, <2>1, <3>1, HoldsPacket DEF ThType
  <2>3. n' = n + 1
    BY <1>b, <2>1, <2>2, NotifyingChanges
  <2>4. queue \in [Switches -> Seq(Packets)]
    BY <1>b DEF TypeOK
  <2>5. Len(Append(queue[s], th[t].pkt)) = Len(queue[s]) + 1
    BY <2>2, <2>4, AppendKeeps
  <2> HIDE DEF s, r
  <2>6. \A u \in Switches : Len(queue'[u]) = IF u = s THEN Len(queue[u]) + 1 ELSE Len(queue[u])
    BY <2>1, <2>2, <2>4, <2>5
  <2>7. w' = w + 1
    BY <1>b, <2>1, <2>2, <2>6, QueueGrows
  <2> HIDE DEF n, w
  <2>8. pipe + n <= w + pending + bg.i + InHand => pipe' + n' <= w' + pending + bg.i + InHand
    BY <1>n, <2>1, <2>3, <2>7
  <2> QED
    BY <1>i, <1>m, <2>8
<1>5. ASSUME NEW t \in Threads, notify_packet_in(t) PROVE Throttled'
  <2>1. n' = n - 1
    <3>1. th' = [th EXCEPT ![t] = [pc |-> "idle", pkt |-> NoPacket, sw |-> 0]] /\ th[t].pc = "notify"
      BY <1>5 DEF notify_packet_in, Idle
    <3>2. [pc |-> "idle", pkt |-> NoPacket, sw |-> 0].pc # "notify"
      OBVIOUS
    <3> QED
      BY <1>b, <3>1, <3>2, NotifyingChanges
  <2>2. UNCHANGED queue /\ pipe' = MinOf(pipe + 1, PipeSize)
    BY <1>5 DEF notify_packet_in, switchState
  <2>3. w' = w
    BY <2>2, SameQueued
  <2> HIDE DEF n, w
  <2>4. pipe' <= pipe + 1 /\ pipe' \in Nat
    BY <1>n, <2>2 DEF MinOf
  <2> QED
    BY <1>i, <1>m, <1>n, <2>1, <2>3, <2>4
<1> QED
  BY <1>c, <1>1, <1>2, <1>3, <1>4, <1>5 DEF PipelineStep, ThreadStep

\* The dispatcher's steps: a packet it reads stays in hand until it is accounted
\* for, and a byte it reads is no longer owed.
LEMMA DispatcherKeepsThrottle ==
    ASSUME ThrottleInv, OnlyMoves \/ PacketStep
    PROVE  CountInv' /\ Throttled'
<1>b. BaseInv /\ CountInv /\ TypeOK /\ bg \in BgType
  BY DEF ThrottleInv, BaseInv, TypeOK, BgType
<1> DEFINE n == Cardinality(Notifying)
           w == Cardinality(Queued)
<1>i. drained \/ pipe + n <= w + pending + bg.i + InHand
  BY <1>b, ThrottledNumbers DEF ThrottleInv
<1>n. n \in Nat /\ w \in Nat /\ pipe \in Nat /\ pending \in Nat /\ bg.i \in Nat
      /\ InHand \in 0..1 /\ DrainMax \in Nat
  BY <1>b, ThrottledNumbers
<1>u. UNCHANGED <<th, drained>>
  BY OnlyMovesCount, <1>b DEF PacketStep, ReadPacketIn, store_packet, StoreFull, PacketInSent, UndoStore,
     Expire, Tick, destroyer
<1>v. n' = n
  BY <1>u DEF Notifying
<1>m. ASSUME drained \/ pipe' + n <= w' + pending' + bg'.i + InHand' PROVE Throttled'
  BY <1>m, <1>u, <1>v DEF Throttled, InHand
<1> HIDE DEF n, w
<1>s. ASSUME UNCHANGED <<queue, pipe, pending>>, bg'.i + InHand' = bg.i + InHand PROVE Throttled'
  <2>1. w' = w
    BY <1>s, SameQueued DEF w
  <2>2. pipe + n <= w + pending + bg.i + InHand => pipe' + n <= w' + pending' + bg'.i + InHand'
    <3>1. bg.i + InHand \in Nat /\ w + pending + bg.i + InHand = w + pending + (bg.i + InHand)
      BY <1>n
    <3>2. bg'.i \in Nat /\ InHand' \in 0..1
      <4>1. BaseInv'
        BY <1>b, OnlyMovesKeepBase, PacketStepKeepsBase
      <4>2. bg' \in BgType
        BY <4>1 DEF BaseInv, TypeOK, BgType
      <4>3. bg'.i \in Nat
        BY <4>2, PacketInAssumption DEF BgType
      <4>4. InHand' \in 0..1
        BY DEF InHand
      <4> QED
        BY <4>3, <4>4
    <3>3. w + pending + bg'.i + InHand' = w + pending + (bg'.i + InHand')
      BY <1>n, <3>2
    <3> QED
      BY <1>s, <2>1, <3>1, <3>3
  <2> QED
    BY <1>i, <1>m, <2>2
<1>1. CASE OnlyMoves
  <2>1. CountInv' /\ InHand' = InHand /\ bg'.i \in Nat /\ UNCHANGED queue
    BY <1>1, <1>b, OnlyMovesCount
  <2>2. CASE bg'.i = bg.i /\ UNCHANGED <<pipe, pending>>
    BY <1>s, <2>1, <2>2
  <2>3. CASE bg'.i = 0 /\ Emptied
    <3>1. w' = w
      BY <2>1, SameQueued DEF w
    <3> DEFINE k == MinOf(pipe, MinOf(pending + bg.i, DrainMax))
    <3>2. k \in Nat /\ k <= pipe /\ k <= pending + bg.i
      BY <1>n DEF MinOf
    <3>3. pipe' = pipe - k /\ pending' = (pending + bg.i) - k /\ bg'.i = 0
      BY <2>3 DEF Emptied
    <3> HIDE DEF k
    <3>4. pipe + n <= w + pending + bg.i + InHand => pipe' + n <= w' + pending' + bg'.i + InHand'
      BY <1>n, <2>1, <3>1, <3>2, <3>3
    <3> QED
      BY <1>i, <1>m, <2>1, <3>4
  <2> QED
    BY <1>1, <1>b, <2>2, <2>3, OnlyMovesCount
<1>2. CASE ReadPacketIn
  <2>1. /\ bg.sw \in Switches /\ queue[bg.sw] # <<>> /\ queue \in [Switches -> Seq(Packets)]
        /\ queue' = [queue EXCEPT ![bg.sw] = Tail(queue[bg.sw])]
        /\ bg.pc = "read" /\ bg'.pc = "store" /\ bg'.i = bg.i
    BY <1>b, <1>2, ReadEffect DEF TypeOK
  <2>2. Len(Tail(queue[bg.sw])) = Len(queue[bg.sw]) - 1
    BY <2>1, TailShifts
  <2>3. \A u \in Switches : Len(queue'[u]) = IF u = bg.sw THEN Len(queue[u]) - 1 ELSE Len(queue[u])
    BY <2>1, <2>2
  <2>4. w' = w - 1
    BY <1>b, <2>1, <2>3, QueueShrinks DEF w
  <2>5. InHand = 0 /\ InHand' = 1 /\ UNCHANGED <<pipe, pending>>
    BY <1>2, <2>1 DEF InHand, ReadPacketIn, timerState
  <2>6. pipe + n <= w + pending + bg.i + InHand => pipe' + n <= w' + pending' + bg'.i + InHand'
    BY <1>n, <2>1, <2>4, <2>5
  <2>7. CountInv'
    BY <2>1 DEF CountInv
  <2> QED
    BY <1>i, <1>m, <2>6, <2>7
<1>3. CASE store_packet
  <2>1. bg.pc = "store" /\ bg'.pc = "cmm" /\ bg'.i = bg.i
    BY <1>b, <1>3, StoreEffect
  <2>2. UNCHANGED <<queue, pipe, pending>>
    BY <1>3 DEF store_packet, timerState
  <2>3. InHand' = InHand /\ CountInv'
    BY <2>1 DEF InHand, CountInv
  <2> QED
    BY <1>s, <2>1, <2>2, <2>3
<1>4. CASE StoreFull \/ PacketInSent \/ UndoStore
  <2>1. /\ bg.pc \in {"store", "cmm", "undo"} /\ bg' = [bg EXCEPT !.pc = "read", !.i = @ + 1, !.pkt = NoPacket, !.id = 0]
        /\ UNCHANGED <<queue, pipe, pending>>
    BY <1>4 DEF StoreFull, PacketInSent, UndoStore, OneDone, switchState, timerState
  <2>2. bg'.pc = "read" /\ bg'.i = bg.i + 1
    BY <1>b, <2>1 DEF BgType
  <2>3. InHand = 1 /\ InHand' = 0 /\ CountInv'
    BY <2>1, <2>2 DEF InHand, CountInv
  <2>4. bg'.i + InHand' = bg.i + InHand
    BY <1>n, <2>2, <2>3
  <2> QED
    BY <1>s, <2>1, <2>3, <2>4
<1>5. CASE Expire
  <2>1. bg.pc = "take" /\ bg' = [bg EXCEPT !.pc = "peek", !.id = 0] /\ UNCHANGED <<queue, pipe, pending>>
    BY <1>5 DEF Expire, timerState
  <2>2. bg'.pc = "peek" /\ bg'.i = bg.i
    BY <1>b, <2>1 DEF BgType
  <2>3. InHand' = InHand /\ CountInv'
    BY <1>b, <2>1, <2>2 DEF InHand, CountInv
  <2> QED
    BY <1>s, <2>1, <2>2, <2>3
<1>6. CASE Tick
  <2>1. UNCHANGED <<bg, queue, pipe, pending>>
    BY <1>6 DEF Tick
  <2>2. InHand' = InHand /\ CountInv'
    BY <1>b, <2>1 DEF InHand, CountInv
  <2> QED
    BY <1>s, <2>1, <2>2
<1> QED
  BY <1>1, <1>2, <1>3, <1>4, <1>5, <1>6 DEF PacketStep

\* Creating and destroying a switch: its queue is empty when it is freed, so that
\* only drain_packet_ins takes packet-ins without their bytes.
LEMMA SwitchStepKeepsThrottle ==
    ASSUME ThrottleInv, (\E s \in Switches : CreateSwitch(s) \/ destroy_switch(s)) \/ Destroyer
    PROVE  CountInv' /\ Throttled'
<1>b. BaseInv /\ CountInv /\ TypeOK /\ DestroyInv
  BY DEF ThrottleInv, BaseInv
<1>u. UNCHANGED <<bg, th, pipe, pending>>
  BY DEF CreateSwitch, destroy_switch, Destroyer, drain_packet_ins, Drained, DestroySwitch, timerState
<1>c. CountInv'
  BY <1>b, <1>u DEF CountInv
<1> SUFFICES Throttled'
  BY <1>c
<1>s. ASSUME \A u \in Switches : Len(queue'[u]) = Len(queue[u]), UNCHANGED drained PROVE Throttled'
  <2>1. Queued' = Queued /\ Notifying' = Notifying
    BY <1>s, <1>u, SameQueued DEF Notifying
  <2> QED
    BY <1>s, <1>u, <2>1 DEF ThrottleInv, Throttled
<1>1. CASE (\E s \in Switches : CreateSwitch(s) \/ destroy_switch(s)) \/ Drained
  BY <1>1, <1>s DEF CreateSwitch, destroy_switch, Drained, switchState, destroyer
<1>2. CASE drain_packet_ins
  BY <1>2 DEF drain_packet_ins, Throttled
<1>3. CASE DestroySwitch
  <2>1. victim \in Switches /\ queue[victim] = <<>> /\ queue \in [Switches -> Seq(Packets)]
    BY <1>b, <1>3, PacketInAssumption DEF DestroySwitch, DestroyInv, TypeOK, Switches
  <2>2. queue' = [queue EXCEPT ![victim] = <<>>] /\ UNCHANGED drained
    BY <1>3 DEF DestroySwitch
  <2> QED
    BY <1>s, <2>1, <2>2
<1> QED
  BY <1>1, <1>2, <1>3 DEF Destroyer

\* The bytes in the pipe are accounted for throughout.
LEMMA ThrottleAlways == Spec => []ThrottleInv
<1>1. Init => ThrottleInv
  <2> SUFFICES ASSUME Init PROVE ThrottleInv
    OBVIOUS
  <2>1. BaseInv
    BY BaseInit
  <2>2. CountInv
    BY DEF Init, CountInv
  <2>3. Notifying = {} /\ pipe = 0
    BY DEF Init, Notifying
  <2>4. Cardinality(Notifying) = 0
    BY <2>3, FS_EmptySet
  <2>5. Throttled
    BY <2>1, <2>3, <2>4, ThrottledNumbers
  <2> QED
    BY <2>1, <2>2, <2>5 DEF ThrottleInv
<1>2. ThrottleInv /\ [Next]_vars => ThrottleInv'
  <2> SUFFICES ASSUME ThrottleInv, [Next]_vars PROVE ThrottleInv'
    OBVIOUS
  <2>1. BaseInv'
    BY BaseStep DEF ThrottleInv
  <2>2. CASE Next
    BY <2>1, <2>2, StepKinds, PipelineKeepsThrottle, DispatcherKeepsThrottle, SwitchStepKeepsThrottle DEF ThrottleInv
  <2>3. CASE UNCHANGED vars
    <3>1. UNCHANGED <<queue, th, pipe, pending, bg, drained>>
      BY <2>3 DEF vars, switchState, timerState, destroyer
    <3>2. Queued' = Queued /\ Notifying' = Notifying
      BY <3>1, SameQueued DEF Notifying
    <3> QED
      BY <2>1, <3>1, <3>2 DEF ThrottleInv, CountInv, Throttled
  <2> QED
    BY <2>2, <2>3
<1> QED
  BY <1>1, <1>2, PTL DEF Spec

\* The notification pipe wakes the background thread only while there is work:
\* every byte stands for a packet-in that is queued, in the dispatcher's hand, or
\* owed to the pipe, until drain_packet_ins takes packet-ins and leaves their bytes.
THEOREM AlwaysThrottled == Spec => []Throttled
BY ThrottleAlways, PTL DEF ThrottleInv

=============================================================================
