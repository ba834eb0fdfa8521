------------------------------ MODULE PacketIn ------------------------------
(***************************************************************************)
(* The slow path of the GNU/Linux driver.  A thread that runs a packet     *)
(* through the pipeline and misses queues it for the background thread     *)
(* (platform_of1x_packet_in) and writes a byte to the notification pipe.   *)
(* The background thread (bg_taskmanager.cc, pktin_dispatcher.cc) stores   *)
(* the packet under an id (datapacket_storage.cc), sends a PACKET_IN with  *)
(* the id to the controller, and drops stored packets that are too old.  A *)
(* controller takes a stored packet back with a PACKET_OUT or FLOW_MOD.    *)
(* Logical switches are created and destroyed meanwhile.                   *)
(*                                                                         *)
(* pkt_in_queue has many writers and may refuse a packet (LossyFifo of     *)
(* CircularQueue).  The storage's operations are under its mutex, except   *)
(* oldest_packet_needs_expiration, which is modelled read by read.         *)
(***************************************************************************)
EXTENDS Integers, Sequences, SequencesExt, FiniteSets

CONSTANTS Packets,    \* buffers of the pool
          NumSw,      \* entries of the list of logical switches
          RxThreads,  \* I/O threads
          CtlThreads, \* threads of the OpenFlow endpoints
          QueueCap,   \* LSI_PKT_IN_QUEUE_SLOTS - 1
          MaxStore,   \* LSI_PKT_IN_STORAGE_MAX_BUF
          NumIds,     \* storeids in use: 1..0xfffffffe in the code
          Budget,     \* BUCKETS_PER_LS
          Rounds,     \* ITERATIONS_PER_ROUND squared
          PipeSize,   \* bytes the notification pipe holds
          DrainMax,   \* DUMMY_BUF_SIZE
          MayDestroy, \* switches that may be destroyed
          Quiesced,   \* TRUE: a switch is not freed while the dispatcher is in it
          MaxPending, \* bound: packet-ins are made only while pending_to_read is below
          NoPacket    \* NULL

ASSUME PacketInAssumption ==
    /\ NumSw \in Nat \ {0} /\ QueueCap \in Nat /\ MaxStore \in Nat /\ Budget \in Nat \ {0}
    /\ Rounds \in Nat \ {0} /\ PipeSize \in Nat /\ DrainMax \in Nat \ {0}
    /\ NumIds \in Nat /\ NumIds > MaxStore /\ MaxPending \in Nat
    /\ Quiesced \in BOOLEAN
    /\ NoPacket \notin Packets
    /\ RxThreads \cap CtlThreads = {}
    /\ IsFiniteSet(RxThreads) /\ IsFiniteSet(CtlThreads)

Switches == 1..NumSw
Threads == RxThreads \cup CtlThreads
Ids == 1..NumIds

VARIABLES
    pool,       \* free buffers
    th,         \* per thread: [pc, pkt, sw]: idle, has pkt of switch sw, or notifies
    alive,      \* logical switches
    queue,      \* per switch: pkt_in_queue
    store,      \* per switch: the storage, oldest first: [id, pkt]
    next_id,    \* per switch: next_id of the storage
    old,        \* per switch: stored ids past expiration_time_sec
    known,      \* per switch: ids the controller was told, used or not
    pipe,       \* bytes in pktin_not_pipe
    pending,    \* pending_to_read
    due,        \* LSW_TIMER_BUFFER_POOL_MS have passed
    bg,         \* the background thread: [pc, sw, round, i, pkt, id]
    victim,     \* dpid_under_destruction, 0 when there is none
    dpc,        \* the thread that destroys it: idle, drain, destroy
    drained     \* history: drain_packet_ins took packet-ins and left their bytes

switchState == <<queue, store, next_id, old, known>>
timerState == <<pending, due>>
destroyer == <<victim, dpc, drained>>
vars == <<pool, th, alive, switchState, pipe, timerState, bg, destroyer>>

DispatchSteps == {"switch", "read", "store", "cmm", "undo", "empty"}
ExpireSteps == {"timers", "peek", "age", "id", "take"}

TypeOK ==
    /\ pool \subseteq Packets
    /\ th \in [Threads -> [pc : {"idle", "hold", "notify"},
                           pkt : Packets \cup {NoPacket}, sw : 0..NumSw]]
    /\ alive \subseteq Switches
    /\ queue \in [Switches -> Seq(Packets)]
    /\ store \in [Switches -> Seq([id : Ids, pkt : Packets])]
    /\ \A s \in Switches : Len(queue[s]) <= QueueCap /\ Len(store[s]) <= MaxStore
    /\ next_id \in [Switches -> Ids]
    /\ old \in [Switches -> SUBSET Ids]
    /\ known \in [Switches -> SUBSET Ids]
    /\ pipe \in 0..PipeSize /\ pending \in Nat /\ due \in BOOLEAN
    /\ bg \in [pc : {"wait"} \cup DispatchSteps \cup ExpireSteps, sw : Switches,
               round : 1..Rounds, i : 0..Budget, pkt : Packets \cup {NoPacket}, id : 0..NumIds]
    /\ victim \in 0..NumSw
    /\ dpc \in {"idle", "drain", "destroy"} /\ drained \in BOOLEAN

Init ==
    /\ pool = Packets
    /\ th = [t \in Threads |-> [pc |-> "idle", pkt |-> NoPacket, sw |-> 0]]
    /\ alive = {}
    /\ queue = [s \in Switches |-> <<>>]
    /\ store = [s \in Switches |-> <<>>]
    /\ next_id = [s \in Switches |-> 1]
    /\ old = [s \in Switches |-> {}]
    /\ known = [s \in Switches |-> {}]
    /\ pipe = 0 /\ pending = 0 /\ due = FALSE
    /\ bg = [pc |-> "wait", sw |-> 1, round |-> 1, i |-> 0, pkt |-> NoPacket, id |-> 0]
    /\ victim = 0 /\ dpc = "idle" /\ drained = FALSE

StoredIds(s) == {store[s][k].id : k \in DOMAIN store[s]}

MinOf(a, b) == IF a < b THEN a ELSE b

-----------------------------------------------------------------------------
(* datapacket_storage *)

\* The counter goes from NumIds back to 1.  It has so many values that no packet
\* stays stored for a whole turn: an id still in use is skipped.
NextId(s) ==
    LET after(k) == ((next_id[s] + k - 1) % NumIds) + 1
        k == CHOOSE k \in 1..NumIds :
                /\ after(k) \notin StoredIds(s)
                /\ \A j \in 1..(k - 1) : after(j) \in StoredIds(s)
    IN after(k)

\* Where the search for a stored id ends.
Position(s, id) == CHOOSE k \in DOMAIN store[s] : store[s][k].id = id

\* The stored packet, or NULL.
Lookup(s, id) == IF id \in StoredIds(s) THEN store[s][Position(s, id)].pkt ELSE NoPacket

\* get_packet(id) takes the entry out.
get_packet(s, id) ==
    /\ store' = [store EXCEPT ![s] = IF id \in StoredIds(s) THEN RemoveAt(@, Position(s, id)) ELSE @]
    /\ old' = [old EXCEPT ![s] = @ \ {id}]

-----------------------------------------------------------------------------
(* Threads that run packets through the pipeline of a switch *)

Open(s) == s \in alive /\ s # victim

\* An I/O thread has received a packet on a port of switch s.
Receive(t, s, p) ==
    /\ th[t].pc = "idle" /\ Open(s) /\ p \in pool
    /\ pool' = pool \ {p}
    /\ th' = [th EXCEPT ![t] = [pc |-> "hold", pkt |-> p, sw |-> s]]
    /\ UNCHANGED <<alive, switchState, pipe, timerState, bg, destroyer>>

\* PACKET_OUT or FLOW_MOD with a buffer id, perhaps one that was used before or
\* has expired; a NULL packet ends the call.
PacketOut(t, s, id) ==
    /\ th[t].pc = "idle" /\ Open(s) /\ id \in known[s]
    /\ get_packet(s, id)
    /\ th' = [th EXCEPT ![t] = IF Lookup(s, id) = NoPacket THEN @
                               ELSE [pc |-> "hold", pkt |-> Lookup(s, id), sw |-> s]]
    /\ UNCHANGED <<pool, alive, queue, next_id, known, pipe, timerState, bg, destroyer>>

Idle(t) == [th EXCEPT ![t] = [pc |-> "idle", pkt |-> NoPacket, sw |-> 0]]

\* The packet is dropped or sent, or the queue of packet-ins refuses it.
ReleaseBuffer(t) ==
    /\ th[t].pc = "hold"
    /\ pool' = pool \cup {th[t].pkt}
    /\ th' = Idle(t)
    /\ UNCHANGED <<alive, switchState, pipe, timerState, bg, destroyer>>

platform_of1x_packet_in(t) ==
    /\ th[t].pc = "hold"
    /\ Len(queue[th[t].sw]) < QueueCap
    /\ pending < MaxPending
    /\ queue' = [queue EXCEPT ![th[t].sw] = Append(@, th[t].pkt)]
    /\ th' = [th EXCEPT ![t].pc = "notify", ![t].pkt = NoPacket]
    /\ UNCHANGED <<pool, alive, store, next_id, old, known, pipe, timerState, bg, destroyer>>

\* The pipe is non-blocking: a byte that does not fit is lost.
notify_packet_in(t) ==
    /\ th[t].pc = "notify"
    /\ pipe' = MinOf(pipe + 1, PipeSize)
    /\ th' = Idle(t)
    /\ UNCHANGED <<pool, alive, switchState, timerState, bg, destroyer>>

-----------------------------------------------------------------------------
(* x86_background_tasks_routine: the loop *)

ToDispatch == bg' = [bg EXCEPT !.pc = "switch", !.sw = 1, !.round = 1]

ToTimers == bg' = [bg EXCEPT !.pc = "timers", !.sw = 1, !.round = 1, !.i = 0]

PipeEvent ==
    /\ bg.pc = "wait" /\ pipe > 0
    /\ ToDispatch
    /\ UNCHANGED <<pool, th, alive, switchState, pipe, timerState, destroyer>>

\* Mutant: a timeout only checks the timers.
TimeoutWithoutDispatch ==
    /\ bg.pc = "wait" /\ pipe = 0
    /\ ToTimers
    /\ UNCHANGED <<pool, th, alive, switchState, pipe, timerState, destroyer>>

\* epoll_wait returned 0: the packet-ins are processed without a byte.
Timeout ==
    /\ bg.pc = "wait" /\ pipe = 0
    /\ ToDispatch
    /\ UNCHANGED <<pool, th, alive, switchState, pipe, timerState, destroyer>>

\* Woken by a netlink message alone.
NetlinkEvent ==
    /\ bg.pc = "wait" /\ pipe = 0
    /\ ToTimers
    /\ UNCHANGED <<pool, th, alive, switchState, pipe, timerState, destroyer>>

-----------------------------------------------------------------------------
(* process_packet_ins and process_sw_of1x_packet_ins *)

NextSwitch ==
    IF bg.sw < NumSw THEN bg' = [bg EXCEPT !.pc = "switch", !.sw = @ + 1, !.i = 0]
    ELSE IF bg.round < Rounds
         THEN bg' = [bg EXCEPT !.pc = "switch", !.sw = 1, !.round = @ + 1, !.i = 0]
         ELSE ToTimers

EnterSwitch ==
    /\ bg.pc = "switch"
    /\ IF bg.sw \in alive THEN bg' = [bg EXCEPT !.pc = "read", !.i = 0] ELSE NextSwitch
    /\ UNCHANGED <<pool, th, alive, switchState, pipe, timerState, destroyer>>

ReadPacketIn ==
    /\ bg.pc = "read"
    /\ bg.i < Budget /\ queue[bg.sw] # <<>>
    /\ queue' = [queue EXCEPT ![bg.sw] = Tail(@)]
    /\ bg' = [bg EXCEPT !.pc = "store", !.pkt = Head(queue[bg.sw])]
    /\ UNCHANGED <<pool, th, alive, store, next_id, old, known, pipe, timerState, destroyer>>

EndOfPacketIns ==
    /\ bg.pc = "read"
    /\ bg.i = Budget \/ queue[bg.sw] = <<>>
    /\ bg' = [bg EXCEPT !.pc = "empty"]
    /\ UNCHANGED <<pool, th, alive, switchState, pipe, timerState, destroyer>>

\* The dispatcher is done with a packet.
OneDone == bg' = [bg EXCEPT !.pc = "read", !.i = @ + 1, !.pkt = NoPacket, !.id = 0]

\* Mutant: the storage has no limit.
StoreWithoutLimit ==
    /\ bg.pc = "store"
    /\ LET id == NextId(bg.sw)
       IN /\ store' = [store EXCEPT ![bg.sw] = Append(@, [id |-> id, pkt |-> bg.pkt])]
          /\ next_id' = [next_id EXCEPT ![bg.sw] = id]
          /\ known' = [known EXCEPT ![bg.sw] = @ \ {id}]
          /\ bg' = [bg EXCEPT !.pc = "cmm", !.id = id]
    /\ UNCHANGED <<pool, th, alive, queue, old, pipe, timerState, destroyer>>

\* Mutant: the controller learns the id before the outcome is known.
StoreAndTell ==
    /\ bg.pc = "store"
    /\ Len(store[bg.sw]) < MaxStore
    /\ LET id == NextId(bg.sw)
       IN /\ store' = [store EXCEPT ![bg.sw] = Append(@, [id |-> id, pkt |-> bg.pkt])]
          /\ next_id' = [next_id EXCEPT ![bg.sw] = id]
          /\ known' = [known EXCEPT ![bg.sw] = @ \cup {id}]
          /\ bg' = [bg EXCEPT !.pc = "cmm", !.id = id]
    /\ UNCHANGED <<pool, th, alive, queue, old, pipe, timerState, destroyer>>

store_packet ==
    /\ bg.pc = "store"
    /\ Len(store[bg.sw]) < MaxStore
    /\ LET id == NextId(bg.sw)
       IN /\ store' = [store EXCEPT ![bg.sw] = Append(@, [id |-> id, pkt |-> bg.pkt])]
          /\ next_id' = [next_id EXCEPT ![bg.sw] = id]
          /\ known' = [known EXCEPT ![bg.sw] = @ \ {id}]
          /\ bg' = [bg EXCEPT !.pc = "cmm", !.id = id]
    /\ UNCHANGED <<pool, th, alive, queue, old, pipe, timerState, destroyer>>

StoreFull ==
    /\ bg.pc = "store"
    /\ Len(store[bg.sw]) >= MaxStore
    /\ pool' = pool \cup {bg.pkt}
    /\ OneDone
    /\ UNCHANGED <<th, alive, switchState, pipe, timerState, destroyer>>

\* hal_cmm_process_of1x_packet_in succeeds; nothing is sent for a switch that is
\* being destroyed.
PacketInSent ==
    /\ bg.pc = "cmm"
    /\ known' = [known EXCEPT ![bg.sw] = IF bg.sw = victim THEN @ ELSE @ \cup {bg.id}]
    /\ OneDone
    /\ UNCHANGED <<pool, th, alive, queue, store, next_id, old, pipe, timerState, destroyer>>

\* Rate limited, no controller connected, or the switch is gone.
PacketInFailed ==
    /\ bg.pc = "cmm"
    /\ bg' = [bg EXCEPT !.pc = "undo"]
    /\ UNCHANGED <<pool, th, alive, switchState, pipe, timerState, destroyer>>

\* Mutant: the packet is released but stays stored.
UndoWithoutTake ==
    /\ bg.pc = "undo"
    /\ pool' = pool \cup {bg.pkt}
    /\ OneDone
    /\ UNCHANGED <<th, alive, switchState, pipe, timerState, destroyer>>

UndoStore ==
    /\ bg.pc = "undo"
    /\ get_packet(bg.sw, bg.id)
    /\ pool' = pool \cup {bg.pkt}
    /\ OneDone
    /\ UNCHANGED <<th, alive, queue, next_id, known, pipe, timerState, destroyer>>

\* Mutant: the bytes are accounted for but not read.
EmptyPipeOnPaper ==
    /\ bg.pc = "empty"
    /\ LET owed == pending + bg.i
       IN pending' = owed - MinOf(pipe, MinOf(owed, DrainMax))
    /\ NextSwitch
    /\ UNCHANGED <<pool, th, alive, switchState, pipe, due, destroyer>>

EmptyPipe ==
    /\ bg.pc = "empty"
    /\ LET owed == pending + bg.i
           n == MinOf(pipe, MinOf(owed, DrainMax))
       IN pipe' = pipe - n /\ pending' = owed - n
    /\ NextSwitch
    /\ UNCHANGED <<pool, th, alive, switchState, due, destroyer>>

-----------------------------------------------------------------------------
(* process_timeouts: expiration of stored packets *)

\* Time passes: what is stored now is too old, and the next check is due.
Tick ==
    /\ old' = [s \in Switches |-> StoredIds(s)]
    /\ due' = TRUE
    /\ UNCHANGED <<pool, th, alive, queue, store, next_id, known, pipe, pending, bg, destroyer>>

TimersDone == bg' = [bg EXCEPT !.pc = "wait", !.sw = 1, !.id = 0]

ExpireNextSwitch ==
    IF bg.sw < NumSw
    THEN bg' = [bg EXCEPT !.pc = "timers", !.sw = @ + 1, !.id = 0] /\ UNCHANGED due
    ELSE TimersDone /\ due' = FALSE

NotDue ==
    /\ bg.pc = "timers" /\ bg.sw = 1 /\ ~due
    /\ TimersDone
    /\ UNCHANGED <<pool, th, alive, switchState, pipe, timerState, destroyer>>

ExpireSwitch ==
    /\ bg.pc = "timers" /\ due
    /\ IF bg.sw \in alive THEN bg' = [bg EXCEPT !.pc = "peek"] /\ UNCHANGED due
                          ELSE ExpireNextSwitch
    /\ UNCHANGED <<pool, th, alive, switchState, pipe, pending, destroyer>>

\* oldest_packet_needs_expiration, without the lock: store.empty() ...
Peek ==
    /\ bg.pc = "peek"
    /\ IF store[bg.sw] = <<>> THEN ExpireNextSwitch
                              ELSE bg' = [bg EXCEPT !.pc = "age"] /\ UNCHANGED due
    /\ UNCHANGED <<pool, th, alive, switchState, pipe, pending, destroyer>>

\* Mutant: the comparison is the wrong way round.
FrontIsYoung(s) ==
    IF store[s] = <<>> THEN BOOLEAN ELSE {store[s][1].id \notin old[s]}

\* ... then the timestamp of store.front(): anything when there is no entry left ...
FrontIsOld(s) ==
    IF store[s] = <<>> THEN BOOLEAN ELSE {store[s][1].id \in old[s]}

ReadAge ==
    /\ bg.pc = "age"
    /\ \E expired \in FrontIsOld(bg.sw) :
          IF expired THEN bg' = [bg EXCEPT !.pc = "id"] /\ UNCHANGED due
                     ELSE ExpireNextSwitch
    /\ UNCHANGED <<pool, th, alive, switchState, pipe, pending, destroyer>>

\* ... and then the id of store.front().
ReadId ==
    /\ bg.pc = "id"
    /\ \E id \in IF store[bg.sw] = <<>> THEN Ids ELSE {store[bg.sw][1].id} :
          bg' = [bg EXCEPT !.pc = "take", !.id = id]
    /\ UNCHANGED <<pool, th, alive, switchState, pipe, timerState, destroyer>>

Expire ==
    /\ bg.pc = "take"
    /\ get_packet(bg.sw, bg.id)
    /\ pool' = pool \cup ({Lookup(bg.sw, bg.id)} \ {NoPacket})
    /\ bg' = [bg EXCEPT !.pc = "peek", !.id = 0]
    /\ UNCHANGED <<th, alive, queue, next_id, known, pipe, timerState, destroyer>>

-----------------------------------------------------------------------------
(* Creating and destroying a logical switch *)

CreateSwitch(s) ==
    /\ s \notin alive
    /\ alive' = alive \cup {s}
    /\ UNCHANGED <<pool, th, switchState, pipe, timerState, bg, destroyer>>

\* switch_manager::destroy_switch: from here on no port and no controller feeds
\* packets to the switch.
destroy_switch(s) ==
    /\ victim = 0 /\ s \in alive \cap MayDestroy
    /\ victim' = s /\ dpc' = "drain"
    /\ UNCHANGED <<pool, th, alive, switchState, pipe, timerState, bg, drained>>

\* Mutant: nobody waits for the threads that still have packets of the switch.
DoNotWait(s) == TRUE

\* iomanager::remove_port and the endpoint's destructor have waited for them.
NoThreadIn(s) == \A t \in Threads : th[t].sw # s

\* Mutant: the drained packets are not returned to the pool.
DrainWithoutRelease ==
    /\ dpc = "drain" /\ NoThreadIn(victim)
    /\ queue[victim] # <<>>
    /\ queue' = [queue EXCEPT ![victim] = Tail(@)]
    /\ UNCHANGED <<pool, th, alive, store, next_id, old, known, pipe, timerState, bg, destroyer>>

drain_packet_ins ==
    /\ dpc = "drain" /\ NoThreadIn(victim)
    /\ queue[victim] # <<>>
    /\ pool' = pool \cup {Head(queue[victim])}
    /\ queue' = [queue EXCEPT ![victim] = Tail(@)]
    /\ drained' = TRUE
    /\ UNCHANGED <<th, alive, store, next_id, old, known, pipe, timerState, bg, victim, dpc>>

\* The background thread is between its look at the list of switches and its last
\* access to switch s.
InSwitch(s) == bg.sw = s /\ bg.pc \notin {"wait", "switch", "timers"}

Drained ==
    /\ dpc = "drain" /\ NoThreadIn(victim)
    /\ queue[victim] = <<>>
    /\ Quiesced => ~InSwitch(victim)
    /\ dpc' = "destroy"
    /\ UNCHANGED <<pool, th, alive, switchState, pipe, timerState, bg, victim, drained>>

\* platform_pre_destroy_of1x_switch; the storage drops what it holds.
DestroySwitch ==
    /\ dpc = "destroy"
    /\ Quiesced => ~InSwitch(victim)
    /\ alive' = alive \ {victim}
    /\ pool' = pool \cup {store[victim][k].pkt : k \in DOMAIN store[victim]}
    /\ queue' = [queue EXCEPT ![victim] = <<>>]
    /\ store' = [store EXCEPT ![victim] = <<>>]
    /\ next_id' = [next_id EXCEPT ![victim] = 1]
    /\ old' = [old EXCEPT ![victim] = {}]
    /\ known' = [known EXCEPT ![victim] = {}]
    /\ victim' = 0 /\ dpc' = "idle"
    /\ UNCHANGED <<th, pipe, timerState, bg, drained>>

-----------------------------------------------------------------------------

ThreadStep(t) == ReleaseBuffer(t) \/ platform_of1x_packet_in(t) \/ notify_packet_in(t)

Dispatch ==
    \/ EnterSwitch \/ ReadPacketIn \/ EndOfPacketIns \/ store_packet \/ StoreFull
    \/ PacketInSent \/ PacketInFailed \/ UndoStore \/ EmptyPipe

ExpireStep == NotDue \/ ExpireSwitch \/ Peek \/ ReadAge \/ ReadId \/ Expire

Destroyer == drain_packet_ins \/ Drained \/ DestroySwitch

Next ==
    \/ \E t \in RxThreads, s \in Switches, p \in Packets : Receive(t, s, p)
    \/ \E t \in CtlThreads, s \in Switches, id \in Ids : PacketOut(t, s, id)
    \/ \E t \in Threads : ThreadStep(t)
    \/ PipeEvent \/ Timeout \/ NetlinkEvent
    \/ Dispatch \/ ExpireStep \/ Tick
    \/ \E s \in Switches : CreateSwitch(s) \/ destroy_switch(s)
    \/ Destroyer

Spec == Init /\ [][Next]_vars

\* The background thread and the pipeline threads keep running, time passes, and
\* netlink is silent for the length of a timeout again and again.
Fairness ==
    /\ \A t \in Threads : WF_vars(ThreadStep(t))
    /\ WF_vars(PipeEvent \/ Dispatch \/ ExpireStep)
    /\ SF_vars(Timeout)
    /\ WF_vars(Tick)

FairSpec == Spec /\ Fairness

-----------------------------------------------------------------------------

\* Everyone who would release packet p.
Owners(p) ==
    (IF p \in pool THEN {<<"pool">>} ELSE {})
    \cup {<<"thread", t>> : t \in {t \in Threads : th[t].pkt = p}}
    \cup (IF bg.pc = "store" /\ bg.pkt = p THEN {<<"bg">>} ELSE {})
    \cup (UNION {{<<"queue", s, k>> : k \in {k \in DOMAIN queue[s] : queue[s][k] = p}} : s \in Switches})
    \cup (UNION {{<<"store", s, k>> : k \in {k \in DOMAIN store[s] : store[s][k].pkt = p}} : s \in Switches})

\* A packet has one owner at any time, whatever the controller, the expiration and
\* the destruction of a switch do to it: no buffer is released twice, none is lost.
\* In particular pkt_in_queue is empty when platform_pre_destroy_of1x_switch, which
\* asserts that, deletes it.
OneOwner == \A p \in Packets : Cardinality(Owners(p)) = 1

\* The dispatcher's assertion ("Storage corruption"): until a PACKET_IN was sent
\* nobody else takes the packet out of the storage.
NoStorageCorruption ==
    bg.pc \in {"cmm", "undo"} => Lookup(bg.sw, bg.id) = bg.pkt

\* The packet-ins in the queues, each as its switch and its place.
Queued == {x \in Switches \X (1..QueueCap) : x[2] <= Len(queue[x[1]])}

Notifying == {t \in Threads : th[t].pc = "notify"}

\* The pipe wakes the background thread only while there is work: every byte stands
\* for a packet that is queued or that the dispatcher still owes the pipe, so that
\* epoll_wait throttles the loop.  drain_packet_ins breaks this for good: it takes
\* packet-ins out of the queue and leaves their bytes in the pipe.
Throttled ==
    ~drained => pipe + Cardinality(Notifying)
        <= Cardinality(Queued) + pending + bg.i + (IF bg.pc \in {"store", "cmm", "undo"} THEN 1 ELSE 0)

\* A queued packet-in is dispatched even if its byte did not fit into the pipe.
PacketInServed ==
    \A s \in Switches : \A p \in Packets :
        (\E k \in DOMAIN queue[s] : queue[s][k] = p) ~> (\A k \in DOMAIN queue[s] : queue[s][k] # p)

\* A stored packet the controller never asks for does not stay stored.
StoredPacketExpires ==
    \A s \in Switches : \A id \in Ids : (id \in StoredIds(s)) ~> (id \notin StoredIds(s))

=============================================================================
