-------------------------- MODULE ManagementProofs --------------------------
(***************************************************************************)
(* Proofs about the management plane, for any number of plugins, of driver *)
(* threads, of logical switches, of ports and of calls.  The locks that a  *)
(* thread holds follow from where it is in its call (LockInv); everything  *)
(* else is kept by the thread that holds the lock in question: the map of  *)
(* switches (UseInv), the announcements of ports (TellInv) and the cache   *)
(* of virtual links (CacheInv).                                            *)
(***************************************************************************)
EXTENDS Management, SequenceTheorems, TLAPS

-----------------------------------------------------------------------------
(* The inductive invariants *)

\* Working through a list of events.
Telling == {"events", "tryrdlock", "lookup", "notify"}

\* The call a thread is in, where the locks it holds depend on it.
OpAt(t) ==
    /\ call[t].pc \in {"create_lock", "create", "insert"} => call[t].op = "create"
    /\ call[t].pc \in {"destroy_lock", "destroy", "loop", "erase", "delete", "reset"}
          => call[t].op = "destroy"
    /\ call[t].pc \in {"attach_check", "attach_lock", "exists", "attach"} => call[t].op = "attach"
    /\ call[t].pc \in {"detach_lock", "detach"} => call[t].op \in {"detach", "destroy"}
    /\ call[t].pc \in {"connect_lock", "connect_exists", "connect", "cache"} => call[t].op = "connect"
    /\ call[t].pc \in {"bring_check", "bring_lock", "bring"} => call[t].op = "bring"
    /\ call[t].pc \in Telling
          => call[t].op \in {"destroy", "attach", "detach", "connect", "bring"} \cup DriverOps

\* The arguments a call has, and that there is an event where one is worked on.
ArgsOf(t) ==
    /\ call[t].op \in {"create", "destroy", "attach", "detach", "connect"} => call[t].d \in Dpids
    /\ call[t].op = "connect" => call[t].e \in Dpids
    /\ call[t].op \in {"attach", "detach", "bring"} \/ call[t].pc \in {"detach_lock", "detach"}
          => call[t].p \in Ports
    /\ call[t].op = "connect" /\ call[t].pc \in Telling \cup {"cache"}
          => call[t].p \in Virtual /\ call[t].p + 1 \in Virtual
    /\ call[t].pc \in {"tryrdlock", "lookup", "notify"} => call[t].events # <<>>
    /\ call[t].pc \notin Telling => call[t].events = <<>>

TypeInv == TypeOK /\ \A t \in Threads : OpAt(t) /\ ArgsOf(t)

\* Inside switch_manager::mutex and inside port_manager::mutex.
HoldsSm(t) ==
    \/ call[t].pc \in {"create", "insert", "destroy", "loop", "erase", "delete", "reset"}
    \/ call[t].op = "destroy" /\ call[t].pc \in {"detach_lock", "detach"} \cup Telling

HoldsPm(t) ==
    \/ call[t].pc \in {"exists", "attach", "detach", "connect_exists", "connect", "cache",
                       "bring", "blacklist"}
    \/ call[t].op \notin DriverOps /\ call[t].pc \in Telling

Reading == {"query", "use", "lookup", "notify"}

\* A thread holds exactly the locks its place in the code says, except for a mutex
\* that was left locked.
LocksOf(t) ==
    /\ HoldsSm(t) => smMutex = t
    /\ smMutex = t => HoldsSm(t) \/ "constructor" \in leaked
    /\ HoldsPm(t) => pmMutex = t
    /\ pmMutex = t => HoldsPm(t) \/ "blacklist" \in leaked
    /\ writer = t <=> call[t].pc = "configure"
    /\ t \in readers <=> call[t].pc \in Reading

LockInv ==
    /\ \A t \in Threads : LocksOf(t)
    /\ writer # None => readers = {}

\* A switch enters the map after its object was made and leaves it before that is
\* deleted; a reader's switch stays in the map.
UseInv ==
    /\ switchs \subseteq objects \cap lsis
    /\ \A t \in Threads :
          /\ call[t].pc = "insert" => call[t].d \in (objects \cap lsis) \ switchs
          /\ call[t].pc = "delete" => call[t].d \notin switchs
          /\ call[t].pc = "use" => call[t].d \in switchs
          /\ call[t].pc = "notify" => Head(call[t].events).d \in switchs

\* What a thread still has to tell.
Pending(t) == {call[t].events[i] : i \in 1..Len(call[t].events)}

\* The events that announce a port, that withdraw one, and the ones that do neither.
Announcing == {"attached", "added"}
Withdrawing == {"detached", "deleted"}
Passing == {"status", "process"}

\* An LSI in the map, or one that was there when a destroy began.
Known == switchs \cup doomed

\* A thread attaches to LSIs that it has seen in the map; what it announces is not on
\* the black list, and what it withdraws is detached; port_manager::mutex keeps both so.
TellOf(t) ==
    /\ call[t].op \in DriverOps => \A e \in Pending(t) : e.kind \in Passing
    /\ call[t].pc = "attach" => call[t].d \in Known
    /\ call[t].pc = "connect" => {call[t].d, call[t].e} \subseteq Known
    /\ call[t].op = "destroy" /\ call[t].pc \notin {"destroy_lock", "destroy"} => call[t].d \in doomed
    /\ \A e \in Pending(t) :
          /\ e.kind = "added" => e.p \notin blacklisted
          /\ e.kind \in Withdrawing => attached[e.p] = 0

\* Port p, attached to an LSI that nobody set out to destroy, has been announced or
\* is about to be.
Announced(p) ==
    \/ p \in told[attached[p]]
    \/ \E t \in Threads : \E e \in Pending(t) :
          e.kind \in Announcing /\ e.p = p /\ e.d = attached[p]

AllAnnounced == \A p \in Ports : attached[p] \in switchs \ doomed => Announced(p)

\* No name of a virtual port that was not given out is in use.
NamesFresh == (ports \cup blacklisted) \cap Virtual \subseteq 1..(2 * links)

TellInv ==
    /\ \A t \in Threads : TellOf(t)
    /\ AllAnnounced
    /\ \A p \in Ports : attached[p] \in Known \cup {0}
    /\ under \in doomed \cup {0}
    /\ NamesFresh

\* The ports the cache of virtual links knows and those the driver has.
Cached == {v[1] : v \in vlinks}
Live == ports \cap Virtual

\* connect_switches has made the two ports and add_vlink has not yet recorded them.
Connecting(t) == call[t].op = "connect" /\ call[t].pc \in Telling \cup {"cache"}

\* detach_port_from_switch deletes both ends of a link: it reports the pair, removes
\* both, and reports p; this is what is left of these three events.
RemovalList(es, p) ==
    LET n == Len(es)
    IN /\ n \in 1..3
       /\ es[n].kind = "deleted" /\ es[n].p = p
       /\ n >= 2 => es[n - 1].kind = "remove" /\ es[n - 1].p = Pair(p)
       /\ n = 3 => es[1].kind = "deleted" /\ es[1].p = Pair(p)

Removal(t) ==
    LET p == call[t].p
        n == Len(call[t].events)
    IN /\ call[t].op \in {"detach", "destroy"} /\ call[t].pc \in Telling
       /\ p \in Virtual /\ RemovalList(call[t].events, p)
       /\ n = 2 => call[t].pc = "events"
       /\ IF n = 1 THEN {p, Pair(p)} \cap ports = {} ELSE {p, Pair(p)} \subseteq ports

\* The cache has forgotten the pair, or the black list kept it from it.
HalfRemoved(t) ==
    /\ Removal(t)
    /\ Len(call[t].events) = 2 \/ (Len(call[t].events) = 3 /\ call[t].pc # "events")

\* Both ports are gone, and the cache has not heard of the second.
LastToForget(t) == Removal(t) /\ Len(call[t].events) = 1 /\ call[t].pc = "events"

\* The cache lacks the ports behind, has the ports ahead and those that the black list
\* kept from it; the latter no longer exist, but for the half of a link being removed.
Balanced(behind, ahead, half) ==
    /\ Cached = (Live \ behind) \cup ahead \cup unheard
    /\ unheard \cap Live \subseteq half

CacheOf(t) ==
    LET p == call[t].p
    IN /\ Connecting(t) => {p, p + 1} \subseteq Live /\ Balanced({p, p + 1}, {}, {})
       /\ HalfRemoved(t) => Balanced({Pair(p)}, {}, {Pair(p)})
       /\ LastToForget(t) => Balanced({}, {p}, {}) /\ p \notin unheard
       /\ Removal(t) \/ \A e \in Pending(t) : e.kind \notin {"deleted", "remove"}

Busy(t) == Connecting(t) \/ HalfRemoved(t) \/ LastToForget(t)

CacheInv ==
    /\ \A t \in Threads : CacheOf(t)
    /\ (\A t \in Threads : ~Busy(t)) => Balanced({}, {}, {})
    /\ Live \cup Cached \cup unheard \subseteq 1..(2 * links)
    /\ \A p \in Live : Pair(p) \in ports

-----------------------------------------------------------------------------
(* How a step changes the call of its thread *)

\* Only thread t moves.
Others(t) == \A u \in Threads \ {t} : call'[u] = call[u]

\* The arguments of the call stay.
SameArgs(t) ==
    /\ call'[t].op = call[t].op /\ call'[t].d = call[t].d /\ call'[t].e = call[t].e

\* The thread goes on to the next step of its call.
LEMMA GotoEffect ==
    ASSUME TypeOK, NEW t \in Threads, NEW step \in Steps, Goto(t, step)
    PROVE  /\ call' \in [Threads -> CallType]
           /\ call'[t].pc = step /\ SameArgs(t) /\ Others(t)
           /\ call'[t].p = call[t].p /\ call'[t].todo = call[t].todo
           /\ call'[t].events = call[t].events
BY DEF Goto, CallType, TypeOK, SameArgs, Others

\* The call ends.
LEMMA FinishEffect ==
    ASSUME TypeOK, NEW t \in Threads, NEW how \in Outcomes, Finish(t, how)
    PROVE  /\ call' \in [Threads -> CallType]
           /\ call'[t].pc = "idle" /\ call'[t].op \in Outcomes /\ Others(t)
           /\ call'[t].events = <<>>
<1>1. Idle(how) \in CallType
  BY DEF Idle, InCall, CallType, Steps, Outcomes, Event, Ports
<1>2. call'[t] = Idle(how)
  BY DEF Finish, TypeOK
<1>3. call' \in [Threads -> CallType] /\ Others(t)
  BY <1>1 DEF Finish, TypeOK, Others
<1> QED
  BY <1>2, <1>3 DEF Idle, InCall

\* The next event is dealt with.
LEMMA PopEffect ==
    ASSUME TypeOK, NEW t \in Threads, call[t].events # <<>>, Pop(t)
    PROVE  /\ call' \in [Threads -> CallType]
           /\ call'[t].pc = "events" /\ SameArgs(t) /\ Others(t)
           /\ call'[t].p = call[t].p
           /\ call'[t].events = Tail(call[t].events)
           /\ Tail(call[t].events) \in Seq(Event)
           /\ Head(call[t].events) \in Event
<1>1. call[t] \in CallType /\ call[t].events \in Seq(Event)
  BY DEF TypeOK, CallType
<1>2. Tail(call[t].events) \in Seq(Event) /\ Head(call[t].events) \in Event
  BY <1>1
<1> QED
  BY <1>1, <1>2 DEF Pop, TypeOK, CallType, SameArgs, Others, Steps

\* The driver has something to tell in the middle of the call.
LEMMA EventsEffect ==
    ASSUME TypeOK, NEW t \in Threads, NEW es \in Seq(Event),
           call' = [call EXCEPT ![t].pc = "events", ![t].events = es]
    PROVE  /\ call' \in [Threads -> CallType]
           /\ call'[t].pc = "events" /\ SameArgs(t) /\ Others(t)
           /\ call'[t].p = call[t].p /\ call'[t].events = es
<1>1. call[t] \in CallType
  BY DEF TypeOK
<1> QED
  BY <1>1 DEF TypeOK, CallType, SameArgs, Others, Steps

\* A call begins.
LEMMA BeginEffect ==
    ASSUME TypeOK, NEW t \in Threads, NEW op \in PluginOps, NEW d \in Dpids \cup {0},
           NEW e \in Dpids \cup {0}, NEW p \in Ports \cup {None}, Begin(t, op, d, e, p)
    PROVE  /\ call' \in [Threads -> CallType] /\ Others(t)
           /\ call[t].pc = "idle" /\ call'[t].pc = FirstStep[op]
           /\ call'[t].op = op /\ call'[t].d = d /\ call'[t].e = e /\ call'[t].p = p
           /\ call'[t].events = <<>>
           /\ left' \in [Threads -> 0..(MaxCalls + MaxEvents)]
           /\ UNCHANGED <<driverState, mgrState, locks, history>>
<1> DEFINE c == InCall(op, FirstStep[op], d, e, p, <<>>)
<1>1. FirstStep[op] \in Steps
  BY DEF FirstStep, PluginOps, Steps
<1>2. /\ c \in CallType /\ c.pc = FirstStep[op] /\ c.op = op /\ c.d = d /\ c.e = e /\ c.p = p
      /\ c.events = <<>>
  BY <1>1 DEF InCall, CallType
<1>3. call' = [call EXCEPT ![t] = c]
  BY DEF Begin
<1> HIDE DEF c
<1>4. call' \in [Threads -> CallType] /\ Others(t) /\ call'[t] = c
  BY <1>2, <1>3 DEF TypeOK, Others
<1>5. left' \in [Threads -> 0..(MaxCalls + MaxEvents)]
  BY BoundsAssumption DEF Begin, TypeOK
<1> QED
  BY <1>2, <1>4, <1>5 DEF Begin, At

\* The arguments a plugin passes.
Passed(op, d, e, p) ==
    /\ op \in {"create", "destroy", "attach", "detach", "connect"} => d \in Dpids
    /\ op = "connect" => e \in Dpids
    /\ op \in {"attach", "detach", "bring"} => p \in Ports

\* Every call of a plugin begins in the same way.
LEMMA CallBegins ==
    ASSUME NEW t, Call(t)
    PROVE  \E op \in PluginOps, d \in Dpids \cup {0}, e \in Dpids \cup {0},
              p \in Ports \cup {None} : Begin(t, op, d, e, p) /\ Passed(op, d, e, p)
<1> DEFINE Goal == \E op \in PluginOps, d \in Dpids \cup {0}, e \in Dpids \cup {0},
                      p \in Ports \cup {None} : Begin(t, op, d, e, p) /\ Passed(op, d, e, p)
<1>0. ASSUME NEW op \in PluginOps, NEW d \in Dpids \cup {0}, NEW e \in Dpids \cup {0},
             NEW p \in Ports \cup {None}, Begin(t, op, d, e, p), Passed(op, d, e, p)
      PROVE  Goal
  BY <1>0
<1> HIDE DEF Goal
<1>1. ASSUME NEW op \in {"create", "destroy", "configure", "query"}, NEW d \in Dpids,
             Begin(t, op, d, 0, None)
      PROVE  Goal
  <2>1. op \in PluginOps /\ Passed(op, d, 0, None)
    BY <1>1 DEF PluginOps, Passed
  <2> QED
    BY <1>0, <1>1, <2>1
<1>2. ASSUME NEW op \in {"attach", "detach"}, NEW d \in Dpids, NEW p \in Ports,
             Begin(t, op, d, 0, p)
      PROVE  Goal
  <2>1. op \in PluginOps /\ Passed(op, d, 0, p)
    BY <1>2 DEF PluginOps, Passed
  <2> QED
    BY <1>0, <1>2, <2>1
<1>3. ASSUME NEW d \in Dpids, NEW e \in Dpids, Begin(t, "connect", d, e, None) PROVE Goal
  <2>1. "connect" \in PluginOps /\ Passed("connect", d, e, None)
    BY <1>3 DEF PluginOps, Passed
  <2> QED
    BY <1>0, <1>3, <2>1
<1>4. ASSUME NEW op \in PluginOps \cap {"bring", "blacklist", "whitelist"}, NEW p \in Ports,
             Begin(t, op, 0, 0, p)
      PROVE  Goal
  <2>1. op \in PluginOps /\ Passed(op, 0, 0, p)
    BY <1>4 DEF Passed
  <2> QED
    BY <1>0, <1>4, <2>1
<1>5. Goal
  BY <1>1, <1>2, <1>3, <1>4 DEF Call
<1> QED
  BY <1>5 DEF Goal

\* A driver thread sets out to tell something.
LEMMA TellEffect ==
    ASSUME TypeOK, NEW t \in Threads, NEW op \in DriverOps, NEW d \in Dpids \cup {0},
           NEW p \in Ports \cup {None}, NEW ev \in Event, Tell(t, op, d, p, <<ev>>)
    PROVE  /\ call' \in [Threads -> CallType] /\ Others(t)
           /\ call'[t].pc = "events" /\ call'[t].op = op /\ call'[t].events = <<ev>>
<1> DEFINE c == InCall(op, "events", d, 0, p, <<ev>>)
<1>1. /\ c \in CallType /\ c.pc = "events" /\ c.op = op /\ c.events = <<ev>>
  BY DEF InCall, CallType, Steps
<1>2. call' = [call EXCEPT ![t] = c]
  BY DEF Tell
<1> HIDE DEF c
<1> QED
  BY <1>1, <1>2 DEF TypeOK, Others

-----------------------------------------------------------------------------
(* Types *)

\* The type invariant holds initially.
LEMMA TypeInvInit == Init => TypeInv
<1> SUFFICES ASSUME Init PROVE TypeInv
  OBVIOUS
<1>1. /\ Idle("returned") \in CallType
      /\ Idle("returned").pc = "idle" /\ Idle("returned").op = "returned"
      /\ Idle("returned").events = <<>>
  BY DEF Idle, InCall, CallType, Steps, Outcomes
<1>2. /\ call \in [Threads -> CallType]
      /\ \A t \in Threads :
            call[t].pc = "idle" /\ call[t].op = "returned" /\ call[t].events = <<>>
  BY <1>1 DEF Init
<1>3. attached \in [Ports -> Dpids \cup {0}] /\ told \in [Dpids -> SUBSET Ports]
  BY DEF Init
<1>4. links \in 0..MaxLinks
  BY LinksAssumption DEF Init
<1>5. TypeOK
  BY <1>2, <1>3, <1>4, DpidAssumption DEF Init, TypeOK, Ports
<1> QED
  BY <1>2, <1>5 DEF TypeInv, OpAt, ArgsOf, Telling

\* The step of thread t leaves a well-formed call.
Moved(t) ==
    /\ call' \in [Threads -> CallType] /\ Others(t)
    /\ OpAt(t)' /\ ArgsOf(t)'

\* A call that has ended is well-formed.
LEMMA FinishMoved ==
    ASSUME TypeOK, NEW t \in Threads, NEW how \in Outcomes, Finish(t, how)
    PROVE  Moved(t)
<1>1. /\ call' \in [Threads -> CallType] /\ Others(t)
      /\ call'[t].pc = "idle" /\ call'[t].op \in Outcomes /\ call'[t].events = <<>>
  BY FinishEffect
<1> QED
  BY <1>1 DEF Moved, OpAt, ArgsOf, Telling, Outcomes

\* One that has dealt with an event is.
LEMMA PopMoved ==
    ASSUME TypeInv, NEW t \in Threads, call[t].events # <<>>, call[t].pc \in Telling, Pop(t)
    PROVE  Moved(t)
<1>1. /\ call' \in [Threads -> CallType] /\ Others(t) /\ SameArgs(t)
      /\ call'[t].pc = "events" /\ call'[t].p = call[t].p
  BY PopEffect DEF TypeInv
<1>2. OpAt(t) /\ ArgsOf(t)
  BY DEF TypeInv
<1> QED
  BY <1>1, <1>2 DEF Moved, OpAt, ArgsOf, Telling, SameArgs

\* One that goes on to tell something is.
LEMMA EventsMoved ==
    ASSUME TypeInv, NEW t \in Threads, NEW es \in Seq(Event),
           call[t].op \in {"attach", "detach", "destroy", "bring"},
           call' = [call EXCEPT ![t].pc = "events", ![t].events = es]
    PROVE  Moved(t)
<1>1. /\ call' \in [Threads -> CallType] /\ Others(t) /\ SameArgs(t)
      /\ call'[t].pc = "events" /\ call'[t].p = call[t].p
  BY EventsEffect DEF TypeInv
<1>2. OpAt(t) /\ ArgsOf(t)
  BY DEF TypeInv
<1> QED
  BY <1>1, <1>2 DEF Moved, OpAt, ArgsOf, Telling, SameArgs

\* The other end of a virtual link is a virtual port.
LEMMA PairVirtual ==
    ASSUME NEW p \in Virtual
    PROVE  Pair(p) \in Virtual /\ Pair(p) # p /\ Pair(Pair(p)) = p
BY LinksAssumption DEF Virtual, Pair

\* Every step of the managers and of the driver's notifications keeps the types.
LEMMA TypeInvNext == TypeInv /\ [Next]_vars => TypeInv'
<1> SUFFICES ASSUME TypeInv, [Next]_vars PROVE TypeInv'
  OBVIOUS
<1>0. ASSUME NEW t \in Threads, Moved(t), TypeOK' PROVE TypeInv'
  BY <1>0 DEF Moved, Others, TypeInv, OpAt, ArgsOf
<1>t. TypeOK
  BY DEF TypeInv
<1>a. ASSUME NEW t \in Threads PROVE OpAt(t) /\ ArgsOf(t)
  BY DEF TypeInv
<1> USE DEF driverState, mgrState, locks, history, At
<1>1. ASSUME NEW t \in Plugins, Call(t) PROVE TypeInv'
  <2>1. PICK op \in PluginOps, d \in Dpids \cup {0}, e \in Dpids \cup {0},
             p \in Ports \cup {None} :
                Begin(t, op, d, e, p) /\ Passed(op, d, e, p)
    BY <1>1, CallBegins
  <2>2. t \in Threads
    BY <1>1 DEF Threads
  <2>3. /\ call' \in [Threads -> CallType] /\ Others(t)
        /\ call'[t].pc = FirstStep[op]
        /\ call'[t].op = op /\ call'[t].d = d /\ call'[t].e = e /\ call'[t].p = p
        /\ call'[t].events = <<>>
        /\ left' \in [Threads -> 0..(MaxCalls + MaxEvents)]
        /\ UNCHANGED <<driverState, mgrState, locks, history>>
    BY <1>t, <2>1, <2>2, BeginEffect, ZenonT(30)
  <2>4. OpAt(t)'
    BY <2>3 DEF OpAt, FirstStep, PluginOps, Telling, DriverOps
  <2>5. ArgsOf(t)'
    BY <2>1, <2>3 DEF ArgsOf, Passed, FirstStep, PluginOps, Telling
  <2>6. TypeOK'
    BY <1>t, <2>3 DEF TypeOK
  <2> QED
    BY <1>0, <2>2, <2>3, <2>4, <2>5, <2>6 DEF Moved
<1>2. ASSUME NEW t \in Drivers, NEW p \in Ports, hal_cmm_notify_port_status_changed(t, p)
      PROVE  TypeInv'
  <2> DEFINE ev == [kind |-> "status", d |-> attached[p], p |-> p]
  <2>1. attached[p] \in Dpids \cup {0} /\ ev \in Event /\ t \in Threads
    BY <1>2, <1>t DEF TypeOK, Event, CmmKinds, Threads
  <2>2. Tell(t, "status", attached[p], p, <<ev>>) /\ "status" \in DriverOps
    BY <1>2 DEF hal_cmm_notify_port_status_changed, DriverOps
  <2> HIDE DEF ev
  <2>3. /\ call' \in [Threads -> CallType] /\ Others(t)
        /\ call'[t].pc = "events" /\ call'[t].op = "status"
    BY <1>t, <2>1, <2>2, TellEffect
  <2>4. Moved(t)
    BY <2>3 DEF Moved, OpAt, ArgsOf, Telling, DriverOps
  <2>5. left' \in [Threads -> 0..(MaxCalls + MaxEvents)]
    BY <1>2, <1>t, <2>1, BoundsAssumption DEF hal_cmm_notify_port_status_changed, TypeOK
  <2>6. TypeOK'
    BY <1>2, <1>t, <2>3, <2>5 DEF hal_cmm_notify_port_status_changed, TypeOK
  <2> QED
    BY <1>0, <2>1, <2>4, <2>6
<1>3. ASSUME NEW t \in Drivers, NEW d \in Dpids, hal_cmm_process_of1x(t, d) PROVE TypeInv'
  <2> DEFINE ev == [kind |-> "process", d |-> d, p |-> None]
  <2>1. ev \in Event /\ t \in Threads
    BY <1>3 DEF Event, CmmKinds, Threads
  <2>2. Tell(t, "packet_in", d, None, <<ev>>) /\ "packet_in" \in DriverOps
    BY <1>3 DEF hal_cmm_process_of1x, DriverOps
  <2> HIDE DEF ev
  <2>3. /\ call' \in [Threads -> CallType] /\ Others(t)
        /\ call'[t].pc = "events" /\ call'[t].op = "packet_in"
    BY <1>t, <2>1, <2>2, TellEffect
  <2>4. Moved(t)
    BY <2>3 DEF Moved, OpAt, ArgsOf, Telling, DriverOps
  <2>5. left' \in [Threads -> 0..(MaxCalls + MaxEvents)]
    BY <1>3, <1>t, <2>1, BoundsAssumption DEF hal_cmm_process_of1x, TypeOK
  <2>6. TypeOK'
    BY <1>3, <1>t, <2>3, <2>5 DEF hal_cmm_process_of1x, TypeOK
  <2> QED
    BY <1>0, <2>1, <2>4, <2>6
<1>4. ASSUME NEW t \in Threads,
             \/ LockSm(t, "create_lock", "create") \/ LockSm(t, "destroy_lock", "destroy")
      PROVE  TypeInv'
  <2>1. /\ call' \in [Threads -> CallType] /\ Others(t) /\ SameArgs(t)
        /\ call'[t].p = call[t].p /\ call'[t].events = call[t].events
        /\ \/ call[t].pc = "create_lock" /\ call'[t].pc = "create"
           \/ call[t].pc = "destroy_lock" /\ call'[t].pc = "destroy"
    BY <1>4, <1>t, GotoEffect DEF LockSm, Steps
  <2>2. Moved(t)
    BY <1>a, <2>1 DEF Moved, OpAt, ArgsOf, SameArgs, Telling
  <2>3. TypeOK'
    BY <1>4, <1>t, <1>a, <2>1 DEF LockSm, TypeOK, OpAt, ArgsOf
  <2> QED
    BY <1>0, <2>2, <2>3
<1>5. ASSUME NEW t \in Threads,
             \/ create_refused(t) \/ create_constructor_throws(t) \/ destroy_unknown(t) \/
                query_unknown(t) \/ query_use(t)
      PROVE  TypeInv'
  <2>1. Moved(t)
    BY <1>5, <1>t, FinishMoved DEF create_refused, create_constructor_throws,
       destroy_unknown, query_unknown, query_use, Outcomes
  <2>2. TypeOK'
    BY <1>5, <1>t, <1>a, <2>1 DEF create_refused, create_constructor_throws,
       destroy_unknown, query_unknown, query_use, TypeOK, Moved
  <2> QED
    BY <1>0, <2>1, <2>2
<1>6. ASSUME NEW t \in Threads, create_construct(t) PROVE TypeInv'
  <2>1. /\ call' \in [Threads -> CallType] /\ Others(t) /\ SameArgs(t)
        /\ call'[t].p = call[t].p /\ call'[t].events = call[t].events
        /\ call[t].pc = "create" /\ call'[t].pc = "insert"
    BY <1>6, <1>t, GotoEffect DEF create_construct, Steps
  <2>2. Moved(t)
    BY <1>a, <2>1 DEF Moved, OpAt, ArgsOf, SameArgs, Telling
  <2>3. TypeOK'
    BY <1>6, <1>t, <1>a, <2>1 DEF create_construct, TypeOK, OpAt, ArgsOf
  <2> QED
    BY <1>0, <2>2, <2>3
<1>7. ASSUME NEW t \in Threads,
             \/ destroy_detached(t) \/ destroy_erase(t)
      PROVE  TypeInv'
  <2>1. /\ call' \in [Threads -> CallType] /\ Others(t) /\ SameArgs(t)
        /\ call'[t].p = call[t].p /\ call'[t].events = call[t].events
        /\ \/ call[t].pc = "loop" /\ call'[t].pc = "erase"
           \/ call[t].pc = "erase" /\ call'[t].pc = "delete"
    BY <1>7, <1>t, GotoEffect DEF destroy_detached, destroy_erase, Steps
  <2>2. Moved(t)
    BY <1>a, <2>1 DEF Moved, OpAt, ArgsOf, SameArgs, Telling
  <2>3. TypeOK'
    BY <1>7, <1>t, <1>a, <2>1 DEF destroy_detached, destroy_erase, TypeOK, OpAt, ArgsOf
  <2> QED
    BY <1>0, <2>2, <2>3
<1>8. ASSUME NEW t \in Threads, create_insert(t) PROVE TypeInv'
  <2>1. Moved(t)
    BY <1>8, <1>t, FinishMoved DEF create_insert, Outcomes
  <2>2. TypeOK'
    BY <1>8, <1>t, <1>a, <2>1 DEF create_insert, TypeOK, Moved, OpAt, ArgsOf
  <2> QED
    BY <1>0, <2>1, <2>2
<1>9. ASSUME NEW t \in Threads, destroy_snapshot(t) PROVE TypeInv'
  <2>1. /\ call' \in [Threads -> CallType] /\ Others(t) /\ SameArgs(t)
        /\ call'[t].events = call[t].events
        /\ call[t].pc = "destroy" /\ call'[t].pc = "loop"
    <3> DEFINE todo == {p \in ports : attached[p] = call[t].d}
    <3>1. call[t] \in CallType /\ todo \in SUBSET Ports /\ call[t].pc = "destroy"
      BY <1>9, <1>t DEF TypeOK, destroy_snapshot
    <3>2. call' = [call EXCEPT ![t].pc = "loop", ![t].todo = todo]
      BY <1>9 DEF destroy_snapshot
    <3> HIDE DEF todo
    <3> QED
      BY <1>t, <3>1, <3>2 DEF TypeOK, CallType, Steps, Others, SameArgs
  <2>2. Moved(t)
    BY <1>a, <2>1 DEF Moved, OpAt, ArgsOf, SameArgs, Telling
  <2>3. TypeOK'
    BY <1>9, <1>t, <1>a, <2>1 DEF destroy_snapshot, TypeOK, OpAt, ArgsOf
  <2> QED
    BY <1>0, <2>2, <2>3
<1>10. ASSUME NEW t \in Threads, destroy_detach(t) PROVE TypeInv'
  <2>1. PICK p \in call[t].todo :
            call' = [call EXCEPT ![t].pc = "detach_lock", ![t].p = p, ![t].todo = @ \ {p}]
    BY <1>10 DEF destroy_detach
  <2>2. p \in Ports
    BY <1>t, <2>1 DEF TypeOK, CallType
  <2>3. /\ call' \in [Threads -> CallType] /\ Others(t) /\ SameArgs(t)
        /\ call'[t].p = p /\ call'[t].events = call[t].events
        /\ call[t].pc = "loop" /\ call'[t].pc = "detach_lock"
    <3>1. call[t] \in CallType /\ call[t].todo \in SUBSET Ports /\ call[t].pc = "loop"
      BY <1>10, <1>t DEF TypeOK, CallType, destroy_detach
    <3> QED
      BY <1>t, <2>1, <2>2, <3>1 DEF TypeOK, CallType, Steps, Others, SameArgs
  <2>4. Moved(t)
    BY <1>a, <2>2, <2>3 DEF Moved, OpAt, ArgsOf, SameArgs, Telling
  <2>5. TypeOK'
    BY <1>10, <1>t, <2>3 DEF destroy_detach, TypeOK
  <2> QED
    BY <1>0, <2>4, <2>5
<1>11. ASSUME NEW t \in Threads, destroy_delete(t) PROVE TypeInv'
  <2>1. /\ call' \in [Threads -> CallType] /\ Others(t) /\ SameArgs(t)
        /\ call'[t].p = call[t].p /\ call'[t].events = call[t].events
        /\ call[t].pc = "delete" /\ call'[t].pc = "reset"
    BY <1>11, <1>t, GotoEffect DEF destroy_delete, Steps
  <2>2. Moved(t)
    BY <1>a, <2>1 DEF Moved, OpAt, ArgsOf, SameArgs, Telling
  <2>3. TypeOK'
    BY <1>11, <1>t, <1>a, <2>1 DEF destroy_delete, TypeOK, OpAt, ArgsOf
  <2> QED
    BY <1>0, <2>2, <2>3
<1>12. ASSUME NEW t \in Threads,
             \/ destroy_reset(t) \/ configure(t)
      PROVE  TypeInv'
  <2>1. Moved(t)
    BY <1>12, <1>t, FinishMoved DEF destroy_reset, configure, Outcomes
  <2>2. TypeOK'
    BY <1>12, <1>t, <1>a, <2>1 DEF destroy_reset, configure, TypeOK, Moved
  <2> QED
    BY <1>0, <2>1, <2>2
<1>13. ASSUME NEW t \in Threads,
             \/ WriteLock(t) \/ ReadLock(t) \/ query_found(t)
      PROVE  TypeInv'
  <2>1. /\ call' \in [Threads -> CallType] /\ Others(t) /\ SameArgs(t)
        /\ call'[t].p = call[t].p /\ call'[t].events = call[t].events
        /\ \/ call[t].pc = "wrlock" /\ call'[t].pc = "configure"
           \/ call[t].pc = "rdlock" /\ call'[t].pc = "query"
           \/ call[t].pc = "query" /\ call'[t].pc = "use"
    BY <1>13, <1>t, GotoEffect DEF WriteLock, ReadLock, query_found, Steps
  <2>2. Moved(t)
    BY <1>a, <2>1 DEF Moved, OpAt, ArgsOf, SameArgs, Telling
  <2>3. TypeOK'
    BY <1>13, <1>t, <1>a, <2>1 DEF WriteLock, ReadLock, query_found, TypeOK, OpAt, ArgsOf
  <2> QED
    BY <1>0, <2>2, <2>3
<1>14. ASSUME NEW t \in Threads, notify_blacklisted(t) PROVE TypeInv'
  <2>1. Moved(t)
    BY <1>14, <1>t, PopMoved DEF notify_blacklisted, Telling
  <2>2. TypeOK'
    BY <1>14, <1>t, <1>a, <2>1 DEF notify_blacklisted, TypeOK, Moved
  <2> QED
    BY <1>0, <2>1, <2>2
<1>15. ASSUME NEW t \in Threads, notify_begin(t) PROVE TypeInv'
  <2> DEFINE e == Head(call[t].events)
  <2>1. CASE e.d \in {0, under}
    <3>1. Pop(t) /\ call[t].pc = "events" /\ call[t].events # <<>>
      BY <1>15, <2>1 DEF notify_begin
    <3>2. Moved(t)
      BY <3>1, PopMoved DEF Telling
    <3>3. TypeOK'
      BY <1>15, <1>t, <3>2 DEF notify_begin, forget_vlink, TypeOK, Moved
    <3> QED
      BY <1>0, <3>2, <3>3
  <2>2. CASE e.d \notin {0, under}
    <3>1. /\ Goto(t, "tryrdlock") /\ call[t].pc = "events" /\ call[t].events # <<>>
      BY <1>15, <2>2 DEF notify_begin
    <3>2. /\ call' \in [Threads -> CallType] /\ Others(t) /\ SameArgs(t)
          /\ call'[t].p = call[t].p /\ call'[t].events = call[t].events
          /\ call'[t].pc = "tryrdlock"
      BY <1>t, <3>1, GotoEffect DEF Steps
    <3>3. Moved(t)
      BY <1>a, <3>1, <3>2 DEF Moved, OpAt, ArgsOf, SameArgs, Telling
    <3>4. TypeOK'
      BY <1>15, <1>t, <3>2 DEF notify_begin, forget_vlink, TypeOK
    <3> QED
      BY <1>0, <3>3, <3>4
  <2> QED
    BY <2>1, <2>2
<1>16. ASSUME NEW t \in Threads, notify_tryrdlock(t) PROVE TypeInv'
  <2>1. /\ call' \in [Threads -> CallType] /\ Others(t) /\ SameArgs(t)
        /\ call'[t].p = call[t].p /\ call'[t].events = call[t].events
        /\ call[t].pc = "tryrdlock" /\ call'[t].pc = "lookup"
    BY <1>16, <1>t, GotoEffect DEF notify_tryrdlock, Steps
  <2>2. Moved(t)
    BY <1>a, <2>1 DEF Moved, OpAt, ArgsOf, SameArgs, Telling
  <2>3. TypeOK'
    BY <1>16, <1>t, <1>a, <2>1 DEF notify_tryrdlock, TypeOK, OpAt, ArgsOf
  <2> QED
    BY <1>0, <2>2, <2>3
<1>17. ASSUME NEW t \in Threads, notify_give_up(t) PROVE TypeInv'
  <2>1. Moved(t)
    BY <1>17, <1>t, <1>a, PopMoved DEF notify_give_up, Telling, ArgsOf
  <2>2. TypeOK'
    BY <1>17, <1>t, <1>a, <2>1 DEF notify_give_up, TypeOK, Moved
  <2> QED
    BY <1>0, <2>1, <2>2
<1>18. ASSUME NEW t \in Threads, notify_lookup(t) PROVE TypeInv'
  <2>1. call[t].pc = "lookup" /\ call[t].events # <<>>
    BY <1>18, <1>a DEF notify_lookup, ArgsOf
  <2>2. Moved(t)
    <3>1. CASE Pop(t)
      BY <2>1, <3>1, PopMoved DEF Telling
    <3>2. CASE Goto(t, "notify")
      <4>1. /\ call' \in [Threads -> CallType] /\ Others(t) /\ SameArgs(t)
            /\ call'[t].p = call[t].p /\ call'[t].events = call[t].events
            /\ call'[t].pc = "notify"
        BY <1>t, <3>2, GotoEffect DEF Steps
      <4> QED
        BY <1>a, <2>1, <4>1 DEF Moved, OpAt, ArgsOf, SameArgs, Telling
    <3> QED
      BY <1>18, <3>1, <3>2 DEF notify_lookup
  <2>3. TypeOK'
    BY <1>18, <1>t, <2>2 DEF notify_lookup, TypeOK, Moved
  <2> QED
    BY <1>0, <2>2, <2>3
<1>19. ASSUME NEW t \in Threads, notify_send(t) PROVE TypeInv'
  <2> DEFINE e == Head(call[t].events)
  <2>1. call[t].pc = "notify" /\ call[t].events # <<>> /\ Pop(t)
    BY <1>19, <1>a DEF notify_send, ArgsOf
  <2>2. Moved(t) /\ e \in Event
    BY <1>t, <2>1, PopMoved, PopEffect DEF Telling
  <2>3. told' \in [Dpids -> SUBSET Ports]
    <3>1. \/ e.kind \in {"attached", "added"} /\ told' = [told EXCEPT ![e.d] = @ \cup {e.p}]
          \/ e.kind \in {"detached", "deleted"} /\ told' = [told EXCEPT ![e.d] = @ \ {e.p}]
          \/ told' = told
      BY <1>19, Zenon DEF notify_send
    <3>2. e.kind \in {"attached", "added"} => e.p \in Ports
      BY <2>2 DEF Event, CmmKinds
    <3> HIDE DEF e
    <3> QED
      BY <1>t, <3>1, <3>2 DEF TypeOK
  <2>4. TypeOK'
    BY <1>19, <1>t, <2>2, <2>3 DEF notify_send, TypeOK, Moved
  <2> QED
    BY <1>0, <2>2, <2>4
<1>20. ASSUME NEW t \in Threads, remove_vlink(t) PROVE TypeInv'
  <2>1. Moved(t)
    BY <1>20, <1>t, PopMoved DEF remove_vlink, Telling
  <2>2. TypeOK'
    BY <1>20, <1>t, <1>a, <2>1 DEF remove_vlink, TypeOK, Moved
  <2> QED
    BY <1>0, <2>1, <2>2
<1>21. ASSUME NEW t \in Threads, events_done(t) PROVE TypeInv'
  <2>0. call[t].pc = "events" /\ call[t].events = <<>> /\ pmMutex' \in {pmMutex, None}
    BY <1>21, Zenon DEF events_done
  <2>1. \/ Finish(t, "returned")
        \/ call[t].op = "connect" /\ Goto(t, "cache")
        \/ call[t].op = "destroy" /\ Goto(t, "loop")
    BY <1>21, Zenon DEF events_done
  <2>2. Moved(t)
    <3>1. CASE Finish(t, "returned")
      BY <1>t, <3>1, FinishMoved DEF Outcomes
    <3>2. ASSUME NEW step \in {"cache", "loop"}, Goto(t, step),
                 step = "cache" => call[t].op = "connect", step = "loop" => call[t].op = "destroy"
          PROVE  Moved(t)
      <4>1. /\ call' \in [Threads -> CallType] /\ Others(t) /\ SameArgs(t)
            /\ call'[t].p = call[t].p /\ call'[t].events = call[t].events
            /\ call'[t].pc = step
        BY <1>t, <3>2, GotoEffect DEF Steps
      <4> QED
        BY <1>a, <2>0, <3>2, <4>1 DEF Moved, OpAt, ArgsOf, SameArgs, Telling
    <3> QED
      BY <2>1, <3>1, <3>2
  <2>3. TypeOK'
    BY <1>21, <1>t, <2>0, <2>2 DEF events_done, TypeOK, Moved
  <2> QED
    BY <1>0, <2>2, <2>3
<1>22. ASSUME NEW t \in Threads,
             \/ LockPm(t, "attach_lock", "exists") \/ LockPm(t, "detach_lock", "detach") \/
                LockPm(t, "connect_lock", "connect_exists") \/ LockPm(t, "bring_lock",
                "bring") \/ LockPm(t, "blacklist_lock", "blacklist")
      PROVE  TypeInv'
  <2>1. /\ call' \in [Threads -> CallType] /\ Others(t) /\ SameArgs(t)
        /\ call'[t].p = call[t].p /\ call'[t].events = call[t].events
        /\ \/ call[t].pc = "attach_lock" /\ call'[t].pc = "exists"
           \/ call[t].pc = "detach_lock" /\ call'[t].pc = "detach"
           \/ call[t].pc = "connect_lock" /\ call'[t].pc = "connect_exists"
           \/ call[t].pc = "bring_lock" /\ call'[t].pc = "bring"
           \/ call[t].pc = "blacklist_lock" /\ call'[t].pc = "blacklist"
    BY <1>22, <1>t, GotoEffect DEF LockPm, Steps
  <2>2. Moved(t)
    BY <1>a, <2>1 DEF Moved, OpAt, ArgsOf, SameArgs, Telling
  <2>3. TypeOK'
    BY <1>22, <1>t, <1>a, <2>1 DEF LockPm, TypeOK, OpAt, ArgsOf
  <2> QED
    BY <1>0, <2>2, <2>3
<1>23. ASSUME NEW t \in Threads, check_blacklisted(t) PROVE TypeInv'
  <2>1. \/ Finish(t, "threw") \/ Finish(t, "returned")
        \/ call[t].pc = "attach_check" /\ Goto(t, "attach_lock")
        \/ call[t].pc = "bring_check" /\ Goto(t, "bring_lock")
    BY <1>23 DEF check_blacklisted
  <2>2. Moved(t)
    <3>1. ASSUME NEW how \in Outcomes, Finish(t, how) PROVE Moved(t)
      BY <1>t, <3>1, FinishMoved
    <3>2. CASE call[t].pc = "attach_check" /\ Goto(t, "attach_lock")
      <4>1. /\ call' \in [Threads -> CallType] /\ Others(t) /\ SameArgs(t)
            /\ call'[t].p = call[t].p /\ call'[t].events = call[t].events
            /\ call'[t].pc = "attach_lock"
        BY <1>t, <3>2, GotoEffect DEF Steps
      <4> QED
        BY <1>a, <3>2, <4>1 DEF Moved, OpAt, ArgsOf, SameArgs, Telling
    <3>3. CASE call[t].pc = "bring_check" /\ Goto(t, "bring_lock")
      <4>1. /\ call' \in [Threads -> CallType] /\ Others(t) /\ SameArgs(t)
            /\ call'[t].p = call[t].p /\ call'[t].events = call[t].events
            /\ call'[t].pc = "bring_lock"
        BY <1>t, <3>3, GotoEffect DEF Steps
      <4> QED
        BY <1>a, <3>3, <4>1 DEF Moved, OpAt, ArgsOf, SameArgs, Telling
    <3> QED
      BY <2>1, <3>1, <3>2, <3>3 DEF Outcomes
  <2>3. TypeOK'
    BY <1>23, <1>t, <2>2 DEF check_blacklisted, TypeOK, Moved
  <2> QED
    BY <1>0, <2>2, <2>3
<1>24. ASSUME NEW t \in Threads, attach_exists(t) PROVE TypeInv'
  <2>1. \/ Finish(t, "threw") \/ Finish(t, "returned")
        \/ call[t].pc = "exists" /\ Goto(t, "attach")
    BY <1>24 DEF attach_exists, ThrowPm
  <2>2. Moved(t)
    <3>1. ASSUME NEW how \in Outcomes, Finish(t, how) PROVE Moved(t)
      BY <1>t, <3>1, FinishMoved
    <3>2. CASE call[t].pc = "exists" /\ Goto(t, "attach")
      <4>1. /\ call' \in [Threads -> CallType] /\ Others(t) /\ SameArgs(t)
            /\ call'[t].p = call[t].p /\ call'[t].events = call[t].events
            /\ call'[t].pc = "attach"
        BY <1>t, <3>2, GotoEffect DEF Steps
      <4> QED
        BY <1>a, <3>2, <4>1 DEF Moved, OpAt, ArgsOf, SameArgs, Telling
    <3> QED
      BY <2>1, <3>1, <3>2 DEF Outcomes
  <2>3. /\ pmMutex' \in {pmMutex, None}
        /\ UNCHANGED <<driverState, mgrState, smMutex, writer, readers, left, history>>
    BY <1>24 DEF attach_exists, ThrowPm
  <2>4. TypeOK'
    BY <1>t, <2>2, <2>3 DEF TypeOK, Moved
  <2> QED
    BY <1>0, <2>2, <2>4
<1>25. ASSUME NEW t \in Threads, connect_exists(t) PROVE TypeInv'
  <2>1. \/ Finish(t, "threw") \/ Finish(t, "returned")
        \/ call[t].pc = "connect_exists" /\ Goto(t, "connect")
    BY <1>25 DEF connect_exists, ThrowPm
  <2>2. Moved(t)
    <3>1. ASSUME NEW how \in Outcomes, Finish(t, how) PROVE Moved(t)
      BY <1>t, <3>1, FinishMoved
    <3>2. CASE call[t].pc = "connect_exists" /\ Goto(t, "connect")
      <4>1. /\ call' \in [Threads -> CallType] /\ Others(t) /\ SameArgs(t)
            /\ call'[t].p = call[t].p /\ call'[t].events = call[t].events
            /\ call'[t].pc = "connect"
        BY <1>t, <3>2, GotoEffect DEF Steps
      <4> QED
        BY <1>a, <3>2, <4>1 DEF Moved, OpAt, ArgsOf, SameArgs, Telling
    <3> QED
      BY <2>1, <3>1, <3>2 DEF Outcomes
  <2>3. /\ pmMutex' \in {pmMutex, None}
        /\ UNCHANGED <<driverState, mgrState, smMutex, writer, readers, left, history>>
    BY <1>25 DEF connect_exists, ThrowPm
  <2>4. TypeOK'
    BY <1>t, <2>2, <2>3 DEF TypeOK, Moved
  <2> QED
    BY <1>0, <2>2, <2>4
<1>26. ASSUME NEW t \in Threads, check_blacklist(t) PROVE TypeInv'
  <2>1. \/ Finish(t, "threw") \/ Finish(t, "returned")
        \/ call[t].pc = "blacklist_check" /\ Goto(t, "blacklist_lock")
    BY <1>26 DEF check_blacklist
  <2>2. Moved(t)
    <3>1. ASSUME NEW how \in Outcomes, Finish(t, how) PROVE Moved(t)
      BY <1>t, <3>1, FinishMoved
    <3>2. CASE call[t].pc = "blacklist_check" /\ Goto(t, "blacklist_lock")
      <4>1. /\ call' \in [Threads -> CallType] /\ Others(t) /\ SameArgs(t)
            /\ call'[t].p = call[t].p /\ call'[t].events = call[t].events
            /\ call'[t].pc = "blacklist_lock"
        BY <1>t, <3>2, GotoEffect DEF Steps
      <4> QED
        BY <1>a, <3>2, <4>1 DEF Moved, OpAt, ArgsOf, SameArgs, Telling
    <3> QED
      BY <2>1, <3>1, <3>2 DEF Outcomes
  <2>3. TypeOK'
    BY <1>26, <1>t, <2>2 DEF check_blacklist, TypeOK, Moved
  <2> QED
    BY <1>0, <2>2, <2>3
<1>27. ASSUME NEW t \in Threads, check_whitelist(t) PROVE TypeInv'
  <2>1. \/ Finish(t, "threw") \/ Finish(t, "returned")
        \/ call[t].pc = "whitelist_check" /\ Goto(t, "whitelist_lock")
    BY <1>27 DEF check_whitelist
  <2>2. Moved(t)
    <3>1. ASSUME NEW how \in Outcomes, Finish(t, how) PROVE Moved(t)
      BY <1>t, <3>1, FinishMoved
    <3>2. CASE call[t].pc = "whitelist_check" /\ Goto(t, "whitelist_lock")
      <4>1. /\ call' \in [Threads -> CallType] /\ Others(t) /\ SameArgs(t)
            /\ call'[t].p = call[t].p /\ call'[t].events = call[t].events
            /\ call'[t].pc = "whitelist_lock"
        BY <1>t, <3>2, GotoEffect DEF Steps
      <4> QED
        BY <1>a, <3>2, <4>1 DEF Moved, OpAt, ArgsOf, SameArgs, Telling
    <3> QED
      BY <2>1, <3>1, <3>2 DEF Outcomes
  <2>3. TypeOK'
    BY <1>27, <1>t, <2>2 DEF check_whitelist, TypeOK, Moved
  <2> QED
    BY <1>0, <2>2, <2>3
<1>28. ASSUME NEW t \in Threads,
             \/ blacklist_throws(t) \/ blacklist(t) \/ whitelist(t)
      PROVE  TypeInv'
  <2>1. Moved(t)
    BY <1>28, <1>t, FinishMoved DEF blacklist_throws, blacklist, whitelist, Outcomes
  <2>2. TypeOK'
    BY <1>28, <1>t, <1>a, <2>1 DEF blacklist_throws, blacklist, whitelist, TypeOK, Moved
  <2> QED
    BY <1>0, <2>1, <2>2
<1>29. ASSUME NEW t \in Threads, detach_throws(t) PROVE TypeInv'
  <2>1. Moved(t)
    BY <1>29, <1>t, FinishMoved DEF detach_throws, DetachFails, Outcomes
  <2>2. TypeOK'
    BY <1>29, <1>t, <1>a, <2>1 DEF detach_throws, TypeOK, Moved, DetachFails
  <2> QED
    BY <1>0, <2>1, <2>2
<1>30. ASSUME NEW t \in Threads, detach_pair_unattached(t) PROVE TypeInv'
  <2>1. Moved(t)
    BY <1>30, <1>t, FinishMoved DEF detach_pair_unattached, DetachFails, Outcomes
  <2>2. TypeOK'
    BY <1>30, <1>t, <1>a, <2>1 DEF detach_pair_unattached, TypeOK, Moved, DetachFails
  <2> QED
    BY <1>0, <2>1, <2>2
<1>31. ASSUME NEW t \in Threads, add_vlink(t) PROVE TypeInv'
  <2>1. Moved(t)
    BY <1>31, <1>t, FinishMoved DEF add_vlink, Outcomes
  <2>2. TypeOK'
    BY <1>31, <1>t, <1>a, <2>1 DEF add_vlink, TypeOK, Moved, OpAt, ArgsOf
  <2> QED
    BY <1>0, <2>1, <2>2
<1>32. ASSUME NEW t \in Threads, attach_port_to_switch(t) PROVE TypeInv'
  <2>0. /\ call[t].pc = "attach" /\ call[t].op = "attach"
        /\ call[t].d \in Dpids /\ call[t].p \in Ports
    BY <1>32, <1>a DEF attach_port_to_switch, OpAt, ArgsOf
  <2>1. CASE ThrowPm(t)
    <3>1. Moved(t)
      BY <1>t, <2>1, FinishMoved DEF ThrowPm, Outcomes
    <3>2. TypeOK'
      BY <1>t, <2>1, <3>1 DEF ThrowPm, TypeOK, Moved
    <3> QED
      BY <1>0, <3>1, <3>2
  <2>2. CASE ~ThrowPm(t)
    <3> DEFINE es == <<[kind |-> "attached", d |-> call[t].d, p |-> call[t].p]>>
    <3>1. /\ call' = [call EXCEPT ![t].pc = "events", ![t].events = es]
          /\ attached' = [attached EXCEPT ![call[t].p] = call[t].d]
          /\ UNCHANGED <<lsis, ports, links, mgrState, locks, left, history>>
      BY <1>32, <2>2 DEF attach_port_to_switch
    <3>2. es \in Seq(Event)
      BY <2>0 DEF Event
    <3> HIDE DEF es
    <3>3. Moved(t)
      BY <2>0, <3>1, <3>2, EventsMoved
    <3>4. TypeOK'
      BY <1>t, <2>0, <3>1, <3>3 DEF TypeOK, Moved
    <3> QED
      BY <1>0, <3>3, <3>4
  <2> QED
    BY <2>1, <2>2
<1>33. ASSUME NEW t \in Threads, detach_port_from_switch(t) PROVE TypeInv'
  <2> DEFINE q == Pair(call[t].p)
  <2>0. /\ call[t].pc = "detach" /\ call[t].op \in {"detach", "destroy"}
        /\ call[t].d \in Dpids /\ call[t].p \in Ports
    BY <1>33, <1>a DEF detach_port_from_switch, OpAt, ArgsOf
  <2>1. call[t].p \in Virtual => q \in Ports /\ attached[q] \in Dpids \cup {0}
    BY <1>t, PairVirtual DEF TypeOK, Ports
  <2> HIDE DEF q
  <2> DEFINE long == <<[kind |-> "deleted", d |-> attached[q], p |-> q],
                       [kind |-> "remove", d |-> 0, p |-> q],
                       [kind |-> "deleted", d |-> call[t].d, p |-> call[t].p]>>
             short == <<[kind |-> "detached", d |-> call[t].d, p |-> call[t].p]>>
             es == IF call[t].p \in Virtual THEN long ELSE short
  <2>2. long \in Seq(Event) \/ call[t].p \notin Virtual
    BY <2>0, <2>1 DEF Event, CmmKinds
  <2>3. short \in Seq(Event)
    BY <2>0 DEF Event
  <2>4. call' = [call EXCEPT ![t].pc = "events", ![t].events = es]
    BY <1>33 DEF detach_port_from_switch, q
  <2> HIDE DEF long, short
  <2>5. es \in Seq(Event)
    BY <2>2, <2>3
  <2> HIDE DEF es
  <2>6. Moved(t)
    BY <2>0, <2>4, <2>5, EventsMoved
  <2>7. TypeOK'
    BY <1>33, <1>t, <2>6 DEF detach_port_from_switch, TypeOK, Moved
  <2> QED
    BY <1>0, <2>6, <2>7
<1>34. ASSUME NEW t \in Threads, bring(t) PROVE TypeInv'
  <2>0. call[t].pc = "bring" /\ call[t].op = "bring" /\ call[t].p \in Ports
    BY <1>34, <1>a DEF bring, OpAt, ArgsOf
  <2>1. CASE ThrowPm(t)
    <3>1. Moved(t)
      BY <1>t, <2>1, FinishMoved DEF ThrowPm, Outcomes
    <3>2. TypeOK'
      BY <1>t, <2>1, <3>1 DEF ThrowPm, TypeOK, Moved
    <3> QED
      BY <1>0, <3>1, <3>2
  <2>2. CASE ~ThrowPm(t)
    <3> DEFINE one == <<[kind |-> "status", d |-> attached[call[t].p], p |-> call[t].p]>>
               es == IF call[t].p \notin Virtual THEN <<>> ELSE one
    <3>1. /\ call' = [call EXCEPT ![t].pc = "events", ![t].events = es]
          /\ UNCHANGED <<driverState, mgrState, locks, left, history>>
      BY <1>34, <2>2 DEF bring
    <3>2. attached[call[t].p] \in Dpids \cup {0}
      BY <1>t, <2>0 DEF TypeOK
    <3>3. one \in Seq(Event) /\ <<>> \in Seq(Event)
      BY <2>0, <3>2 DEF Event, CmmKinds
    <3> HIDE DEF one
    <3>4. es \in Seq(Event)
      BY <3>3
    <3> HIDE DEF es
    <3>5. Moved(t)
      BY <2>0, <3>1, <3>4, EventsMoved
    <3>6. TypeOK'
      BY <1>t, <3>1, <3>5 DEF TypeOK, Moved
    <3> QED
      BY <1>0, <3>5, <3>6
  <2> QED
    BY <2>1, <2>2
<1>35. ASSUME NEW t \in Threads, connect_switches(t) PROVE TypeInv'
  <2> DEFINE v == 2 * links + 1
  <2>0. /\ call[t].pc = "connect" /\ call[t].op = "connect"
        /\ call[t].d \in Dpids /\ call[t].e \in Dpids
    BY <1>35, <1>a DEF connect_switches, OpAt, ArgsOf
  <2>1. CASE ThrowPm(t)
    <3>1. Moved(t)
      BY <1>t, <2>1, FinishMoved DEF ThrowPm, Outcomes
    <3>2. TypeOK'
      BY <1>t, <2>1, <3>1 DEF ThrowPm, TypeOK, Moved
    <3> QED
      BY <1>0, <3>1, <3>2
  <2>2. CASE ~ThrowPm(t)
    <3> DEFINE es == <<[kind |-> "added", d |-> call[t].d, p |-> v],
                       [kind |-> "added", d |-> call[t].e, p |-> v + 1],
                       [kind |-> "status", d |-> call[t].d, p |-> v],
                       [kind |-> "status", d |-> call[t].e, p |-> v + 1]>>
    <3>1. /\ links < MaxLinks /\ links' = links + 1
          /\ ports' = ports \cup {v, v + 1}
          /\ attached' = [attached EXCEPT ![v] = call[t].d, ![v + 1] = call[t].e]
          /\ call' = [call EXCEPT ![t].pc = "events", ![t].p = v, ![t].events = es]
          /\ UNCHANGED <<lsis, mgrState, locks, left, history>>
      BY <1>35, <2>2 DEF connect_switches
    <3>2. /\ v \in Virtual /\ v + 1 \in Virtual /\ v \in Ports /\ v + 1 \in Ports
          /\ links + 1 \in 0..MaxLinks
      BY <1>t, <3>1, LinksAssumption DEF Virtual, TypeOK, Ports
    <3> HIDE DEF v
    <3>3. es \in Seq(Event)
      BY <2>0, <3>2 DEF Event, CmmKinds
    <3> HIDE DEF es
    <3>4. /\ call' \in [Threads -> CallType] /\ Others(t) /\ SameArgs(t)
          /\ call'[t].p = v /\ call'[t].pc = "events"
      <4>1. call[t] \in CallType
        BY <1>t DEF TypeOK
      <4> QED
        BY <1>t, <3>1, <3>2, <3>3, <4>1 DEF TypeOK, CallType, Steps, Others, SameArgs
    <3>5. Moved(t)
      BY <1>a, <2>0, <3>2, <3>4 DEF Moved, OpAt, ArgsOf, SameArgs, Telling
    <3>6. TypeOK'
      BY <1>t, <2>0, <3>1, <3>2, <3>4 DEF TypeOK
    <3> QED
      BY <1>0, <3>5, <3>6
  <2> QED
    BY <2>1, <2>2
<1>36. CASE UNCHANGED vars
  BY <1>36 DEF vars, TypeInv, TypeOK, OpAt, ArgsOf
<1> QED
  BY <1>1, <1>2, <1>3, <1>4, <1>5, <1>6, <1>7, <1>8, <1>9, <1>10, <1>11, <1>12, <1>13,
     <1>14, <1>15, <1>16, <1>17, <1>18, <1>19, <1>20, <1>21, <1>22, <1>23, <1>24, <1>25,
     <1>26, <1>27, <1>28, <1>29, <1>30, <1>31, <1>32, <1>33, <1>34, <1>35, <1>36 DEF Next,
     Step, SwitchManager, Notification, PortManager

\* Every variable keeps its type, whatever the plugins and the driver do.
THEOREM TypeCorrect == Spec => []TypeOK
<1>1. TypeInv => TypeOK
  BY DEF TypeInv
<1> QED
  BY TypeInvInit, TypeInvNext, <1>1, PTL DEF Spec

-----------------------------------------------------------------------------
(* Locks *)

\* Thread t takes locks that are free and releases its own.
Discipline(t) ==
    /\ smMutex' = smMutex \/ (smMutex = t /\ smMutex' = None) \/ (smMutex = None /\ smMutex' = t)
    /\ pmMutex' = pmMutex \/ (pmMutex = t /\ pmMutex' = None) \/ (pmMutex = None /\ pmMutex' = t)
    /\ writer' = writer \/ (writer = t /\ writer' = None) \/ (writer = None /\ writer' = t)
    /\ readers' \ {t} = readers \ {t}
    /\ leaked \subseteq leaked'
    /\ writer' # None => readers' = {}

\* Whatever a step does, it takes free locks only and releases what its thread holds.
LEMMA LockInvNext == TypeInv /\ LockInv /\ [Next]_vars => LockInv'
<1> SUFFICES ASSUME TypeInv, LockInv, [Next]_vars PROVE LockInv'
  OBVIOUS
<1>0. ASSUME NEW t \in Threads, Others(t), LocksOf(t)', Discipline(t) PROVE LockInv'
  <2>1. \A u \in Threads \ {t} : LocksOf(u)'
    <3> SUFFICES ASSUME NEW u \in Threads \ {t} PROVE LocksOf(u)'
      OBVIOUS
    <3>1. call'[u] = call[u] /\ LocksOf(u) /\ u # None
      BY <1>0, ThreadsAssumption DEF Others, LockInv, Threads
    <3>2. /\ smMutex' = u <=> smMutex = u
          /\ pmMutex' = u <=> pmMutex = u
          /\ writer' = u <=> writer = u
          /\ u \in readers' <=> u \in readers
          /\ leaked \subseteq leaked'
      BY <1>0, <3>1 DEF Discipline
    <3>3. (HoldsSm(u)' <=> HoldsSm(u)) /\ (HoldsPm(u)' <=> HoldsPm(u))
      BY <3>1 DEF HoldsSm, HoldsPm
    <3> QED
      BY <3>1, <3>2, <3>3 DEF LocksOf
  <2> QED
    BY <1>0, <2>1 DEF LockInv, Discipline
<1>t. TypeOK
  BY DEF TypeInv
<1>l. ASSUME NEW t \in Threads
      PROVE  /\ LocksOf(t) /\ OpAt(t) /\ t # None /\ (writer # None => readers = {})
             /\ call[t].pc \in {"tryrdlock", "lookup", "notify"} => call[t].events # <<>>
  BY ThreadsAssumption DEF TypeInv, LockInv, Threads, ArgsOf
<1> USE DEF driverState, mgrState, locks, history, At
<1>1. ASSUME NEW t \in Threads, t \in Plugins /\ Call(t) PROVE LockInv'
  <2>1. PICK op \in PluginOps, d \in Dpids \cup {0}, e \in Dpids \cup {0},
             p \in Ports \cup {None} : Begin(t, op, d, e, p) /\ Passed(op, d, e, p)
    BY <1>1, CallBegins
  <2>2. /\ Others(t) /\ call[t].pc = "idle" /\ call'[t].pc = FirstStep[op] /\ call'[t].op = op
        /\ UNCHANGED <<driverState, mgrState, locks, history>>
    BY <1>t, <2>1, BeginEffect, ZenonT(30)
  <2>3. call'[t].pc \in {"create_lock", "destroy_lock", "attach_check", "detach_lock",
                         "connect_lock", "bring_check", "wrlock", "rdlock",
                         "blacklist_check", "whitelist_check"}
        /\ (call'[t].pc = "detach_lock" => call'[t].op # "destroy")
    BY <2>2 DEF FirstStep, PluginOps
  <2>4. LocksOf(t)' /\ Discipline(t)
    BY <1>l, <2>2, <2>3 DEF LocksOf, OpAt, HoldsSm, HoldsPm, Discipline, Telling, Reading, DriverOps
  <2> QED
    BY <1>0, <2>2, <2>4
<1>2. ASSUME NEW t \in Threads, \E p \in Ports : hal_cmm_notify_port_status_changed(t, p) PROVE LockInv'
  <2>1. PICK p \in Ports : hal_cmm_notify_port_status_changed(t, p)
    BY <1>2
  <2> DEFINE ev == [kind |-> "status", d |-> attached[p], p |-> p]
  <2>2. attached[p] \in Dpids \cup {0} /\ ev \in Event
    BY <1>t DEF TypeOK, Event, CmmKinds
  <2>3. Tell(t, "status", attached[p], p, <<ev>>) /\ "status" \in DriverOps
    BY <2>1 DEF hal_cmm_notify_port_status_changed, DriverOps
  <2> HIDE DEF ev
  <2>4. Others(t) /\ call'[t].pc = "events" /\ call'[t].op = "status"
    BY <1>t, <2>2, <2>3, TellEffect
  <2>5. LocksOf(t)' /\ Discipline(t)
    BY <1>l, <2>1, <2>4 DEF hal_cmm_notify_port_status_changed, LocksOf, OpAt, HoldsSm, HoldsPm, Discipline, Telling, Reading, DriverOps
  <2> QED
    BY <1>0, <2>4, <2>5
<1>3. ASSUME NEW t \in Threads, \E d \in Dpids : hal_cmm_process_of1x(t, d) PROVE LockInv'
  <2>1. PICK d \in Dpids : hal_cmm_process_of1x(t, d)
    BY <1>3
  <2> DEFINE ev == [kind |-> "process", d |-> d, p |-> None]
  <2>2. ev \in Event
    BY DEF Event, CmmKinds
  <2>3. Tell(t, "packet_in", d, None, <<ev>>) /\ "packet_in" \in DriverOps
    BY <2>1 DEF hal_cmm_process_of1x, DriverOps
  <2> HIDE DEF ev
  <2>4. Others(t) /\ call'[t].pc = "events" /\ call'[t].op = "packet_in"
    BY <1>t, <2>2, <2>3, TellEffect
  <2>5. LocksOf(t)' /\ Discipline(t)
    BY <1>l, <2>1, <2>4 DEF hal_cmm_process_of1x, LocksOf, OpAt, HoldsSm, HoldsPm, Discipline, Telling, Reading, DriverOps
  <2> QED
    BY <1>0, <2>4, <2>5
<1>4. ASSUME NEW t \in Threads,
             \/ LockSm(t, "create_lock", "create") \/ LockSm(t, "destroy_lock", "destroy")
      PROVE  LockInv'
  <2>1. /\ Others(t) /\ call'[t].op = call[t].op
        /\ \/ call[t].pc = "create_lock" /\ call'[t].pc = "create"
           \/ call[t].pc = "destroy_lock" /\ call'[t].pc = "destroy"
    BY <1>4, <1>t, <1>l, GotoEffect DEF LockSm, SameArgs, Steps
  <2>2. LocksOf(t)' /\ Discipline(t)
    BY <1>4, <1>l, <2>1 DEF LockSm, LocksOf, OpAt, HoldsSm, HoldsPm, Discipline, Telling,
       Reading, DriverOps
  <2> QED
    BY <1>0, <2>1, <2>2
<1>5. ASSUME NEW t \in Threads,
             \/ create_refused(t) \/ destroy_unknown(t)
      PROVE  LockInv'
  <2>1. Others(t) /\ call'[t].pc = "idle" /\ call'[t].op \in Outcomes
    BY <1>5, <1>t, FinishEffect DEF create_refused, destroy_unknown, Outcomes
  <2>2. LocksOf(t)' /\ Discipline(t)
    BY <1>5, <1>l, <2>1 DEF create_refused, destroy_unknown, LocksOf, OpAt, HoldsSm,
       HoldsPm, Discipline, Telling, Reading, DriverOps, Outcomes
  <2> QED
    BY <1>0, <2>1, <2>2
<1>6. ASSUME NEW t \in Threads, create_constructor_throws(t) PROVE LockInv'
  <2>1. Others(t) /\ call'[t].pc = "idle" /\ call'[t].op \in Outcomes
    BY <1>6, <1>t, FinishEffect DEF create_constructor_throws, Outcomes
  <2>2. LocksOf(t)' /\ Discipline(t)
    BY <1>6, <1>l, <2>1 DEF create_constructor_throws, LocksOf, OpAt, HoldsSm, HoldsPm,
       Discipline, Telling, Reading, DriverOps, Outcomes
  <2> QED
    BY <1>0, <2>1, <2>2
<1>7. ASSUME NEW t \in Threads,
             \/ query_unknown(t) \/ query_use(t)
      PROVE  LockInv'
  <2>1. Others(t) /\ call'[t].pc = "idle" /\ call'[t].op \in Outcomes
    BY <1>7, <1>t, FinishEffect DEF query_unknown, query_use, Outcomes
  <2>2. LocksOf(t)' /\ Discipline(t)
    BY <1>7, <1>l, <2>1 DEF query_unknown, query_use, LocksOf, OpAt, HoldsSm, HoldsPm,
       Discipline, Telling, Reading, DriverOps, Outcomes
  <2> QED
    BY <1>0, <2>1, <2>2
<1>8. ASSUME NEW t \in Threads, create_construct(t) PROVE LockInv'
  <2>1. /\ Others(t) /\ call'[t].op = call[t].op
        /\ call[t].pc = "create" /\ call'[t].pc = "insert"
    BY <1>8, <1>t, <1>l, GotoEffect DEF create_construct, SameArgs, Steps
  <2>2. LocksOf(t)' /\ Discipline(t)
    BY <1>8, <1>l, <2>1 DEF create_construct, LocksOf, OpAt, HoldsSm, HoldsPm, Discipline,
       Telling, Reading, DriverOps
  <2> QED
    BY <1>0, <2>1, <2>2
<1>9. ASSUME NEW t \in Threads,
             \/ destroy_detached(t) \/ destroy_erase(t)
      PROVE  LockInv'
  <2>1. /\ Others(t) /\ call'[t].op = call[t].op
        /\ \/ call[t].pc = "loop" /\ call'[t].pc = "erase"
           \/ call[t].pc = "erase" /\ call'[t].pc = "delete"
    BY <1>9, <1>t, <1>l, GotoEffect DEF destroy_detached, destroy_erase, SameArgs, Steps
  <2>2. LocksOf(t)' /\ Discipline(t)
    BY <1>9, <1>l, <2>1 DEF destroy_detached, destroy_erase, LocksOf, OpAt, HoldsSm,
       HoldsPm, Discipline, Telling, Reading, DriverOps
  <2> QED
    BY <1>0, <2>1, <2>2
<1>10. ASSUME NEW t \in Threads, create_insert(t) PROVE LockInv'
  <2>1. Others(t) /\ call'[t].pc = "idle" /\ call'[t].op \in Outcomes
    BY <1>10, <1>t, FinishEffect DEF create_insert, Outcomes
  <2>2. LocksOf(t)' /\ Discipline(t)
    BY <1>10, <1>l, <2>1 DEF create_insert, LocksOf, OpAt, HoldsSm, HoldsPm, Discipline,
       Telling, Reading, DriverOps, Outcomes
  <2> QED
    BY <1>0, <2>1, <2>2
<1>11. ASSUME NEW t \in Threads, destroy_snapshot(t) PROVE LockInv'
  <2>1. /\ Others(t) /\ call'[t].op = call[t].op
        /\ call[t].pc = "destroy" /\ call'[t].pc = "loop"
    BY <1>11, <1>t DEF destroy_snapshot, TypeOK, CallType, Others
  <2>2. LocksOf(t)' /\ Discipline(t)
    BY <1>11, <1>l, <2>1 DEF destroy_snapshot, LocksOf, OpAt, HoldsSm, HoldsPm, Discipline, Telling, Reading, DriverOps
  <2> QED
    BY <1>0, <2>1, <2>2
<1>12. ASSUME NEW t \in Threads, destroy_detach(t) PROVE LockInv'
  <2>1. /\ Others(t) /\ call'[t].op = call[t].op
        /\ call[t].pc = "loop" /\ call'[t].pc = "detach_lock"
    <3>1. PICK p \in call[t].todo :
              call' = [call EXCEPT ![t].pc = "detach_lock", ![t].p = p, ![t].todo = @ \ {p}]
      BY <1>12 DEF destroy_detach
    <3>2. call[t] \in CallType /\ call[t].pc = "loop"
      BY <1>12, <1>t DEF TypeOK, destroy_detach
    <3> QED
      BY <1>t, <3>1, <3>2 DEF TypeOK, CallType, Others
  <2>2. LocksOf(t)' /\ Discipline(t)
    BY <1>12, <1>l, <2>1 DEF destroy_detach, LocksOf, OpAt, HoldsSm, HoldsPm, Discipline, Telling, Reading, DriverOps
  <2> QED
    BY <1>0, <2>1, <2>2
<1>13. ASSUME NEW t \in Threads, destroy_delete(t) PROVE LockInv'
  <2>1. /\ Others(t) /\ call'[t].op = call[t].op
        /\ call[t].pc = "delete" /\ call'[t].pc = "reset"
    BY <1>13, <1>t, <1>l, GotoEffect DEF destroy_delete, SameArgs, Steps
  <2>2. LocksOf(t)' /\ Discipline(t)
    BY <1>13, <1>l, <2>1 DEF destroy_delete, LocksOf, OpAt, HoldsSm, HoldsPm, Discipline,
       Telling, Reading, DriverOps
  <2> QED
    BY <1>0, <2>1, <2>2
<1>14. ASSUME NEW t \in Threads, destroy_reset(t) PROVE LockInv'
  <2>1. Others(t) /\ call'[t].pc = "idle" /\ call'[t].op \in Outcomes
    BY <1>14, <1>t, FinishEffect DEF destroy_reset, Outcomes
  <2>2. LocksOf(t)' /\ Discipline(t)
    BY <1>14, <1>l, <2>1 DEF destroy_reset, LocksOf, OpAt, HoldsSm, HoldsPm, Discipline,
       Telling, Reading, DriverOps, Outcomes
  <2> QED
    BY <1>0, <2>1, <2>2
<1>15. ASSUME NEW t \in Threads, configure(t) PROVE LockInv'
  <2>1. Others(t) /\ call'[t].pc = "idle" /\ call'[t].op \in Outcomes
    BY <1>15, <1>t, FinishEffect DEF configure, Outcomes
  <2>2. LocksOf(t)' /\ Discipline(t)
    BY <1>15, <1>l, <2>1 DEF configure, LocksOf, OpAt, HoldsSm, HoldsPm, Discipline,
       Telling, Reading, DriverOps, Outcomes
  <2> QED
    BY <1>0, <2>1, <2>2
<1>16. ASSUME NEW t \in Threads, WriteLock(t) PROVE LockInv'
  <2>1. /\ Others(t) /\ call'[t].op = call[t].op
        /\ call[t].pc = "wrlock" /\ call'[t].pc = "configure"
    BY <1>16, <1>t, <1>l, GotoEffect DEF WriteLock, SameArgs, Steps
  <2>2. LocksOf(t)' /\ Discipline(t)
    BY <1>16, <1>l, <2>1 DEF WriteLock, LocksOf, OpAt, HoldsSm, HoldsPm, Discipline,
       Telling, Reading, DriverOps
  <2> QED
    BY <1>0, <2>1, <2>2
<1>17. ASSUME NEW t \in Threads, ReadLock(t) PROVE LockInv'
  <2>1. /\ Others(t) /\ call'[t].op = call[t].op
        /\ call[t].pc = "rdlock" /\ call'[t].pc = "query"
    BY <1>17, <1>t, <1>l, GotoEffect DEF ReadLock, SameArgs, Steps
  <2>2. LocksOf(t)' /\ Discipline(t)
    BY <1>17, <1>l, <2>1 DEF ReadLock, LocksOf, OpAt, HoldsSm, HoldsPm, Discipline, Telling,
       Reading, DriverOps
  <2> QED
    BY <1>0, <2>1, <2>2
<1>18. ASSUME NEW t \in Threads, query_found(t) PROVE LockInv'
  <2>1. /\ Others(t) /\ call'[t].op = call[t].op
        /\ call[t].pc = "query" /\ call'[t].pc = "use"
    BY <1>18, <1>t, <1>l, GotoEffect DEF query_found, SameArgs, Steps
  <2>2. LocksOf(t)' /\ Discipline(t)
    BY <1>18, <1>l, <2>1 DEF query_found, LocksOf, OpAt, HoldsSm, HoldsPm, Discipline,
       Telling, Reading, DriverOps
  <2> QED
    BY <1>0, <2>1, <2>2
<1>19. ASSUME NEW t \in Threads,
             \/ notify_blacklisted(t) \/ remove_vlink(t)
      PROVE  LockInv'
  <2>1. /\ Others(t) /\ call'[t].op = call[t].op
        /\ call[t].pc = "events" /\ call'[t].pc = "events"
    BY <1>19, <1>t, <1>l, PopEffect DEF notify_blacklisted, remove_vlink, SameArgs
  <2>2. LocksOf(t)' /\ Discipline(t)
    BY <1>19, <1>l, <2>1 DEF notify_blacklisted, remove_vlink, LocksOf, OpAt, HoldsSm,
       HoldsPm, Discipline, Telling, Reading, DriverOps
  <2> QED
    BY <1>0, <2>1, <2>2
<1>20. ASSUME NEW t \in Threads, notify_begin(t) PROVE LockInv'
  <2>1. /\ Others(t) /\ call'[t].op = call[t].op
        /\ call[t].pc = "events" /\ call'[t].pc \in {"events", "tryrdlock"}
    <3>1. call[t].pc = "events" /\ call[t].events # <<>> /\ (Pop(t) \/ Goto(t, "tryrdlock"))
      BY <1>20 DEF notify_begin
    <3> QED
      BY <1>t, <3>1, PopEffect, GotoEffect DEF SameArgs, Steps
  <2>2. LocksOf(t)' /\ Discipline(t)
    BY <1>20, <1>l, <2>1 DEF notify_begin, LocksOf, OpAt, HoldsSm, HoldsPm, Discipline, Telling, Reading, DriverOps
  <2> QED
    BY <1>0, <2>1, <2>2
<1>21. ASSUME NEW t \in Threads, notify_tryrdlock(t) PROVE LockInv'
  <2>1. /\ Others(t) /\ call'[t].op = call[t].op
        /\ call[t].pc = "tryrdlock" /\ call'[t].pc = "lookup"
    BY <1>21, <1>t, <1>l, GotoEffect DEF notify_tryrdlock, SameArgs, Steps
  <2>2. LocksOf(t)' /\ Discipline(t)
    BY <1>21, <1>l, <2>1 DEF notify_tryrdlock, LocksOf, OpAt, HoldsSm, HoldsPm, Discipline,
       Telling, Reading, DriverOps
  <2> QED
    BY <1>0, <2>1, <2>2
<1>22. ASSUME NEW t \in Threads, notify_give_up(t) PROVE LockInv'
  <2>1. /\ Others(t) /\ call'[t].op = call[t].op
        /\ call[t].pc = "tryrdlock" /\ call'[t].pc = "events"
    BY <1>22, <1>t, <1>l, PopEffect DEF notify_give_up, SameArgs
  <2>2. LocksOf(t)' /\ Discipline(t)
    BY <1>22, <1>l, <2>1 DEF notify_give_up, LocksOf, OpAt, HoldsSm, HoldsPm, Discipline,
       Telling, Reading, DriverOps
  <2> QED
    BY <1>0, <2>1, <2>2
<1>23. ASSUME NEW t \in Threads, notify_lookup(t) PROVE LockInv'
  <2>1. /\ Others(t) /\ call'[t].op = call[t].op /\ call[t].pc = "lookup"
        /\ \/ call'[t].pc = "notify" /\ readers' = readers
           \/ call'[t].pc = "events" /\ readers' = readers \ {t}
    <3>1. /\ call[t].pc = "lookup" /\ call[t].events # <<>>
          /\ \/ Goto(t, "notify") /\ readers' = readers
             \/ Pop(t) /\ readers' = readers \ {t}
      BY <1>23, <1>l DEF notify_lookup
    <3> QED
      BY <1>t, <3>1, PopEffect, GotoEffect DEF SameArgs, Steps
  <2>2. UNCHANGED <<smMutex, pmMutex, writer, leaked>>
    BY <1>23 DEF notify_lookup
  <2>3. LocksOf(t)' /\ Discipline(t)
    BY <1>l, <2>1, <2>2 DEF LocksOf, OpAt, HoldsSm, HoldsPm, Discipline, Telling, Reading, DriverOps
  <2> QED
    BY <1>0, <2>1, <2>3
<1>24. ASSUME NEW t \in Threads, notify_send(t) PROVE LockInv'
  <2>1. /\ Others(t) /\ call'[t].op = call[t].op
        /\ call[t].pc = "notify" /\ call'[t].pc = "events"
    BY <1>24, <1>t, <1>l, PopEffect DEF notify_send, SameArgs
  <2>2. LocksOf(t)' /\ Discipline(t)
    BY <1>24, <1>l, <2>1 DEF notify_send, LocksOf, OpAt, HoldsSm, HoldsPm, Discipline,
       Telling, Reading, DriverOps
  <2> QED
    BY <1>0, <2>1, <2>2
<1>25. ASSUME NEW t \in Threads, events_done(t) PROVE LockInv'
  <2>1. /\ call[t].pc = "events"
        /\ \/ call[t].op \in DriverOps /\ Finish(t, "returned") /\ pmMutex' = pmMutex
           \/ call[t].op = "connect" /\ Goto(t, "cache") /\ pmMutex' = pmMutex
           \/ call[t].op = "destroy" /\ Goto(t, "loop") /\ pmMutex' = None
           \/ call[t].op \notin DriverOps \cup {"connect", "destroy"}
              /\ Finish(t, "returned") /\ pmMutex' = None
    BY <1>25, Zenon DEF events_done
  <2>2. UNCHANGED <<smMutex, writer, readers, leaked>>
    BY <1>25 DEF events_done
  <2>3. CASE Finish(t, "returned")
    <3>1. Others(t) /\ call'[t].pc = "idle" /\ call'[t].op \in Outcomes
      BY <1>t, <2>3, FinishEffect DEF Outcomes
    <3>2. call[t].op # "destroy" /\ (call[t].op \in DriverOps \/ pmMutex' = None)
          /\ (call[t].op \in DriverOps => pmMutex' = pmMutex)
      <4>1. ASSUME Goto(t, "cache") \/ Goto(t, "loop") PROVE FALSE
        <5>1. call'[t].pc \in {"cache", "loop"}
          BY <1>t, <4>1, GotoEffect DEF Steps
        <5> QED
          BY <3>1, <5>1
      <4> QED
        BY <2>1, <4>1 DEF DriverOps
    <3>3. LocksOf(t)' /\ Discipline(t)
      BY <1>l, <2>1, <2>2, <3>1, <3>2 DEF LocksOf, OpAt, HoldsSm, HoldsPm, Discipline, Telling, Reading, DriverOps, Outcomes
    <3> QED
      BY <1>0, <3>1, <3>3
  <2>4. ASSUME NEW step \in {"cache", "loop"}, Goto(t, step),
               \/ step = "cache" /\ call[t].op = "connect" /\ pmMutex' = pmMutex
               \/ step = "loop" /\ call[t].op = "destroy" /\ pmMutex' = None
        PROVE  LockInv'
    <3>1. Others(t) /\ call'[t].pc = step /\ call'[t].op = call[t].op
      BY <1>t, <2>4, GotoEffect DEF Steps, SameArgs
    <3>2. LocksOf(t)' /\ Discipline(t)
      BY <1>l, <2>1, <2>2, <2>4, <3>1 DEF LocksOf, OpAt, HoldsSm, HoldsPm, Discipline, Telling, Reading, DriverOps
    <3> QED
      BY <1>0, <3>1, <3>2
  <2> QED
    BY <2>1, <2>3, <2>4
<1>26. ASSUME NEW t \in Threads,
             \/ LockPm(t, "attach_lock", "exists") \/ LockPm(t, "detach_lock", "detach") \/
                LockPm(t, "connect_lock", "connect_exists") \/ LockPm(t, "bring_lock",
                "bring") \/ LockPm(t, "blacklist_lock", "blacklist")
      PROVE  LockInv'
  <2>1. /\ Others(t) /\ call'[t].op = call[t].op
        /\ \/ call[t].pc = "attach_lock" /\ call'[t].pc = "exists"
           \/ call[t].pc = "detach_lock" /\ call'[t].pc = "detach"
           \/ call[t].pc = "connect_lock" /\ call'[t].pc = "connect_exists"
           \/ call[t].pc = "bring_lock" /\ call'[t].pc = "bring"
           \/ call[t].pc = "blacklist_lock" /\ call'[t].pc = "blacklist"
    BY <1>26, <1>t, <1>l, GotoEffect DEF LockPm, SameArgs, Steps
  <2>2. LocksOf(t)' /\ Discipline(t)
    BY <1>26, <1>l, <2>1 DEF LockPm, LocksOf, OpAt, HoldsSm, HoldsPm, Discipline, Telling,
       Reading, DriverOps
  <2> QED
    BY <1>0, <2>1, <2>2
<1>27. ASSUME NEW t \in Threads, check_blacklisted(t) PROVE LockInv'
  <2>1. /\ call[t].pc \in {"attach_check", "bring_check"}
        /\ \/ Finish(t, "threw") /\ pmMutex' = pmMutex
           \/ Finish(t, "returned") /\ pmMutex' = pmMutex
           \/ call[t].pc = "attach_check" /\ Goto(t, "attach_lock") /\ pmMutex' = pmMutex
           \/ call[t].pc = "bring_check" /\ Goto(t, "bring_lock") /\ pmMutex' = pmMutex
        /\ UNCHANGED <<smMutex, writer, readers, leaked>>
    BY <1>27 DEF check_blacklisted
  <2>2. CASE Finish(t, "threw") \/ Finish(t, "returned")
    <3>1. Others(t) /\ call'[t].pc = "idle" /\ call'[t].op \in Outcomes
      BY <1>t, <2>2, FinishEffect DEF Outcomes
    <3>2. pmMutex' = pmMutex
      BY <2>1
    <3>3. LocksOf(t)' /\ Discipline(t)
      BY <1>l, <2>1, <3>1, <3>2 DEF LocksOf, OpAt, HoldsSm, HoldsPm, Discipline, Telling, Reading, DriverOps, Outcomes
    <3> QED
      BY <1>0, <3>1, <3>3
  <2>3. CASE call[t].pc = "attach_check" /\ Goto(t, "attach_lock") /\ pmMutex' = pmMutex
    <3>1. Others(t) /\ call'[t].pc = "attach_lock" /\ call'[t].op = call[t].op
      BY <1>t, <2>3, GotoEffect DEF Steps, SameArgs
    <3>2. LocksOf(t)' /\ Discipline(t)
      BY <1>l, <2>1, <2>3, <3>1 DEF LocksOf, OpAt, HoldsSm, HoldsPm, Discipline, Telling, Reading, DriverOps
    <3> QED
      BY <1>0, <3>1, <3>2
  <2>4. CASE call[t].pc = "bring_check" /\ Goto(t, "bring_lock") /\ pmMutex' = pmMutex
    <3>1. Others(t) /\ call'[t].pc = "bring_lock" /\ call'[t].op = call[t].op
      BY <1>t, <2>4, GotoEffect DEF Steps, SameArgs
    <3>2. LocksOf(t)' /\ Discipline(t)
      BY <1>l, <2>1, <2>4, <3>1 DEF LocksOf, OpAt, HoldsSm, HoldsPm, Discipline, Telling, Reading, DriverOps
    <3> QED
      BY <1>0, <3>1, <3>2
  <2> QED
    BY <2>1, <2>2, <2>3, <2>4
<1>28. ASSUME NEW t \in Threads, attach_exists(t) PROVE LockInv'
  <2>1. /\ call[t].pc \in {"exists"}
        /\ \/ Finish(t, "threw") /\ pmMutex' = None
           \/ call[t].pc = "exists" /\ Goto(t, "attach") /\ pmMutex' = pmMutex
        /\ UNCHANGED <<smMutex, writer, readers, leaked>>
    BY <1>28 DEF attach_exists, ThrowPm
  <2>2. CASE Finish(t, "threw") \/ Finish(t, "returned")
    <3>1. Others(t) /\ call'[t].pc = "idle" /\ call'[t].op \in Outcomes
      BY <1>t, <2>2, FinishEffect DEF Outcomes
    <3>2. pmMutex' = None
      <4>1. ~Goto(t, "attach")
        BY <1>t, <3>1, GotoEffect DEF Steps
      <4> QED
        BY <2>1, <4>1
    <3>3. LocksOf(t)' /\ Discipline(t)
      BY <1>l, <2>1, <3>1, <3>2 DEF LocksOf, OpAt, HoldsSm, HoldsPm, Discipline, Telling, Reading, DriverOps, Outcomes
    <3> QED
      BY <1>0, <3>1, <3>3
  <2>3. CASE call[t].pc = "exists" /\ Goto(t, "attach") /\ pmMutex' = pmMutex
    <3>1. Others(t) /\ call'[t].pc = "attach" /\ call'[t].op = call[t].op
      BY <1>t, <2>3, GotoEffect DEF Steps, SameArgs
    <3>2. LocksOf(t)' /\ Discipline(t)
      BY <1>l, <2>1, <2>3, <3>1 DEF LocksOf, OpAt, HoldsSm, HoldsPm, Discipline, Telling, Reading, DriverOps
    <3> QED
      BY <1>0, <3>1, <3>2
  <2> QED
    BY <2>1, <2>2, <2>3
<1>29. ASSUME NEW t \in Threads, connect_exists(t) PROVE LockInv'
  <2>1. /\ call[t].pc \in {"connect_exists"}
        /\ \/ Finish(t, "threw") /\ pmMutex' = None
           \/ call[t].pc = "connect_exists" /\ Goto(t, "connect") /\ pmMutex' = pmMutex
        /\ UNCHANGED <<smMutex, writer, readers, leaked>>
    BY <1>29 DEF connect_exists, ThrowPm
  <2>2. CASE Finish(t, "threw") \/ Finish(t, "returned")
    <3>1. Others(t) /\ call'[t].pc = "idle" /\ call'[t].op \in Outcomes
      BY <1>t, <2>2, FinishEffect DEF Outcomes
    <3>2. pmMutex' = None
      <4>1. ~Goto(t, "connect")
        BY <1>t, <3>1, GotoEffect DEF Steps
      <4> QED
        BY <2>1, <4>1
    <3>3. LocksOf(t)' /\ Discipline(t)
      BY <1>l, <2>1, <3>1, <3>2 DEF LocksOf, OpAt, HoldsSm, HoldsPm, Discipline, Telling, Reading, DriverOps, Outcomes
    <3> QED
      BY <1>0, <3>1, <3>3
  <2>3. CASE call[t].pc = "connect_exists" /\ Goto(t, "connect") /\ pmMutex' = pmMutex
    <3>1. Others(t) /\ call'[t].pc = "connect" /\ call'[t].op = call[t].op
      BY <1>t, <2>3, GotoEffect DEF Steps, SameArgs
    <3>2. LocksOf(t)' /\ Discipline(t)
      BY <1>l, <2>1, <2>3, <3>1 DEF LocksOf, OpAt, HoldsSm, HoldsPm, Discipline, Telling, Reading, DriverOps
    <3> QED
      BY <1>0, <3>1, <3>2
  <2> QED
    BY <2>1, <2>2, <2>3
<1>30. ASSUME NEW t \in Threads, check_blacklist(t) PROVE LockInv'
  <2>1. /\ call[t].pc \in {"blacklist_check"}
        /\ \/ Finish(t, "threw") /\ pmMutex' = pmMutex
           \/ Finish(t, "returned") /\ pmMutex' = pmMutex
           \/ call[t].pc = "blacklist_check" /\ Goto(t, "blacklist_lock") /\ pmMutex' = pmMutex
        /\ UNCHANGED <<smMutex, writer, readers, leaked>>
    BY <1>30 DEF check_blacklist
  <2>2. CASE Finish(t, "threw") \/ Finish(t, "returned")
    <3>1. Others(t) /\ call'[t].pc = "idle" /\ call'[t].op \in Outcomes
      BY <1>t, <2>2, FinishEffect DEF Outcomes
    <3>2. pmMutex' = pmMutex
      BY <2>1
    <3>3. LocksOf(t)' /\ Discipline(t)
      BY <1>l, <2>1, <3>1, <3>2 DEF LocksOf, OpAt, HoldsSm, HoldsPm, Discipline, Telling, Reading, DriverOps, Outcomes
    <3> QED
      BY <1>0, <3>1, <3>3
  <2>3. CASE call[t].pc = "blacklist_check" /\ Goto(t, "blacklist_lock") /\ pmMutex' = pmMutex
    <3>1. Others(t) /\ call'[t].pc = "blacklist_lock" /\ call'[t].op = call[t].op
      BY <1>t, <2>3, GotoEffect DEF Steps, SameArgs
    <3>2. LocksOf(t)' /\ Discipline(t)
      BY <1>l, <2>1, <2>3, <3>1 DEF LocksOf, OpAt, HoldsSm, HoldsPm, Discipline, Telling, Reading, DriverOps
    <3> QED
      BY <1>0, <3>1, <3>2
  <2> QED
    BY <2>1, <2>2, <2>3
<1>31. ASSUME NEW t \in Threads, check_whitelist(t) PROVE LockInv'
  <2>1. /\ call[t].pc \in {"whitelist_check"}
        /\ \/ Finish(t, "threw") /\ pmMutex' = pmMutex
           \/ Finish(t, "returned") /\ pmMutex' = pmMutex
           \/ call[t].pc = "whitelist_check" /\ Goto(t, "whitelist_lock") /\ pmMutex' = pmMutex
        /\ UNCHANGED <<smMutex, writer, readers, leaked>>
    BY <1>31 DEF check_whitelist
  <2>2. CASE Finish(t, "threw") \/ Finish(t, "returned")
    <3>1. Others(t) /\ call'[t].pc = "idle" /\ call'[t].op \in Outcomes
      BY <1>t, <2>2, FinishEffect DEF Outcomes
    <3>2. pmMutex' = pmMutex
      BY <2>1
    <3>3. LocksOf(t)' /\ Discipline(t)
      BY <1>l, <2>1, <3>1, <3>2 DEF LocksOf, OpAt, HoldsSm, HoldsPm, Discipline, Telling, Reading, DriverOps, Outcomes
    <3> QED
      BY <1>0, <3>1, <3>3
  <2>3. CASE call[t].pc = "whitelist_check" /\ Goto(t, "whitelist_lock") /\ pmMutex' = pmMutex
    <3>1. Others(t) /\ call'[t].pc = "whitelist_lock" /\ call'[t].op = call[t].op
      BY <1>t, <2>3, GotoEffect DEF Steps, SameArgs
    <3>2. LocksOf(t)' /\ Discipline(t)
      BY <1>l, <2>1, <2>3, <3>1 DEF LocksOf, OpAt, HoldsSm, HoldsPm, Discipline, Telling, Reading, DriverOps
    <3> QED
      BY <1>0, <3>1, <3>2
  <2> QED
    BY <2>1, <2>2, <2>3
<1>32. ASSUME NEW t \in Threads, blacklist_throws(t) PROVE LockInv'
  <2>1. Others(t) /\ call'[t].pc = "idle" /\ call'[t].op \in Outcomes
    BY <1>32, <1>t, FinishEffect DEF blacklist_throws, Outcomes
  <2>2. LocksOf(t)' /\ Discipline(t)
    BY <1>32, <1>l, <2>1 DEF blacklist_throws, LocksOf, OpAt, HoldsSm, HoldsPm, Discipline,
       Telling, Reading, DriverOps, Outcomes
  <2> QED
    BY <1>0, <2>1, <2>2
<1>33. ASSUME NEW t \in Threads,
             \/ blacklist(t) \/ add_vlink(t)
      PROVE  LockInv'
  <2>1. Others(t) /\ call'[t].pc = "idle" /\ call'[t].op \in Outcomes
    BY <1>33, <1>t, FinishEffect DEF blacklist, add_vlink, Outcomes
  <2>2. LocksOf(t)' /\ Discipline(t)
    BY <1>33, <1>l, <2>1 DEF blacklist, add_vlink, LocksOf, OpAt, HoldsSm, HoldsPm,
       Discipline, Telling, Reading, DriverOps, Outcomes
  <2> QED
    BY <1>0, <2>1, <2>2
<1>34. ASSUME NEW t \in Threads, whitelist(t) PROVE LockInv'
  <2>1. Others(t) /\ call'[t].pc = "idle" /\ call'[t].op \in Outcomes
    BY <1>34, <1>t, FinishEffect DEF whitelist, Outcomes
  <2>2. LocksOf(t)' /\ Discipline(t)
    BY <1>34, <1>l, <2>1 DEF whitelist, LocksOf, OpAt, HoldsSm, HoldsPm, Discipline,
       Telling, Reading, DriverOps, Outcomes
  <2> QED
    BY <1>0, <2>1, <2>2
<1>35. ASSUME NEW t \in Threads, detach_throws(t) PROVE LockInv'
  <2>1. Others(t) /\ call'[t].pc = "idle" /\ call'[t].op \in Outcomes
    BY <1>35, <1>t, FinishEffect DEF detach_throws, Outcomes, DetachFails
  <2>2. LocksOf(t)' /\ Discipline(t)
    BY <1>35, <1>l, <2>1 DEF detach_throws, DetachFails, LocksOf, OpAt, HoldsSm, HoldsPm,
       Discipline, Telling, Reading, DriverOps, Outcomes
  <2> QED
    BY <1>0, <2>1, <2>2
<1>36. ASSUME NEW t \in Threads, detach_pair_unattached(t) PROVE LockInv'
  <2>1. Others(t) /\ call'[t].pc = "idle" /\ call'[t].op \in Outcomes
    BY <1>36, <1>t, FinishEffect DEF detach_pair_unattached, Outcomes, DetachFails
  <2>2. LocksOf(t)' /\ Discipline(t)
    BY <1>36, <1>l, <2>1 DEF detach_pair_unattached, DetachFails, LocksOf, OpAt, HoldsSm,
       HoldsPm, Discipline, Telling, Reading, DriverOps, Outcomes
  <2> QED
    BY <1>0, <2>1, <2>2
<1>37. ASSUME NEW t \in Threads, attach_port_to_switch(t) PROVE LockInv'
  <2>1. CASE ThrowPm(t)
    <3>1. /\ Others(t) /\ call'[t].pc = "idle" /\ call'[t].op \in Outcomes
          /\ call[t].pc = "attach" /\ pmMutex' = None
          /\ UNCHANGED <<smMutex, writer, readers, leaked>>
      BY <1>37, <1>t, <2>1, FinishEffect DEF ThrowPm, Outcomes, attach_port_to_switch
    <3>2. LocksOf(t)' /\ Discipline(t)
      BY <1>l, <3>1 DEF LocksOf, OpAt, HoldsSm, HoldsPm, Discipline, Telling, Reading, DriverOps, Outcomes
    <3> QED
      BY <1>0, <3>1, <3>2
  <2>2. CASE ~ThrowPm(t)
    <3>1. PICK es : call' = [call EXCEPT ![t].pc = "events", ![t].events = es]
      BY <1>37, <2>2 DEF attach_port_to_switch
    <3>2. call[t] \in CallType /\ call[t].pc = "attach"
      BY <1>37, <1>t DEF TypeOK, attach_port_to_switch
    <3>3. Others(t) /\ call'[t].pc = "events" /\ call'[t].op = call[t].op
      BY <1>t, <3>1, <3>2 DEF TypeOK, CallType, Others
    <3>4. UNCHANGED locks /\ UNCHANGED leaked
      BY <1>37, <2>2 DEF attach_port_to_switch
    <3>5. LocksOf(t)' /\ Discipline(t)
      BY <1>l, <3>2, <3>3, <3>4 DEF LocksOf, OpAt, HoldsSm, HoldsPm, Discipline, Telling, Reading, DriverOps
    <3> QED
      BY <1>0, <3>3, <3>5
  <2> QED
    BY <2>1, <2>2
<1>38. ASSUME NEW t \in Threads, bring(t) PROVE LockInv'
  <2>1. CASE ThrowPm(t)
    <3>1. /\ Others(t) /\ call'[t].pc = "idle" /\ call'[t].op \in Outcomes
          /\ call[t].pc = "bring" /\ pmMutex' = None
          /\ UNCHANGED <<smMutex, writer, readers, leaked>>
      BY <1>38, <1>t, <2>1, FinishEffect DEF ThrowPm, Outcomes, bring
    <3>2. LocksOf(t)' /\ Discipline(t)
      BY <1>l, <3>1 DEF LocksOf, OpAt, HoldsSm, HoldsPm, Discipline, Telling, Reading, DriverOps, Outcomes
    <3> QED
      BY <1>0, <3>1, <3>2
  <2>2. CASE ~ThrowPm(t)
    <3>1. PICK es : call' = [call EXCEPT ![t].pc = "events", ![t].events = es]
      BY <1>38, <2>2 DEF bring
    <3>2. call[t] \in CallType /\ call[t].pc = "bring"
      BY <1>38, <1>t DEF TypeOK, bring
    <3>3. Others(t) /\ call'[t].pc = "events" /\ call'[t].op = call[t].op
      BY <1>t, <3>1, <3>2 DEF TypeOK, CallType, Others
    <3>4. UNCHANGED locks /\ UNCHANGED leaked
      BY <1>38, <2>2 DEF bring
    <3>5. LocksOf(t)' /\ Discipline(t)
      BY <1>l, <3>2, <3>3, <3>4 DEF LocksOf, OpAt, HoldsSm, HoldsPm, Discipline, Telling, Reading, DriverOps
    <3> QED
      BY <1>0, <3>3, <3>5
  <2> QED
    BY <2>1, <2>2
<1>39. ASSUME NEW t \in Threads, connect_switches(t) PROVE LockInv'
  <2>1. CASE ThrowPm(t)
    <3>1. /\ Others(t) /\ call'[t].pc = "idle" /\ call'[t].op \in Outcomes
          /\ call[t].pc = "connect" /\ pmMutex' = None
          /\ UNCHANGED <<smMutex, writer, readers, leaked>>
      BY <1>39, <1>t, <2>1, FinishEffect DEF ThrowPm, Outcomes, connect_switches
    <3>2. LocksOf(t)' /\ Discipline(t)
      BY <1>l, <3>1 DEF LocksOf, OpAt, HoldsSm, HoldsPm, Discipline, Telling, Reading, DriverOps, Outcomes
    <3> QED
      BY <1>0, <3>1, <3>2
  <2>2. CASE ~ThrowPm(t)
    <3>1. PICK es : call' = [call EXCEPT ![t].pc = "events", ![t].p = 2 * links + 1, ![t].events = es]
      BY <1>39, <2>2 DEF connect_switches
    <3>2. call[t] \in CallType /\ call[t].pc = "connect"
      BY <1>39, <1>t DEF TypeOK, connect_switches
    <3>3. Others(t) /\ call'[t].pc = "events" /\ call'[t].op = call[t].op
      BY <1>t, <3>1, <3>2 DEF TypeOK, CallType, Others
    <3>4. UNCHANGED locks /\ UNCHANGED leaked
      BY <1>39, <2>2 DEF connect_switches
    <3>5. LocksOf(t)' /\ Discipline(t)
      BY <1>l, <3>2, <3>3, <3>4 DEF LocksOf, OpAt, HoldsSm, HoldsPm, Discipline, Telling, Reading, DriverOps
    <3> QED
      BY <1>0, <3>3, <3>5
  <2> QED
    BY <2>1, <2>2
<1>40. ASSUME NEW t \in Threads, detach_port_from_switch(t) PROVE LockInv'
  <2>1. PICK es : call' = [call EXCEPT ![t].pc = "events", ![t].events = es]
    BY <1>40 DEF detach_port_from_switch
  <2>2. call[t] \in CallType /\ call[t].pc = "detach"
    BY <1>40, <1>t DEF TypeOK, detach_port_from_switch
  <2>3. Others(t) /\ call'[t].pc = "events" /\ call'[t].op = call[t].op
    BY <1>t, <2>1, <2>2 DEF TypeOK, CallType, Others
  <2>4. LocksOf(t)' /\ Discipline(t)
    BY <1>40, <1>l, <2>2, <2>3 DEF detach_port_from_switch, LocksOf, OpAt, HoldsSm, HoldsPm, Discipline, Telling, Reading, DriverOps
  <2> QED
    BY <1>0, <2>3, <2>4
<1>41. CASE UNCHANGED vars
  BY <1>41 DEF vars, LockInv, LocksOf, HoldsSm, HoldsPm
<1> QED
  BY <1>1, <1>2, <1>3, <1>4, <1>5, <1>6, <1>7, <1>8, <1>9, <1>10, <1>11, <1>12, <1>13,
     <1>14, <1>15, <1>16, <1>17, <1>18, <1>19, <1>20, <1>21, <1>22, <1>23, <1>24, <1>25,
     <1>26, <1>27, <1>28, <1>29, <1>30, <1>31, <1>32, <1>33, <1>34, <1>35, <1>36, <1>37,
     <1>38, <1>39, <1>40, <1>41 DEF Next, Step, SwitchManager, Notification, PortManager,
     Threads

\* Nobody holds a lock initially.
LEMMA LockInvInit == Init => LockInv
<1> SUFFICES ASSUME Init PROVE LockInv
  OBVIOUS
<1>1. \A t \in Threads : call[t].pc = "idle"
  BY DEF Init, Idle, InCall
<1>2. smMutex = None /\ pmMutex = None /\ writer = None /\ readers = {}
  BY DEF Init
<1> QED
  BY <1>1, <1>2, ThreadsAssumption
  DEF LockInv, LocksOf, HoldsSm, HoldsPm, Telling, Reading, Threads

\* switch_manager, port_manager and the CMM: every call returns holding no lock, on
\* every path but the two that leave their mutex locked.
THEOREM LocksAlwaysReleased == Spec => []LocksReleased
<1>1. LockInv => LocksReleased
  BY DEF LockInv, LocksOf, LocksReleased, HoldsSm, HoldsPm, Telling, Reading, At
<1>2. TypeInv /\ LockInv /\ [Next]_vars => TypeInv' /\ LockInv'
  BY TypeInvNext, LockInvNext
<1> QED
  BY <1>1, <1>2, TypeInvInit, LockInvInit, PTL DEF Spec

-----------------------------------------------------------------------------
(* The steps by what they do to the managers and the driver *)

\* The managers and the driver stay as they are.
Calm == UNCHANGED <<lsis, ports, attached, links, switchs, objects, vlinks, blacklisted,
                    under, told, doomed, unheard>>

\* A call begins, with nothing to tell.
Begins(t) ==
    /\ call[t].pc = "idle" /\ call'[t].events = <<>>
    /\ call'[t].pc \in {"create_lock", "destroy_lock", "attach_check", "detach_lock",
                        "connect_lock", "bring_check", "wrlock", "rdlock",
                        "blacklist_check", "whitelist_check"}
    /\ call'[t].op = "destroy" => call'[t].pc = "destroy_lock"

\* The status of a port, or a packet, is to be told.
Reports(t) ==
    /\ call[t].pc \in {"idle", "bring"} /\ call'[t].pc = "events"
    /\ call'[t].op \in DriverOps \cup {"bring"}
    /\ \A e \in Pending(t)' : e.kind \in Passing

\* A call ends with everything told.
Ends(t) ==
    /\ call'[t].pc = "idle" /\ call'[t].op \in Outcomes
    /\ call[t].events = <<>> /\ call'[t].events = <<>>
    /\ ~Connecting(t)

\* A call goes on; what it looks up in the map is there.
Moves(t) ==
    /\ SameArgs(t) /\ call'[t].events = call[t].events
    /\ call'[t].pc \notin {"insert", "delete"}
    /\ call'[t].pc \in {"use", "attach"} => call[t].d \in switchs
    /\ call'[t].pc = "connect" => {call[t].d, call[t].e} \subseteq switchs
    /\ call'[t].pc = "notify" => Head(call[t].events).d \in switchs
    /\ call'[t].pc \in Telling => call[t].pc \in Telling \ {"events"} /\ call'[t].pc # "events"
    /\ call[t].pc \in Telling \cup {"cache"} =>
          call'[t].p = call[t].p /\ (Connecting(t)' <=> Connecting(t))
    /\ Connecting(t)' => Connecting(t)
    /\ call[t].pc \in {"destroy_lock", "destroy"} => call'[t].pc \in {"destroy_lock", "destroy"}

\* A thread drops an event for an LSI that is being destroyed or has left the map.
Drops(t) ==
    /\ call[t].pc \in {"tryrdlock", "lookup"} /\ call'[t].pc = "events"
    /\ SameArgs(t) /\ call'[t].p = call[t].p
    /\ call[t].events # <<>> /\ call'[t].events = Tail(call[t].events)
    /\ Head(call[t].events).d = under \/ Head(call[t].events).d \notin switchs

\* The steps that change the managers or the driver.
Acts(t) ==
    \/ create_construct(t) \/ create_insert(t)
    \/ destroy_snapshot(t) \/ destroy_erase(t) \/ destroy_delete(t) \/ destroy_reset(t)
    \/ notify_blacklisted(t) \/ notify_begin(t) \/ notify_send(t) \/ remove_vlink(t)
    \/ attach_port_to_switch(t) /\ ~ThrowPm(t)
    \/ connect_switches(t) /\ ~ThrowPm(t)
    \/ detach_pair_unattached(t) \/ detach_port_from_switch(t)
    \/ add_vlink(t) \/ blacklist(t) \/ whitelist(t)

QuietStep(t) ==
    /\ Calm /\ Others(t)
    /\ Begins(t) \/ Reports(t) \/ Ends(t) \/ Moves(t) \/ Drops(t)

\* Every step is a quiet one or one of these.
LEMMA StepKinds ==
    ASSUME TypeInv, [Next]_vars
    PROVE  UNCHANGED vars \/ \E t \in Threads : QuietStep(t) \/ Acts(t)
<1>t. TypeOK
  BY DEF TypeInv
<1>a. ASSUME NEW t \in Threads PROVE OpAt(t) /\ ArgsOf(t)
  BY DEF TypeInv
<1> USE DEF driverState, mgrState, locks, history, At
<1> DEFINE Goal == \E t \in Threads : QuietStep(t) \/ Acts(t)
<1>q. ASSUME NEW t \in Threads, Calm, Others(t),
             Begins(t) \/ Reports(t) \/ Ends(t) \/ Moves(t) \/ Drops(t)
      PROVE  Goal
  BY <1>q DEF QuietStep
<1>c. ASSUME NEW t \in Threads, Acts(t) PROVE Goal
  BY <1>c
<1> HIDE DEF Goal
<1>f. ASSUME NEW t \in Threads, NEW how \in Outcomes, Finish(t, how), Calm,
             call[t].events = <<>>, ~Connecting(t)
      PROVE  Goal
  <2>1. Others(t) /\ call'[t].pc = "idle" /\ call'[t].op \in Outcomes /\ call'[t].events = <<>>
    BY <1>f, <1>t, FinishEffect
  <2>2. Ends(t)
    BY <1>f, <2>1 DEF Ends
  <2> QED
    BY <1>f, <1>q, <2>1, <2>2
<1>0. ASSUME NEW t \in Threads, ThrowPm(t),
             call[t].pc \in {"exists", "attach", "connect_exists", "connect", "bring"}
      PROVE  Goal
  <2>1. Finish(t, "threw") /\ Calm /\ "threw" \in Outcomes
    BY <1>0 DEF ThrowPm, Calm, Outcomes
  <2>2. call[t].events = <<>> /\ ~Connecting(t)
    BY <1>0, <1>a DEF ArgsOf, Connecting, Telling
  <2> QED
    BY <1>f, <2>1, <2>2
<1>1. ASSUME NEW t \in Plugins, Call(t) PROVE Goal
  <2>1. PICK op \in PluginOps, d \in Dpids \cup {0}, e \in Dpids \cup {0},
             p \in Ports \cup {None} : Begin(t, op, d, e, p) /\ Passed(op, d, e, p)
    BY <1>1, CallBegins
  <2>2. t \in Threads
    BY <1>1 DEF Threads
  <2>3. /\ Others(t) /\ call[t].pc = "idle" /\ call'[t].pc = FirstStep[op] /\ call'[t].op = op
        /\ call'[t].events = <<>>
        /\ UNCHANGED <<driverState, mgrState, locks, history>>
    BY <1>t, <2>1, <2>2, BeginEffect, ZenonT(30)
  <2>4. Begins(t)
    BY <2>3 DEF Begins, FirstStep, PluginOps
  <2>5. Calm
    BY <2>3 DEF Calm
  <2> QED
    BY <1>q, <2>2, <2>3, <2>4, <2>5
<1>2. ASSUME NEW t \in Drivers, NEW p \in Ports, hal_cmm_notify_port_status_changed(t, p)
      PROVE  Goal
  <2> DEFINE ev == [kind |-> "status", d |-> attached[p], p |-> p]
  <2>1. attached[p] \in Dpids \cup {0} /\ ev \in Event /\ t \in Threads /\ ev.kind \in Passing
    BY <1>2, <1>t DEF TypeOK, Event, CmmKinds, Threads, Passing
  <2>2. Tell(t, "status", attached[p], p, <<ev>>) /\ "status" \in DriverOps
    BY <1>2 DEF hal_cmm_notify_port_status_changed, DriverOps
  <2> HIDE DEF ev
  <2>3. /\ Others(t) /\ call'[t].events = <<ev>>
        /\ call'[t].pc = "events" /\ call'[t].op = "status"
    BY <1>t, <2>1, <2>2, TellEffect
  <2>4. call[t].pc = "idle" /\ Calm
    BY <1>2 DEF hal_cmm_notify_port_status_changed, Calm
  <2>5. Reports(t)
    BY <2>1, <2>3, <2>4 DEF Reports, Pending, DriverOps
  <2> QED
    BY <1>q, <2>1, <2>3, <2>4, <2>5
<1>3. ASSUME NEW t \in Drivers, NEW d \in Dpids, hal_cmm_process_of1x(t, d) PROVE Goal
  <2> DEFINE ev == [kind |-> "process", d |-> d, p |-> None]
  <2>1. ev \in Event /\ t \in Threads /\ ev.kind \in Passing
    BY <1>3 DEF Event, CmmKinds, Threads, Passing
  <2>2. Tell(t, "packet_in", d, None, <<ev>>) /\ "packet_in" \in DriverOps
    BY <1>3 DEF hal_cmm_process_of1x, DriverOps
  <2> HIDE DEF ev
  <2>3. /\ Others(t) /\ call'[t].events = <<ev>>
        /\ call'[t].pc = "events" /\ call'[t].op = "packet_in"
    BY <1>t, <2>1, <2>2, TellEffect
  <2>4. call[t].pc = "idle" /\ Calm
    BY <1>3 DEF hal_cmm_process_of1x, Calm
  <2>5. Reports(t)
    BY <2>1, <2>3, <2>4 DEF Reports, Pending, DriverOps
  <2> QED
    BY <1>q, <2>1, <2>3, <2>4, <2>5
<1>4. ASSUME NEW t \in Threads, NEW from \in Steps, NEW to \in Steps, Goto(t, to), Calm,
             call[t].pc = from,
             \/ <<from, to>> \in {<<"create_lock", "create">>, <<"destroy_lock", "destroy">>,
                   <<"loop", "erase">>, <<"wrlock", "configure">>, <<"rdlock", "query">>,
                   <<"tryrdlock", "lookup">>, <<"attach_lock", "exists">>,
                   <<"detach_lock", "detach">>, <<"connect_lock", "connect_exists">>,
                   <<"bring_lock", "bring">>, <<"blacklist_lock", "blacklist">>,
                   <<"attach_check", "attach_lock">>, <<"bring_check", "bring_lock">>,
                   <<"blacklist_check", "blacklist_lock">>,
                   <<"whitelist_check", "whitelist_lock">>}
             \/ <<from, to>> \in {<<"query", "use">>, <<"exists", "attach">>}
                /\ call[t].d \in switchs
             \/ <<from, to>> = <<"connect_exists", "connect">>
                /\ {call[t].d, call[t].e} \subseteq switchs
             \/ <<from, to>> = <<"lookup", "notify">> /\ Head(call[t].events).d \in switchs
             \/ <<from, to>> = <<"events", "cache">> /\ call[t].op = "connect"
             \/ <<from, to>> = <<"events", "loop">> /\ call[t].op = "destroy"
      PROVE  Goal
  <2>1. /\ Others(t) /\ SameArgs(t) /\ call'[t].pc = to
        /\ call'[t].p = call[t].p /\ call'[t].events = call[t].events
    BY <1>4, <1>t, GotoEffect
  <2>2. Connecting(t)' <=> Connecting(t)
    BY <1>4, <1>a, <2>1 DEF Connecting, SameArgs, Telling, OpAt
  <2>3. Moves(t)
    BY <1>4, <2>1, <2>2 DEF Moves, Telling
  <2> QED
    BY <1>4, <1>q, <2>1, <2>3
<1>5. ASSUME NEW t \in Threads,
             \/ LockSm(t, "create_lock", "create") \/ LockSm(t, "destroy_lock", "destroy")
             \/ LockPm(t, "attach_lock", "exists") \/ LockPm(t, "detach_lock", "detach")
             \/ LockPm(t, "connect_lock", "connect_exists") \/ LockPm(t, "bring_lock", "bring")
             \/ LockPm(t, "blacklist_lock", "blacklist")
      PROVE  Goal
  <2>1. Calm
    BY <1>5 DEF LockSm, LockPm, Calm
  <2> QED
    BY <1>4, <1>5, <2>1 DEF LockSm, LockPm, Steps
<1>6. ASSUME NEW t \in Threads,
             \/ destroy_detached(t) \/ WriteLock(t) \/ ReadLock(t) \/ query_found(t)
             \/ notify_tryrdlock(t)
      PROVE  Goal
  <2>1. Calm
    BY <1>6 DEF destroy_detached, WriteLock, ReadLock, query_found, notify_tryrdlock, Calm
  <2> QED
    BY <1>4, <1>6, <2>1
    DEF destroy_detached, WriteLock, ReadLock, query_found, notify_tryrdlock, Steps
<1>7. ASSUME NEW t \in Threads, destroy_detach(t) PROVE Goal
  <2>1. PICK p \in call[t].todo :
            call' = [call EXCEPT ![t].pc = "detach_lock", ![t].p = p, ![t].todo = @ \ {p}]
    BY <1>7 DEF destroy_detach
  <2>2. call[t] \in CallType /\ call[t].pc = "loop" /\ Calm
    BY <1>7, <1>t DEF TypeOK, destroy_detach, Calm
  <2>3. /\ Others(t) /\ SameArgs(t) /\ call'[t].pc = "detach_lock"
        /\ call'[t].events = call[t].events
    BY <1>t, <2>1, <2>2 DEF TypeOK, CallType, Others, SameArgs
  <2>4. Moves(t)
    BY <2>2, <2>3 DEF Moves, Connecting, Telling
  <2> QED
    BY <1>q, <2>2, <2>3, <2>4
<1>8. ASSUME NEW t \in Threads,
             \/ create_refused(t) \/ create_constructor_throws(t) \/ destroy_unknown(t)
             \/ configure(t) \/ query_unknown(t) \/ query_use(t) \/ detach_throws(t)
             \/ blacklist_throws(t)
      PROVE  Goal
  <2>1. Calm /\ call[t].pc \in {"create", "destroy", "configure", "query", "use", "detach", "blacklist"}
    BY <1>8 DEF create_refused, create_constructor_throws, destroy_unknown, configure,
       query_unknown, query_use, detach_throws, blacklist_throws, Calm
  <2>2. call[t].events = <<>> /\ ~Connecting(t)
    BY <1>a, <2>1 DEF ArgsOf, Connecting, Telling
  <2>3. Finish(t, "threw") \/ Finish(t, "returned")
    BY <1>8 DEF create_refused, create_constructor_throws, destroy_unknown, configure,
       query_unknown, query_use, detach_throws, DetachFails, blacklist_throws
  <2> QED
    BY <1>f, <2>1, <2>2, <2>3 DEF Outcomes
<1>9. ASSUME NEW t \in Threads, notify_give_up(t) PROVE Goal
  <2>1. /\ call[t].pc = "tryrdlock" /\ call[t].events # <<>> /\ Pop(t) /\ Calm
        /\ Head(call[t].events).d = under
    BY <1>9, <1>a DEF notify_give_up, ArgsOf, Calm
  <2>2. /\ call'[t].pc = "events" /\ SameArgs(t) /\ Others(t)
        /\ call'[t].p = call[t].p /\ call'[t].events = Tail(call[t].events)
    BY <1>t, <2>1, PopEffect
  <2>3. Drops(t)
    BY <2>1, <2>2 DEF Drops
  <2> QED
    BY <1>q, <2>1, <2>2, <2>3
<1>10. ASSUME NEW t \in Threads, notify_lookup(t) PROVE Goal
  <2>1. call[t].pc = "lookup" /\ call[t].events # <<>> /\ Calm
    BY <1>10, <1>a DEF notify_lookup, ArgsOf, Calm
  <2>2. CASE Head(call[t].events).d \in switchs
    <3>1. Goto(t, "notify")
      BY <1>10, <2>2 DEF notify_lookup
    <3> QED
      BY <1>4, <2>1, <2>2, <3>1 DEF Steps
  <2>3. CASE Head(call[t].events).d \notin switchs
    <3>1. Pop(t)
      BY <1>10, <2>3 DEF notify_lookup
    <3>2. /\ call'[t].pc = "events" /\ SameArgs(t) /\ Others(t)
          /\ call'[t].p = call[t].p /\ call'[t].events = Tail(call[t].events)
      BY <1>t, <2>1, <3>1, PopEffect
    <3>3. Drops(t)
      BY <2>1, <2>3, <3>2 DEF Drops
    <3> QED
      BY <1>q, <2>1, <3>2, <3>3
  <2> QED
    BY <2>2, <2>3
<1>11. ASSUME NEW t \in Threads, events_done(t) PROVE Goal
  <2>1. call[t].pc = "events" /\ call[t].events = <<>> /\ Calm
    BY <1>11 DEF events_done, Calm
  <2>2. \/ call[t].op \in DriverOps /\ Finish(t, "returned")
        \/ call[t].op = "connect" /\ Goto(t, "cache")
        \/ call[t].op = "destroy" /\ Goto(t, "loop")
        \/ call[t].op # "connect" /\ Finish(t, "returned")
    BY <1>11, Zenon DEF events_done
  <2>3. CASE call[t].op # "connect" /\ Finish(t, "returned")
    <3>1. ~Connecting(t) /\ "returned" \in Outcomes
      BY <2>3 DEF Connecting, Outcomes
    <3> QED
      BY <1>f, <2>1, <2>3, <3>1
  <2>4. CASE call[t].op = "connect" /\ Goto(t, "cache")
    BY <1>4, <2>1, <2>4 DEF Steps
  <2>5. CASE call[t].op = "destroy" /\ Goto(t, "loop")
    BY <1>4, <2>1, <2>5 DEF Steps
  <2> QED
    BY <2>2, <2>3, <2>4, <2>5 DEF DriverOps
<1>12. ASSUME NEW t \in Threads,
              check_blacklisted(t) \/ check_blacklist(t) \/ check_whitelist(t)
       PROVE  Goal
  <2>1. /\ Calm
        /\ call[t].pc \in {"attach_check", "bring_check", "blacklist_check", "whitelist_check"}
    BY <1>12 DEF check_blacklisted, check_blacklist, check_whitelist, Calm
  <2>2. call[t].events = <<>> /\ ~Connecting(t)
    BY <1>a, <2>1 DEF ArgsOf, Connecting, Telling
  <2>3. \/ Finish(t, "threw") \/ Finish(t, "returned")
        \/ call[t].pc = "attach_check" /\ Goto(t, "attach_lock")
        \/ call[t].pc = "bring_check" /\ Goto(t, "bring_lock")
        \/ call[t].pc = "blacklist_check" /\ Goto(t, "blacklist_lock")
        \/ call[t].pc = "whitelist_check" /\ Goto(t, "whitelist_lock")
    BY <1>12 DEF check_blacklisted, check_blacklist, check_whitelist
  <2>4. CASE Finish(t, "threw") \/ Finish(t, "returned")
    BY <1>f, <2>1, <2>2, <2>4 DEF Outcomes
  <2> QED
    BY <1>4, <2>1, <2>3, <2>4 DEF Steps
<1>13. ASSUME NEW t \in Threads, attach_exists(t) \/ connect_exists(t) PROVE Goal
  <2>1. CASE ThrowPm(t)
    BY <1>13, <1>0, <2>1 DEF attach_exists, connect_exists
  <2>2. CASE ~ThrowPm(t)
    <3>1. /\ Calm
          /\ \/ call[t].pc = "exists" /\ Goto(t, "attach") /\ call[t].d \in switchs
             \/ call[t].pc = "connect_exists" /\ Goto(t, "connect")
                /\ {call[t].d, call[t].e} \subseteq switchs
      BY <1>13, <2>2 DEF attach_exists, connect_exists, Calm
    <3> QED
      BY <1>4, <3>1 DEF Steps
  <2> QED
    BY <2>1, <2>2
<1>14. ASSUME NEW t \in Threads, bring(t) PROVE Goal
  <2>1. CASE ThrowPm(t)
    BY <1>14, <1>0, <2>1 DEF bring
  <2>2. CASE ~ThrowPm(t)
    <3> DEFINE one == <<[kind |-> "status", d |-> attached[call[t].p], p |-> call[t].p]>>
               es == IF call[t].p \notin Virtual THEN <<>> ELSE one
    <3>1. /\ call' = [call EXCEPT ![t].pc = "events", ![t].events = es]
          /\ Calm /\ call[t].pc = "bring"
      BY <1>14, <2>2 DEF bring, Calm
    <3>2. attached[call[t].p] \in Dpids \cup {0} /\ call[t].p \in Ports /\ call[t].op = "bring"
      BY <1>t, <1>a, <3>1 DEF TypeOK, OpAt, ArgsOf
    <3>3. /\ one \in Seq(Event) /\ <<>> \in Seq(Event)
          /\ Len(one) = 1 /\ one[1].kind \in Passing
      BY <3>2 DEF Event, CmmKinds, Passing
    <3> HIDE DEF one
    <3>4. es \in Seq(Event) /\ \A i \in 1..Len(es) : es[i].kind \in Passing
      <4>1. CASE es = <<>>
        BY <3>3, <4>1
      <4>2. CASE es = one
        BY <3>3, <4>2
      <4> QED
        BY <4>1, <4>2
    <3> HIDE DEF es
    <3>5. /\ Others(t) /\ SameArgs(t) /\ call'[t].pc = "events" /\ call'[t].events = es
      BY <1>t, <3>1, <3>4, EventsEffect
    <3>6. Reports(t)
      BY <3>1, <3>2, <3>4, <3>5 DEF Reports, Pending, SameArgs
    <3> QED
      BY <1>q, <3>1, <3>5, <3>6
  <2> QED
    BY <2>1, <2>2
<1>15. ASSUME NEW t \in Threads, attach_port_to_switch(t) \/ connect_switches(t) PROVE Goal
  <2>1. CASE ThrowPm(t)
    BY <1>15, <1>0, <2>1 DEF attach_port_to_switch, connect_switches
  <2> QED
    BY <1>15, <1>c, <2>1 DEF Acts
<1>16. ASSUME NEW t \in Threads,
              \/ create_construct(t) \/ create_insert(t)
              \/ destroy_snapshot(t) \/ destroy_erase(t) \/ destroy_delete(t) \/ destroy_reset(t)
              \/ notify_blacklisted(t) \/ notify_begin(t) \/ notify_send(t) \/ remove_vlink(t)
              \/ detach_pair_unattached(t) \/ detach_port_from_switch(t)
              \/ add_vlink(t) \/ blacklist(t) \/ whitelist(t)
       PROVE  Goal
  BY <1>16, <1>c DEF Acts
<1>17. UNCHANGED vars \/ Goal
  BY <1>1, <1>2, <1>3, <1>5, <1>6, <1>7, <1>8, <1>9, <1>10, <1>11, <1>12, <1>13, <1>14,
     <1>15, <1>16 DEF Next, Step, SwitchManager, Notification, PortManager
<1> QED
  BY <1>17 DEF Goal

\* The event at the head has been dealt with.
Popped(t) ==
    /\ call[t].pc \in Telling /\ call'[t].pc = "events"
    /\ SameArgs(t) /\ call'[t].p = call[t].p
    /\ call[t].events # <<>> /\ call'[t].events = Tail(call[t].events)
    /\ Head(call[t].events) \in Event

\* The call goes on with something to tell.
Tells(t, p, es) ==
    /\ call'[t].pc = "events" /\ SameArgs(t) /\ call'[t].p = p /\ call'[t].events = es
    /\ es \in Seq(Event)

\* What connect_switches and detach_port_from_switch have to tell.
Added(d, e, v) ==
    <<[kind |-> "added", d |-> d, p |-> v], [kind |-> "added", d |-> e, p |-> v + 1],
      [kind |-> "status", d |-> d, p |-> v], [kind |-> "status", d |-> e, p |-> v + 1]>>

Deleted(d, p, e, q) ==
    <<[kind |-> "deleted", d |-> e, p |-> q], [kind |-> "remove", d |-> 0, p |-> q],
      [kind |-> "deleted", d |-> d, p |-> p]>>

\* What the steps that change the managers or the driver do to the call.
LEMMA ActEffect ==
    ASSUME TypeInv, NEW t \in Threads, Acts(t)
    PROVE  /\ Others(t)
           /\ create_construct(t) =>
                 call[t].pc = "create" /\ call'[t].pc = "insert" /\ SameArgs(t)
                 /\ call'[t].events = call[t].events
           /\ destroy_snapshot(t) =>
                 call[t].pc = "destroy" /\ call'[t].pc = "loop" /\ SameArgs(t)
                 /\ call'[t].events = call[t].events
           /\ destroy_erase(t) =>
                 call[t].pc = "erase" /\ call'[t].pc = "delete" /\ SameArgs(t)
                 /\ call'[t].events = call[t].events
           /\ destroy_delete(t) =>
                 call[t].pc = "delete" /\ call'[t].pc = "reset" /\ SameArgs(t)
                 /\ call'[t].events = call[t].events
           /\ (create_insert(t) \/ destroy_reset(t) \/ detach_pair_unattached(t)
               \/ add_vlink(t) \/ blacklist(t) \/ whitelist(t)) =>
                 call'[t].pc = "idle" /\ call'[t].op \in Outcomes /\ call'[t].events = <<>>
           /\ notify_blacklisted(t) \/ notify_send(t) \/ remove_vlink(t) => Popped(t)
           /\ notify_begin(t) =>
                 \/ Popped(t) /\ Head(call[t].events).d \in {0, under}
                 \/ /\ call[t].pc = "events" /\ call'[t].pc = "tryrdlock" /\ SameArgs(t)
                    /\ call'[t].p = call[t].p /\ call'[t].events = call[t].events
                    /\ call[t].events # <<>> /\ Head(call[t].events) \in Event
           /\ attach_port_to_switch(t) /\ ~ThrowPm(t) =>
                 Tells(t, call[t].p, <<[kind |-> "attached", d |-> call[t].d, p |-> call[t].p]>>)
           /\ connect_switches(t) /\ ~ThrowPm(t) =>
                 Tells(t, 2 * links + 1, Added(call[t].d, call[t].e, 2 * links + 1))
           /\ detach_port_from_switch(t) =>
                 \/ /\ call[t].p \in Virtual
                    /\ Tells(t, call[t].p, Deleted(call[t].d, call[t].p,
                                 attached[Pair(call[t].p)], Pair(call[t].p)))
                 \/ /\ call[t].p \notin Virtual
                    /\ Tells(t, call[t].p, <<[kind |-> "detached", d |-> call[t].d, p |-> call[t].p]>>)
<1>t. TypeOK /\ call[t] \in CallType
  BY DEF TypeInv, TypeOK
<1>a. OpAt(t) /\ ArgsOf(t)
  BY DEF TypeInv
<1> USE DEF At
<1>1. ASSUME create_construct(t)
      PROVE  /\ call[t].pc = "create" /\ call'[t].pc = "insert" /\ SameArgs(t)
             /\ call'[t].events = call[t].events /\ Others(t)
  BY <1>1, <1>t, GotoEffect DEF create_construct, Steps
<1>2. ASSUME destroy_snapshot(t)
      PROVE  /\ call[t].pc = "destroy" /\ call'[t].pc = "loop" /\ SameArgs(t)
             /\ call'[t].events = call[t].events /\ Others(t)
  BY <1>2, <1>t DEF destroy_snapshot, TypeOK, CallType, Others, SameArgs
<1>3. ASSUME destroy_erase(t)
      PROVE  /\ call[t].pc = "erase" /\ call'[t].pc = "delete" /\ SameArgs(t)
             /\ call'[t].events = call[t].events /\ Others(t)
  BY <1>3, <1>t, GotoEffect DEF destroy_erase, Steps
<1>4. ASSUME destroy_delete(t)
      PROVE  /\ call[t].pc = "delete" /\ call'[t].pc = "reset" /\ SameArgs(t)
             /\ call'[t].events = call[t].events /\ Others(t)
  BY <1>4, <1>t, GotoEffect DEF destroy_delete, Steps
<1>5. ASSUME \/ create_insert(t) \/ destroy_reset(t) \/ detach_pair_unattached(t)
             \/ add_vlink(t) \/ blacklist(t) \/ whitelist(t)
      PROVE  /\ call'[t].pc = "idle" /\ call'[t].op \in Outcomes /\ call'[t].events = <<>>
             /\ Others(t)
  <2>1. Finish(t, "returned") \/ Finish(t, "threw")
    BY <1>5 DEF create_insert, destroy_reset, detach_pair_unattached, DetachFails, add_vlink,
       blacklist, whitelist
  <2> QED
    BY <1>t, <2>1, FinishEffect DEF Outcomes
<1>6. ASSUME Pop(t), call[t].events # <<>>, call[t].pc \in Telling PROVE Popped(t) /\ Others(t)
  BY <1>6, <1>t, PopEffect DEF Popped
<1>7. ASSUME notify_blacklisted(t) \/ notify_send(t) \/ remove_vlink(t)
      PROVE  Popped(t) /\ Others(t)
  <2>1. Pop(t) /\ call[t].events # <<>> /\ call[t].pc \in Telling
    BY <1>7, <1>a DEF notify_blacklisted, notify_send, remove_vlink, Telling, ArgsOf
  <2> QED
    BY <1>6, <2>1
<1>8. ASSUME notify_begin(t)
      PROVE  /\ Others(t)
             /\ \/ Popped(t) /\ Head(call[t].events).d \in {0, under}
                \/ /\ call[t].pc = "events" /\ call'[t].pc = "tryrdlock" /\ SameArgs(t)
                   /\ call'[t].p = call[t].p /\ call'[t].events = call[t].events
                   /\ call[t].events # <<>> /\ Head(call[t].events) \in Event
  <2>1. /\ call[t].pc = "events" /\ call[t].events # <<>>
        /\ \/ Pop(t) /\ Head(call[t].events).d \in {0, under}
           \/ Goto(t, "tryrdlock")
    BY <1>8 DEF notify_begin
  <2>2. CASE Pop(t) /\ Head(call[t].events).d \in {0, under}
    BY <1>6, <2>1, <2>2 DEF Telling
  <2>3. CASE Goto(t, "tryrdlock")
    <3>1. Head(call[t].events) \in Event
      BY <1>t, <2>1 DEF CallType
    <3> QED
      BY <1>t, <2>1, <2>3, <3>1, GotoEffect DEF Steps
  <2> QED
    BY <2>1, <2>2, <2>3
<1>9. ASSUME attach_port_to_switch(t), ~ThrowPm(t)
      PROVE  /\ Others(t)
             /\ Tells(t, call[t].p, <<[kind |-> "attached", d |-> call[t].d, p |-> call[t].p]>>)
  <2> DEFINE es == <<[kind |-> "attached", d |-> call[t].d, p |-> call[t].p]>>
  <2>1. call' = [call EXCEPT ![t].pc = "events", ![t].events = es] /\ call[t].pc = "attach"
    BY <1>9 DEF attach_port_to_switch
  <2>2. es \in Seq(Event)
    BY <1>a, <2>1 DEF Event, OpAt, ArgsOf
  <2> HIDE DEF es
  <2>3. Others(t) /\ Tells(t, call[t].p, es)
    BY <1>t, <2>1, <2>2, EventsEffect DEF Tells
  <2> QED
    BY <2>3 DEF es
<1>10. ASSUME connect_switches(t), ~ThrowPm(t)
       PROVE  Others(t) /\ Tells(t, 2 * links + 1, Added(call[t].d, call[t].e, 2 * links + 1))
  <2> DEFINE v == 2 * links + 1
             es == Added(call[t].d, call[t].e, v)
  <2>1. /\ call' = [call EXCEPT ![t].pc = "events", ![t].p = v, ![t].events = es]
        /\ links < MaxLinks /\ call[t].pc = "connect"
    BY <1>10 DEF connect_switches, Added
  <2>2. v \in Ports /\ v + 1 \in Ports /\ call[t].d \in Dpids /\ call[t].e \in Dpids
    BY <1>t, <1>a, <2>1, LinksAssumption DEF Virtual, TypeOK, Ports, OpAt, ArgsOf
  <2> HIDE DEF v
  <2>3. es \in Seq(Event)
    BY <2>2 DEF Event, CmmKinds, Added
  <2> HIDE DEF es
  <2>4. Others(t) /\ Tells(t, v, es)
    BY <1>t, <2>1, <2>2, <2>3 DEF Tells, TypeOK, CallType, Steps, Others, SameArgs
  <2> QED
    BY <2>4 DEF v, es
<1>11. ASSUME detach_port_from_switch(t)
       PROVE  /\ Others(t)
              /\ \/ /\ call[t].p \in Virtual
                    /\ Tells(t, call[t].p, Deleted(call[t].d, call[t].p,
                                 attached[Pair(call[t].p)], Pair(call[t].p)))
                 \/ /\ call[t].p \notin Virtual
                    /\ Tells(t, call[t].p, <<[kind |-> "detached", d |-> call[t].d, p |-> call[t].p]>>)
  <2> DEFINE q == Pair(call[t].p)
             long == Deleted(call[t].d, call[t].p, attached[q], q)
             short == <<[kind |-> "detached", d |-> call[t].d, p |-> call[t].p]>>
  <2>1. call[t].pc = "detach" /\ call[t].d \in Dpids /\ call[t].p \in Ports
    BY <1>11, <1>a DEF detach_port_from_switch, OpAt, ArgsOf
  <2>2. call[t].p \in Virtual => q \in Ports /\ attached[q] \in Dpids \cup {0}
    BY <1>t, PairVirtual DEF TypeOK, Ports
  <2>3. call' = [call EXCEPT ![t].pc = "events",
                             ![t].events = IF call[t].p \in Virtual THEN long ELSE short]
    BY <1>11 DEF detach_port_from_switch, Deleted
  <2> HIDE DEF q
  <2>4. call[t].p \in Virtual => long \in Seq(Event)
    BY <2>1, <2>2 DEF Event, CmmKinds, Deleted
  <2>5. short \in Seq(Event)
    BY <2>1 DEF Event
  <2> HIDE DEF long, short
  <2>6. CASE call[t].p \in Virtual
    <3>1. call' = [call EXCEPT ![t].pc = "events", ![t].events = long] /\ long \in Seq(Event)
      BY <2>3, <2>4, <2>6
    <3>2. Others(t) /\ Tells(t, call[t].p, long)
      BY <1>t, <3>1, EventsEffect DEF Tells
    <3> QED
      BY <2>6, <3>2 DEF long, q
  <2>7. CASE call[t].p \notin Virtual
    <3>1. call' = [call EXCEPT ![t].pc = "events", ![t].events = short]
      BY <2>3, <2>7
    <3>2. Others(t) /\ Tells(t, call[t].p, short)
      BY <1>t, <2>5, <3>1, EventsEffect DEF Tells
    <3> QED
      BY <2>7, <3>2 DEF short
  <2> QED
    BY <2>6, <2>7
<1> QED
  BY <1>1, <1>2, <1>3, <1>4, <1>5, <1>7, <1>8, <1>9, <1>10, <1>11 DEF Acts

-----------------------------------------------------------------------------
(* No use after delete *)

\* A thread's part of UseInv.
UseOf(t) ==
    /\ call[t].pc = "insert" => call[t].d \in (objects \cap lsis) \ switchs
    /\ call[t].pc = "delete" => call[t].d \notin switchs
    /\ call[t].pc = "use" => call[t].d \in switchs
    /\ call[t].pc = "notify" => Head(call[t].events).d \in switchs

\* The write lock is taken to change the map, and destroy_switch deletes the object
\* after it left the map, all of it under switch_manager::mutex.
LEMMA UseInvNext == TypeInv /\ LockInv /\ UseInv /\ [Next]_vars => UseInv'
<1> SUFFICES ASSUME TypeInv, LockInv, UseInv, [Next]_vars PROVE UseInv'
  OBVIOUS
<1>u. switchs \subseteq objects \cap lsis /\ \A t \in Threads : UseOf(t)
  BY DEF UseInv, UseOf
<1>0. ASSUME switchs' \subseteq objects' \cap lsis', \A t \in Threads : UseOf(t)' PROVE UseInv'
  BY <1>0 DEF UseInv, UseOf
<1>1. ASSUME NEW t \in Threads, Others(t), UseOf(t)', UNCHANGED <<switchs, objects, lsis>>
      PROVE  UseInv'
  <2>1. \A u \in Threads \ {t} : UseOf(u)'
    BY <1>1, <1>u DEF Others, UseOf
  <2> QED
    BY <1>0, <1>1, <1>u, <2>1
\* Only the holder of the mutex inserts or deletes.
<1>2. ASSUME NEW t \in Threads, NEW u \in Threads \ {t}, HoldsSm(t)
      PROVE  call[u].pc \notin {"insert", "delete"}
  BY <1>2 DEF LockInv, LocksOf, HoldsSm
<1>3. CASE UNCHANGED vars
  BY <1>3 DEF vars, driverState, mgrState, UseInv
<1>4. ASSUME NEW t \in Threads, QuietStep(t) PROVE UseInv'
  <2>1. Others(t) /\ UNCHANGED <<switchs, objects, lsis>>
    BY <1>4 DEF QuietStep, Calm
  <2>2. CASE Begins(t) \/ Reports(t) \/ Ends(t) \/ Drops(t)
    <3>1. call'[t].pc \notin {"insert", "delete", "use", "notify"}
      BY <2>2 DEF Begins, Reports, Ends, Drops
    <3> QED
      BY <1>1, <2>1, <3>1 DEF UseOf
  <2>3. CASE Moves(t)
    <3>1. UseOf(t)'
      BY <2>1, <2>3 DEF UseOf, Moves, SameArgs
    <3> QED
      BY <1>1, <2>1, <3>1
  <2> QED
    BY <1>4, <2>2, <2>3 DEF QuietStep
<1>5. ASSUME NEW t \in Threads, create_construct(t), Acts(t) PROVE UseInv'
  <2>1. /\ call[t].pc = "create" /\ call'[t].pc = "insert" /\ SameArgs(t) /\ Others(t)
    BY <1>5, ActEffect
  <2>2. /\ switchs' = switchs /\ call[t].d \notin switchs
        /\ objects' = objects \cup {call[t].d} /\ lsis' = lsis \cup {call[t].d}
    BY <1>5 DEF create_construct
  <2>3. UseOf(t)'
    BY <2>1, <2>2 DEF UseOf, SameArgs
  <2>4. \A u \in Threads \ {t} : UseOf(u)'
    BY <1>u, <2>1, <2>2 DEF Others, UseOf
  <2> QED
    BY <1>0, <1>u, <2>2, <2>3, <2>4
<1>6. ASSUME NEW t \in Threads, create_insert(t), Acts(t) PROVE UseInv'
  <2>1. call'[t].pc = "idle" /\ Others(t)
    BY <1>6, ActEffect
  <2>2. /\ call[t].pc = "insert" /\ switchs' = switchs \cup {call[t].d}
        /\ UNCHANGED <<objects, lsis>>
    BY <1>6 DEF create_insert, At, driverState
  <2>3. UseOf(t)' /\ HoldsSm(t)
    BY <2>1, <2>2 DEF UseOf, HoldsSm
  <2>4. \A u \in Threads \ {t} : UseOf(u)'
    BY <1>u, <1>2, <2>1, <2>2, <2>3 DEF Others, UseOf
  <2> QED
    BY <1>0, <1>u, <2>2, <2>3, <2>4 DEF UseOf
<1>7. ASSUME NEW t \in Threads, destroy_erase(t), Acts(t) PROVE UseInv'
  <2>1. /\ call[t].pc = "erase" /\ call'[t].pc = "delete" /\ SameArgs(t) /\ Others(t)
    BY <1>7, ActEffect
  <2>2. /\ readers = {} /\ switchs' = switchs \ {call[t].d} /\ UNCHANGED <<objects, lsis>>
    BY <1>7 DEF destroy_erase, driverState
  <2>3. UseOf(t)'
    BY <2>1, <2>2 DEF UseOf, SameArgs
  <2>4. \A u \in Threads \ {t} : UseOf(u)'
    <3> SUFFICES ASSUME NEW u \in Threads \ {t} PROVE UseOf(u)'
      OBVIOUS
    <3>1. call[u].pc \notin {"use", "notify"}
      BY <2>2 DEF LockInv, LocksOf, Reading
    <3> QED
      BY <1>u, <2>1, <2>2, <3>1 DEF Others, UseOf
  <2> QED
    BY <1>0, <1>u, <2>2, <2>3, <2>4
<1>8. ASSUME NEW t \in Threads, destroy_delete(t), Acts(t) PROVE UseInv'
  <2>1. /\ call[t].pc = "delete" /\ call'[t].pc = "reset" /\ Others(t)
    BY <1>8, ActEffect
  <2>2. /\ switchs' = switchs /\ objects' = objects \ {call[t].d} /\ lsis' = lsis \ {call[t].d}
    BY <1>8 DEF destroy_delete
  <2>3. UseOf(t)' /\ HoldsSm(t) /\ call[t].d \notin switchs
    BY <1>u, <2>1 DEF UseOf, HoldsSm
  <2>4. \A u \in Threads \ {t} : UseOf(u)'
    BY <1>u, <1>2, <2>1, <2>2, <2>3 DEF Others, UseOf
  <2> QED
    BY <1>0, <1>u, <2>2, <2>3, <2>4
<1>9. ASSUME NEW t \in Threads, Acts(t), ~create_construct(t), ~create_insert(t),
             ~destroy_erase(t), ~destroy_delete(t)
      PROVE  UseInv'
  <2>1. UNCHANGED <<switchs, objects, lsis>>
    BY <1>9 DEF Acts, destroy_snapshot, destroy_reset, notify_blacklisted, notify_begin,
       notify_send, remove_vlink, attach_port_to_switch, connect_switches,
       detach_pair_unattached, detach_port_from_switch, add_vlink, blacklist, whitelist,
       driverState, mgrState
  <2>2. Others(t) /\ call'[t].pc \in {"loop", "idle", "events", "tryrdlock"}
    BY <1>9, ActEffect DEF Acts, Popped, Tells
  <2> QED
    BY <1>1, <2>1, <2>2 DEF UseOf
<1> QED
  BY <1>3, <1>4, <1>5, <1>6, <1>7, <1>8, <1>9, StepKinds

\* No notification, query or configuration ever works with a deleted openflow_switch,
\* however many threads there are; every switch in the map has its driver side.
THEOREM NeverUsedAfterDelete == Spec => []NoUseAfterDelete
<1>1. Init => UseInv
  <2> SUFFICES ASSUME Init PROVE UseInv
    OBVIOUS
  <2>1. \A t \in Threads : call[t].pc = "idle"
    BY DEF Init, Idle, InCall
  <2> QED
    BY <2>1 DEF Init, UseInv
<1>2. UseInv => NoUseAfterDelete
  <2> SUFFICES ASSUME UseInv PROVE NoUseAfterDelete
    OBVIOUS
  <2>1. ASSUME NEW t \in Threads PROVE InUse(t) \subseteq objects
    <3>1. \/ call[t].pc = "use" /\ InUse(t) = {call[t].d}
          \/ call[t].pc = "notify" /\ InUse(t) = {Head(call[t].events).d}
          \/ InUse(t) \subseteq switchs
      BY Zenon DEF InUse, At
    <3> QED
      BY <3>1 DEF UseInv
  <2> QED
    BY <2>1 DEF NoUseAfterDelete, UseInv
<1>3. TypeInv /\ LockInv /\ UseInv /\ [Next]_vars => TypeInv' /\ LockInv' /\ UseInv'
  BY TypeInvNext, LockInvNext, UseInvNext
<1> QED
  BY <1>1, <1>2, <1>3, TypeInvInit, LockInvInit, PTL DEF Spec

-----------------------------------------------------------------------------
(* Announcements *)

\* An event is taken off the list.
LEMMA PendingPops ==
    ASSUME TypeInv, NEW t \in Threads, call[t].events # <<>>,
           call'[t].events = Tail(call[t].events)
    PROVE  Pending(t) = Pending(t)' \cup {Head(call[t].events)}
<1> DEFINE es == call[t].events
<1>1. es \in Seq(Event) /\ es # <<>> /\ Len(es) \in Nat \ {0}
  BY DEF TypeInv, TypeOK, CallType
<1>2. /\ Len(Tail(es)) = Len(es) - 1 /\ Head(es) = es[1]
      /\ \A i \in 1..(Len(es) - 1) : Tail(es)[i] = es[i + 1]
  BY <1>1
<1>3. Pending(t)' = {Tail(es)[i] : i \in 1..(Len(es) - 1)} /\ Pending(t) = {es[i] : i \in 1..Len(es)}
  BY <1>2 DEF Pending
<1> HIDE DEF es
<1>4. \A i \in 1..Len(es) : i = 1 \/ (i - 1 \in 1..(Len(es) - 1) /\ Tail(es)[i - 1] = es[i])
  BY <1>1, <1>2
<1>5. \A i \in 1..(Len(es) - 1) : i + 1 \in 1..Len(es) /\ Tail(es)[i] = es[i + 1]
  BY <1>1, <1>2
<1>6. Pending(t) \subseteq Pending(t)' \cup {es[1]}
  BY <1>3, <1>4
<1>7. Pending(t)' \subseteq Pending(t) /\ es[1] \in Pending(t)
  BY <1>1, <1>3, <1>5
<1> QED
  BY <1>2, <1>6, <1>7 DEF es

\* Every list of events to tell is of events.
LEMMA PendingEvents == ASSUME TypeInv, NEW t \in Threads PROVE Pending(t) \subseteq Event
<1>1. call[t].events \in Seq(Event)
  BY DEF TypeInv, TypeOK, CallType
<1> QED
  BY <1>1 DEF Pending

\* The owner of port_manager::mutex is alone: nobody else is attaching, or has
\* anything but a status or a packet to tell.
LEMMA AloneInPm ==
    ASSUME TypeInv, LockInv, TellInv, NEW t \in Threads, HoldsPm(t), NEW u \in Threads \ {t}
    PROVE  /\ call[u].pc \notin {"attach", "connect", "cache"} /\ ~HoldsPm(u)
           /\ \A e \in Pending(u) : e.kind \in Passing
<1>1. ~HoldsPm(u)
  BY DEF LockInv, LocksOf
<1>2. call[u].pc \notin Telling \/ call[u].op \in DriverOps
  BY <1>1 DEF HoldsPm
<1>3. call[u].pc \notin Telling => Pending(u) = {}
  BY DEF TypeInv, ArgsOf, Pending
<1> QED
  BY <1>1, <1>2, <1>3 DEF TellInv, TellOf, HoldsPm

\* Nobody blacklists, attaches or detaches a port that another thread is announcing
\* or withdrawing, and an announcement is dropped only if its LSI is on its way out.
LEMMA TellInvNext == TypeInv /\ LockInv /\ UseInv /\ TellInv /\ [Next]_vars => TellInv'
<1> SUFFICES ASSUME TypeInv, LockInv, UseInv, TellInv, [Next]_vars PROVE TellInv'
  OBVIOUS
<1>t. TypeOK /\ \A t \in Threads : OpAt(t) /\ ArgsOf(t)
  BY DEF TypeInv
<1>i. /\ \A t \in Threads : TellOf(t)
      /\ \A p \in Ports : attached[p] \in Known \cup {0}
      /\ AllAnnounced /\ under \in doomed \cup {0} /\ NamesFresh
  BY DEF TellInv
\* The threads that do not move keep their part.
<1>o. ASSUME NEW t \in Threads, Others(t), TellOf(t)', Known \subseteq Known',
             doomed \subseteq doomed',
             \A u \in Threads \ {t} : \A e \in Pending(u) :
                /\ e.kind = "added" => e.p \notin blacklisted'
                /\ e.kind \in Withdrawing => attached'[e.p] = 0
      PROVE  \A u \in Threads : TellOf(u)'
  <2> SUFFICES ASSUME NEW u \in Threads \ {t} PROVE TellOf(u)'
    BY <1>o
  <2>1. call'[u] = call[u] /\ TellOf(u) /\ Pending(u)' = Pending(u)
    BY <1>o, <1>i DEF Others, Pending
  <2> QED
    BY <1>o, <2>1 DEF TellOf
\* Announcements stay where nothing they are about changes.
<1>k. ASSUME NEW t \in Threads, Others(t), UNCHANGED <<attached, told, switchs, doomed>>,
             \A e \in Pending(t) :
                e \in Pending(t)' \/ e.kind \notin Announcing \/ e.d \notin switchs \ doomed
      PROVE  AllAnnounced'
  <2> SUFFICES ASSUME NEW p \in Ports, attached[p] \in switchs \ doomed PROVE Announced(p)'
    BY <1>k DEF AllAnnounced
  <2>1. CASE p \in told[attached[p]]
    BY <1>k, <2>1 DEF Announced
  <2>2. ASSUME NEW u \in Threads, NEW e \in Pending(u),
               e.kind \in Announcing /\ e.p = p /\ e.d = attached[p]
        PROVE  Announced(p)'
    <3>1. e \in Pending(u)'
      BY <1>k, <2>2 DEF Others, Pending
    <3> QED
      BY <1>k, <2>2, <3>1 DEF Announced
  <2> QED
    BY <1>i, <2>1, <2>2 DEF AllAnnounced, Announced
\* A step that attaches, detaches and blacklists nothing.
<1>n. ASSUME NEW t \in Threads, Others(t), TellOf(t)',
             UNCHANGED <<attached, told, switchs, doomed, links>>,
             ports' \subseteq ports, blacklisted' \subseteq blacklisted, under' \in {under, 0},
             \A e \in Pending(t) :
                e \in Pending(t)' \/ e.kind \notin Announcing \/ e.d \notin switchs \ doomed
      PROVE  TellInv'
  <2>1. \A u \in Threads : TellOf(u)'
    <3>1. Known' = Known
      BY <1>n DEF Known
    <3>2. \A u \in Threads \ {t} : \A e \in Pending(u) :
             /\ e.kind = "added" => e.p \notin blacklisted'
             /\ e.kind \in Withdrawing => attached'[e.p] = 0
      BY <1>n, <1>i DEF TellOf
    <3> QED
      BY <1>n, <1>o, <3>1, <3>2
  <2>2. AllAnnounced'
    BY <1>n, <1>k
  <2>3. \A p \in Ports : attached'[p] \in Known' \cup {0}
    BY <1>n, <1>i DEF Known
  <2>4. NamesFresh' /\ under' \in doomed' \cup {0}
    BY <1>n, <1>i DEF NamesFresh
  <2> QED
    BY <2>1, <2>2, <2>3, <2>4 DEF TellInv
\* The list of events gets shorter.
<1>p. ASSUME NEW t \in Threads, call[t].pc \in Telling, call'[t].pc = "events", SameArgs(t),
             Pending(t)' \subseteq Pending(t),
             UNCHANGED <<attached, switchs, doomed, blacklisted>>
      PROVE  TellOf(t)'
  BY <1>p, <1>i DEF TellOf, SameArgs, Telling, Known
\* The call ends.
<1>e. ASSUME NEW t \in Threads, call'[t].pc = "idle", call'[t].op \in Outcomes,
             call'[t].events = <<>>
      PROVE  TellOf(t)' /\ Pending(t)' = {}
  <2>1. Pending(t)' = {}
    BY <1>e DEF Pending
  <2> QED
    BY <1>e, <2>1 DEF TellOf, Outcomes
\* The call goes on, with nothing to tell.
<1>g. ASSUME NEW t \in Threads, call[t].pc \notin Telling, call'[t].events = call[t].events
      PROVE  Pending(t) = {} /\ Pending(t)' = {}
  BY <1>g, <1>t DEF ArgsOf, Pending
<1>1. CASE UNCHANGED vars
  <2>1. /\ UNCHANGED <<attached, told, switchs, doomed, links, ports, blacklisted, under, call>>
    BY <1>1 DEF vars, driverState, mgrState, history
  <2> QED
    BY <2>1 DEF TellInv, TellOf, AllAnnounced, Announced, Pending, Known, NamesFresh
<1>2. ASSUME NEW t \in Threads, QuietStep(t) PROVE TellInv'
  <2>1. /\ Others(t) /\ ports' = ports /\ blacklisted' = blacklisted /\ under' = under
        /\ UNCHANGED <<attached, told, switchs, doomed, links>>
    BY <1>2 DEF QuietStep, Calm
  <2>2. CASE Begins(t)
    <3>1. Pending(t) = {} /\ Pending(t)' = {}
      BY <1>t, <2>2 DEF Begins, Pending, ArgsOf, Telling
    <3>2. TellOf(t)'
      BY <2>2, <3>1 DEF TellOf, Begins
    <3> QED
      BY <1>n, <2>1, <3>1, <3>2
  <2>3. CASE Reports(t)
    <3>1. Pending(t) = {}
      BY <1>t, <2>3 DEF Reports, Pending, ArgsOf, Telling
    <3>2. TellOf(t)'
      BY <2>3 DEF TellOf, Reports, Passing, Withdrawing, DriverOps
    <3> QED
      BY <1>n, <2>1, <3>1, <3>2
  <2>4. CASE Ends(t)
    <3>1. Pending(t) = {} /\ TellOf(t)'
      BY <1>e, <2>4 DEF Ends, Pending
    <3> QED
      BY <1>n, <2>1, <3>1
  <2>5. CASE Moves(t)
    <3>1. Pending(t)' = Pending(t)
      BY <2>5 DEF Moves, Pending
    <3>2. TellOf(t)'
      <4>1. /\ SameArgs(t) /\ TellOf(t) /\ OpAt(t)
            /\ call'[t].pc = "attach" => call[t].d \in switchs
            /\ call'[t].pc = "connect" => {call[t].d, call[t].e} \subseteq switchs
            /\ call[t].pc \in {"destroy_lock", "destroy"} => call'[t].pc \in {"destroy_lock", "destroy"}
        BY <1>i, <1>t, <2>5 DEF Moves
      <4> QED
        BY <2>1, <3>1, <4>1 DEF TellOf, SameArgs, Known
    <3> QED
      BY <1>n, <2>1, <3>1, <3>2
  <2>6. CASE Drops(t)
    <3>1. Pending(t) = Pending(t)' \cup {Head(call[t].events)}
      BY <2>6, PendingPops DEF Drops
    <3>2. TellOf(t)'
      BY <1>p, <2>1, <2>6, <3>1 DEF Drops, Telling
    <3>3. Head(call[t].events).d \notin switchs \ doomed
      <4>1. 0 \notin switchs
        BY <1>t, DpidAssumption DEF TypeOK
      <4> QED
        BY <1>i, <2>6, <4>1 DEF Drops
    <3> QED
      BY <1>n, <2>1, <3>1, <3>2, <3>3
  <2> QED
    BY <1>2, <2>2, <2>3, <2>4, <2>5, <2>6 DEF QuietStep
<1>3. ASSUME NEW t \in Threads, Acts(t),
             \/ notify_blacklisted(t) \/ notify_begin(t) \/ remove_vlink(t)
      PROVE  TellInv'
  <2>1. /\ Others(t) /\ ports' \subseteq ports /\ blacklisted' = blacklisted /\ under' = under
        /\ UNCHANGED <<attached, told, switchs, doomed, links>>
    BY <1>3, ActEffect DEF notify_blacklisted, notify_begin, remove_vlink, driverState,
       mgrState, history
  <2>2. CASE Popped(t)
    <3>1. Pending(t) = Pending(t)' \cup {Head(call[t].events)}
      BY <2>2, PendingPops DEF Popped
    <3>2. TellOf(t)'
      BY <1>p, <2>1, <2>2, <3>1 DEF Popped
    <3>3. \/ Head(call[t].events).kind \notin Announcing
          \/ Head(call[t].events).d \notin switchs \ doomed
      <4>1. CASE notify_blacklisted(t)
        BY <1>i, <3>1, <4>1 DEF notify_blacklisted, TellOf, Announcing, CmmKinds
      <4>2. CASE remove_vlink(t)
        BY <4>2 DEF remove_vlink, Announcing
      <4>3. CASE notify_begin(t)
        <5>1. 0 \notin switchs
          BY <1>t, DpidAssumption DEF TypeOK
        <5>2. Head(call[t].events).d \in {0, under}
          BY <1>3, <2>2, <4>3, ActEffect DEF Popped
        <5> QED
          BY <1>i, <5>1, <5>2
      <4> QED
        BY <1>3, <4>1, <4>2, <4>3
    <3> QED
      BY <1>n, <2>1, <3>1, <3>2, <3>3
  <2>3. CASE ~Popped(t)
    <3>1. /\ call[t].pc = "events" /\ call'[t].pc = "tryrdlock" /\ SameArgs(t)
          /\ call'[t].events = call[t].events
      BY <1>3, <2>3, ActEffect
    <3>2. Pending(t)' = Pending(t) /\ TellOf(t)'
      BY <1>i, <2>1, <3>1 DEF Pending, TellOf, SameArgs, Known
    <3> QED
      BY <1>n, <2>1, <3>2
  <2> QED
    BY <2>2, <2>3
<1>4. ASSUME NEW t \in Threads, Acts(t), add_vlink(t) \/ whitelist(t) \/ destroy_reset(t)
      PROVE  TellInv'
  <2>1. /\ Others(t) /\ TellOf(t)' /\ Pending(t)' = {}
    BY <1>4, <1>e, ActEffect
  <2>2. /\ ports' = ports /\ blacklisted' \subseteq blacklisted /\ under' \in {under, 0}
        /\ UNCHANGED <<attached, told, switchs, doomed, links>>
    BY <1>4 DEF add_vlink, whitelist, destroy_reset, driverState, mgrState, history
  <2>3. call[t].pc \notin Telling
    BY <1>4 DEF add_vlink, whitelist, destroy_reset, At, Telling
  <2>4. Pending(t) = {}
    BY <1>t, <2>3 DEF ArgsOf, Pending
  <2> QED
    BY <1>n, <2>1, <2>2, <2>4
<1>5. ASSUME NEW t \in Threads, Acts(t), blacklist(t) PROVE TellInv'
  <2>1. /\ Others(t) /\ TellOf(t)' /\ Pending(t)' = {}
    BY <1>5, <1>e, ActEffect
  <2>2. /\ call[t].pc = "blacklist" /\ call[t].p \in ports /\ attached[call[t].p] = 0
        /\ blacklisted' = blacklisted \cup {call[t].p}
        /\ UNCHANGED <<attached, told, switchs, doomed, links, ports, under>>
    BY <1>5 DEF blacklist, driverState, mgrState, history, At
  <2>3. Pending(t) = {} /\ HoldsPm(t)
    BY <1>t, <2>2 DEF ArgsOf, Pending, Telling, HoldsPm
  <2>4. \A u \in Threads : TellOf(u)'
    <3>1. \A u \in Threads \ {t} : \A e \in Pending(u) : e.kind \in Passing
      BY <2>3, AloneInPm
    <3>2. Known' = Known
      BY <2>2 DEF Known
    <3> QED
      BY <1>o, <2>1, <2>2, <3>1, <3>2 DEF Passing, Withdrawing
  <2>5. AllAnnounced'
    BY <1>k, <2>1, <2>2, <2>3
  <2>6. (\A p \in Ports : attached'[p] \in Known' \cup {0}) /\ NamesFresh' /\ under' \in doomed' \cup {0}
    BY <1>i, <2>2 DEF Known, NamesFresh
  <2> QED
    BY <2>4, <2>5, <2>6 DEF TellInv
<1>6. ASSUME NEW t \in Threads, Acts(t), create_construct(t) PROVE TellInv'
  <2>1. /\ call[t].pc = "create" /\ call'[t].pc = "insert" /\ SameArgs(t) /\ Others(t)
        /\ call'[t].events = call[t].events
    BY <1>6, ActEffect
  <2>2. /\ call[t].d \notin switchs /\ told' = [told EXCEPT ![call[t].d] = {}]
        /\ UNCHANGED <<attached, switchs, doomed, links, ports, blacklisted, under>>
    BY <1>6 DEF create_construct, history
  <2>3. Pending(t) = {} /\ Pending(t)' = {} /\ call[t].op = "create"
    BY <1>g, <1>t, <2>1 DEF Telling, OpAt
  <2>4. \A u \in Threads : TellOf(u)'
    <3>1. TellOf(t)'
      BY <2>1, <2>3 DEF TellOf, SameArgs, DriverOps
    <3>2. Known' = Known
      BY <2>2 DEF Known
    <3> QED
      BY <1>i, <1>o, <2>1, <2>2, <3>1, <3>2 DEF TellOf
  <2>5. AllAnnounced'
    <3> SUFFICES ASSUME NEW p \in Ports, attached[p] \in switchs \ doomed PROVE Announced(p)'
      BY <2>2 DEF AllAnnounced
    <3>1. Announced(p)
      BY <1>i DEF AllAnnounced
    <3>2. told'[attached[p]] = told[attached[p]]
      BY <1>t, <2>2 DEF TypeOK
    <3>3. \A u \in Threads : Pending(u)' = Pending(u)
      BY <2>1 DEF Pending, Others
    <3> QED
      BY <2>2, <3>1, <3>2, <3>3 DEF Announced
  <2>6. (\A p \in Ports : attached'[p] \in Known' \cup {0}) /\ NamesFresh' /\ under' \in doomed' \cup {0}
    BY <1>i, <2>2 DEF Known, NamesFresh
  <2> QED
    BY <2>4, <2>5, <2>6 DEF TellInv
<1>7. ASSUME NEW t \in Threads, Acts(t), create_insert(t) PROVE TellInv'
  <2>1. /\ Others(t) /\ TellOf(t)' /\ Pending(t)' = {}
    BY <1>7, <1>e, ActEffect
  <2>2. /\ call[t].pc = "insert" /\ switchs' = switchs \cup {call[t].d}
        /\ UNCHANGED <<attached, told, doomed, links, ports, blacklisted, under>>
    BY <1>7 DEF create_insert, history, driverState, At
  <2>3. Pending(t) = {} /\ call[t].d \notin switchs /\ call[t].d \in Dpids
    BY <1>t, <2>2 DEF ArgsOf, Pending, Telling, UseInv, OpAt
  <2>4. \A u \in Threads : TellOf(u)'
    <3>1. Known \subseteq Known'
      BY <2>2 DEF Known
    <3> QED
      BY <1>i, <1>o, <2>1, <2>2, <3>1 DEF TellOf
  <2>5. AllAnnounced'
    <3> SUFFICES ASSUME NEW p \in Ports, attached[p] \in switchs' \ doomed PROVE Announced(p)'
      BY <2>2 DEF AllAnnounced
    <3>1. attached[p] \in switchs \ doomed
      <4>1. attached[p] # 0
        BY <1>t, <2>2, <2>3, DpidAssumption DEF TypeOK
      <4> QED
        BY <1>i, <2>2, <2>3, <4>1 DEF Known
    <3>2. Announced(p)
      BY <1>i, <3>1 DEF AllAnnounced
    <3>3. \A u \in Threads : Pending(u)' = Pending(u)
      BY <2>1, <2>3 DEF Pending, Others
    <3> QED
      BY <2>2, <3>2, <3>3 DEF Announced
  <2>6. (\A p \in Ports : attached'[p] \in Known' \cup {0}) /\ NamesFresh' /\ under' \in doomed' \cup {0}
    BY <1>i, <2>2 DEF Known, NamesFresh
  <2> QED
    BY <2>4, <2>5, <2>6 DEF TellInv
<1>8. ASSUME NEW t \in Threads, Acts(t), destroy_snapshot(t) \/ destroy_erase(t) PROVE TellInv'
  <2>1. /\ call[t].pc \in {"destroy", "erase"} /\ call'[t].pc \in {"loop", "delete"}
        /\ SameArgs(t) /\ Others(t) /\ call'[t].events = call[t].events
    BY <1>8, ActEffect
  <2>2. /\ doomed \subseteq doomed' /\ switchs' \subseteq switchs /\ Known \subseteq Known'
        /\ call[t].d \in doomed' /\ under' \in doomed' \cup {0}
        /\ UNCHANGED <<attached, told, links, ports, blacklisted>>
    <3>1. CASE destroy_snapshot(t)
      BY <1>i, <3>1 DEF destroy_snapshot, driverState, Known
    <3>2. CASE destroy_erase(t)
      <4>1. call[t].d \in doomed
        <5>1. call[t].op = "destroy" /\ call[t].pc = "erase"
          BY <1>t, <3>2 DEF destroy_erase, OpAt, At
        <5> QED
          BY <1>i, <5>1 DEF TellOf
      <4> QED
        BY <1>i, <3>2, <4>1 DEF destroy_erase, driverState, history, Known
    <3> QED
      BY <1>8, <3>1, <3>2
  <2>3. Pending(t) = {} /\ Pending(t)' = {} /\ call[t].op = "destroy"
    BY <1>g, <1>t, <2>1 DEF Telling, OpAt
  <2>4. \A u \in Threads : TellOf(u)'
    <3>1. TellOf(t)'
      BY <2>1, <2>2, <2>3 DEF TellOf, SameArgs, DriverOps
    <3> QED
      BY <1>i, <1>o, <2>1, <2>2, <3>1 DEF TellOf
  <2>5. AllAnnounced'
    <3> SUFFICES ASSUME NEW p \in Ports, attached[p] \in switchs' \ doomed' PROVE Announced(p)'
      BY <2>2 DEF AllAnnounced
    <3>1. Announced(p)
      BY <1>i, <2>2 DEF AllAnnounced
    <3>2. \A u \in Threads : Pending(u)' = Pending(u)
      BY <2>1 DEF Pending, Others
    <3> QED
      BY <2>2, <3>1, <3>2 DEF Announced
  <2>6. (\A p \in Ports : attached'[p] \in Known' \cup {0}) /\ NamesFresh'
    BY <1>i, <2>2 DEF NamesFresh
  <2> QED
    BY <2>2, <2>4, <2>5, <2>6 DEF TellInv
\* Ports are detached.
<1>d. ASSUME NEW t \in Threads, Others(t), TellOf(t)',
             UNCHANGED <<told, switchs, doomed, links, ports, blacklisted, under>>,
             \A p \in Ports : attached'[p] \in {attached[p], 0},
             Pending(t) = {}
      PROVE  TellInv'
  <2>1. \A u \in Threads : TellOf(u)'
    <3>1. Known' = Known
      BY <1>d DEF Known
    <3>2. ASSUME NEW u \in Threads, NEW e \in Pending(u)
          PROVE  /\ e.kind = "added" => e.p \notin blacklisted'
                 /\ e.kind \in Withdrawing => attached'[e.p] = 0
      <4>1. e \in Event
        BY PendingEvents
      <4>2. e.kind \in Withdrawing => e.p \in Ports
        BY <4>1 DEF Event, Withdrawing
      <4> QED
        BY <1>d, <1>i, <4>2 DEF TellOf
    <3> QED
      BY <1>d, <1>o, <3>1, <3>2
  <2>2. AllAnnounced'
    <3> SUFFICES ASSUME NEW p \in Ports, attached'[p] \in switchs \ doomed PROVE Announced(p)'
      BY <1>d DEF AllAnnounced
    <3>1. attached'[p] = attached[p]
      <4>1. 0 \notin switchs
        BY <1>t, DpidAssumption DEF TypeOK
      <4> QED
        BY <1>d, <4>1
    <3>2. Announced(p)
      BY <1>i, <3>1 DEF AllAnnounced
    <3>3. \A u \in Threads : Pending(u) \subseteq Pending(u)'
      BY <1>d DEF Pending, Others
    <3> QED
      BY <1>d, <3>1, <3>2, <3>3 DEF Announced
  <2>3. \A p \in Ports : attached'[p] \in Known' \cup {0}
    BY <1>d, <1>i DEF Known
  <2>4. NamesFresh' /\ under' \in doomed' \cup {0}
    BY <1>d, <1>i DEF NamesFresh
  <2> QED
    BY <2>1, <2>2, <2>3, <2>4 DEF TellInv
<1>9. ASSUME NEW t \in Threads, Acts(t), destroy_delete(t) PROVE TellInv'
  <2>1. /\ call[t].pc = "delete" /\ call'[t].pc = "reset" /\ SameArgs(t) /\ Others(t)
        /\ call'[t].events = call[t].events
    BY <1>9, ActEffect
  <2>2. /\ \A p \in Ports : attached'[p] \in {attached[p], 0}
        /\ UNCHANGED <<told, switchs, doomed, links, ports, blacklisted, under>>
    BY <1>9 DEF destroy_delete, history
  <2>3. Pending(t) = {} /\ Pending(t)' = {} /\ call[t].op = "destroy" /\ call[t].d \in doomed
    BY <1>g, <1>t, <1>i, <2>1 DEF Telling, OpAt, TellOf
  <2>4. TellOf(t)'
    BY <2>1, <2>2, <2>3 DEF TellOf, SameArgs, DriverOps
  <2> QED
    BY <1>d, <2>1, <2>2, <2>3, <2>4
<1>10. ASSUME NEW t \in Threads, Acts(t), detach_pair_unattached(t) PROVE TellInv'
  <2>1. Others(t) /\ TellOf(t)'
    BY <1>10, <1>e, ActEffect
  <2>2. /\ call[t].pc = "detach" /\ attached' = [attached EXCEPT ![call[t].p] = 0]
        /\ UNCHANGED <<told, switchs, doomed, links, ports, blacklisted, under>>
    BY <1>10 DEF detach_pair_unattached, mgrState, history, At
  <2>3. \A p \in Ports : attached'[p] \in {attached[p], 0}
    BY <1>t, <2>2 DEF TypeOK
  <2>4. Pending(t) = {}
    BY <1>t, <2>2 DEF ArgsOf, Pending, Telling
  <2> QED
    BY <1>d, <2>1, <2>2, <2>3, <2>4
<1>11. ASSUME NEW t \in Threads, Acts(t), detach_port_from_switch(t) PROVE TellInv'
  <2> DEFINE p == call[t].p
             q == Pair(p)
             gone == IF p \in Virtual THEN {p, q} ELSE {p}
  <2>1. /\ call[t].pc = "detach"
        /\ attached' = [r \in Ports |-> IF r \in gone THEN 0 ELSE attached[r]]
        /\ UNCHANGED <<told, switchs, doomed, links, ports, blacklisted, under>>
    BY <1>11 DEF detach_port_from_switch, mgrState, history, At
  <2>2. \A r \in Ports : attached'[r] \in {attached[r], 0}
    BY <2>1
  <2>3. /\ Pending(t) = {} /\ call[t].op \in {"detach", "destroy"} /\ p \in Ports
        /\ call[t].op = "destroy" => call[t].d \in doomed
    BY <1>t, <1>i, <2>1 DEF ArgsOf, OpAt, Pending, Telling, TellOf
  <2>4. /\ Others(t) /\ call'[t].pc = "events" /\ SameArgs(t)
        /\ \A e \in Pending(t)' : e.kind \in {"detached", "deleted", "remove"} /\ e.p \in gone
    <3>1. CASE p \in Virtual /\ Tells(t, p, Deleted(call[t].d, p, attached[q], q))
      <4>1. \A e \in Pending(t)' : e.kind \in {"deleted", "remove"} /\ e.p \in {p, q}
        BY <3>1 DEF Tells, Deleted, Pending
      <4> QED
        BY <1>11, <3>1, <4>1, ActEffect DEF Tells
    <3>2. CASE p \notin Virtual /\ Tells(t, p, <<[kind |-> "detached", d |-> call[t].d, p |-> p]>>)
      <4>1. \A e \in Pending(t)' : e.kind = "detached" /\ e.p = p
        BY <3>2 DEF Tells, Pending
      <4> QED
        BY <1>11, <3>2, <4>1, ActEffect DEF Tells
    <3> QED
      BY <1>11, <3>1, <3>2, ActEffect
  <2>5. gone \subseteq Ports
    BY <2>3, PairVirtual DEF Ports
  <2>6. \A e \in Pending(t)' : attached'[e.p] = 0 /\ e.kind \notin Announcing
    BY <2>1, <2>4, <2>5 DEF Announcing
  <2>7. TellOf(t)'
    BY <2>1, <2>3, <2>4, <2>6 DEF TellOf, SameArgs, DriverOps, Announcing
  <2> QED
    BY <1>d, <2>1, <2>2, <2>3, <2>4, <2>7
<1>12. ASSUME NEW t \in Threads, Acts(t), notify_send(t) PROVE TellInv'
  <2> DEFINE e == Head(call[t].events)
  <2>1. Others(t) /\ Popped(t)
    BY <1>12, ActEffect
  <2>2. Pending(t) = Pending(t)' \cup {e}
    BY <2>1, PendingPops DEF Popped
  <2>3. UNCHANGED <<attached, switchs, doomed, links, ports, blacklisted, under>>
    BY <1>12 DEF notify_send, driverState, history
  <2>4. \/ e.kind \in {"attached", "added"} /\ told' = [told EXCEPT ![e.d] = @ \cup {e.p}]
        \/ e.kind \in {"detached", "deleted"} /\ told' = [told EXCEPT ![e.d] = @ \ {e.p}]
        \/ e.kind \notin {"attached", "added"} /\ told' = told
    BY <1>12, Zenon DEF notify_send
  <2> HIDE DEF e
  <2>5. \A u \in Threads : TellOf(u)'
    <3>1. TellOf(t)'
      BY <1>p, <2>1, <2>2, <2>3 DEF Popped
    <3>2. Known' = Known
      BY <2>3 DEF Known
    <3> QED
      BY <1>i, <1>o, <2>1, <2>3, <3>1, <3>2 DEF TellOf
  <2>6. AllAnnounced'
    <3> SUFFICES ASSUME NEW p \in Ports, attached[p] \in switchs \ doomed PROVE Announced(p)'
      BY <2>3 DEF AllAnnounced
    <3>1. attached[p] \in Dpids /\ attached[p] # 0 /\ Announced(p)
      BY <1>t, <1>i, DpidAssumption DEF TypeOK, AllAnnounced
    <3>2. CASE p \in told[attached[p]]
      <4>1. e.kind \in Withdrawing => e.p # p
        BY <1>i, <2>2, <3>1 DEF TellOf
      <4>2. p \in told'[attached[p]]
        BY <1>t, <2>4, <3>1, <3>2, <4>1 DEF TypeOK, Withdrawing
      <4> QED
        BY <2>3, <4>2 DEF Announced
    <3>3. ASSUME NEW u \in Threads, NEW f \in Pending(u), f.kind \in Announcing, f.p = p,
                 f.d = attached[p]
          PROVE  Announced(p)'
      <4>1. CASE f \in Pending(u)'
        BY <2>3, <3>3, <4>1 DEF Announced
      <4>2. CASE f \notin Pending(u)'
        <5>1. f = e
          <6>1. u # t => Pending(u)' = Pending(u)
            BY <2>1 DEF Others, Pending
          <6> QED
            BY <2>2, <3>3, <4>2, <6>1
        <5>2. p \in told'[attached[p]]
          BY <1>t, <2>4, <3>1, <3>3, <5>1 DEF TypeOK, Announcing
        <5> QED
          BY <2>3, <5>2 DEF Announced
      <4> QED
        BY <4>1, <4>2
    <3> QED
      BY <3>1, <3>2, <3>3 DEF Announced
  <2>7. (\A p \in Ports : attached'[p] \in Known' \cup {0}) /\ NamesFresh' /\ under' \in doomed' \cup {0}
    BY <1>i, <2>3 DEF Known, NamesFresh
  <2> QED
    BY <2>5, <2>6, <2>7 DEF TellInv
\* Ports are attached, under port_manager::mutex, and about to be announced.
<1>b. ASSUME NEW t \in Threads, Others(t), TellOf(t)', HoldsPm(t), Pending(t) = {},
             UNCHANGED <<told, switchs, doomed, blacklisted, under>>, NamesFresh',
             \A p \in Ports : \/ attached'[p] = attached[p]
                              \/ /\ attached'[p] \in Known
                                 /\ \E e \in Pending(t)' :
                                       e.kind \in Announcing /\ e.p = p /\ e.d = attached'[p]
      PROVE  TellInv'
  <2>1. \A u \in Threads : TellOf(u)'
    <3>1. \A u \in Threads \ {t} : \A e \in Pending(u) : e.kind \in Passing
      BY <1>b, AloneInPm
    <3>2. Known' = Known
      BY <1>b DEF Known
    <3> QED
      BY <1>b, <1>o, <3>1, <3>2 DEF Passing, Withdrawing
  <2>2. AllAnnounced'
    <3> SUFFICES ASSUME NEW p \in Ports, attached'[p] \in switchs \ doomed PROVE Announced(p)'
      BY <1>b DEF AllAnnounced
    <3>1. CASE attached'[p] = attached[p]
      <4>1. Announced(p)
        BY <1>i, <3>1 DEF AllAnnounced
      <4>2. \A u \in Threads : Pending(u) \subseteq Pending(u)'
        <5>1. \A u \in Threads \ {t} : Pending(u)' = Pending(u)
          BY <1>b DEF Pending, Others
        <5> QED
          BY <1>b, <5>1
      <4> QED
        BY <1>b, <3>1, <4>1, <4>2 DEF Announced
    <3>2. CASE \E e \in Pending(t)' : e.kind \in Announcing /\ e.p = p /\ e.d = attached'[p]
      BY <3>2 DEF Announced
    <3> QED
      BY <1>b, <3>1, <3>2
  <2>3. \A p \in Ports : attached'[p] \in Known' \cup {0}
    BY <1>b, <1>i DEF Known
  <2>4. under' \in doomed' \cup {0}
    BY <1>b, <1>i
  <2> QED
    BY <1>b, <2>1, <2>2, <2>3, <2>4 DEF TellInv
<1>13. ASSUME NEW t \in Threads, Acts(t), attach_port_to_switch(t), ~ThrowPm(t) PROVE TellInv'
  <2> DEFINE p == call[t].p
             d == call[t].d
             ev == [kind |-> "attached", d |-> d, p |-> p]
  <2>1. Others(t) /\ Tells(t, p, <<ev>>)
    BY <1>13, ActEffect
  <2>2. /\ call[t].pc = "attach" /\ attached' = [attached EXCEPT ![p] = d]
        /\ UNCHANGED <<told, switchs, doomed, links, ports, blacklisted, under>>
    BY <1>13 DEF attach_port_to_switch, mgrState, history, At
  <2>3. /\ Pending(t) = {} /\ HoldsPm(t) /\ p \in Ports /\ d \in Known /\ call[t].op = "attach"
    BY <1>t, <1>i, <2>2 DEF ArgsOf, OpAt, Pending, Telling, TellOf, HoldsPm
  <2>4. Pending(t)' = {ev}
    BY <2>1 DEF Pending, Tells
  <2>5. ev.kind = "attached" /\ ev.p = p /\ ev.d = d
    OBVIOUS
  <2> HIDE DEF ev
  <2>6. TellOf(t)'
    BY <2>1, <2>3, <2>4, <2>5 DEF TellOf, Tells, SameArgs, DriverOps, Withdrawing
  <2>7. NamesFresh'
    BY <1>i, <2>2 DEF NamesFresh
  <2>8. \A r \in Ports : attached'[r] = IF r = p THEN d ELSE attached[r]
    BY <1>t, <2>2 DEF TypeOK
  <2> QED
    BY <1>b, <2>1, <2>2, <2>3, <2>4, <2>5, <2>6, <2>7, <2>8 DEF Announcing
<1>14. ASSUME NEW t \in Threads, Acts(t), connect_switches(t), ~ThrowPm(t) PROVE TellInv'
  <2> DEFINE v == 2 * links + 1
             d == call[t].d
             e == call[t].e
  <2>1. Others(t) /\ Tells(t, v, Added(d, e, v))
    BY <1>14, ActEffect
  <2>2. /\ call[t].pc = "connect" /\ links < MaxLinks /\ links' = links + 1
        /\ ports' = ports \cup {v, v + 1}
        /\ attached' = [attached EXCEPT ![v] = d, ![v + 1] = e]
        /\ UNCHANGED <<told, switchs, doomed, blacklisted, under>>
    BY <1>14 DEF connect_switches, mgrState, history, At
  <2>3. /\ Pending(t) = {} /\ HoldsPm(t) /\ {d, e} \subseteq Known /\ call[t].op = "connect"
    BY <1>t, <1>i, <2>2 DEF ArgsOf, OpAt, Pending, Telling, TellOf, HoldsPm
  <2>4. v \in Virtual /\ v + 1 \in Virtual /\ v \notin 1..(2 * links) /\ v + 1 \notin 1..(2 * links)
    BY <1>t, <2>2, LinksAssumption DEF Virtual, TypeOK
  <2>5. v \notin blacklisted /\ v + 1 \notin blacklisted
    BY <1>i, <2>4 DEF NamesFresh
  <2>6. NamesFresh'
    <3>1. 1..(2 * links) \cup {v, v + 1} \subseteq 1..(2 * links')
      BY <1>t, <2>2, LinksAssumption DEF TypeOK
    <3> QED
      BY <1>i, <2>2, <3>1 DEF NamesFresh
  <2> HIDE DEF v
  <2>7. /\ \A f \in Pending(t)' : f.kind \in {"added", "status"} /\ f.p \in {v, v + 1}
        /\ \E f \in Pending(t)' : f.kind = "added" /\ f.p = v /\ f.d = d
        /\ \E f \in Pending(t)' : f.kind = "added" /\ f.p = v + 1 /\ f.d = e
    BY <2>1 DEF Tells, Added, Pending
  <2>8. TellOf(t)'
    BY <2>1, <2>2, <2>3, <2>5, <2>7 DEF TellOf, Tells, SameArgs, DriverOps, Withdrawing
  <2>9. \A r \in Ports :
           attached'[r] = IF r = v + 1 THEN e ELSE IF r = v THEN d ELSE attached[r]
    BY <1>t, <2>2, <2>4 DEF TypeOK, Ports
  <2>10. \A r \in Ports : \/ attached'[r] = attached[r]
                          \/ /\ attached'[r] \in Known
                             /\ \E f \in Pending(t)' :
                                   f.kind \in Announcing /\ f.p = r /\ f.d = attached'[r]
    BY <2>3, <2>7, <2>9 DEF Announcing
  <2> QED
    BY <1>b, <2>1, <2>2, <2>3, <2>6, <2>8, <2>10
<1> QED
  BY <1>1, <1>2, <1>3, <1>4, <1>5, <1>6, <1>7, <1>8, <1>9, <1>10, <1>11, <1>12, <1>13, <1>14,
     StepKinds DEF Acts

\* All of the invariants so far hold throughout.
LEMMA TellInvariant == Spec => [](TypeInv /\ LockInv /\ TellInv)
<1>1. Init => UseInv /\ TellInv
  <2> SUFFICES ASSUME Init PROVE UseInv /\ TellInv
    OBVIOUS
  <2>1. \A t \in Threads :
           call[t].pc = "idle" /\ call[t].op = "returned" /\ call[t].events = <<>>
    BY DEF Init, Idle, InCall
  <2>2. \A t \in Threads : Pending(t) = {} /\ TellOf(t)
    BY <2>1 DEF Pending, TellOf, DriverOps
  <2>3. 0 \notin switchs
    BY DpidAssumption DEF Init
  <2>4. AllAnnounced /\ \A p \in Ports : attached[p] \in Known \cup {0}
    BY <2>3 DEF Init, AllAnnounced
  <2>5. NamesFresh /\ under \in doomed \cup {0}
    BY LinksAssumption DEF Init, NamesFresh, Virtual
  <2> QED
    BY <2>1, <2>2, <2>4, <2>5 DEF TellInv, UseInv, Init
<1>2. TypeInv /\ LockInv /\ UseInv /\ TellInv /\ [Next]_vars
         => TypeInv' /\ LockInv' /\ UseInv' /\ TellInv'
  BY TypeInvNext, LockInvNext, UseInvNext, TellInvNext
<1> QED
  BY <1>1, <1>2, TypeInvInit, LockInvInit, PTL DEF Spec

\* When nobody is in port_manager, every port attached to a switch that nobody set out to
\* destroy has been announced to its controllers.
THEOREM AttachedAlwaysTold == Spec => []AttachedIsTold
<1>1. TypeInv /\ LockInv /\ TellInv => AttachedIsTold
  <2> SUFFICES ASSUME TypeInv, LockInv, TellInv, pmMutex = None,
                      NEW p \in ports, attached[p] \in switchs \ doomed
               PROVE  p \in told[attached[p]]
    BY DEF AttachedIsTold
  <2>1. ASSUME NEW t \in Threads, NEW e \in Pending(t) PROVE e.kind \notin Announcing
    <3>1. ~HoldsPm(t)
      BY ThreadsAssumption DEF LockInv, LocksOf, Threads
    <3>2. call[t].pc \in Telling
      BY <2>1 DEF TypeInv, ArgsOf, Pending
    <3>3. call[t].op \in DriverOps
      BY <3>1, <3>2 DEF HoldsPm
    <3> QED
      BY <2>1, <3>3 DEF TellInv, TellOf, Passing, Announcing
  <2>2. Announced(p)
    BY DEF TellInv, AllAnnounced, TypeInv, TypeOK
  <2> QED
    BY <2>1, <2>2 DEF Announced
<1> QED
  BY <1>1, TellInvariant, PTL

-----------------------------------------------------------------------------
(* The cache of virtual links *)

\* A list of one event is empty without it.
LEMMA TailOfOne == ASSUME NEW S, NEW es \in Seq(S), Len(es) = 1 PROVE Tail(es) = <<>>
<1>1. es # <<>>
  OBVIOUS
<1>2. Tail(es) \in Seq(S) /\ Len(Tail(es)) = 0
  BY <1>1, HeadTailProperties
<1> QED
  BY <1>2, EmptySeq

\* What is left of a removal after its next event is what is left of a removal.
LEMMA RemovalTail ==
    ASSUME NEW S, NEW es \in Seq(S), NEW p, RemovalList(es, p), Len(es) >= 2
    PROVE  RemovalList(Tail(es), p) /\ Len(Tail(es)) = Len(es) - 1
<1> DEFINE ts == Tail(es)
<1>1. Len(es) \in {2, 3} /\ es # <<>>
  BY DEF RemovalList
<1>2. Len(ts) = Len(es) - 1 /\ \A i \in 1..Len(ts) : ts[i] = es[i + 1]
  BY <1>1, HeadTailProperties
<1>n. Len(es) \in Nat /\ Len(ts) \in Nat
  BY <1>1, <1>2
<1> HIDE DEF ts
<1>3. CASE Len(es) = 3
  <2>1. /\ es[3].kind = "deleted" /\ es[3].p = p
        /\ es[2].kind = "remove" /\ es[2].p = Pair(p)
    <3>1. 3 \in 1..3 /\ 3 >= 2 /\ 3 - 1 = 2
      OBVIOUS
    <3> QED
      BY <1>3, <3>1 DEF RemovalList
  <2>2. Len(ts) = 2
    BY <1>2, <1>3, <1>n
  <2>3. ts[1] = es[2] /\ ts[2] = es[3]
    <3>1. 1 \in 1..2 /\ 2 \in 1..2 /\ 1 + 1 = 2 /\ 2 + 1 = 3
      OBVIOUS
    <3> QED
      BY <1>2, <2>2, <3>1
  <2>4. 2 \in 1..3 /\ 2 - 1 = 1 /\ 2 # 3
    OBVIOUS
  <2> QED
    BY <1>2, <2>1, <2>2, <2>3, <2>4 DEF RemovalList, ts
<1>4. CASE Len(es) = 2
  <2>1. es[2].kind = "deleted" /\ es[2].p = p
    BY <1>4 DEF RemovalList
  <2>2. Len(ts) = 1
    BY <1>2, <1>4, <1>n
  <2>3. ts[1] = es[2]
    <3>1. 1 \in 1..1 /\ 1 + 1 = 2
      OBVIOUS
    <3> QED
      BY <1>2, <2>2, <3>1
  <2>4. 1 \in 1..3 /\ ~(1 >= 2) /\ 1 # 3
    OBVIOUS
  <2>5. RemovalList(ts, p)
    BY <2>1, <2>2, <2>3, <2>4 DEF RemovalList
  <2> QED
    BY <1>2, <2>5 DEF ts
<1> QED
  BY <1>1, <1>3, <1>4

\* The next event of a removal.
LEMMA RemovalHead ==
    ASSUME NEW S, NEW es \in Seq(S), NEW p, RemovalList(es, p)
    PROVE  /\ es # <<>> /\ Len(es) \in {1, 2, 3}
           /\ Len(es) = 1 => Head(es).kind = "deleted" /\ Head(es).p = p
           /\ Len(es) = 2 => Head(es).kind = "remove" /\ Head(es).p = Pair(p)
           /\ Len(es) = 3 => Head(es).kind = "deleted" /\ Head(es).p = Pair(p)
<1>1. Len(es) \in {1, 2, 3} /\ es # <<>>
  BY DEF RemovalList
<1>2. Head(es) = es[1]
  BY <1>1
<1>3. Len(es) = 1 => es[1].kind = "deleted" /\ es[1].p = p
  BY DEF RemovalList
<1>4. Len(es) = 2 => es[1].kind = "remove" /\ es[1].p = Pair(p)
  <2>1. 2 >= 2 /\ 2 - 1 = 1
    OBVIOUS
  <2> QED
    BY <2>1 DEF RemovalList
<1>5. Len(es) = 3 => es[1].kind = "deleted" /\ es[1].p = Pair(p)
  BY DEF RemovalList
<1> QED
  BY <1>1, <1>2, <1>3, <1>4, <1>5

\* The thread that removes a link goes on with the removal.
LEMMA RemovalPops ==
    ASSUME TypeInv, NEW t \in Threads, Removal(t), Len(call[t].events) \in {2, 3},
           SameArgs(t), call'[t].p = call[t].p, call'[t].pc = "events",
           call'[t].events = Tail(call[t].events),
           Len(call[t].events) = 3 => ports' = ports,
           Len(call[t].events) = 2 => ports' = ports \ {call[t].p, Pair(call[t].p)}
    PROVE  Removal(t)' /\ Len(call'[t].events) = Len(call[t].events) - 1
<1> DEFINE es == call[t].events
           ts == Tail(call[t].events)
           p == call[t].p
<1>1. es \in Seq(Event)
  BY DEF TypeInv, TypeOK, CallType
<1>2. /\ call[t].op \in {"detach", "destroy"} /\ p \in Virtual /\ RemovalList(es, p)
      /\ {p, Pair(p)} \subseteq ports
  <2>1. Len(es) # 1
    <3>1. \A n \in {2, 3} : n # 1
      OBVIOUS
    <3> QED
      BY <3>1, Zenon
  <2> QED
    BY <2>1 DEF Removal
<1>3. RemovalList(ts, p) /\ Len(ts) = Len(es) - 1 /\ Len(es) \in {2, 3}
  <2>1. RemovalList(ts, p) /\ Len(ts) = Len(es) - 1
    <3>1. Len(es) >= 2
      <4>1. \A n \in {2, 3} : n >= 2
        OBVIOUS
      <4> QED
        BY <4>1, Zenon
    <3> QED
      BY <1>1, <1>2, <3>1, RemovalTail
  <2>2. Len(es) \in {2, 3}
    BY <1>2 DEF RemovalList
  <2> QED
    BY <2>1, <2>2
<1>4. call'[t].events = ts
  OBVIOUS
<1>5. IF Len(ts) = 1 THEN {p, Pair(p)} \cap ports' = {} ELSE {p, Pair(p)} \subseteq ports'
  BY <1>2, <1>3
<1> HIDE DEF ts
<1> QED
  BY <1>2, <1>3, <1>4, <1>5 DEF Removal, SameArgs, Telling

\* A busy thread, and one that removes a link, is in port_manager.
LEMMA BusyHoldsPm ==
    ASSUME NEW t \in Threads PROVE Busy(t) \/ Removal(t) => HoldsPm(t)
BY DEF Busy, Connecting, HalfRemoved, LastToForget, Removal, HoldsPm, DriverOps

\* What the cache knows and what the driver has drift apart only while one thread is in
\* port_manager::mutex, and by no more than its place in the code says.
LEMMA CacheInvNext ==
    TypeInv /\ LockInv /\ TellInv /\ CacheInv /\ [Next]_vars => CacheInv'
<1> SUFFICES ASSUME TypeInv, LockInv, TellInv, CacheInv, [Next]_vars PROVE CacheInv'
  OBVIOUS
<1>t. TypeOK /\ \A t \in Threads : OpAt(t) /\ ArgsOf(t)
  BY DEF TypeInv
<1>s. \A t \in Threads : call[t] \in CallType /\ call[t].events \in Seq(Event)
  BY <1>t DEF TypeOK, CallType
<1>a. \A t \in Threads : ArgsOf(t)'
  BY TypeInvNext DEF TypeInv
<1>i. /\ \A t \in Threads : CacheOf(t)
      /\ (\A t \in Threads : ~Busy(t)) => Balanced({}, {}, {})
      /\ Live \cup Cached \cup unheard \subseteq 1..(2 * links)
      /\ \A p \in Live : Pair(p) \in ports
  BY DEF CacheInv
\* A step that leaves the ports and the cache alone.
<1>q. ASSUME NEW t \in Threads, Others(t), UNCHANGED <<ports, vlinks, unheard, links>>,
             CacheOf(t)', Busy(t) => Busy(t)'
      PROVE  CacheInv'
  <2>1. \A u \in Threads \ {t} : CacheOf(u)' /\ (Busy(u)' <=> Busy(u))
    <3> SUFFICES ASSUME NEW u \in Threads \ {t} PROVE CacheOf(u)' /\ (Busy(u)' <=> Busy(u))
      OBVIOUS
    <3>1. call'[u] = call[u] /\ CacheOf(u)
      BY <1>i, <1>q DEF Others
    <3>2. /\ Removal(u)' <=> Removal(u)
          /\ Connecting(u)' <=> Connecting(u)
      BY <1>q, <3>1 DEF Removal, Connecting
    <3>3. /\ HalfRemoved(u)' <=> HalfRemoved(u)
          /\ LastToForget(u)' <=> LastToForget(u)
          /\ Pending(u)' = Pending(u)
      BY <3>1, <3>2 DEF HalfRemoved, LastToForget, Pending
    <3>4. Live' = Live /\ Cached' = Cached /\ unheard' = unheard
      BY <1>q DEF Live, Cached
    <3> QED
      BY <3>1, <3>2, <3>3, <3>4 DEF CacheOf, Busy, Balanced
  <2>2. (\A u \in Threads : ~Busy(u)') => Balanced({}, {}, {})'
    <3>1. Live' = Live /\ Cached' = Cached /\ unheard' = unheard
      BY <1>q DEF Live, Cached
    <3> QED
      BY <1>i, <1>q, <2>1, <3>1 DEF Balanced
  <2>3. /\ (Live \cup Cached \cup unheard)' \subseteq 1..(2 * links')
        /\ \A p \in Live' : Pair(p) \in ports'
    BY <1>i, <1>q DEF Live, Cached
  <2> QED
    BY <1>q, <2>1, <2>2, <2>3 DEF CacheInv
\* A step of the thread in port_manager.
<1>h. ASSUME NEW t \in Threads, Others(t), HoldsPm(t), CacheOf(t)',
             Busy(t)' \/ Balanced({}, {}, {})',
             (Live \cup Cached \cup unheard)' \subseteq 1..(2 * links'),
             \A p \in Live' : Pair(p) \in ports'
      PROVE  CacheInv'
  <2>1. \A u \in Threads \ {t} : CacheOf(u)'
    <3> SUFFICES ASSUME NEW u \in Threads \ {t} PROVE CacheOf(u)'
      OBVIOUS
    <3>1. /\ ~HoldsPm(u) /\ \A e \in Pending(u) : e.kind \in Passing
      BY <1>h, AloneInPm
    <3>2. call'[u] = call[u] /\ Pending(u)' = Pending(u)
      BY <1>h DEF Others, Pending
    <3>3. ~HoldsPm(u)'
      BY <3>1, <3>2 DEF HoldsPm
    <3>4. ~Connecting(u)' /\ ~Removal(u)'
      BY <3>3 DEF Connecting, Removal, HoldsPm, DriverOps
    <3> QED
      BY <3>1, <3>2, <3>4 DEF CacheOf, HalfRemoved, LastToForget, Passing
  <2> QED
    BY <1>h, <2>1 DEF CacheInv
\* It is alone: if it is not busy, the cache is right.
<1>b. ASSUME NEW t \in Threads, HoldsPm(t), ~Busy(t) PROVE Balanced({}, {}, {})
  <2>1. \A u \in Threads \ {t} : ~Busy(u)
    BY <1>b, AloneInPm, BusyHoldsPm
  <2> QED
    BY <1>i, <1>b, <2>1
\* Nothing to tell and no link being made: not busy.
<1>e. ASSUME NEW t \in Threads, call'[t].events = <<>>, ~Connecting(t)'
      PROVE  CacheOf(t)' /\ ~Busy(t)'
  <2>1. Pending(t)' = {} /\ ~Removal(t)'
    BY <1>e DEF Pending, Removal, RemovalList
  <2> QED
    BY <1>e, <2>1 DEF CacheOf, Busy, HalfRemoved, LastToForget
<1>f. ASSUME NEW t \in Threads, call[t].events = <<>>, ~Connecting(t)
      PROVE  ~Busy(t)
  BY <1>f DEF Busy, HalfRemoved, LastToForget, Removal, RemovalList
\* No link is being removed by a thread that has no removal to tell.
<1>r. ASSUME NEW t \in Threads, ~Removal(t)', ~Connecting(t)',
             \A e \in Pending(t)' : e.kind \notin {"deleted", "remove"}
      PROVE  CacheOf(t)' /\ ~Busy(t)'
  BY <1>r DEF CacheOf, Busy, HalfRemoved, LastToForget
\* What is left of a removal says so.
<1>d. ASSUME NEW t \in Threads, Removal(t)' PROVE \E e \in Pending(t)' : e.kind = "deleted"
  <2> DEFINE n == Len(call'[t].events)
  <2>1. n \in 1..3 /\ call'[t].events[n].kind = "deleted"
    BY <1>d DEF Removal, RemovalList
  <2>2. n \in 1..n
    BY <2>1
  <2> QED
    BY <2>1, <2>2 DEF Pending
\* A thread that removes no link goes on.
<1>k. ASSUME NEW t \in Threads, Others(t), UNCHANGED <<ports, vlinks, unheard, links>>,
             ~Removal(t), Pending(t)' \subseteq Pending(t), call'[t].p = call[t].p,
             Connecting(t)' <=> Connecting(t)
      PROVE  CacheInv'
  <2>1. Live' = Live /\ Cached' = Cached /\ unheard' = unheard
    BY <1>k DEF Live, Cached
  <2>2. \A e \in Pending(t)' : e.kind \notin {"deleted", "remove"}
    BY <1>i, <1>k DEF CacheOf
  <2>3. ~Removal(t)'
    BY <1>d, <2>2
  <2>4. CacheOf(t)' /\ (Busy(t) => Busy(t)')
    BY <1>i, <1>k, <2>1, <2>2, <2>3 DEF CacheOf, Busy, HalfRemoved, LastToForget, Balanced
  <2> QED
    BY <1>k, <1>q, <2>4
\* The next event is taken up or done with, where none of the three is deleted here.
<1>p. ASSUME NEW t \in Threads, Popped(t), call[t].pc # "events", Others(t),
             UNCHANGED <<ports, vlinks, unheard, links>>
      PROVE  CacheInv'
  <2>1. Pending(t) = Pending(t)' \cup {Head(call[t].events)}
    BY <1>p, PendingPops DEF Popped
  <2>2. (Connecting(t)' <=> Connecting(t)) /\ call'[t].p = call[t].p /\ SameArgs(t)
    BY <1>p DEF Connecting, Popped, SameArgs, Telling
  <2>3. Live' = Live /\ Cached' = Cached /\ unheard' = unheard
    BY <1>p DEF Live, Cached
  <2>4. CASE ~Removal(t)
    BY <1>k, <1>p, <2>1, <2>2, <2>4
  <2>5. CASE Removal(t)
    <3>1. call[t].op # "connect" /\ ~Connecting(t) /\ Len(call[t].events) \in {1, 3}
      BY <1>p, <2>5 DEF Removal, RemovalList, Connecting
    <3>2. CASE Len(call[t].events) = 3
      <4>1. HalfRemoved(t)
        BY <1>p, <2>5, <3>2 DEF HalfRemoved
      <4>2. Removal(t)' /\ Len(call'[t].events) = 2
        <5>1. /\ SameArgs(t) /\ call'[t].p = call[t].p /\ call'[t].pc = "events"
              /\ call'[t].events = Tail(call[t].events) /\ ports' = ports
          BY <1>p DEF Popped
        <5>2. /\ Len(call[t].events) \in {2, 3}
              /\ Len(call[t].events) = 3 => ports' = ports
              /\ Len(call[t].events) = 2 => ports' = ports \ {call[t].p, Pair(call[t].p)}
          BY <3>2, <5>1
        <5>3. Removal(t)' /\ Len(call'[t].events) = Len(call[t].events) - 1
          BY <2>5, <5>1, <5>2, RemovalPops
        <5> QED
          BY <3>2, <5>3
      <4>3. HalfRemoved(t)' /\ ~LastToForget(t)'
        BY <4>2 DEF HalfRemoved, LastToForget
      <4>4. CacheOf(t)' /\ Busy(t)'
        BY <1>i, <2>2, <2>3, <3>1, <4>1, <4>2, <4>3 DEF CacheOf, Busy, Balanced
      <4> QED
        BY <1>p, <1>q, <4>4
    <3>3. CASE Len(call[t].events) = 1
      <4>1. ~Busy(t)
        BY <1>p, <3>1, <3>3 DEF Busy, HalfRemoved, LastToForget
      <4>2. call'[t].events = <<>>
        BY <1>p, <1>s, <3>3, TailOfOne DEF Popped
      <4> QED
        BY <1>e, <1>p, <1>q, <2>2, <3>1, <4>1, <4>2
    <3> QED
      BY <3>1, <3>2, <3>3
  <2> QED
    BY <2>4, <2>5
<1>1. CASE UNCHANGED vars
  <2>1. UNCHANGED <<ports, vlinks, unheard, links, call>>
    BY <1>1 DEF vars, driverState, mgrState, history
  <2>2. Live' = Live /\ Cached' = Cached
    BY <2>1 DEF Live, Cached
  <2>3. \A t \in Threads :
           /\ Removal(t)' <=> Removal(t)
           /\ Connecting(t)' <=> Connecting(t)
           /\ Pending(t)' = Pending(t)
    BY <2>1 DEF Removal, Connecting, Pending
  <2>4. \A t \in Threads :
           (HalfRemoved(t)' <=> HalfRemoved(t)) /\ (LastToForget(t)' <=> LastToForget(t))
    BY <2>1, <2>3 DEF HalfRemoved, LastToForget
  <2> QED
    BY <1>i, <2>1, <2>2, <2>3, <2>4 DEF CacheInv, CacheOf, Busy, Balanced
<1>2. ASSUME NEW t \in Threads, QuietStep(t) PROVE CacheInv'
  <2>1. Others(t) /\ UNCHANGED <<ports, vlinks, unheard, links>>
    BY <1>2 DEF QuietStep, Calm
  <2>2. CASE Begins(t) \/ Reports(t) \/ Ends(t)
    <3>1. ~Busy(t)
      BY <1>f, <1>t, <2>2 DEF Begins, Reports, Ends, ArgsOf, Connecting, Telling
    <3>2. CASE Begins(t) \/ Ends(t)
      <4>1. call'[t].events = <<>> /\ ~Connecting(t)'
        BY <3>2 DEF Begins, Ends, Connecting, Telling
      <4> QED
        BY <1>e, <1>q, <2>1, <3>1, <4>1
    <3>3. CASE Reports(t)
      <4>1. /\ ~Removal(t)' /\ ~Connecting(t)'
            /\ \A e \in Pending(t)' : e.kind \notin {"deleted", "remove"}
        BY <3>3 DEF Reports, Removal, Connecting, Passing, DriverOps
      <4> QED
        BY <1>q, <1>r, <2>1, <3>1, <4>1
    <3> QED
      BY <2>2, <3>2, <3>3
  <2>3. CASE Moves(t)
    <3>1. Live' = Live /\ Cached' = Cached /\ unheard' = unheard /\ ports' = ports
      BY <2>1 DEF Live, Cached
    <3>2. CASE call[t].pc \in Telling \ {"events"}
      <4>1. /\ call'[t].pc \in Telling \ {"events"} /\ call'[t].p = call[t].p /\ SameArgs(t)
            /\ call'[t].events = call[t].events /\ (Connecting(t)' <=> Connecting(t))
        BY <1>a, <1>t, <2>3, <3>2 DEF Moves, ArgsOf, Telling
      <4>2. Removal(t)' <=> Removal(t)
        BY <3>1, <3>2, <4>1 DEF Removal, SameArgs
      <4>3. /\ HalfRemoved(t)' <=> HalfRemoved(t)
            /\ LastToForget(t)' <=> LastToForget(t)
            /\ Pending(t)' = Pending(t)
        BY <3>2, <4>1, <4>2 DEF HalfRemoved, LastToForget, Pending
      <4>4. CacheOf(t)' /\ (Busy(t) => Busy(t)')
        BY <1>i, <3>1, <4>1, <4>2, <4>3 DEF CacheOf, Busy, Balanced
      <4> QED
        BY <1>q, <2>1, <4>4
    <3>3. CASE call[t].pc \notin Telling \ {"events"}
      <4>1. call'[t].pc \notin Telling /\ call'[t].events = <<>> /\ call[t].events = <<>>
        BY <1>a, <2>3, <3>3 DEF Moves, ArgsOf
      <4>2. CASE ~Connecting(t)'
        <5>1. ~Connecting(t)
          BY <2>3, <4>2 DEF Moves, Connecting
        <5> QED
          BY <1>e, <1>f, <1>q, <2>1, <4>1, <4>2, <5>1
      <4>3. CASE Connecting(t)'
        <5>1. Connecting(t) /\ call'[t].p = call[t].p
          BY <2>3, <4>3 DEF Moves, Connecting
        <5>2. ~Removal(t)' /\ Pending(t)' = {}
          BY <4>1 DEF Removal, RemovalList, Pending
        <5>3. CacheOf(t)' /\ Busy(t)'
          BY <1>i, <3>1, <4>3, <5>1, <5>2 DEF CacheOf, Busy, HalfRemoved, LastToForget, Balanced
        <5> QED
          BY <1>q, <2>1, <5>3
      <4> QED
        BY <4>2, <4>3
    <3> QED
      BY <3>2, <3>3
  <2>4. CASE Drops(t)
    <3>1. Popped(t) /\ call[t].pc # "events"
      <4>1. Head(call[t].events) \in Event
        BY <1>s, <2>4 DEF Drops
      <4> QED
        BY <2>4, <4>1 DEF Popped, Drops, Telling
    <3> QED
      BY <1>p, <2>1, <3>1
  <2> QED
    BY <1>2, <2>2, <2>3, <2>4 DEF QuietStep
<1>3. ASSUME NEW t \in Threads, Acts(t),
             \/ create_construct(t) \/ create_insert(t) \/ destroy_snapshot(t)
             \/ destroy_erase(t) \/ destroy_delete(t) \/ destroy_reset(t)
             \/ detach_pair_unattached(t) \/ blacklist(t) \/ whitelist(t)
      PROVE  CacheInv'
  <2>1. Others(t)
    BY <1>3, ActEffect
  <2>2. UNCHANGED <<ports, vlinks, unheard, links>>
    BY <1>3 DEF create_construct, create_insert, destroy_snapshot, destroy_erase,
       destroy_delete, destroy_reset, detach_pair_unattached, blacklist, whitelist,
       driverState, mgrState, history
  <2>3. call[t].pc \notin Telling \cup {"cache"}
    BY <1>3 DEF create_construct, create_insert, destroy_snapshot, destroy_erase,
       destroy_delete, destroy_reset, detach_pair_unattached, blacklist, whitelist, At, Telling
  <2>4. call'[t].pc \notin Telling \cup {"cache"}
    BY <1>3, ActEffect DEF Telling
  <2>5. call[t].events = <<>> /\ call'[t].events = <<>>
    BY <1>a, <1>t, <2>3, <2>4 DEF ArgsOf
  <2>6. ~Connecting(t) /\ ~Connecting(t)'
    BY <2>3, <2>4 DEF Connecting
  <2> QED
    BY <1>e, <1>f, <1>q, <2>1, <2>2, <2>5, <2>6
<1>4. ASSUME NEW t \in Threads, Acts(t), attach_port_to_switch(t), ~ThrowPm(t) PROVE CacheInv'
  <2> DEFINE ev == [kind |-> "attached", d |-> call[t].d, p |-> call[t].p]
  <2>1. Others(t) /\ Tells(t, call[t].p, <<ev>>)
    BY <1>4, ActEffect
  <2>2. UNCHANGED <<ports, vlinks, unheard, links>> /\ call[t].pc = "attach"
    BY <1>4 DEF attach_port_to_switch, mgrState, history, At
  <2>3. call[t].events = <<>> /\ call[t].op = "attach" /\ ev.kind = "attached"
    BY <1>t, <2>2 DEF ArgsOf, OpAt, Telling
  <2> HIDE DEF ev
  <2>4. call'[t].op = "attach" /\ \A e \in Pending(t)' : e.kind = "attached"
    BY <2>1, <2>3 DEF Tells, SameArgs, Pending
  <2>5. ~Connecting(t) /\ ~Connecting(t)' /\ ~Removal(t)'
    BY <2>3, <2>4 DEF Connecting, Removal
  <2> QED
    BY <1>f, <1>q, <1>r, <2>1, <2>2, <2>3, <2>4, <2>5
<1>5. ASSUME NEW t \in Threads, Acts(t), detach_port_from_switch(t) PROVE CacheInv'
  <2> DEFINE p == call[t].p
             q == Pair(p)
  <2>1. /\ Others(t) /\ UNCHANGED <<ports, vlinks, unheard, links>> /\ call[t].pc = "detach"
        /\ p \in ports
    BY <1>5, ActEffect DEF detach_port_from_switch, mgrState, history, At
  <2>2. call[t].events = <<>> /\ call[t].op \in {"detach", "destroy"}
    BY <1>t, <2>1 DEF ArgsOf, OpAt, Telling
  <2>3. ~Busy(t)
    BY <1>f, <2>1, <2>2 DEF Connecting, Telling
  <2>4. CASE p \in Virtual
    <3> DEFINE es == Deleted(call[t].d, p, attached[q], q)
    <3>1. Tells(t, p, es)
      BY <1>5, <2>4, ActEffect
    <3>2. q \in ports
      BY <1>i, <2>1, <2>4 DEF Live
    <3>3. Len(es) = 3 /\ RemovalList(es, p)
      BY DEF Deleted, RemovalList
    <3> HIDE DEF es
    <3>4. Removal(t)' /\ Len(call'[t].events) = 3
      BY <2>1, <2>2, <2>4, <3>1, <3>2, <3>3 DEF Removal, Tells, SameArgs, Telling
    <3>5. ~HalfRemoved(t)' /\ ~LastToForget(t)' /\ ~Connecting(t)'
      BY <2>2, <3>1, <3>4 DEF HalfRemoved, LastToForget, Connecting, Tells, SameArgs
    <3>6. CacheOf(t)'
      BY <3>4, <3>5 DEF CacheOf
    <3> QED
      BY <1>q, <2>1, <2>3, <3>6
  <2>5. CASE p \notin Virtual
    <3> DEFINE ev == [kind |-> "detached", d |-> call[t].d, p |-> call[t].p]
    <3>1. Tells(t, p, <<ev>>) /\ ev.kind = "detached"
      BY <1>5, <2>5, ActEffect
    <3> HIDE DEF ev
    <3>2. call'[t].op # "connect" /\ \A e \in Pending(t)' : e.kind = "detached"
      BY <2>2, <3>1 DEF Tells, SameArgs, Pending
    <3>3. ~Connecting(t)' /\ ~Removal(t)'
      BY <1>d, <3>2 DEF Connecting
    <3> QED
      BY <1>q, <1>r, <2>1, <2>3, <3>2, <3>3
  <2> QED
    BY <2>4, <2>5
<1>6. ASSUME NEW t \in Threads, Acts(t), notify_send(t) PROVE CacheInv'
  <2>1. Popped(t) /\ Others(t)
    BY <1>6, ActEffect
  <2>2. UNCHANGED <<ports, vlinks, unheard, links>> /\ call[t].pc = "notify"
    BY <1>6 DEF notify_send, driverState, history, At
  <2> QED
    BY <1>p, <2>1, <2>2
<1>7. ASSUME NEW t \in Threads, Acts(t), remove_vlink(t) PROVE CacheInv'
  <2> DEFINE p == call[t].p
             q == Pair(p)
  <2>1. /\ Others(t) /\ call[t].pc = "events" /\ call'[t].pc = "events" /\ SameArgs(t)
        /\ call'[t].p = p /\ call[t].events # <<>> /\ call'[t].events = Tail(call[t].events)
    BY <1>7, ActEffect DEF Popped, remove_vlink, At
  <2>2. /\ Head(call[t].events).kind = "remove"
        /\ ports' = ports \ {Head(call[t].events).p, p}
        /\ UNCHANGED <<vlinks, unheard, links>>
    BY <1>7 DEF remove_vlink, mgrState, history
  <2>3. Removal(t)
    <3>1. Head(call[t].events) \in Pending(t)
      BY <2>1, PendingPops
    <3> QED
      BY <1>i, <2>2, <3>1 DEF CacheOf
  <2>4. RemovalList(call[t].events, p) /\ p \in Virtual /\ call[t].op \in {"detach", "destroy"}
    BY <2>3 DEF Removal
  <2>5. Len(call[t].events) = 2 /\ Head(call[t].events).p = q
    BY <1>s, <2>2, <2>4, RemovalHead
  <2>6. {p, q} \subseteq Live /\ q # p /\ ports' = ports \ {p, q}
    <3>1. {p, q} \subseteq ports
      BY <2>3, <2>5 DEF Removal
    <3> QED
      BY <2>2, <2>4, <2>5, <3>1, PairVirtual DEF Live
  <2>7. Removal(t)' /\ Len(call'[t].events) = 1
    <3>1. /\ Len(call[t].events) \in {2, 3}
          /\ Len(call[t].events) = 3 => ports' = ports
          /\ Len(call[t].events) = 2 => ports' = ports \ {call[t].p, Pair(call[t].p)}
      BY <2>5, <2>6
    <3>2. Removal(t)' /\ Len(call'[t].events) = Len(call[t].events) - 1
      BY <2>1, <2>3, <3>1, RemovalPops
    <3> QED
      BY <2>5, <3>2
  <2>8. HalfRemoved(t)
    BY <2>3, <2>5 DEF HalfRemoved
  <2>9. Cached = (Live \ {q}) \cup unheard /\ unheard \cap Live \subseteq {q}
    BY <1>i, <2>8 DEF CacheOf, Balanced
  <2>10. Live' = Live \ {p, q} /\ Cached' = Cached /\ unheard' = unheard
    BY <2>2, <2>6 DEF Live, Cached
  <2>11. Balanced({}, {p}, {})' /\ p \notin unheard'
    <3>1. Cached' = (Live' \ {}) \cup {p} \cup unheard'
      BY <2>6, <2>9, <2>10
    <3>2. unheard' \cap Live' \subseteq {} /\ p \notin unheard'
      BY <2>6, <2>9, <2>10
    <3> QED
      BY <2>1, <3>1, <3>2 DEF Balanced
  <2>12. LastToForget(t)' /\ ~HalfRemoved(t)' /\ ~Connecting(t)'
    <3>1. call'[t].op # "connect"
      BY <2>1, <2>4 DEF SameArgs
    <3>2. \A n : n = 1 => n # 2 /\ n # 3
      OBVIOUS
    <3> QED
      BY <2>1, <2>7, <3>1, <3>2, Zenon DEF LastToForget, HalfRemoved, Connecting
  <2>13. CacheOf(t)' /\ Busy(t)'
    BY <2>1, <2>7, <2>11, <2>12 DEF CacheOf, Busy
  <2>14. HoldsPm(t)
    BY <2>3, BusyHoldsPm
  <2>15. (Live \cup Cached \cup unheard)' \subseteq 1..(2 * links')
    BY <1>i, <2>2, <2>10
  <2>16. \A r \in Live' : Pair(r) \in ports'
    <3> SUFFICES ASSUME NEW r \in Live, r # p, r # q PROVE Pair(r) \in ports'
      BY <2>10
    <3>1. r \in Virtual /\ Pair(r) \in ports
      BY <1>i DEF Live
    <3>2. Pair(Pair(r)) = r /\ Pair(q) = p
      BY <2>4, <3>1, PairVirtual
    <3>3. Pair(r) # p /\ Pair(r) # q
      BY <3>2
    <3> QED
      BY <2>6, <3>1, <3>3
  <2> QED
    BY <1>h, <2>1, <2>13, <2>14, <2>15, <2>16
<1>8. ASSUME NEW t \in Threads, Acts(t), notify_blacklisted(t) \/ notify_begin(t) PROVE CacheInv'
  <2> DEFINE e == Head(call[t].events)
             p == call[t].p
             q == Pair(p)
  <2>1. /\ Others(t) /\ call[t].pc = "events" /\ SameArgs(t) /\ call'[t].p = p
        /\ call[t].events # <<>> /\ UNCHANGED <<ports, links>> /\ e.kind # "remove"
    BY <1>8, ActEffect DEF Popped, notify_blacklisted, notify_begin, driverState, At, CmmKinds
  <2>2. \/ call'[t].pc = "events" /\ call'[t].events = Tail(call[t].events)
        \/ call'[t].pc = "tryrdlock" /\ call'[t].events = call[t].events
    BY <1>8, ActEffect DEF Popped
  <2>3. Pending(t)' \subseteq Pending(t) /\ e \in Pending(t)
    <3>1. Pending(t) = {call[t].events[i] : i \in 1..Len(call[t].events)}
      BY DEF Pending
    <3>2. e = call[t].events[1] /\ 1 \in 1..Len(call[t].events)
      BY <1>s, <2>1
    <3>3. e \in Pending(t)
      BY <3>1, <3>2
    <3>4. CASE call'[t].events = Tail(call[t].events)
      BY <2>1, <3>3, <3>4, PendingPops
    <3>5. CASE call'[t].events = call[t].events
      BY <3>3, <3>5 DEF Pending
    <3> QED
      BY <2>2, <3>4, <3>5
  <2>4. Connecting(t)' <=> Connecting(t)
    BY <2>1, <2>2 DEF Connecting, SameArgs, Telling
  <2>5. CASE e.kind # "deleted"
    <3>1. ~Removal(t)
      <4>1. RemovalList(call[t].events, p) => e.kind \in {"deleted", "remove"}
        BY <1>s, RemovalHead
      <4> QED
        BY <2>1, <2>5, <4>1 DEF Removal
    <3>2. UNCHANGED <<vlinks, unheard>>
      BY <1>8, <2>5 DEF notify_blacklisted, notify_begin, forget_vlink, mgrState, history
    <3> QED
      BY <1>k, <2>1, <2>3, <2>4, <3>1, <3>2
  <2>6. CASE e.kind = "deleted"
    <3>1. Removal(t)
      BY <1>i, <2>3, <2>6 DEF CacheOf
    <3>2. /\ RemovalList(call[t].events, p) /\ p \in Virtual
          /\ call[t].op \in {"detach", "destroy"} /\ call'[t].op \in {"detach", "destroy"}
      BY <2>1, <3>1 DEF Removal, SameArgs
    <3>3. HoldsPm(t) /\ ~Connecting(t) /\ ~Connecting(t)'
      BY <3>1, <3>2, BusyHoldsPm DEF Connecting
    <3>4. \/ Len(call[t].events) = 1 /\ e.p = p
          \/ Len(call[t].events) = 3 /\ e.p = q
      BY <1>s, <2>6, <3>2, RemovalHead
    <3>5. \/ Cached' = Cached \ {e.p} /\ unheard' = unheard
          \/ Cached' = Cached /\ unheard' = unheard \cup {e.p}
      <4>1. CASE notify_blacklisted(t)
        BY <2>6, <4>1 DEF notify_blacklisted, mgrState, Cached
      <4>2. CASE notify_begin(t)
        <5>1. vlinks' = {v \in vlinks : v[1] # e.p} /\ unheard' = unheard
          BY <2>6, <4>2 DEF notify_begin, forget_vlink, history
        <5> HIDE DEF e
        <5>2. Cached' = Cached \ {e.p}
          BY <5>1 DEF Cached
        <5> QED
          BY <5>1, <5>2
      <4> QED
        BY <1>8, <4>1, <4>2
    <3>6. Live' = Live
      BY <2>1 DEF Live
    <3>7. \A r \in Live' : Pair(r) \in ports'
      BY <1>i, <2>1, <3>6
    <3> HIDE DEF e
    <3>8. CASE Len(call[t].events) = 3
      <4>1. e.p = q /\ {p, q} \subseteq Live
        <5>1. \A n : n = 3 => n # 1
          OBVIOUS
        <5>2. Len(call[t].events) # 1
          BY <3>8, <5>1, Zenon
        <5>3. {p, q} \subseteq ports
          BY <3>1, <5>2 DEF Removal
        <5> QED
          BY <3>2, <3>4, <5>2, <5>3, PairVirtual DEF Live
      <4>2. ~Busy(t)
        <5>1. \A n : n = 3 => n # 1 /\ n # 2
          OBVIOUS
        <5> QED
          BY <2>1, <3>3, <3>8, <5>1, Zenon DEF Busy, HalfRemoved, LastToForget
      <4>3. Cached = Live \cup unheard /\ unheard \cap Live = {}
        <5>1. Balanced({}, {}, {})
          BY <1>b, <3>3, <4>2
        <5> QED
          BY <5>1 DEF Balanced
      <4>4. Cached' = (Live' \ {q}) \cup {} \cup unheard' /\ unheard' \cap Live' \subseteq {q}
        BY <3>5, <3>6, <4>1, <4>3
      <4>5. Balanced({q}, {}, {q})'
        BY <4>4, <2>1 DEF Balanced
      <4>6. /\ Removal(t)'
            /\ Len(call'[t].events) = 2 \/ (Len(call'[t].events) = 3 /\ call'[t].pc # "events")
        <5>1. CASE call'[t].pc = "events" /\ call'[t].events = Tail(call[t].events)
          <6>1. /\ Len(call[t].events) \in {2, 3}
                /\ Len(call[t].events) = 3 => ports' = ports
                /\ Len(call[t].events) = 2 => ports' = ports \ {call[t].p, Pair(call[t].p)}
            BY <2>1, <3>8
          <6>2. Removal(t)' /\ Len(call'[t].events) = Len(call[t].events) - 1
            BY <2>1, <3>1, <5>1, <6>1, RemovalPops
          <6> QED
            BY <3>8, <6>2
        <5>2. CASE call'[t].pc = "tryrdlock" /\ call'[t].events = call[t].events
          <6>1. Removal(t)'
            <7>1. \A n : n = 3 => n # 2
              OBVIOUS
            <7>2. Len(call'[t].events) # 2
              BY <3>8, <5>2, <7>1, Zenon
            <7>3. IF Len(call'[t].events) = 1 THEN {p, q} \cap ports' = {}
                                             ELSE {p, q} \subseteq ports'
              BY <2>1, <3>1, <5>2 DEF Removal
            <7> QED
              BY <2>1, <3>2, <5>2, <7>2, <7>3 DEF Removal, Telling
          <6> QED
            BY <3>8, <5>2, <6>1
        <5> QED
          BY <2>2, <5>1, <5>2
      <4>7. HalfRemoved(t)'
        BY <4>6 DEF HalfRemoved
      <4>8. ~LastToForget(t)'
        <5>1. \A n : n = 2 \/ n = 3 => n # 1
          OBVIOUS
        <5> QED
          BY <4>6, <5>1, Zenon DEF LastToForget
      <4>9. CacheOf(t)' /\ Busy(t)'
        BY <2>1, <3>3, <4>5, <4>6, <4>7, <4>8 DEF CacheOf, Busy
      <4>10. (Live \cup Cached \cup unheard)' \subseteq 1..(2 * links')
        BY <1>i, <2>1, <3>5, <3>6, <4>1
      <4> QED
        BY <1>h, <2>1, <3>3, <3>7, <4>9, <4>10
    <3>9. CASE Len(call[t].events) = 1
      <4>1. e.p = p /\ p \notin Live
        <5>1. {p, q} \cap ports = {}
          BY <3>1, <3>9 DEF Removal
        <5>2. \A n : n = 1 => n # 3
          OBVIOUS
        <5>3. Len(call[t].events) # 3
          BY <3>9, <5>2, Zenon
        <5> QED
          BY <3>4, <5>1, <5>3 DEF Live
      <4>2. LastToForget(t)
        BY <2>1, <3>1, <3>9 DEF LastToForget
      <4>3. Cached = Live \cup {p} \cup unheard /\ unheard \cap Live = {} /\ p \notin unheard
        BY <1>i, <4>2 DEF CacheOf, Balanced
      <4>4. Cached' = (Live' \ {}) \cup {} \cup unheard' /\ unheard' \cap Live' \subseteq {}
        BY <3>5, <3>6, <4>1, <4>3
      <4>5. Balanced({}, {}, {})'
        BY <4>4 DEF Balanced
      <4>6. CacheOf(t)'
        <5>1. CASE call'[t].pc = "events" /\ call'[t].events = Tail(call[t].events)
          <6>1. call'[t].events = <<>>
            BY <1>s, <3>9, <5>1, TailOfOne
          <6> QED
            BY <1>e, <3>3, <6>1
        <5>2. CASE call'[t].pc = "tryrdlock" /\ call'[t].events = call[t].events
          <6>1. Removal(t)'
            <7>1. \A n : n = 1 => n # 2
              OBVIOUS
            <7>2. Len(call'[t].events) # 2
              BY <3>9, <5>2, <7>1, Zenon
            <7>3. IF Len(call'[t].events) = 1 THEN {p, q} \cap ports' = {}
                                             ELSE {p, q} \subseteq ports'
              BY <2>1, <3>1, <5>2 DEF Removal
            <7> QED
              BY <2>1, <3>2, <5>2, <7>2, <7>3 DEF Removal, Telling
          <6>2. \A n : n = 1 => n # 2 /\ n # 3
            OBVIOUS
          <6>3. ~HalfRemoved(t)' /\ ~LastToForget(t)'
            BY <3>9, <5>2, <6>2, Zenon DEF HalfRemoved, LastToForget
          <6> QED
            BY <3>3, <6>1, <6>3 DEF CacheOf
        <5> QED
          BY <2>2, <5>1, <5>2
      <4>7. (Live \cup Cached \cup unheard)' \subseteq 1..(2 * links')
        BY <1>i, <2>1, <3>5, <3>6, <4>1, <4>3
      <4> QED
        BY <1>h, <2>1, <3>3, <3>7, <4>5, <4>6, <4>7
    <3> QED
      BY <3>4, <3>8, <3>9
  <2> QED
    BY <2>5, <2>6
<1>9. ASSUME NEW t \in Threads, Acts(t), connect_switches(t), ~ThrowPm(t) PROVE CacheInv'
  <2> DEFINE v == 2 * links + 1
  <2>1. Others(t) /\ Tells(t, v, Added(call[t].d, call[t].e, v))
    BY <1>9, ActEffect
  <2>2. /\ call[t].pc = "connect" /\ links < MaxLinks /\ links' = links + 1
        /\ ports' = ports \cup {v, v + 1} /\ UNCHANGED <<vlinks, unheard>>
    BY <1>9 DEF connect_switches, mgrState, history, At
  <2>3. links \in Nat /\ links < MaxLinks /\ MaxLinks \in Nat
    BY <1>t, <2>2, LinksAssumption DEF TypeOK
  <2>4. /\ v \in Virtual /\ v + 1 \in Virtual /\ Pair(v) = v + 1 /\ Pair(v + 1) = v
        /\ {v, v + 1} \cap 1..(2 * links) = {} /\ {v, v + 1} \subseteq 1..(2 * (links + 1))
        /\ 1..(2 * links) \subseteq 1..(2 * (links + 1))
    BY <2>3 DEF Virtual, Pair
  <2>5. call[t].events = <<>> /\ call[t].op = "connect"
    BY <1>t, <2>2 DEF ArgsOf, OpAt, Telling
  <2>6. /\ Added(call[t].d, call[t].e, v) \in Seq(Event)
        /\ Len(Added(call[t].d, call[t].e, v)) = 4
        /\ \A i \in 1..4 : Added(call[t].d, call[t].e, v)[i].kind \in {"added", "status"}
    BY <2>1 DEF Tells, Added
  <2>7. \A e \in Pending(t)' : e.kind \in {"added", "status"}
    BY <2>1, <2>6 DEF Pending, Tells
  <2>8. HoldsPm(t) /\ ~Busy(t)
    BY <1>f, <2>2, <2>5 DEF HoldsPm, Connecting, Telling
  <2>9. Cached = Live \cup unheard /\ unheard \cap Live = {}
    <3>1. Balanced({}, {}, {})
      BY <1>b, <2>8
    <3> QED
      BY <3>1 DEF Balanced
  <2>10. Connecting(t)' /\ ~Removal(t)' /\ call'[t].p = v
    BY <2>1, <2>5 DEF Connecting, Removal, Tells, SameArgs, Telling
  <2> HIDE DEF v
  <2>11. Live' = Live \cup {v, v + 1} /\ Cached' = Cached /\ unheard' = unheard
    BY <2>2, <2>4 DEF Live, Cached
  <2>12. {v, v + 1} \cap (Live \cup unheard) = {}
    BY <1>i, <2>4
  <2>13. /\ Cached' = (Live' \ {v, v + 1}) \cup {} \cup unheard'
         /\ unheard' \cap Live' \subseteq {}
    BY <2>9, <2>11, <2>12
  <2>14. CacheOf(t)' /\ Busy(t)'
    <3>1. Balanced({call[t].p, call[t].p + 1}, {}, {})'
      BY <2>10, <2>13 DEF Balanced
    <3>2. ({call[t].p, call[t].p + 1} \subseteq Live)'
      BY <2>10, <2>11
    <3> QED
      BY <2>7, <2>10, <3>1, <3>2 DEF CacheOf, Busy, HalfRemoved, LastToForget
  <2>15. (Live \cup Cached \cup unheard)' \subseteq 1..(2 * links')
    BY <1>i, <2>2, <2>4, <2>11
  <2>16. \A r \in Live' : Pair(r) \in ports'
    BY <1>i, <2>2, <2>4, <2>11
  <2> QED
    BY <1>h, <2>1, <2>8, <2>14, <2>15, <2>16
<1>10. ASSUME NEW t \in Threads, Acts(t), add_vlink(t) PROVE CacheInv'
  <2> DEFINE p == call[t].p
  <2>1. /\ Others(t) /\ call'[t].pc = "idle" /\ call'[t].events = <<>>
    BY <1>10, ActEffect
  <2>2. /\ call[t].pc = "cache" /\ vlinks' = vlinks \cup {<<p, p + 1>>, <<p + 1, p>>}
        /\ UNCHANGED <<ports, links, unheard>>
    BY <1>10 DEF add_vlink, driverState, history, At
  <2>3. Connecting(t)
    BY <1>t, <2>2 DEF Connecting, OpAt
  <2>4. /\ {p, p + 1} \subseteq Live /\ Cached = (Live \ {p, p + 1}) \cup unheard
        /\ unheard \cap Live = {}
    BY <1>i, <2>3 DEF CacheOf, Balanced
  <2> HIDE DEF p
  <2>5. Live' = Live /\ unheard' = unheard /\ Cached' = Cached \cup {p, p + 1}
    <3>1. \A a, b : \A S : {v[1] : v \in S \cup {<<a, b>>, <<b, a>>}} = {v[1] : v \in S} \cup {a, b}
      <4> SUFFICES ASSUME NEW a, NEW b, NEW S
                   PROVE  {v[1] : v \in S \cup {<<a, b>>, <<b, a>>}} = {v[1] : v \in S} \cup {a, b}
        OBVIOUS
      <4>1. <<a, b>>[1] = a /\ <<b, a>>[1] = b
        OBVIOUS
      <4> QED
        BY <4>1
    <3>2. Cached' = Cached \cup {p, p + 1}
      BY <2>2, <3>1, Zenon DEF Cached
    <3> QED
      BY <2>2, <3>2 DEF Live
  <2>6. Cached' = (Live' \ {}) \cup {} \cup unheard' /\ unheard' \cap Live' \subseteq {}
    BY <2>4, <2>5
  <2>7. Balanced({}, {}, {})'
    BY <2>6 DEF Balanced
  <2>8. CacheOf(t)'
    BY <1>e, <2>1 DEF Connecting, Telling
  <2>9. (Live \cup Cached \cup unheard)' \subseteq 1..(2 * links')
    BY <1>i, <2>2, <2>4, <2>5
  <2>10. \A r \in Live' : Pair(r) \in ports'
    BY <1>i, <2>2, <2>5
  <2>11. HoldsPm(t)
    BY <2>2 DEF HoldsPm
  <2> QED
    BY <1>h, <2>1, <2>7, <2>8, <2>9, <2>10, <2>11
<1> QED
  BY <1>1, <1>2, <1>3, <1>4, <1>5, <1>6, <1>7, <1>8, <1>9, <1>10, StepKinds DEF Acts

\* When nobody is in port_manager, the cache of virtual links names exactly the virtual
\* ports the driver has and those whose deletion the black list kept from it.
THEOREM CacheAlwaysMatches == Spec => []CacheMatchesDriver
<1>1. Init => CacheInv
  <2> SUFFICES ASSUME Init PROVE CacheInv
    OBVIOUS
  <2>1. \A t \in Threads : call[t].pc = "idle" /\ call[t].events = <<>>
    BY DEF Init, Idle, InCall
  <2>2. \A t \in Threads : Pending(t) = {} /\ ~Connecting(t) /\ ~Removal(t)
    BY <2>1 DEF Pending, Connecting, Removal, Telling
  <2>3. \A t \in Threads : CacheOf(t)
    BY <2>2 DEF CacheOf, HalfRemoved, LastToForget
  <2>4. Live = {} /\ Cached = {} /\ unheard = {}
    BY LinksAssumption DEF Init, Live, Cached, Virtual
  <2> QED
    BY <2>3, <2>4 DEF CacheInv, Balanced
<1>2. TypeInv /\ LockInv /\ TellInv /\ CacheInv => CacheMatchesDriver
  <2> SUFFICES ASSUME TypeInv, LockInv, TellInv, CacheInv, pmMutex = None
               PROVE  {v[1] : v \in vlinks} = (ports \cap Virtual) \cup unheard
    BY DEF CacheMatchesDriver
  <2>1. \A t \in Threads : ~HoldsPm(t)
    BY ThreadsAssumption DEF LockInv, LocksOf, Threads
  <2>2. \A t \in Threads : ~Busy(t)
    BY <2>1, BusyHoldsPm
  <2> QED
    BY <2>2 DEF CacheInv, Balanced, Cached, Live
<1> QED
  BY <1>1, <1>2, CacheInvNext, TellInvariant, PTL DEF Spec
=============================================================================
