------------------------------ MODULE Management ------------------------------
(***************************************************************************)
(* The management plane: switch_manager, port_manager, the CMM that the     *)
(* driver notifies, and the driver entry points they call.  Plugins call    *)
(* the managers from their own threads; the driver's threads deliver        *)
(* notifications and packet-ins.  Two mutexes serialise the managers, a     *)
(* read-write lock keeps a logical switch (LSI) from being deleted under a  *)
(* notification, and dpid_under_destruction tells notifications to give up. *)
(*                                                                         *)
(* Every acquisition of a lock is a step of its own and so is everything    *)
(* between two of them.  The read-write lock of the vlink cache protects    *)
(* single map operations and is part of those steps.                        *)
(***************************************************************************)
EXTENDS Naturals, Sequences, FiniteSetsExt

CONSTANTS
    Plugins,      \* threads that call the managers
    Drivers,      \* threads of the driver that notify
    Dpids,        \* LSIs; 0 stands for none
    Existing,     \* the LSIs made before the calls considered
    Physical,     \* system ports
    MaxLinks,     \* bound: virtual links made
    Blacklisting, \* whether plugins blacklist ports too
    MaxCalls,     \* bound: calls of all plugins together
    MaxEvents,    \* bound: notifications per driver thread
    None

ASSUME DpidAssumption == 0 \notin Dpids /\ Existing \subseteq Dpids
ASSUME LinksAssumption == MaxLinks \in Nat /\ Physical \cap (1..(2 * MaxLinks)) = {}
ASSUME BoundsAssumption == MaxCalls \in Nat /\ MaxEvents \in Nat
ASSUME ThreadsAssumption == None \notin Plugins \cup Drivers

Threads == Plugins \cup Drivers
Virtual == 1..(2 * MaxLinks)   \* names of the ends of virtual links
Ports == Physical \cup Virtual

VARIABLES
    switchs,     \* switch_manager::switchs, the dpids in the map
    objects,     \* the openflow_switch objects that exist
    lsis,        \* the driver's logical switches
    ports,       \* the driver's ports
    attached,    \* port -> dpid, or 0
    links,       \* virtual links made so far; names are not used again
    vlinks,      \* port_manager::vlinks, a port and its pair
    blacklisted,
    under,       \* dpid_under_destruction, 0 for none
    told,        \* dpid -> ports its endpoint announced to the controllers
    smMutex, pmMutex,   \* holder of switch_manager::mutex, port_manager::mutex
    writer, readers,    \* switch_manager::rwlock
    call,        \* the call a thread is in
    left,        \* calls a thread may still make
    leaked,      \* history: the exits that left a mutex locked
    doomed,      \* history: LSIs that destroy_switch went to work on
    unheard      \* history: ports whose deletion the black list kept from the vlink cache

driverState == <<lsis, ports, attached, links>>
mgrState == <<switchs, objects, vlinks, blacklisted, under, told>>
history == <<leaked, doomed, unheard>>
locks == <<smMutex, pmMutex, writer, readers>>
vars == <<driverState, mgrState, locks, call, left, history>>

\* pc of a thread between calls; how is the way its last call ended.
InCall(op, pc, d, e, p, events) ==
    [op |-> op, pc |-> pc, d |-> d, e |-> e, p |-> p, todo |-> {}, events |-> events]
Idle(how) == InCall(how, "idle", 0, 0, None, <<>>)

Outcomes == {"returned", "threw"}
PluginOps == {"create", "destroy", "attach", "detach", "connect", "bring", "configure",
              "query"} \cup IF Blacklisting THEN {"blacklist", "whitelist"} ELSE {}
DriverOps == {"status", "packet_in"}

Steps == {"idle", "create_lock", "create", "insert", "destroy_lock", "destroy", "loop",
          "erase", "delete", "reset", "attach_check", "attach_lock", "exists", "attach",
          "detach_lock", "detach", "connect_lock", "connect_exists", "connect", "cache",
          "bring_check", "bring_lock", "bring", "blacklist_check", "blacklist_lock", "blacklist",
          "whitelist_check", "whitelist_lock", "wrlock", "configure", "rdlock", "query", "use",
          "events", "tryrdlock", "lookup", "notify"}

\* What the driver or port_manager has to tell: the kinds of CMM pass the black list.
CmmKinds == {"added", "deleted", "status"}
Event ==
    [kind : CmmKinds \cup {"attached", "detached", "remove"}, d : Dpids \cup {0}, p : Ports]
        \cup [kind : {"process"}, d : Dpids, p : {None}]

CallType ==
    [op : PluginOps \cup DriverOps \cup Outcomes, pc : Steps, d : Dpids \cup {0},
     e : Dpids \cup {0}, p : Ports \cup {None}, todo : SUBSET Ports, events : Seq(Event)]

TypeOK ==
    /\ switchs \subseteq Dpids /\ objects \subseteq Dpids /\ lsis \subseteq Dpids
    /\ ports \subseteq Ports
    /\ attached \in [Ports -> Dpids \cup {0}]
    /\ links \in 0..MaxLinks
    /\ vlinks \subseteq Virtual \X Virtual
    /\ blacklisted \subseteq Ports
    /\ under \in Dpids \cup {0}
    /\ {smMutex, pmMutex, writer} \subseteq Threads \cup {None}
    /\ readers \subseteq Threads
    /\ call \in [Threads -> CallType]
    /\ left \in [Threads -> 0..(MaxCalls + MaxEvents)]
    /\ told \in [Dpids -> SUBSET Ports]
    /\ leaked \subseteq {"blacklist", "constructor"} /\ doomed \subseteq Dpids
    /\ unheard \subseteq Ports

Init ==
    /\ switchs = Existing /\ objects = Existing /\ lsis = Existing
    /\ ports = Physical
    /\ attached = [p \in Ports |-> 0]
    /\ links = 0 /\ vlinks = {} /\ blacklisted = {} /\ under = 0
    /\ smMutex = None /\ pmMutex = None /\ writer = None /\ readers = {}
    /\ call = [t \in Threads |-> Idle("returned")]
    /\ left \in [Threads -> 0..(MaxCalls + MaxEvents)]
    /\ MapThenSumSet(LAMBDA t : left[t], Plugins) = MaxCalls
    /\ \A t \in Drivers : left[t] = MaxEvents
    /\ told = [d \in Dpids |-> {}] /\ leaked = {} /\ doomed = {} /\ unheard = {}

At(t, step) == call[t].pc = step
Goto(t, step) == call' = [call EXCEPT ![t].pc = step]
Finish(t, how) == call' = [call EXCEPT ![t] = Idle(how)]

-----------------------------------------------------------------------------
(* Calls begin *)

FirstStep == [create |-> "create_lock", destroy |-> "destroy_lock", attach |-> "attach_check",
              detach |-> "detach_lock", connect |-> "connect_lock", bring |-> "bring_check",
              configure |-> "wrlock", query |-> "rdlock",
              blacklist |-> "blacklist_check", whitelist |-> "whitelist_check"]

Begin(t, op, d, e, p) ==
    /\ At(t, "idle") /\ left[t] > 0
    /\ left' = [left EXCEPT ![t] = @ - 1]
    /\ call' = [call EXCEPT ![t] = InCall(op, FirstStep[op], d, e, p, <<>>)]
    /\ UNCHANGED <<driverState, mgrState, locks, history>>

Call(t) ==
    \/ \E op \in {"create", "destroy", "configure", "query"}, d \in Dpids : Begin(t, op, d, 0, None)
    \/ \E op \in {"attach", "detach"}, d \in Dpids, p \in Ports : Begin(t, op, d, 0, p)
    \/ \E d \in Dpids, e \in Dpids : Begin(t, "connect", d, e, None)
    \/ \E op \in PluginOps \cap {"bring", "blacklist", "whitelist"}, p \in Ports : Begin(t, op, 0, 0, p)

\* The list of things to tell is worked through by Events below.
Tell(t, op, d, p, events) ==
    call' = [call EXCEPT ![t] = InCall(op, "events", d, 0, p, events)]

\* A snapshot of the port is taken first; a blacklisted port is nobody's concern.
hal_cmm_notify_port_status_changed(t, p) ==
    /\ At(t, "idle") /\ left[t] > 0
    /\ p \in ports /\ p \notin blacklisted /\ attached[p] # 0
    /\ left' = [left EXCEPT ![t] = @ - 1]
    /\ Tell(t, "status", attached[p], p, <<[kind |-> "status", d |-> attached[p], p |-> p]>>)
    /\ UNCHANGED <<driverState, mgrState, locks, history>>

\* process_of1x_packet_in, process_of1x_flow_removed: the driver names the LSI.
hal_cmm_process_of1x(t, d) ==
    /\ At(t, "idle") /\ left[t] > 0
    /\ left' = [left EXCEPT ![t] = @ - 1]
    /\ Tell(t, "packet_in", d, None, <<[kind |-> "process", d |-> d, p |-> None]>>)
    /\ UNCHANGED <<driverState, mgrState, locks, history>>

-----------------------------------------------------------------------------
(* switch_manager *)

LockSm(t, from, to) ==
    /\ At(t, from) /\ smMutex = None
    /\ smMutex' = t
    /\ Goto(t, to)
    /\ UNCHANGED <<driverState, mgrState, pmMutex, writer, readers, left, history>>

\* Taken dpid or name, unsupported version or socket type.
create_refused(t) ==
    /\ At(t, "create")
    /\ smMutex' = None
    /\ Finish(t, "threw")
    /\ UNCHANGED <<driverState, mgrState, pmMutex, writer, readers, left, history>>

\* The constructor throws: the driver refuses the switch.  Nobody unlocks.
create_constructor_throws(t) ==
    /\ At(t, "create") /\ call[t].d \notin switchs
    /\ Finish(t, "threw")
    /\ leaked' = leaked \cup {"constructor"}
    /\ UNCHANGED <<driverState, mgrState, locks, left, doomed, unheard>>

create_construct(t) ==
    /\ At(t, "create") /\ call[t].d \notin switchs
    /\ lsis' = lsis \cup {call[t].d}
    /\ objects' = objects \cup {call[t].d}
    /\ told' = [told EXCEPT ![call[t].d] = {}]
    /\ Goto(t, "insert")
    /\ UNCHANGED <<ports, attached, links, switchs, vlinks, blacklisted, under, locks, left, history>>

create_insert(t) ==
    /\ At(t, "insert")
    /\ switchs' = switchs \cup {call[t].d}
    /\ smMutex' = None
    /\ Finish(t, "returned")
    /\ UNCHANGED <<driverState, objects, vlinks, blacklisted, under, told, pmMutex, writer, readers, left, history>>

\* Mutant: the mutex is not released on the way out.
unknown_keeps_mutex(t) ==
    /\ At(t, "destroy") /\ call[t].d \notin switchs
    /\ Finish(t, "threw")
    /\ UNCHANGED <<driverState, mgrState, locks, left, history>>

destroy_unknown(t) ==
    /\ At(t, "destroy") /\ call[t].d \notin switchs
    /\ smMutex' = None
    /\ Finish(t, "threw")
    /\ UNCHANGED <<driverState, mgrState, pmMutex, writer, readers, left, history>>

\* The ports to detach are those of a snapshot.
destroy_snapshot(t) ==
    /\ At(t, "destroy") /\ call[t].d \in switchs
    /\ under' = call[t].d
    /\ doomed' = doomed \cup {call[t].d}
    /\ call' = [call EXCEPT ![t].pc = "loop",
                            ![t].todo = {p \in ports : attached[p] = call[t].d}]
    /\ UNCHANGED <<driverState, switchs, objects, vlinks, blacklisted, told, locks, left, leaked, unheard>>

destroy_detach(t) ==
    /\ At(t, "loop")
    /\ \E p \in call[t].todo :
          call' = [call EXCEPT ![t].pc = "detach_lock", ![t].p = p, ![t].todo = @ \ {p}]
    /\ UNCHANGED <<driverState, mgrState, locks, left, history>>

destroy_detached(t) ==
    /\ At(t, "loop") /\ call[t].todo = {}
    /\ Goto(t, "erase")
    /\ UNCHANGED <<driverState, mgrState, locks, left, history>>

\* Mutant: the map is changed without the write lock.
erase_unlocked(t) ==
    /\ At(t, "erase")
    /\ switchs' = switchs \ {call[t].d}
    /\ Goto(t, "delete")
    /\ UNCHANGED <<driverState, objects, vlinks, blacklisted, under, told, locks, left, history>>

\* The write lock is held for the erase alone.
destroy_erase(t) ==
    /\ At(t, "erase") /\ writer = None /\ readers = {}
    /\ switchs' = switchs \ {call[t].d}
    /\ Goto(t, "delete")
    /\ UNCHANGED <<driverState, objects, vlinks, blacklisted, under, told, locks, left, history>>

\* The destructor ends the endpoint, then the driver detaches what is left.
destroy_delete(t) ==
    /\ At(t, "delete")
    /\ objects' = objects \ {call[t].d}
    /\ lsis' = lsis \ {call[t].d}
    /\ attached' = [p \in Ports |-> IF attached[p] = call[t].d THEN 0 ELSE attached[p]]
    /\ Goto(t, "reset")
    /\ UNCHANGED <<ports, links, switchs, vlinks, blacklisted, under, told, locks, left, history>>

destroy_reset(t) ==
    /\ At(t, "reset")
    /\ under' = 0
    /\ smMutex' = None
    /\ Finish(t, "returned")
    /\ UNCHANGED <<driverState, switchs, objects, vlinks, blacklisted, told, pmMutex, writer, readers, left, history>>

\* rpc_connect_to_ctl, rpc_disconnect_from_ctl, reconfigure_pirl: work under the
\* write lock.
WriteLock(t) ==
    /\ At(t, "wrlock") /\ writer = None /\ readers = {}
    /\ writer' = t
    /\ Goto(t, "configure")
    /\ UNCHANGED <<driverState, mgrState, smMutex, pmMutex, readers, left, history>>

configure(t) ==
    /\ At(t, "configure")
    /\ writer' = None
    /\ Finish(t, IF call[t].d \in switchs THEN "returned" ELSE "threw")
    /\ UNCHANGED <<driverState, mgrState, smMutex, pmMutex, readers, left, history>>

\* get_switch_table_flows, get_switch_group_mods.
ReadLock(t) ==
    /\ At(t, "rdlock") /\ writer = None
    /\ readers' = readers \cup {t}
    /\ Goto(t, "query")
    /\ UNCHANGED <<driverState, mgrState, smMutex, pmMutex, writer, left, history>>

query_unknown(t) ==
    /\ At(t, "query") /\ call[t].d \notin switchs
    /\ readers' = readers \ {t}
    /\ Finish(t, "threw")
    /\ UNCHANGED <<driverState, mgrState, smMutex, pmMutex, writer, left, history>>

query_found(t) ==
    /\ At(t, "query") /\ call[t].d \in switchs
    /\ Goto(t, "use")
    /\ UNCHANGED <<driverState, mgrState, locks, left, history>>

query_use(t) ==
    /\ At(t, "use")
    /\ readers' = readers \ {t}
    /\ Finish(t, "returned")
    /\ UNCHANGED <<driverState, mgrState, smMutex, pmMutex, writer, left, history>>

-----------------------------------------------------------------------------
(* Events: calls back into the managers, one after the other *)

Pop(t) == call' = [call EXCEPT ![t].pc = "events", ![t].events = Tail(@)]

\* Mutant: a deleted virtual port stays in the cache.
forget_nothing(t) == vlinks' = vlinks

\* __notify_port_deleted forgets a virtual port.
forget_vlink(t) ==
    LET e == Head(call[t].events)
    IN vlinks' = IF e.kind = "deleted" THEN {v \in vlinks : v[1] # e.p} ELSE vlinks

\* hal_cmm_notify_port_add, _delete, _status_changed drop a blacklisted port.
notify_blacklisted(t) ==
    /\ At(t, "events") /\ call[t].events # <<>>
    /\ LET e == Head(call[t].events)
       IN /\ e.kind \in CmmKinds /\ e.p \in blacklisted
          /\ unheard' = IF e.kind = "deleted" THEN unheard \cup {e.p} ELSE unheard
    /\ Pop(t)
    /\ UNCHANGED <<driverState, mgrState, locks, left, leaked, doomed>>

\* switch_manager::__notify_port_*: give up for the LSI under destruction.
notify_begin(t) ==
    /\ At(t, "events") /\ call[t].events # <<>>
    /\ LET e == Head(call[t].events)
       IN /\ e.kind # "remove"
          /\ e.kind \notin CmmKinds \/ e.p \notin blacklisted
          /\ IF e.d \in {0, under} THEN Pop(t) ELSE Goto(t, "tryrdlock")
    /\ forget_vlink(t)
    /\ UNCHANGED <<driverState, switchs, objects, blacklisted, under, told, locks, left, history>>

notify_tryrdlock(t) ==
    /\ At(t, "tryrdlock") /\ writer = None
    /\ readers' = readers \cup {t}
    /\ Goto(t, "lookup")
    /\ UNCHANGED <<driverState, mgrState, smMutex, pmMutex, writer, left, history>>

\* Mutant: a busy lock drops the notification.
give_up_when_busy(t) ==
    /\ At(t, "tryrdlock") /\ writer # None
    /\ Pop(t)
    /\ UNCHANGED <<driverState, mgrState, locks, left, history>>

\* "This can happen while destroying the LSI".
notify_give_up(t) ==
    /\ At(t, "tryrdlock") /\ writer # None
    /\ Head(call[t].events).d = under
    /\ Pop(t)
    /\ UNCHANGED <<driverState, mgrState, locks, left, history>>

notify_lookup(t) ==
    /\ At(t, "lookup")
    /\ IF Head(call[t].events).d \in switchs
       THEN Goto(t, "notify") /\ UNCHANGED readers
       ELSE Pop(t) /\ readers' = readers \ {t}
    /\ UNCHANGED <<driverState, mgrState, smMutex, pmMutex, writer, left, history>>

\* The endpoint sends the message to its controllers.
notify_send(t) ==
    /\ At(t, "notify")
    /\ LET e == Head(call[t].events)
       IN told' = CASE e.kind \in {"attached", "added"} -> [told EXCEPT ![e.d] = @ \cup {e.p}]
                    [] e.kind \in {"detached", "deleted"} -> [told EXCEPT ![e.d] = @ \ {e.p}]
                    [] OTHER -> told
    /\ readers' = readers \ {t}
    /\ Pop(t)
    /\ UNCHANGED <<driverState, switchs, objects, vlinks, blacklisted, under, smMutex, pmMutex, writer, left, history>>

\* The driver deletes both ends of a virtual link.
remove_vlink(t) ==
    /\ At(t, "events") /\ call[t].events # <<>>
    /\ LET e == Head(call[t].events)
       IN e.kind = "remove" /\ ports' = ports \ {e.p, call[t].p}
    /\ Pop(t)
    /\ UNCHANGED <<lsis, attached, links, mgrState, locks, left, history>>

\* Back in the caller.  A destroy goes on with the next port.
events_done(t) ==
    /\ At(t, "events") /\ call[t].events = <<>>
    /\ CASE call[t].op \in DriverOps -> Finish(t, "returned") /\ UNCHANGED pmMutex
         [] call[t].op = "connect" -> Goto(t, "cache") /\ UNCHANGED pmMutex
         [] call[t].op = "destroy" -> Goto(t, "loop") /\ pmMutex' = None
         [] OTHER -> Finish(t, "returned") /\ pmMutex' = None
    /\ UNCHANGED <<driverState, mgrState, smMutex, writer, readers, left, history>>

-----------------------------------------------------------------------------
(* port_manager *)

LockPm(t, from, to) ==
    /\ At(t, from) /\ pmMutex = None
    /\ pmMutex' = t
    /\ Goto(t, to)
    /\ UNCHANGED <<driverState, mgrState, smMutex, writer, readers, left, history>>

\* The error paths that unlock and throw.
ThrowPm(t) ==
    /\ pmMutex' = None
    /\ Finish(t, "threw")
    /\ UNCHANGED <<driverState, mgrState, smMutex, writer, readers, left, history>>

\* Checks outside of the mutex: attach throws, bring_up and bring_down return.
check_blacklisted(t) ==
    /\ \/ /\ At(t, "attach_check")
          /\ IF call[t].p \in blacklisted THEN Finish(t, "threw") ELSE Goto(t, "attach_lock")
       \/ /\ At(t, "bring_check")
          /\ IF call[t].p \in blacklisted THEN Finish(t, "returned") ELSE Goto(t, "bring_lock")
    /\ UNCHANGED <<driverState, mgrState, locks, left, history>>

\* Mutant: the existence check serialises with create and destroy.
exists_serialised(t) ==
    /\ At(t, "exists") /\ writer = None /\ smMutex = None
    /\ IF call[t].p \in ports /\ call[t].d \in switchs
       THEN Goto(t, "attach") /\ UNCHANGED <<driverState, mgrState, locks, left, history>>
       ELSE ThrowPm(t)

attach_exists(t) ==
    /\ At(t, "exists") /\ writer = None
    /\ IF call[t].p \in ports /\ call[t].d \in switchs
       THEN Goto(t, "attach") /\ UNCHANGED <<driverState, mgrState, locks, left, history>>
       ELSE ThrowPm(t)

\* hal_driver_attach_port_to_switch.
attach_port_to_switch(t) ==
    /\ At(t, "attach")
    /\ IF call[t].d \in lsis /\ call[t].p \in ports /\ attached[call[t].p] = 0
       THEN /\ attached' = [attached EXCEPT ![call[t].p] = call[t].d]
            /\ call' = [call EXCEPT ![t].pc = "events",
                         ![t].events = <<[kind |-> "attached", d |-> call[t].d, p |-> call[t].p]>>]
            /\ UNCHANGED <<lsis, ports, links, mgrState, locks, left, history>>
       ELSE ThrowPm(t)

\* The exception ends a destroy as well: only the two mutexes are released.
DetachFails(t) ==
    /\ pmMutex' = None
    /\ smMutex' = IF call[t].op = "destroy" THEN None ELSE smMutex
    /\ Finish(t, "threw")

detach_throws(t) ==
    /\ At(t, "detach")
    /\ call[t].p \notin ports \/ attached[call[t].p] # call[t].d \/ call[t].d \notin lsis
    /\ DetachFails(t)
    /\ UNCHANGED <<driverState, mgrState, writer, readers, left, history>>

Pair(p) == IF p % 2 = 1 THEN p + 1 ELSE p - 1

\* The pair lost its LSI: the driver gives up after it detached the port.
detach_pair_unattached(t) ==
    LET p == call[t].p
    IN /\ At(t, "detach")
       /\ p \in ports \cap Virtual /\ attached[p] = call[t].d /\ call[t].d \in lsis
       /\ attached[Pair(p)] = 0
       /\ attached' = [attached EXCEPT ![p] = 0]
       /\ DetachFails(t)
       /\ UNCHANGED <<lsis, ports, links, mgrState, writer, readers, left, history>>

\* hal_driver_detach_port_from_switch; a virtual port takes its pair along.
detach_port_from_switch(t) ==
    LET p == call[t].p
        gone == IF p \in Virtual THEN {p, Pair(p)} ELSE {p}
    IN /\ At(t, "detach")
       /\ p \in ports /\ attached[p] = call[t].d /\ call[t].d \in lsis
       /\ p \in Virtual => attached[Pair(p)] # 0
       /\ attached' = [q \in Ports |-> IF q \in gone THEN 0 ELSE attached[q]]
       /\ call' = [call EXCEPT ![t].pc = "events", ![t].events =
              IF p \in Virtual
              THEN <<[kind |-> "deleted", d |-> attached[Pair(p)], p |-> Pair(p)],
                     [kind |-> "remove", d |-> 0, p |-> Pair(p)],
                     [kind |-> "deleted", d |-> call[t].d, p |-> p]>>
              ELSE <<[kind |-> "detached", d |-> call[t].d, p |-> p]>>]
       /\ UNCHANGED <<lsis, ports, links, mgrState, locks, left, history>>

connect_exists(t) ==
    /\ At(t, "connect_exists") /\ writer = None
    /\ IF {call[t].d, call[t].e} \subseteq switchs
       THEN Goto(t, "connect") /\ UNCHANGED <<driverState, mgrState, locks, left, history>>
       ELSE ThrowPm(t)

\* hal_driver_connect_switches announces both ports itself and brings them up.
connect_switches(t) ==
    /\ At(t, "connect")
    /\ IF {call[t].d, call[t].e} \subseteq lsis /\ links < MaxLinks
       THEN LET v == 2 * links + 1
            IN /\ links' = links + 1
               /\ ports' = ports \cup {v, v + 1}
               /\ attached' = [attached EXCEPT ![v] = call[t].d, ![v + 1] = call[t].e]
               /\ call' = [call EXCEPT ![t].pc = "events", ![t].p = v, ![t].events =
                      <<[kind |-> "added", d |-> call[t].d, p |-> v],
                        [kind |-> "added", d |-> call[t].e, p |-> v + 1],
                        [kind |-> "status", d |-> call[t].d, p |-> v],
                        [kind |-> "status", d |-> call[t].e, p |-> v + 1]>>]
               /\ UNCHANGED <<lsis, mgrState, locks, left, history>>
       ELSE ThrowPm(t)

\* Mutant: the pair is off by one.
add_wrong_pair(t) ==
    /\ At(t, "cache")
    /\ vlinks' = vlinks \cup {<<call[t].p, call[t].p + 1>>, <<call[t].p + 1, call[t].p + 2>>}
    /\ pmMutex' = None
    /\ Finish(t, "returned")
    /\ UNCHANGED <<driverState, switchs, objects, blacklisted, under, told, smMutex, writer, readers, left, history>>

add_vlink(t) ==
    /\ At(t, "cache")
    /\ vlinks' = vlinks \cup {<<call[t].p, call[t].p + 1>>, <<call[t].p + 1, call[t].p>>}
    /\ pmMutex' = None
    /\ Finish(t, "returned")
    /\ UNCHANGED <<driverState, switchs, objects, blacklisted, under, told, smMutex, writer, readers, left, history>>

\* bring_up, bring_down: the driver notifies only the change of a virtual port, the
\* background thread that of another.
bring(t) ==
    LET p == call[t].p
    IN /\ At(t, "bring")
       /\ IF p \in ports
          THEN /\ call' = [call EXCEPT ![t].pc = "events", ![t].events =
                             IF p \notin Virtual THEN <<>>
                             ELSE <<[kind |-> "status", d |-> attached[p], p |-> p]>>]
               /\ UNCHANGED <<driverState, mgrState, locks, left, history>>
          ELSE ThrowPm(t)

check_blacklist(t) ==
    /\ At(t, "blacklist_check")
    /\ IF call[t].p \notin ports THEN Finish(t, "threw")
       ELSE IF call[t].p \in blacklisted THEN Finish(t, "returned")
       ELSE Goto(t, "blacklist_lock")
    /\ UNCHANGED <<driverState, mgrState, locks, left, history>>

\* An attached port, or one that is gone by now: thrown with the mutex held.
blacklist_throws(t) ==
    /\ At(t, "blacklist")
    /\ call[t].p \notin ports \/ attached[call[t].p] # 0
    /\ Finish(t, "threw")
    /\ leaked' = leaked \cup {"blacklist"}
    /\ UNCHANGED <<driverState, mgrState, locks, left, doomed, unheard>>

blacklist(t) ==
    /\ At(t, "blacklist")
    /\ call[t].p \in ports /\ attached[call[t].p] = 0
    /\ blacklisted' = blacklisted \cup {call[t].p}
    /\ pmMutex' = None
    /\ Finish(t, "returned")
    /\ UNCHANGED <<driverState, switchs, objects, vlinks, under, told, smMutex, writer, readers, left, history>>

check_whitelist(t) ==
    /\ At(t, "whitelist_check")
    /\ IF call[t].p \notin ports THEN Finish(t, "threw")
       ELSE IF call[t].p \notin blacklisted THEN Finish(t, "returned")
       ELSE Goto(t, "whitelist_lock")
    /\ UNCHANGED <<driverState, mgrState, locks, left, history>>

\* Lock, erase, unlock.
whitelist(t) ==
    /\ At(t, "whitelist_lock") /\ pmMutex = None
    /\ blacklisted' = blacklisted \ {call[t].p}
    /\ Finish(t, "returned")
    /\ UNCHANGED <<driverState, switchs, objects, vlinks, under, told, locks, left, history>>

-----------------------------------------------------------------------------

SwitchManager(t) ==
    \/ LockSm(t, "create_lock", "create") \/ LockSm(t, "destroy_lock", "destroy")
    \/ create_refused(t) \/ create_constructor_throws(t) \/ create_construct(t) \/ create_insert(t)
    \/ destroy_unknown(t) \/ destroy_snapshot(t) \/ destroy_detach(t) \/ destroy_detached(t)
    \/ destroy_erase(t) \/ destroy_delete(t) \/ destroy_reset(t)
    \/ WriteLock(t) \/ configure(t)
    \/ ReadLock(t) \/ query_unknown(t) \/ query_found(t) \/ query_use(t)

Notification(t) ==
    \/ notify_blacklisted(t) \/ notify_begin(t) \/ notify_tryrdlock(t) \/ notify_give_up(t)
    \/ notify_lookup(t) \/ notify_send(t) \/ remove_vlink(t) \/ events_done(t)

PortManager(t) ==
    \/ LockPm(t, "attach_lock", "exists") \/ LockPm(t, "detach_lock", "detach")
    \/ LockPm(t, "connect_lock", "connect_exists") \/ LockPm(t, "bring_lock", "bring")
    \/ LockPm(t, "blacklist_lock", "blacklist")
    \/ check_blacklisted(t) \/ attach_exists(t) \/ attach_port_to_switch(t)
    \/ detach_throws(t) \/ detach_pair_unattached(t) \/ detach_port_from_switch(t)
    \/ connect_exists(t) \/ connect_switches(t) \/ add_vlink(t) \/ bring(t)
    \/ check_blacklist(t) \/ blacklist_throws(t) \/ blacklist(t) \/ check_whitelist(t) \/ whitelist(t)

Step(t) == SwitchManager(t) \/ Notification(t) \/ PortManager(t)

Next ==
    \/ \E t \in Plugins : Call(t)
    \/ \E t \in Drivers : \/ \E p \in Ports : hal_cmm_notify_port_status_changed(t, p)
                          \/ \E d \in Dpids : hal_cmm_process_of1x(t, d)
    \/ \E t \in Threads : Step(t)

Spec == Init /\ [][Next]_vars

-----------------------------------------------------------------------------
(* Properties *)

\* The dpid whose object a thread is working with.
InUse(t) ==
    CASE At(t, "use") -> {call[t].d}
      [] At(t, "notify") -> {Head(call[t].events).d}
      [] At(t, "configure") -> {call[t].d} \cap switchs
      [] OTHER -> {}

(* destroy_switch erases the map entry under the write lock and deletes the object after
   it: no notification, query or configuration ever works with a deleted openflow_switch,
   and every switch in the map has its driver side.  *)
NoUseAfterDelete ==
    /\ \A t \in Threads : InUse(t) \subseteq objects
    /\ switchs \subseteq objects \cap lsis

(* Whatever error path a call of the managers takes, it returns holding no lock, except for
   the constructor that throws in create_switch and for blacklist, which leave their mutex
   locked.  *)
LocksReleased ==
    \A t \in Threads : At(t, "idle") =>
        /\ t # writer /\ t \notin readers
        /\ t = smMutex => "constructor" \in leaked
        /\ t = pmMutex => "blacklist" \in leaked

(* Nobody is attaching, detaching or announcing: the cache of virtual links names exactly the
   virtual ports the driver has, and those that were on the black list when the driver
   deleted them: nobody will take these out of the cache any more.  *)
CacheMatchesDriver ==
    pmMutex = None => {v[1] : v \in vlinks} = (ports \cap Virtual) \cup unheard

(* Every port attached to a switch has been announced to its controllers, whatever locks the
   notification met on its way, as long as nobody set out to destroy the switch: attach
   checks that the switch exists some steps before it attaches and announces the port, and
   a switch that is destroyed and created again in between misses the announcement.  *)
AttachedIsTold ==
    pmMutex = None =>
        \A p \in ports : LET d == attached[p]
                          IN d \in switchs \ doomed => p \in told[d]

(* The callers never all wait for each other: the mutexes and the read-write lock are taken
   in one order, and a notification sent under them does not wait for the destruction it
   is part of.  Only the two exits that leave a mutex locked can stop everybody.  *)
NobodyStuck ==
    leaked = {} /\ (\E t \in Threads : ~At(t, "idle")) => \E t \in Threads : ENABLED Step(t)

=============================================================================
