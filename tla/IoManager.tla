----------------------------- MODULE IoManager -----------------------------
(***************************************************************************)
(* Port groups and their I/O threads: io/iomanager.{h,cc} and the loop of  *)
(* io/scheduler/epoll_ioscheduler.{h,cc}.  A group has one thread          *)
(* (DEFAULT_THREADS_PER_PG).  Callers add ports to an RX and a TX group,   *)
(* remove them, and bring them up and down; all of that is serialised by   *)
(* iomanager::mutex.  A caller that changes running_ports bumps            *)
(* running_hash and waits on sync_sem until the group's thread has seen    *)
(* the change; when the group becomes empty it joins the thread instead.   *)
(*                                                                         *)
(* Manager is the one thread that is inside port_manager at a time (it     *)
(* attaches and detaches ports).  Others are the background thread         *)
(* (netlink events) and the OpenFlow endpoints (port_mod), which bring     *)
(* ports up and down without port_manager's mutex.                         *)
(***************************************************************************)
EXTENDS Integers, FiniteSetsExt

CONSTANTS Ports,
          Manager,   \* the caller that adds and removes ports
          Others,    \* the callers that only bring ports up and down
          NumRx,     \* num_of_rx_groups
          NumTx,     \* num_of_tx_groups
          HashSize,  \* values of running_hash (2^32 in the code)
          TxErrors,  \* how often sending on an mmap port may fail
          None       \* no caller, no port

ASSUME GroupAssumption == NumRx \in Nat \ {0} /\ NumTx \in Nat \ {0}

ASSUME HashAssumption == HashSize \in Nat /\ HashSize > 1 /\ TxErrors \in Nat

ASSUME CallerAssumption == Manager \notin Others /\ None \notin Others \cup {Manager} \cup Ports

Callers == Others \cup {Manager}

\* Group ids: RX groups first, then TX groups.
RxGroups == 0..(NumRx - 1)
TxGroups == NumRx..(NumRx + NumTx - 1)
Groups == RxGroups \cup TxGroups

VARIABLES
    ports,      \* portgroup_state: all ports of the group
    running,    \* portgroup_state: running_ports
    hash,       \* portgroup_state: running_hash
    sem,        \* portgroup_state: sync_sem
    keep_on,    \* portgroup_state
    next_rx, next_tx,   \* round robin of rx_sched and tx_sched
    attached,   \* ports with an attached_sw
    open,       \* ports whose port->up() was not yet followed by port->down()
    up,         \* ports with of_port_state->up
    op,         \* per caller: the call it is in, "idle" when in none
    arg,        \* per caller: the port the call is about
    holder,     \* who has iomanager::mutex
    cs,         \* the holder's next step
    grp,        \* the holder's group
    rx, tx,     \* brought_rx_up / brought_rx_down, brought_tx_up / brought_tx_down
    tpc,        \* per group: next step of its thread, "none" when there is none
    tports,     \* per group: the ports in the thread's epoll set
    thash,      \* per group: the thread's current_hash
    tio,        \* per group: ports with an event still to be served
    errs        \* failed sends so far

groupState == <<ports, running, hash, sem, keep_on>>
sched == <<next_rx, next_tx>>
portState == <<attached, open, up>>
call == <<op, arg>>
section == <<holder, cs, grp, rx, tx>>
threadState == <<tpc, tports, thash, tio, errs>>
vars == <<groupState, sched, portState, call, section, threadState>>

ThreadSteps == {"size", "snap", "hash", "post", "loop", "poll", "io", "check"}
SectionSteps == {"free", "up", "up_hash", "up_wait",
                 "down", "down_hash", "down_stop", "down_join", "down_wait"}
Ops == {"idle", "up", "down", "add_rx", "add_tx", "remove_rx", "remove_tx"}

TypeOK ==
    /\ ports \in [Groups -> SUBSET Ports]
    /\ running \in [Groups -> SUBSET Ports]
    /\ hash \in [Groups -> 0..(HashSize - 1)]
    /\ sem \in [Groups -> Nat]
    /\ keep_on \in [Groups -> BOOLEAN]
    /\ next_rx \in RxGroups /\ next_tx \in 0..(NumTx - 1)
    /\ attached \subseteq Ports /\ open \subseteq Ports /\ up \subseteq Ports
    /\ op \in [Callers -> Ops]
    /\ arg \in [Callers -> Ports \cup {None}]
    /\ holder \in Callers \cup {None}
    /\ cs \in SectionSteps
    /\ grp \in 0..(NumRx + NumTx)
    /\ rx \in BOOLEAN /\ tx \in BOOLEAN
    /\ tpc \in [Groups -> {"none"} \cup ThreadSteps]
    /\ tports \in [Groups -> SUBSET Ports]
    /\ thash \in [Groups -> 0..(HashSize - 1)]
    /\ tio \in [Groups -> SUBSET Ports]
    /\ errs \in 0..TxErrors

Init ==
    /\ ports = [g \in Groups |-> {}]
    /\ running = [g \in Groups |-> {}]
    /\ hash = [g \in Groups |-> 0]
    /\ sem = [g \in Groups |-> 0]
    /\ keep_on = [g \in Groups |-> FALSE]
    /\ next_rx = 0 /\ next_tx = 0
    /\ attached = {} /\ open = {} /\ up = {}
    /\ op = [c \in Callers |-> "idle"]
    /\ arg = [c \in Callers |-> None]
    /\ holder = None /\ cs = "free" /\ grp = 0 /\ rx = FALSE /\ tx = FALSE
    /\ tpc = [g \in Groups |-> "none"]
    /\ tports = [g \in Groups |-> {}]
    /\ thash = [g \in Groups |-> 0]
    /\ tio = [g \in Groups |-> {}]
    /\ errs = 0

Bump(h) == (h + 1) % HashSize

\* running_ports is read-locked from the snapshot to the signal.
WriteLockFree(g) == tpc[g] \notin {"hash", "post"}

Release ==
    /\ holder' = None /\ cs' = "free" /\ grp' = 0 /\ rx' = FALSE /\ tx' = FALSE

EndCall(c) ==
    /\ op' = [op EXCEPT ![c] = "idle"]
    /\ arg' = [arg EXCEPT ![c] = None]

\* The port the holder of the mutex works on.
port == arg[holder]

-----------------------------------------------------------------------------
(* Calls.  hal_driver_attach_port_to_switch, _detach_port_from_switch,       *)
(* _bring_port_up and _bring_port_down, update_port_status.                  *)

Idle(c) == op[c] = "idle"

Begin(c, what, q) ==
    /\ op' = [op EXCEPT ![c] = what]
    /\ arg' = [arg EXCEPT ![c] = q]
    /\ UNCHANGED <<groupState, sched, section, threadState>>

Attach(q) ==
    /\ Idle(Manager)
    /\ q \notin attached
    /\ attached' = attached \cup {q}
    /\ Begin(Manager, "add_rx", q)
    /\ UNCHANGED <<open, up>>

\* RX group first, then TX group: DownReturn goes from one to the other.
remove_port(q) == Begin(Manager, "remove_rx", q)

Detach(q) ==
    /\ Idle(Manager)
    /\ q \in attached
    /\ remove_port(q)
    /\ UNCHANGED portState

BringPort(q) ==
    /\ Idle(Manager)
    /\ q \in attached
    /\ Begin(Manager, "up", q) \/ Begin(Manager, "down", q)
    /\ UNCHANGED portState

\* netlink reports the interface up or down; ports in no group are brought
\* up and down all the same.
update_port_status(c, q) ==
    /\ Idle(c)
    /\ Begin(c, "up", q) \/ Begin(c, "down", q)
    /\ UNCHANGED portState

\* A port that is attached to no switch is only opened or closed.
BringUnattachedUp(q) ==
    /\ Idle(Manager)
    /\ q \notin attached
    /\ open' = open \cup {q}
    /\ up' = up \cup {q}
    /\ UNCHANGED <<attached, groupState, sched, call, section, threadState>>

BringUnattachedDown(q) ==
    /\ Idle(Manager)
    /\ q \notin attached
    /\ open' = open \ {q}
    /\ up' = up \ {q}
    /\ UNCHANGED <<attached, groupState, sched, call, section, threadState>>

-----------------------------------------------------------------------------
(* iomanager::add_port: two critical sections, RX then TX. *)

AddRx ==
    /\ holder = None
    /\ op[Manager] = "add_rx"
    /\ ports' = [ports EXCEPT ![next_rx] = @ \cup {arg[Manager]}]
    /\ next_rx' = (next_rx + 1) % NumRx
    /\ op' = [op EXCEPT ![Manager] = "add_tx"]
    /\ UNCHANGED <<running, hash, sem, keep_on, next_tx, portState, arg, section, threadState>>

\* Mutant: the round robin does not come round.
AddTxNoWrap ==
    /\ holder = None
    /\ op[Manager] = "add_tx"
    /\ ports' = [ports EXCEPT ![next_tx + NumRx] = @ \cup {arg[Manager]}]
    /\ next_tx' = next_tx + 1
    /\ EndCall(Manager)
    /\ UNCHANGED <<running, hash, sem, keep_on, next_rx, portState, section, threadState>>

AddTx ==
    /\ holder = None
    /\ op[Manager] = "add_tx"
    /\ ports' = [ports EXCEPT ![next_tx + NumRx] = @ \cup {arg[Manager]}]
    /\ next_tx' = (next_tx + 1) % NumTx
    /\ EndCall(Manager)
    /\ UNCHANGED <<running, hash, sem, keep_on, next_rx, portState, section, threadState>>

-----------------------------------------------------------------------------
(* iomanager::bring_port_up *)

Lock(c) ==
    /\ holder = None
    /\ op[c] \in {"up", "down", "remove_rx", "remove_tx"}
    /\ holder' = c
    /\ cs' = IF op[c] = "up" THEN "up" ELSE "down"
    /\ UNCHANGED <<grp, rx, tx, groupState, sched, portState, call, threadState>>

\* The groups the scan has not passed yet that have the port.
Contains(members) == {g \in Groups : g >= grp /\ port \in members[g]}

UpNotFound ==
    /\ cs = "up"
    /\ Contains(ports) = {}
    /\ up' = up \cup {port}
    /\ Release
    /\ EndCall(holder)
    /\ UNCHANGED <<attached, open, groupState, sched, threadState>>

UpAlready ==
    /\ cs = "up"
    /\ Contains(ports) # {}
    /\ port \in running[Min(Contains(ports))]
    /\ Release
    /\ EndCall(holder)
    /\ UNCHANGED <<groupState, sched, portState, threadState>>

\* port->up() comes before the port is added to its first group.
OpenFirst ==
    IF ~rx /\ ~tx THEN open' = open \cup {port} /\ up' = up \cup {port}
                  ELSE UNCHANGED <<open, up>>

UpStartThread ==
    /\ cs = "up"
    /\ Contains(ports) # {}
    /\ LET g == Min(Contains(ports))
       IN /\ running[g] = {}
          /\ running' = [running EXCEPT ![g] = {port}]
          /\ keep_on' = [keep_on EXCEPT ![g] = TRUE]
          /\ tpc' = [tpc EXCEPT ![g] = "size"]
          /\ tports' = [tports EXCEPT ![g] = {}]
          /\ thash' = [thash EXCEPT ![g] = 0]
          /\ grp' = g
    /\ OpenFirst
    /\ cs' = "up_wait"
    /\ UNCHANGED <<ports, hash, sem, sched, attached, call, holder, rx, tx, tio, errs>>

UpAddRunning ==
    /\ cs = "up"
    /\ Contains(ports) # {}
    /\ LET g == Min(Contains(ports))
       IN /\ running[g] # {} /\ port \notin running[g]
          /\ WriteLockFree(g)
          /\ running' = [running EXCEPT ![g] = @ \cup {port}]
          /\ grp' = g
    /\ OpenFirst
    /\ cs' = "up_hash"
    /\ UNCHANGED <<ports, hash, sem, keep_on, sched, attached, call, holder, rx, tx, threadState>>

\* Mutant: the change of running_ports is not announced.
UpNoHash ==
    /\ cs = "up_hash"
    /\ cs' = "up_wait"
    /\ UNCHANGED <<groupState, sched, portState, call, holder, grp, rx, tx, threadState>>

UpHash ==
    /\ cs = "up_hash"
    /\ hash' = [hash EXCEPT ![grp] = Bump(@)]
    /\ cs' = "up_wait"
    /\ UNCHANGED <<ports, running, sem, keep_on, sched, portState, call, holder, grp, rx, tx, threadState>>

\* Mutant: the scan ends at the first group.
EitherIsEnough == TRUE

\* The group just done completes the pair of RX and TX.
Both == (rx \/ grp \in RxGroups) /\ (tx \/ grp \in TxGroups)

NextGroup(step) ==
    /\ rx' = (rx \/ grp \in RxGroups)
    /\ tx' = (tx \/ grp \in TxGroups)
    /\ grp' = grp + 1
    /\ cs' = step
    /\ UNCHANGED <<holder, call>>

UpWait ==
    /\ cs = "up_wait"
    /\ sem[grp] > 0
    /\ sem' = [sem EXCEPT ![grp] = @ - 1]
    /\ IF Both THEN Release /\ EndCall(holder) ELSE NextGroup("up")
    /\ UNCHANGED <<ports, running, hash, keep_on, sched, portState, threadState>>

-----------------------------------------------------------------------------
(* iomanager::bring_port_down, on its own or inside remove_port_from_group.  *)

\* Mutant: the port stays in its TX group when it is removed.
DownReturnKeepsTx ==
    /\ Release
    /\ IF op[holder] = "remove_rx"
       THEN /\ ports' = [g \in Groups |-> IF g \in RxGroups THEN ports[g] \ {port} ELSE ports[g]]
            /\ op' = [op EXCEPT ![holder] = "remove_tx"]
            /\ UNCHANGED <<arg, attached>>
       ELSE /\ attached' = IF op[holder] = "remove_tx" THEN attached \ {port} ELSE attached
            /\ EndCall(holder)
            /\ UNCHANGED ports

\* Back in the caller: remove_port_from_group erases the port from the group.
DownReturn ==
    /\ Release
    /\ CASE op[holder] = "down" ->
              EndCall(holder) /\ UNCHANGED <<ports, attached>>
         [] op[holder] = "remove_rx" ->
              /\ ports' = [g \in Groups |-> IF g \in RxGroups THEN ports[g] \ {port} ELSE ports[g]]
              /\ op' = [op EXCEPT ![holder] = "remove_tx"]
              /\ UNCHANGED <<arg, attached>>
         [] op[holder] = "remove_tx" ->
              /\ ports' = [g \in Groups |-> IF g \in TxGroups THEN ports[g] \ {port} ELSE ports[g]]
              /\ attached' = attached \ {port}
              /\ EndCall(holder)

DownNotFound ==
    /\ cs = "down"
    /\ Contains(running) = {}
    /\ up' = up \ {port}
    /\ DownReturn
    /\ UNCHANGED <<running, hash, sem, keep_on, sched, open, threadState>>

DownErase ==
    /\ cs = "down"
    /\ Contains(running) # {}
    /\ LET g == Min(Contains(running))
       IN /\ WriteLockFree(g)
          /\ running' = [running EXCEPT ![g] = @ \ {port}]
          /\ grp' = g
    /\ cs' = "down_hash"
    /\ UNCHANGED <<ports, hash, sem, keep_on, sched, portState, call, holder, rx, tx, threadState>>

DownHash ==
    /\ cs = "down_hash"
    /\ hash' = [hash EXCEPT ![grp] = Bump(@)]
    /\ cs' = IF running[grp] = {} THEN "down_stop" ELSE "down_wait"
    /\ UNCHANGED <<ports, running, sem, keep_on, sched, portState, call, holder, grp, rx, tx, threadState>>

DownStop ==
    /\ cs = "down_stop"
    /\ keep_on' = [keep_on EXCEPT ![grp] = FALSE]
    /\ cs' = "down_join"
    /\ UNCHANGED <<ports, running, hash, sem, sched, portState, call, holder, grp, rx, tx, threadState>>

\* Both groups let the port go: it is really brought down.
DownGroupDone ==
    IF Both THEN /\ open' = open \ {port} /\ up' = up \ {port}
                 /\ DownReturn
            ELSE NextGroup("down") /\ UNCHANGED <<portState, ports>>

DownJoin ==
    /\ cs = "down_join"
    /\ tpc[grp] = "none"
    /\ DownGroupDone
    /\ UNCHANGED <<running, hash, sem, keep_on, sched, threadState>>

\* Mutant: the port is closed without waiting for the I/O thread.
DownNoWait ==
    /\ cs = "down_wait"
    /\ DownGroupDone
    /\ UNCHANGED <<running, hash, sem, keep_on, sched, threadState>>

DownWait ==
    /\ cs = "down_wait"
    /\ sem[grp] > 0
    /\ sem' = [sem EXCEPT ![grp] = @ - 1]
    /\ DownGroupDone
    /\ UNCHANGED <<running, hash, keep_on, sched, threadState>>

-----------------------------------------------------------------------------
(* epoll_ioscheduler::process_io, the thread of group g. *)

Goto(g, step) == tpc' = [tpc EXCEPT ![g] = step]

\* Mutant: the thread signals for an empty group too (as polling_ioscheduler does).
UpdateAlways(g) ==
    /\ tpc[g] = "size"
    /\ Goto(g, "snap")
    /\ UNCHANGED <<groupState, sched, portState, call, section, tports, thash, tio, errs>>

\* init_or_update_fds returns at once when no port is running.
UpdateSize(g) ==
    /\ tpc[g] = "size"
    /\ Goto(g, IF running[g] = {} THEN "loop" ELSE "snap")
    /\ UNCHANGED <<groupState, sched, portState, call, section, tports, thash, tio, errs>>

UpdatePorts(g) ==
    /\ tpc[g] = "snap"
    /\ tports' = [tports EXCEPT ![g] = running[g]]
    /\ Goto(g, "hash")
    /\ UNCHANGED <<groupState, sched, portState, call, section, thash, tio, errs>>

UpdateHash(g) ==
    /\ tpc[g] = "hash"
    /\ thash' = [thash EXCEPT ![g] = hash[g]]
    /\ Goto(g, "post")
    /\ UNCHANGED <<groupState, sched, portState, call, section, tports, tio, errs>>

signal_as_synchronized(g) ==
    /\ tpc[g] = "post"
    /\ sem' = [sem EXCEPT ![g] = @ + 1]
    /\ Goto(g, "loop")
    /\ UNCHANGED <<ports, running, hash, keep_on, sched, portState, call, section, tports, thash, tio, errs>>

keep_on_working(g) ==
    /\ tpc[g] = "loop"
    /\ Goto(g, IF keep_on[g] THEN "poll" ELSE "none")
    /\ tports' = [tports EXCEPT ![g] = IF keep_on[g] THEN @ ELSE {}]
    /\ UNCHANGED <<groupState, sched, portState, call, section, thash, tio, errs>>

\* Any ports of the epoll set may have events; none is the timeout.
EpollWait(g) ==
    /\ tpc[g] = "poll"
    /\ \E events \in SUBSET tports[g] : tio' = [tio EXCEPT ![g] = events]
    /\ Goto(g, "io")
    /\ UNCHANGED <<groupState, sched, portState, call, section, tports, thash, errs>>

ProcessPort(g) ==
    /\ tpc[g] = "io"
    /\ \E q \in tio[g] : tio' = [tio EXCEPT ![g] = @ \ {q}]
    /\ UNCHANGED <<groupState, sched, portState, call, section, tpc, tports, thash, errs>>

\* ioport_mmap::write, tx->send() failed: the thread itself bumps the hash.
ProcessPortTxError(g) ==
    /\ tpc[g] = "io" /\ g \in TxGroups
    /\ errs < TxErrors
    /\ \E q \in tio[g] : tio' = [tio EXCEPT ![g] = @ \ {q}]
    /\ hash' = [hash EXCEPT ![g] = Bump(@)]
    /\ errs' = errs + 1
    /\ UNCHANGED <<ports, running, sem, keep_on, sched, portState, call, section, tpc, tports, thash>>

CheckHash(g) ==
    /\ tpc[g] = "io"
    /\ tio[g] = {}
    /\ Goto(g, IF hash[g] # thash[g] THEN "size" ELSE "loop")
    /\ UNCHANGED <<groupState, sched, portState, call, section, tports, thash, tio, errs>>

-----------------------------------------------------------------------------

Call ==
    \/ \E q \in Ports : \/ Attach(q) \/ Detach(q) \/ BringPort(q)
                       \/ BringUnattachedUp(q) \/ BringUnattachedDown(q)
    \/ \E c \in Others, q \in Ports : update_port_status(c, q)

CallerStep ==
    \/ AddRx \/ AddTx \/ UpNotFound \/ UpAlready \/ UpStartThread \/ UpAddRunning
    \/ UpHash \/ UpWait \/ DownNotFound \/ DownErase \/ DownHash \/ DownStop
    \/ DownJoin \/ DownWait

ThreadStep(g) ==
    \/ UpdateSize(g) \/ UpdatePorts(g) \/ UpdateHash(g) \/ signal_as_synchronized(g)
    \/ keep_on_working(g) \/ EpollWait(g) \/ ProcessPort(g) \/ CheckHash(g)

Next ==
    \/ Call
    \/ \E c \in Callers : Lock(c)
    \/ CallerStep
    \/ \E g \in Groups : ThreadStep(g) \/ ProcessPortTxError(g)

Spec == Init /\ [][Next]_vars

\* A caller inside the mutex and every I/O thread keep running.
Fairness == WF_vars(CallerStep) /\ \A g \in Groups : WF_vars(ThreadStep(g))

FairSpec == Spec /\ Fairness

-----------------------------------------------------------------------------

\* "Now that no more packets are feeded, bring it really down": a port is
\* closed only when no I/O thread can touch it any more.
NoIoOnClosedPort == \A g \in Groups : tio[g] \cup tports[g] \subseteq open

\* When nobody is changing the groups every I/O thread serves exactly the
\* running ports, knows the current hash, and no signal is left over for the
\* next caller to mistake for its own.
Synchronized ==
    holder = None => \A g \in Groups :
        /\ sem[g] = 0
        /\ IF running[g] = {} THEN tpc[g] = "none"
           ELSE tports[g] = running[g] /\ thash[g] = hash[g]
                /\ tpc[g] \in {"loop", "poll", "io"}

\* The assertions of add_port_to_group and remove_port: a port being added is in
\* no group of that type yet, a port being removed is in one.
GroupAsserts ==
    LET q == arg[Manager]
        InRx == \E g \in RxGroups : q \in ports[g]
        InTx == \E g \in TxGroups : q \in ports[g]
    IN /\ op[Manager] = "add_rx" => ~InRx
       /\ op[Manager] = "add_tx" => ~InTx
       /\ op[Manager] = "remove_rx" => InRx
       /\ op[Manager] = "remove_tx" => InTx

\* "If the port is attached to an OF logical switch, this also schedules port
\* for I/O": outside of calls a port is served for both RX and TX, or neither.
ScheduledBothWays ==
    (\A c \in Callers : op[c] = "idle") =>
        \A q \in Ports : (\E g \in RxGroups : q \in running[g])
                           <=> (\E g \in TxGroups : q \in running[g])

\* Whoever holds the mutex gets all its signals and joins and lets it go.
MutexReleased == \A c \in Callers : holder = c ~> holder # c

=============================================================================
