# xdpd: a verification project

This directory holds TLA+ modules that model xdpd, the eXtensible DataPath
daemon: the concurrent core of its GNU/Linux driver, the life of a packet in
it, the management plane and the OpenFlow endpoints; the TLC configurations
that model-check them on small instances; and TLAPS proofs for every value of
the constants.  Every definition is taken from the source; `PROJECT.json` maps
each one to the lines it stands for.  Paths below are relative to `src/xdpd/`
of the repository; `G/` abbreviates `drivers/gnu_linux/src/`.

## 1. The system

xdpd is an OpenFlow software switch.  A *driver* owns ports and forwards
packets; *management* code creates logical switches (LSIs), attaches ports to
them and loads plugins; *OpenFlow endpoints* talk to controllers.  The packet
pipeline itself (flow tables, matching, actions) is the external library
ROFL-pipeline, the OpenFlow protocol stack is the external ROFL.

### Inventory

| Part | State it keeps | Operations | Who calls it, from which thread | What makes it correct |
|---|---|---|---|---|
| `circular_queue` (`G/util/circular_queue.h`) | ring of pointers, `readp`, `writep`, `_writep` | `non_blocking_read`, `non_blocking_write` | every thread, without locks | it is a FIFO: nothing lost, repeated, reordered; no writer spins for ever |
| `bufferpool` (`G/io/bufferpool*`) | slots, a queue of the free ones | `get_buffer`, `release_buffer` | every thread | a buffer has one user; none is lost |
| `iomanager` (`G/io/iomanager.*`) | port groups: `ports`, `running_ports`, `running_hash`, `sync_sem`, `keep_on` | `add_port`, `remove_port`, `bring_port_up`, `bring_port_down` | management, endpoints (`port_mod`), background thread (netlink) | no I/O on a closed port; threads serve what the groups say; nobody waits for ever |
| epoll scheduler (`G/io/scheduler/epoll_ioscheduler.*`) | a thread's epoll set, `current_hash` | `process_io`, `init_or_update_fds`, `process_port_rx/tx` | one thread per group | see `iomanager` |
| virtual links (`G/io/ports/vlink`) | output queues, input queue, two notification pipes, deferred drains | `enqueue_packet`, `write`, `tx_pkt`, `read`, `up`, `down` | pipeline threads, TX and RX I/O threads | no packet waits without an event that wakes its thread |
| mmap ports (`G/io/ports/mmap`) | PACKET_MMAP rings, output queues, pipe | the same | the same | the same, and rings survive errors |
| packet-ins (`G/pipeline-imp/platform_hooks_of1x.cc`, `G/io/pktin_dispatcher.*`, `G/io/datapacket_storage.*`, `G/bg_taskmanager.cc`) | per LSI: queue of packet-ins, storage of packets by id; one notification pipe | enqueue, dispatch, store, take back, expire, drain | I/O threads, endpoints, background thread, management | a packet has one owner; every packet-in is dispatched; stored packets leave |
| HAL (`G/hal-imp`) | none | switch and port management, PACKET_OUT, FLOW_MOD | management, endpoints | it calls the parts in the right order |
| packet classifier (`G/io/packet_classifiers`) | per packet: a packet type, flags for stale checksums | `classify_packet`, push and pop of each header, getters, checksums | pipeline threads | the type is what a parse of the bytes would find; headers are where the getters look |
| packets and pipeline primitives (`G/io/datapacketx86*`, `G/pipeline-imp/packet*`) | a buffer with headroom | set-field, output, flood, replicate, drop | pipeline (external) on I/O threads | every packet leaves or is released, with right checksums |
| `switch_manager`, `port_manager`, CMM (`management/`, `cmm.cc`) | map of switches, blacklist, vlink cache, two mutexes, a read-write lock, `dpid_under_destruction` | create, destroy, attach, detach, connect, black- and whitelist, queries, notifications | plugins, driver | locks are released on every path, a switch is not deleted under a notification, controllers hear of every port |
| PIRL (`openflow/pirl`) | token bucket | `filter_pkt`, `reconfigure` | background thread, management | the rate is respected |
| OpenFlow endpoints (`openflow/openflow1{0,2,3}`) and HAL (`G/hal-imp/openflow`) | none of their own; tables and groups are the pipeline's | one handler per message, translation both ways, notifications | ROFL threads, background thread, management | answers are true, the controller's view can be trusted, nothing leaks |
| netlink handling (`G/bg_taskmanager.cc`, `G/io/iface_utils.cc`) | list of ports | follow interface flags, add and remove ports | background thread | a port is there as long as its interface, and the controller knows |
| plugins (`management/plugins`) | their own | parse requests | own threads | they call the managers |
| other drivers (`drivers/gnu_linux_dpdk`, `netfpga10g`, `fscale_l2sw`, `example`) | hardware or DPDK | as above | | |

Threads interact through the lock-free queues, through one byte per packet in
non-blocking pipes, through `iomanager::mutex` with a semaphore and
`pthread_join`, through the managers' locks, and through plain reads of shared
data without a lock.  That is where the hard behaviour is: interleavings inside
the queue, notifications that overtake or are overtaken by the packets they
announce, ports closed while threads serve them, switches destroyed while
others use them, packets taken back while they expire, ports that change
between a snapshot and its notification.  The other kind is a long sequence of
legal calls: headers pushed and popped at fixed offsets, and messages whose
translation back and forth must say what the controller said.  `PROJECT.json`
lists these hazards with the line where each one bites.

## 2. Modules

| Module | Models | Uses |
|---|---|---|
| `BoundedFifo` | abstract queue: what callers of `circular_queue` may rely on | |
| `CircularQueue`, `MCCircularQueue` | the ring, one step per access to shared memory | `BoundedFifo` (refinement) |
| `BufferPool` | the pool of packet buffers, on the very steps of the ring | `CircularQueue` |
| `IoManager` | port groups, their callers and their I/O threads | |
| `VLink` | one direction of a virtual link | contracts of `BoundedFifo` |
| `PacketIn` | the slow path and the life of a logical switch | contract of `BoundedFifo` |
| `Management`, `MCManagement` | the managers, the CMM and the driver calls below them | |
| `PktTypes` | the packet types and the six generated tables over them | |
| `Checksum` | the checksum functions of every header, on small bytes | |
| `Classifier`, `MCClassifier` | a packet from arrival to output | `PktTypes`, `Checksum` |
| `Translation`, `Of13Translation`, `Of12Translation`, `Of10Translation` | OpenFlow messages to pipeline structures and back | |
| `Datapath` | one logical switch as the HAL shows it | `Translation` |
| `Endpoint`, `Of13Endpoint`, `Of12Endpoint`, `Of10Endpoint` | the message handlers | `Datapath`, the translations |
| `Pirl` | the packet-in rate limiter | |
| `Openflow`, `MCOpenflow` | a switch, its controller, and the threads that change it | the endpoints, `Pirl` |
| `IoManagerProofs`, `VLinkProofs`, `PacketInProofs`, `ManagementProofs` | theorems | the module of that name |
| `BufferPoolProofs` | theorems about the ring and the pool | `BufferPool` |
| `FrameProofs` | theorem about the checksums, lemmas about tables, parser and frames | `Classifier` |
| `ClassifierProofs` | theorems about a packet in the pipeline | `FrameProofs` |
| `OpenflowProofs` | theorems about the limiter and about sessions | `Openflow` |

Operators marked *Mutant* in a comment are deliberately wrong variants of the
definition that follows them.  Replacing the definition by the variant must
make TLC report the property it is listed with in `PROJECT.json`.

### CircularQueue and BoundedFifo

A thread inside a call has a step `pc`, its copy `cpy` of a pointer and the
element `val`; the ring is `elements`, `readp`, `writep` and `reservep` (the
code's `_writep`).  `WriteLoad` to `WriteCommit` are the lines of
`non_blocking_write`, `ReadLoad` to `ReadAdvance` those of
`non_blocking_read`.  The compare-and-swaps compare pointers; a pointer that
went round the ring exactly once looks unchanged.  `lag` counts how often the
pointer a thread copied has been advanced since, and `MaxLag` bounds it:
`MaxLag < Slots` is the assumption that nobody is preempted for a whole lap of
the ring (64 slots for packet-ins, 2048 for a port, 32768 for the pool).  `lag` is a
history variable; no guard besides the bound reads it.

`BoundedFifo` has two specifications.  `Spec` is a FIFO of `slots - 1` elements
that refuses a write only when full and a read only when empty.  `LossySpec`
allows a call to be refused at any time.  The mapping sees what lies between
`readp` and `writep`.

The distinction is real.  `is_full` compares the copy of `_writep` with the
current `readp`.  When another writer and some readers moved both in between,
`readp` may be exactly one ahead of the stale copy, and a nearly empty queue
refuses the write.  One writer alone never sees that, hence `StrictFifo` for
the vlinks' input queues and `LossyFifo` for all the others.  `VLink` and
`PacketIn` rest on these two contracts: their multi-writer queues may drop at
any time, and the input queue only when it is full.

### BufferPool

`get_buffer` and `release_buffer` are the ring's calls plus the slot status
(`inuse`), kept by DEBUG builds; the status is what the assertions of the code
talk about.  A buffer may be given back by any thread.

### IoManager

A group is the code's `portgroup_state`.  Callers go through a critical section
step by step (`cs`): each change of `running_ports`, of `running_hash` and each
`sem_wait` is an action, because the I/O threads run between them.  A thread
(`tpc`) goes through `init_or_update_fds` (`UpdateSize`, `UpdatePorts`,
`UpdateHash`, `signal_as_synchronized`), the loop test, `epoll_wait`, the
service of the ports with events, and the test of the hash.  A port is `open`
between `up()` and `down()`.  `Manager` stands for the one thread inside
`port_manager` at a time; `Others` are the netlink thread and the endpoints,
which call `bring_port_up/down` without that lock.  A group's `rx_sched` or
`tx_sched` and the following `add_port_to_group` are one action each, since
only `Manager` adds and removes ports.

### VLink

Packets are alike, so queues and pipes are counters.  A producer checks the
port, queues a packet, then writes a byte; the TX thread scans the queues,
moves up to `Buckets` packets to the other end, each followed by a byte, and
drains what it owes the pipe; the RX thread reads and drains packet by packet.
A producer may be stopped between the packet and the byte for as long as it
likes.  `down()` happens only when no thread serves the port, which is what
`NoIoOnClosedPort` of `IoManager` establishes.

### PacketIn

A pipeline thread holds a packet, queues it and writes a byte, or releases it.
The background thread (`bg`) waits, dispatches the packet-ins of each switch
(store, send, undo when the controller could not be told, empty the pipe) and
expires stored packets.  The storage's operations are atomic because they are
under its mutex, except `oldest_packet_needs_expiration`, whose three reads are
three actions; a read of `front()` of an empty list yields anything.  Time is
abstract: `Tick` makes what is stored now too old.  A controller may use an id
it was told any number of times, also after the packet has expired.
`destroy_switch` goes through the stages of the management thread and the
switch may be created again.  `Quiesced` makes a destruction wait until the
dispatcher is outside of the switch; the code does not (see Observations), and
the run shows what else has to hold.  `drained` is history: how many packet-ins
a destruction dropped whose bytes are still in the pipe.

### Management

A thread inside a call has a stage; every acquisition of a lock is a step and
so is everything between two of them.  `smMutex`, `pmMutex` and the read-write
lock (`writer`, `readers`) are variables; an exception
leaves a call wherever the code throws, with the locks the code then holds, and
`leaked` records a mutex nobody will unlock.  `destroy_switch` detaches the
ports one after the other through `port_manager`, erases the map entry under
the write lock and deletes the object after it.  The driver's threads notify
(port added, deleted, status; packet-ins; flow removals); the CMM filters by the
blacklist and calls the switch under the read lock, unless it is the one under
destruction.  `attached` is what the driver knows, `told` what the controllers
were told, `doomed` the switches `destroy_switch` went to work on, `unheard` the
ports whose deletion the black list kept from the vlink cache.

### PktTypes, Checksum and Classifier

A packet type is the stack of headers the classifier recognised, and the tables
`push`, `pop`, `offset` ... of `autogen_pkt_types.c` are functions on such
stacks rather than some 8000 lines of entries.  A frame is a sequence of header
pieces, each with the protocol it announces and whether its checksum is stale.
Actions insert and remove pieces at the byte offset the code uses.  When the
code would then work on the wrong bytes, the frame is `spoiled` and followed no
further.  `SpoiledOnlyWhere` lists exactly the situations in which that
happens; `uncovered` and `missed` record the known places where the type falls
behind the frame and where no flag tells of a stale checksum: an edit sets none,
or `pop_pppoe` classifies again and forgets them all, also those of headers that
a tunnel hides and a later pop shows again.  `Checksum` has the calculations on
words of two bytes of `ByteSize` values, with their folding, and compares them
with what a receiver computes; a CRC (SCTP) is represented by the bytes it
covers.

Assumed: the frames that arrive are complete (`ReceivedAssumption`): a header
that is announced follows, options are no longer than the length field of an
IPv4 header can say, and there is something behind a header that only carries
another.  The parser looks for the end of the frame before GTP only; of
a frame that ends earlier it classifies what the buffer holds behind it, and the
model says nothing.  Also assumed: controllers pop with the ethertype that really follows (the OpenFlow
specification asks for it), set-field values keep what a field announces,
`pop_pppoe` is used on PPPoE flows only, frames are in user-space buffers, and
assertions are compiled out.

### OpenFlow: translation, endpoints, datapath

A match is a function from field names to value and mask, an action a name and
a value, kept in the pipeline in a union of which a member of one width is
written and perhaps another read.  For each version there is one operator per
translation function and one per handler.  A handler's value is what it leaves:
the switch, the answer, and what it allocated and lost.  `Datapath` holds the
HAL functions on tables, groups, buffers and ports; the pipeline's own
functions are external and taken from how the HAL uses them.

`Openflow` composes one endpoint with the packet-in thread (through `Pirl`),
the background thread and management.  A `port_mod` is a series of driver calls
with other threads in between.  The background thread reads a netlink message,
looks the interface up, follows its flags or refreshes the list of ports, takes
a snapshot of the port, and notifies the controller; each is a step.
`believes` is what the controller may conclude from the messages it sent and
received; `doubts` are the ports and flows of which it knows that it does not
know (an error in the middle of a modification), or about which a late note of
another thread may mislead it.  `ControllerView` says that outside of the
doubts the beliefs about groups and ports are true; `AnswersTrue` that every
answer is what was asked for, up to the fields listed in `ChangedField` and
`ChangedAction`, and that a flow modification that was not refused has been
done.  `Samples` is a constant: the messages, packets and requests a session
may consist of.  `SamplesAssumption` says of them what ROFL's parsers guarantee
(a flow has its fields, a port modification knows its settings, a request is
one of this version; groups came with 1.2); `MCOpenflow` gives the finite sets
of the run.

### Pirl

`filter_pkt` is three steps (compare the time, fill the bucket, take a token),
`reconfigure` two (clear the bucket's time, set the rate), because no lock
protects them.  The time is cut to an int of `2 * IntHalf` values.  `seen` is
history: what passed and what was dropped in the current tenth of a second.

## 3. Runs

| Run | Expect | Instance | What it shows |
|---|---|---|---|
| `queue_spsc` | pass | 4 slots, 1 writer, 1 reader, 2 elements | the ring implements the strict FIFO |
| `queue_mpmc` | pass | 4 slots, 2 writers, 2 readers, lag below a lap | the ring implements the lossy FIFO |
| `pool` | pass | 3 buffers, 2 threads that take and release | no buffer has two users; no commit spins for ever |
| `pool_leak` | violation | the same | a spurious refusal loses a buffer |
| `io_manager` | pass | 2 ports, 1 RX and 1 TX group, manager and one other caller | no I/O on closed ports, threads in step, assertions hold |
| `io_manager_serial` | pass | 2 ports, manager only, one failing transmission | RX and TX together, no endless wait |
| `io_manager_tx_error` | violation | 2 ports, one failing transmission | the stray signal closes a port too early |
| `vlink` | pass | 2 producers, 2 queues of 2 packets | no stranded packet, bytes in step, all served |
| `packet_in` | pass | 1 switch that is destroyed and created again, 2 packets, a pipe of 1 byte | one owner, throttling, dispatch and expiration |
| `management` | pass | 2 plugins, 1 driver thread, 2 switches, 1 port and 1 virtual link, 3 calls | no deleted switch used, locks released, nobody stuck, cache and controllers follow the driver |
| `classifier` | pass | every shape of frame, 4 actions and an output, 2 free buffers | type and offsets follow the bytes, checksums right, every packet accounted for, with exactly the listed exceptions |
| `openflow` | pass | a session per topic and version, 2 tables, 2 ports | true answers, a view one can trust, nothing lost, rate respected |

### Bounds

* `Slots = 4`: the smallest ring on which full, empty, wrap and two
  reservations at once all happen and differ.  The theorems hold for every size.
* `HashSize = 4`: a caller waits for the answer to its change before the next,
  so that a thread is never more than two values behind.
* Two ports in one group cover starting the first thread, adding to a running
  one, removing one of two and removing the last; more groups only multiply
  independent copies, since one section handles one group at a time.
* `VLink`: 2 queues of 2 packets, batches of 2: a batch may end because the
  queue is empty or because the budget is used up, and drains lag behind.
  `PipeSize = 9` is above the number of packets and late bytes possible (4
  queued, 2 producers about to notify, deferred bytes), as 64 KiB are in the
  code, so that no byte is lost for want of room.
* `PacketIn`: a pipe of one byte, so that bytes do get lost; `NumIds` one above
  `MaxStore`.  The code has 2^32 - 2 ids and expires packets after seconds, so
  an id never comes round while it is in use; `NextId` skips such an id.
  `MaxPending` bounds `pending_to_read`, which grows by one for each lost byte.
* `Management`: both switches exist at the start (`Existing`), so that
  `MaxCalls = 3` calls suffice for an attach or a connect that races a
  destruction and a creation of the same number.  One event of the driver.
  Plugins and switches are interchangeable, which symmetry uses.
* `Classifier`: `MaxOps = 4` actions reach every pair of a push and the pop of
  another header on a frame that already has one; `Room = 40` bytes are used up
  within these four actions.  Bytes of 2 bits and five bodies: no carry, two carries, an
  odd length, a sum of all ones, a padded frame.
* `Openflow`: sessions of 2 (translation), 3 or 4 messages or events per topic.
  Translation takes one field or action at a time, since each is translated
  alone.  Two tables of two entries: full, overlap, and all-tables requests.
  `IntHalf = 4` and `MaxClock = 5`: the time ceases to fit in the run.

### Fairness and ends

Threads that are inside a call, woken or awake keep running (weak fairness for
each thread): the scheduler of the operating system is fair and nothing in
these loops blocks except what the guards say.  Nobody is obliged to make a
call, to send a packet or to answer a packet-in.  `PacketIn` uses strong
fairness for `Timeout` only: `epoll_wait` returns 0 after a silent interval,
and netlink messages (which would wake the thread without dispatching) do not
arrive within every interval for ever.  Time passes (`Tick`).

Deadlock is not checked in `management`, `classifier` and `openflow`: calls,
actions and messages are bounded there.  In `management` `NobodyStuck` takes
its place.

## 4. Findings

Each is a run with `expect: violation`; `PROJECT.json` quotes the line of the
repository it contradicts.

* `pool_leak`: `release_buffer` ignores a refused write.
* `io_manager_tx_error`: `ioport_mmap::write` bumps `running_hash` on its own
  and thereby produces a signal nobody asked for; a later `bring_port_down`
  returns one signal early and closes a port that is being served.  (In builds
  with assertions the `assert(0)` a few lines above stops the program first.)

## 5. Observations

Behaviour met while modelling, which the models contain (as named exceptions
in a property, or as an assumption), without a run of its own.

*Driver.*  With `MaxLag >= Slots` the pool hands out a buffer twice (the
compare-and-swap of `non_blocking_read` succeeds after a whole lap).  A
bring-up between the RX and the TX half of `add_port` schedules a port for one
direction only (`G/io/iomanager.cc:94`); `io_manager_serial` excludes it.
Nothing keeps the background thread out of a switch while it is destroyed
(`G/hal-imp/driver.cc:221`, `G/pipeline-imp/platform_hooks_of1x.cc:73`), hence
`Quiesced`.  When a controller takes the oldest stored packet between the two
reads of `front()`, a fresh packet expires.  `drain_packet_ins` leaves the
bytes of the packets it drops in the pipe, for which `Throttled` allows.
Not covered by a property: a failing `malloc` or `epoll_create` in an I/O
thread (`G/io/scheduler/epoll_ioscheduler.cc:95`), and a late byte that stays
in a vlink's pipe until the next `write()` (`G/io/ports/vlink/ioport_vlink.cc:194`).

*Management.*  `blacklist` of an attached port and a throwing switch
constructor leave a mutex locked; these are the two exits `LocksReleased` and
`NobodyStuck` except.  `attach_port_to_switch` checks that the switch exists
before it locks anything; if the switch is destroyed and created anew in
between, the port is attached and not announced, so `AttachedIsTold` excepts
switches that a destruction has begun on (`doomed`).  Detaching a vlink
port whose other switch was destroyed fails half-way, and a destruction that
meets a detach by another thread, or a switch connected to itself, aborts with
`dpid_under_destruction` left set.  `attach` looks at the black list without the
mutex, so a virtual port may be black-listed before it is attached and leave
the black list before its deletion is announced, or the other way round; a port
deleted while it is on the list stays in the vlink cache for good, which the
property shows as `unheard`.  The comment at
`management/switch_manager.cc:123` wants the port_detached messages sent, line
134 sets the mark before the ports are detached, and so they are dropped.
`get_switch_table_flows` leaks `entry` on a throw.

*Packets.*  MPLS, PPPoE and GTP are pushed and popped at offset 14 whatever is
there; `pop_gtp` and `pop_gre` ignore IPv4 options and GRE or GTP extensions;
`pop_vlan` does not classify again.  The IPv4 checksum covers 20 bytes, options
or not; IPv4 and ICMPv4 fold their sum once, so that a second carry is lost;
ICMPv4 drops the last byte of an odd length; `get_pkt_len` counts padding, so
that the TCP, UDP, ICMPv6 and SCTP checksums of padded short frames are wrong;
a UDP checksum of 0 is sent as 0 over IPv6.  Edits of ICMPv6 fields, GTP, GRE,
`copy_ttl_in` and `pop_pppoe` do not ask for the checksum they change.
`push_gtp` over IPv6 uses a NULL header and sets flags also when nothing was
pushed.  A flood dereferences a replica without a check, an output to a
detached IN_PORT leaks the packet, `get_mpls_hdr` with a negative index is off
by one, and `of1x_driver.cc:322` passes `true` for a port number.

*OpenFlow.*  What does not survive a round trip: METER and EXPERIMENTER
instructions, IPV6_EXTHDR, the mask of TUNNEL_ID, PRESENT of a masked VLAN (1.3)
or of a specific one (1.2), queue numbers above 255, zero addresses and the low
bits of TOS in 1.0, zero fields in packet-ins.  Two flows that differ only in
such a field are one to the pipeline.  `set_config` overwrites the
capabilities.  Table modifications are ignored in 1.3, and 1.2 reports another
setting than the one it sets.  PACKET_OUT failures, meters and experimenters
get no answer, nor does a group description without groups.  A flow
modification with an expired buffer installs the entry and answers an error.
Cookies are filtered by 32 bits.  Queue statistics of an absent port
dereference NULL in 1.2 and 1.3.  PORT_DOWN of a port that is not running
answers an error and takes effect; a port left marked as running by a failed
bring-up is not tried again.  A port that management brings up while the kernel
has it up already is never announced.  A netlink note may be sent after the
port was changed or removed, so that the controller keeps a ghost port or a
stale configuration; the deletion of a port is announced before it is detached;
messages about a vanished interface have no name and are ignored until another
event.  `update_port_status` leaks a descriptor.

*PIRL.*  Once the time exceeds 2^31 tenths of a second each packet fills the
bucket anew, and nothing is limited; `PacketInsLimited` holds before that.

## 6. Proofs

All theorems are checked by TLAPS for every value of the constants that
satisfies the named assumptions.

`BufferPoolProofs`, on the ring, assumes `SlotsAssumption` (a power of two, as
the constructor demands), `ElemAssumption` and `LagAssumption`.

* `TypeCorrect`: `Spec => []TypeOK`.  The type invariant is inductive.
* `RingSafe`: with `NoLap` (`MaxLag < Slots`), `Spec => []RingInv`.  `RingInv`
  is the inductive invariant behind the refinement.  It says that the three
  pointers are in order round the ring (`Ordered`); for each thread what its
  step knows (`ThreadInv`): a writer past its reservation owns a slot between
  `writep` and `reservep`, and has filled it if it is about to commit; a
  thread whose copy still equals the pointer has not been overtaken, because
  its lag equals the distance of the copy from the pointer and is less than a
  lap; a reader whose swap will succeed has read the current front; and that
  two writers never own the same slot (`Apart`).  Without the equation between
  lag and distance the swap's success says nothing about what happened in
  between, and the invariant is not inductive.
* `ImplementsLossyFifo`: with `NoLap`, `Spec => LossyFifo`.  Initial states map
  to initial states, and each step is a step of the abstract queue or a
  stutter: a commit appends to the mapped sequence, a successful read takes its
  head, refusals map to refusals, and a store to a reserved slot is outside of
  what lies between `readp` and `writep`.
* `ImplementsStrictFifo`: with `OneEach` (one writer and one reader),
  `Spec => StrictFifo`, without `NoLap`: the thread of a side may sleep as long as
  it likes, since nobody else moves the pointers of its side.  `RingInv` holds
  for this reason too (`Roles` says which steps a writer and a reader can be at;
  `NotLapped` is the premise of the lemmas in either form).  `Level` adds that
  their copies of their own pointers are current and that no slot is reserved
  unless the writer holds it, so that a refused write has seen a full queue and
  a NULL an empty one.

`VLinkProofs` assumes `SizeAssumption` and `PipeAssumption` (the pipe holds
more bytes than the input queue packets, plus one).

* `TypeCorrect`: `Spec => []TypeOK`, strengthened by `BatchOpen` (a batch that
  is being sent has buckets left; a read that is being drained has reads left),
  without which the decrements could leave the range.
* `RxBytesAlwaysMatch`: `Spec => []RxBytesMatch`.  The equation is inductive
  only together with `OwesLittle` (the RX thread owes the pipe at most one byte
  between reads and two between a read and its drain): it bounds the pipe below
  its capacity, so that no byte is lost.
* `InputNeverStranded`: `Spec => []NoStrandedInput`, from the equation.
* `TxBytesAlwaysMatch`, `OutputNeverStranded`: the same for the output side,
  which also assumes `TxPipeAssumption`.  `TxBytesMatch` says that the packets
  waiting in the output queues and the bytes the sender has deferred are as many
  as the bytes in the pipe and the producers about to write one.  The packets
  are counted as the set of their places (`Waiting`, pairs of a queue and a
  position in it), so that a step adds or removes one element.  `OwesBatch` (the
  sender defers no more than the producers and what its batch has taken) bounds
  the pipe below its capacity.

`IoManagerProofs` assumes `GroupAssumption` (a group of each type),
`HashAssumption` (the hash has two values at least; one bit is enough, since a
caller waits for the answer) and `CallerAssumption`.

* `TypeCorrect`: `Spec => []TypeOK` by `CallInv`: what the owner of the mutex is
  doing belongs to its call.
* `AssertsHold`: `Spec => []GroupAsserts` by `PlaceInv`: an attached port is in
  one group of each type, except between the halves of `add_port` and
  `remove_port`.
* `InStepUntilError`: `Spec => [](errs = 0 => Synchronized /\ NoIoOnClosedPort)`.
  `RunInv` says what the scan of the groups has done so far; `SyncInv` says of
  each I/O thread that it serves what its group runs (`Settled`), except for the
  one the owner of the mutex changes (`Changing`), which is to notice, adopts
  step by step, or has signalled (`Adopting`).  The signal and the number of
  steps left are tied together, so that no signal is left for the next caller.
* `NeverIoOnClosedPort`, `AlwaysSynchronized`: the two run properties, when
  transmissions do not fail (`TxErrors = 0`).  With one failure both are false,
  which is the finding of `io_manager_tx_error`.
* `AlwaysScheduledBothWays`: `Spec => []ScheduledBothWays` when nobody but the
  manager calls (`Others = {}`), also with failing transmissions; with others it
  is false (see Observations).

`BufferPoolProofs`, on the pool, adds `PoolAssumption` (the elements are the
buffers).  The pool's steps are the ring's (`PoolStepsAreQueueSteps`), so
`RingInv` holds.

* `NeverCorrupted`: with `NoLap`, `PoolSpec => []NoCorruption`.  `PoolInv` says
  that the buffers in the ring and those in the hands of threads are different,
  and none of them is in use.  A reader has its value before its swap succeeds;
  `RingInv` says that it is the front's when it does.  Without `NoLap` the pool
  is corrupted (see Observations).

`PacketInProofs` assumes `PacketInAssumption`: sizes are natural numbers, there
are more ids than a storage has places, NULL is no packet, and the threads are
finitely many.

* `TypeCorrect`: `Spec => []TypeOK` by `BaseInv`: what threads, dispatcher and
  the destroyer of a switch hold at each step.  That `NextId` finds an id no
  stored packet has is a lemma (the counter's turn meets every id, and a storage
  has fewer packets than there are ids).
* `NeverStorageCorruption`, `AlwaysOneOwner`: with `Quiesced`,
  `Spec => []NoStorageCorruption` and `Spec => []OneOwner`.  `OwnerInv` says that
  each packet is in one place (`OnePlace`), there once (`NoCopies`), and that the
  dispatcher's packet is stored under an id no controller knows (`EntryInv`).
  An action moves one packet from place to place (`Moves`), which keeps
  `OnePlace` whatever the two places are.  `EntryInv` is what makes the undo of
  a failed PACKET_IN release what it takes out.  Without `Quiesced` both are
  false (see Observations).

* `AlwaysThrottled`: `Spec => []Throttled`, whether or not the destroyer waits
  for the dispatcher.  The queued packet-ins are counted as the set of their
  places, pairs of a switch and a position in its queue.  `ThrottleInv` adds
  `CountInv`: `bg.i`, the packet-ins dispatched and not yet drained from the pipe,
  is 0 outside of a batch.

`ManagementProofs` assumes `DpidAssumption`, `LinksAssumption` (the names of
virtual ports are not physical), `BoundsAssumption` and `ThreadsAssumption`.
The model has some sixty actions; `StepKinds` groups them by what they may
change, so that each invariant looks at a dozen kinds.

* `TypeCorrect`: the types, with the argument each step of a call has.
* `LocksAlwaysReleased`: `LockInv` says exactly which steps hold which lock.
* `NeverUsedAfterDelete`: `UseInv` says when a switch is in the map, has an
  object and has a driver side; readers keep the writer out (`LockInv`).
* `AttachedAlwaysTold`: `TellInv` says that what was attached and not announced
  is among the events of the call that attached it.
* `CacheAlwaysMatches`: `CacheInv` says by how much the cache of virtual links
  may differ from the driver at each step of a call that changes either.  The
  proof needed `unheard`: without it the property is false after six calls,
  beyond the three of the run.

`OpenflowProofs`, on the limiter, assumes `IntAssumption` (an int has at least
two values) and `RatesAssumption` (rates are integers).  It is about `PirlSpec`, the limiter
with packets and management in any order; `Openflow` takes the same steps and
changes the limiter's variables nowhere else.

* `PirlTypeCorrect`: `PirlSpec => []PirlTypeOK`.
* `Limited`: `PirlSpec => []PacketInsLimited`.  The property counts what passed
  and says nothing of the bucket, so it is not inductive.  `PirlInv` adds
  `Counted` (tokens left plus packets passed make a tenth of the rate, once the
  bucket was filled in this tenth), `InTime` (the bucket's time is not ahead of
  the last packet's, so a new tenth always fills it) and `Calm` (in an
  undisturbed tenth no reconfiguration is under way).

On sessions, `OpenflowProofs` also assumes `SizesAssumption` (1 to 254 tables,
room for a port) and `SamplesAssumption`.  Nothing is assumed of the
number of messages, and the translations are used only through what they leave
alone, so the theorems hold for each of the three versions and whatever the
hardware can do (`Can`).

* `SessionLimited`: `Spec => []PacketInsLimited`.  Every step of a session is a
  step of the limiter or leaves its variables alone, so `PirlInv` carries over.
* `NothingEverLost`: `Spec => []NothingLost` by `SwitchInv`.  Each handler is
  shown to be `Handled`: the switch it leaves keeps its shape, its tables their
  bounds, and the sum of free and stored buffers is what it was; what it loses
  is in `Losses` of its version.  The packet being filtered is tied to the
  limiter's thread (`packet.at` and `filter.at`), without which its buffer could
  be counted twice.
* `ViewAlwaysTrue`: `Spec => []ControllerView`, from two invariants.  `GroupInv`
  is the statement about groups itself, once handlers are known to keep groups.
  `PortInv` holds also while threads are under way, and so has to say what each
  still owes.  `Domains`: a port is known exactly when it is attached, but for
  the one management has detached and not announced (`Leaving`), attached and
  not announced (`Coming`), or the background thread has announced and not
  removed (`Going`).  `Right`: a port is described as it is, but for the
  settings the modification in progress has not called for (`LeftFor`), with
  what it will have made of the others (`Expected`), and whether it is up may be
  on its way through the background thread (`Busy`).  `Touched` sums up what a
  function of the driver may do to a port, failing system calls included.
* `TypeCorrect`: `Spec => []TypeOK`, from the same invariants.

`FrameProofs` and `ClassifierProofs` assume `ReceivedAssumption` (see section 2),
`ByteAssumption` (a byte has at least two values), `BodiesAssumption`,
`PortsAssumption` (finitely many ports) and `BoundsAssumption`.  The theorems
hold for any set of complete frames of any length, any headroom, pool and number
of ports, and any number of actions in any order.

* `ChecksumsVerify`: a checksum that the switch calculates is one a receiver
  accepts, but in the cases `KnownWrong` lists, for every body and every size of
  byte.  `SumWords` and `FoldAll` are recursive functions; that `FoldAll` ends in
  a word and keeps the sum modulo `Word - 1` is proved by induction on a set of
  numbers (`Induction`, `Recursion`), which needs no operator as a parameter.
* `Always`: `Spec => []IInv`, the inductive invariant of the packet.  None of
  the six invariants of the run is inductive: they say nothing of a frame whose
  type has not been looked at since a pop, nor of a checksum that is stale while
  the packet is still in the pipeline.  `IInv` adds
  - `Sound`: the frame is complete (`Complete`), and the type describes it
    (`Matches`): its layer 2 prefix and the headers above it are the first pieces
    of the frame, with the numbers of labels and option words the type has.  The
    type may show less than the frame holds, which is what a `pop_vlan` leaves;
  - `Ledger`: in the pipeline, each stale checksum is one that a flag or `missed`
    tells of, whether the type shows its header or a tunnel hides it.
  `ParseMatches` says that the parser finds a type that describes a complete
  frame, `ParseSame` that it looks at no more than the headers, and for each
  push and pop there is a lemma on the frame it leaves and the type of the table
  it goes to.  Each action is then one lemma (`StepPushVlan` to `StepOthers`).
* `TypeCorrect`, `TypeKept`, `InPlaceAlways`, `SpoiledWhere`, `LeavesRight`,
  `AllAccounted`: the six invariants of the run `classifier`, from `IInv`; that
  headers are in place is `SoundInPlace`, which adds up what the offset table and
  the lengths of the pieces say.

The ledger was needed in the model as well.  The proof of `LeavesRight` failed for
`pop_pppoe`: with five actions, one more than the run has, a pop behind it could
uncover a header whose flag `pop_pppoe` had forgotten, and the packet left with a
stale checksum `missed` did not tell of.

Only model-checked, and why:

* liveness (`MutexReleased`, `CommitEnds`, `OutputServed`, `InputServed`,
  `PacketInServed`, `StoredPacketExpires`), and `NobodyStuck`, which is about
  ENABLED: out of the prover's reach;
* `AnswersTrue`: the translations of the endpoints fold over fields and actions,
  and what a fold yields for every input is an induction over data.  The flows
  the controller believes in (`FlowsKnown`) belong here, because the pipeline
  compares translated matches and the controller the ones it sent.

## 7. What is not modelled

* The pthread build of the queue (`PTHREAD_IMP`), allocation failures,
  condition variables at start-up, shutdown of the driver, the polling
  scheduler (no build uses it), mockup ports.
* PACKET_MMAP rings and multi-part netlink messages: memory and formats of the
  kernel.
* Flow tables, matching, timers of flow entries: ROFL-pipeline, external.
  Masks are compared by equality, and a removal from a table always succeeds.
* Controller connections, roles and reconnects: ROFL, external.  A session
  lives as long as its switch.  Link state, counters, names and speeds are left
  out; `out_group` is always ANY.
* Snapshots, the plugins, plugin and system manager: copies, front ends and
  start-up.
* DPDK, NetFPGA and L2-switch drivers: their concurrency lives in hardware or
  in an external library; the example driver is empty.
* Weak memory: the steps of `CircularQueue` are sequentially consistent, as on
  x86 with the locked instructions the code uses.

## 8. Plan

1. *(done)* the queue, the pool, the I/O manager, virtual links, packet-ins;
   the refinement of the queue and its proof; the input side of the link.
2. *(done)* management with its locks and exceptions; the classifier, packet
   types and checksums; translation and endpoints of the three versions; the
   rate limiter and its proof; interfaces that change, vanish and appear.
3. *(done)* proofs about the I/O manager, both sides of virtual links, the pool,
   packet-ins, management, sessions of a controller, and the packet classifier.
4. mmap ports: the shared pipe, the reset of the TX ring, `drain_queues`.
5. Composition: a packet's way from RX through a pipeline thread, a vlink and
   the slow path with one pool, so that `OneOwner` covers the driver.
