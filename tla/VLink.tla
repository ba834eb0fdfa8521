------------------------------- MODULE VLink -------------------------------
(***************************************************************************)
(* One direction of a virtual link (io/ports/vlink/ioport_vlink.cc): the   *)
(* packets that pipeline threads enqueue on end A, that A's TX thread moves*)
(* to end B's input queue, and that B's RX thread reads.                   *)
(*                                                                         *)
(* An I/O thread sleeps in epoll_wait on the read side of a notification   *)
(* pipe.  A producer first queues a packet and then writes one byte to the *)
(* pipe; the consumer takes packets and "defers" the bytes it owes the     *)
(* pipe, draining them in batches.  Packets are alike here, so a queue is  *)
(* its length.  Output queues have several writers and may refuse a packet *)
(* at any time (LossyFifo of CircularQueue); the input queue has one       *)
(* writer and one reader (StrictFifo).                                     *)
(***************************************************************************)
EXTENDS Integers, FiniteSets

CONSTANTS Producers, \* pipeline threads that output packets on end A
          NumQueues, \* A's output queues
          Cap,       \* packets a queue holds
          Buckets,   \* packets one call of write() sends at most
          ReadBatch, \* READ_BUCKETS_PP
          DrainMax,  \* IO_IFACE_RING_SLOTS: bytes one drain takes at most
          PipeSize   \* bytes a pipe holds

ASSUME SizeAssumption ==
    /\ NumQueues \in Nat \ {0}
    /\ Cap \in Nat /\ Buckets \in Nat \ {0} /\ ReadBatch \in Nat \ {0}
    /\ DrainMax \in Nat \ {0} /\ PipeSize \in Nat

\* The pipe of end B takes a byte for every packet of the input queue and one
\* for the packet being read.
ASSUME PipeAssumption == PipeSize > Cap + 1

\* The pipe of end A takes a byte for every packet of the output queues and for
\* every byte its TX thread still owes it (64 KiB against 8 queues of 2047 packets),
\* and one drain takes at least what a batch owes (at most 12 against 16, config.cc).
ASSUME TxPipeAssumption ==
    /\ IsFiniteSet(Producers)
    /\ Buckets <= DrainMax
    /\ PipeSize > NumQueues * Cap + Cardinality(Producers) + Buckets

VARIABLES
    upA, upB,       \* of_port_state->up, and the port is in running_ports
    pc,             \* per producer: idle, enqueue, notify
    outq,           \* A: packets in each output queue
    tx_pipe,        \* A: bytes in tx_notify_pipe
    deferred_tx,    \* A: deferred_drain_tx
    txpc,           \* A's TX thread: wait, scan, write, send, notify, drain
    txq,            \* A's TX thread: q_id
    buckets,        \* A's TX thread: num_of_buckets
    inq,            \* B: packets in input_queue
    rx_pipe,        \* B: bytes in rx_notify_pipe
    deferred_rx,    \* B: deferred_drain_rx
    rxpc,           \* B's RX thread: wait, read, drain
    reads           \* B's RX thread: reads left in process_port_rx

producer == <<pc, outq>>
txThread == <<deferred_tx, txpc, txq, buckets>>
rxThread == <<deferred_rx, rxpc, reads>>
ports == <<upA, upB>>
vars == <<upA, upB, pc, outq, tx_pipe, deferred_tx, txpc, txq, buckets,
          inq, rx_pipe, deferred_rx, rxpc, reads>>

Queues == 0..(NumQueues - 1)

TypeOK ==
    /\ upA \in BOOLEAN /\ upB \in BOOLEAN
    /\ pc \in [Producers -> {"idle", "enqueue", "notify"}]
    /\ outq \in [Queues -> 0..Cap]
    /\ tx_pipe \in 0..PipeSize
    /\ deferred_tx \in Nat
    /\ txpc \in {"wait", "scan", "write", "send", "notify", "drain"}
    /\ txq \in Queues
    /\ buckets \in 0..Buckets
    /\ inq \in 0..Cap
    /\ rx_pipe \in 0..PipeSize
    /\ deferred_rx \in Nat
    /\ rxpc \in {"wait", "read", "drain"}
    /\ reads \in 0..ReadBatch

Init ==
    /\ upA = FALSE /\ upB = FALSE
    /\ pc = [t \in Producers |-> "idle"]
    /\ outq = [q \in Queues |-> 0]
    /\ tx_pipe = 0 /\ deferred_tx = 0
    /\ txpc = "wait" /\ txq = 0 /\ buckets = 0
    /\ inq = 0
    /\ rx_pipe = 0 /\ deferred_rx = 0
    /\ rxpc = "wait" /\ reads = 0

\* ::write of one byte on a non-blocking pipe; the result is not looked at.
Notified(pipe) == IF pipe < PipeSize THEN pipe + 1 ELSE pipe

MinOf(a, b) == IF a < b THEN a ELSE b

\* Bytes empty_pipe reads: what it is owed, what is there, one buffer at most.
Drained(pipe, deferred) == MinOf(pipe, MinOf(deferred, DrainMax))

-----------------------------------------------------------------------------
(* enqueue_packet on A, by pipeline thread t *)

CheckUp(t) ==
    /\ pc[t] = "idle"
    /\ upA
    /\ pc' = [pc EXCEPT ![t] = "enqueue"]
    /\ UNCHANGED <<ports, outq, tx_pipe, txThread, inq, rx_pipe, rxThread>>

\* Mutant: the producer forgets to notify.
EnqueueSilently(t, q) ==
    /\ pc[t] = "enqueue"
    /\ outq[q] < Cap
    /\ outq' = [outq EXCEPT ![q] = @ + 1]
    /\ pc' = [pc EXCEPT ![t] = "idle"]
    /\ UNCHANGED <<ports, tx_pipe, txThread, inq, rx_pipe, rxThread>>

Enqueue(t, q) ==
    /\ pc[t] = "enqueue"
    /\ outq[q] < Cap
    /\ outq' = [outq EXCEPT ![q] = @ + 1]
    /\ pc' = [pc EXCEPT ![t] = "notify"]
    /\ UNCHANGED <<ports, tx_pipe, txThread, inq, rx_pipe, rxThread>>

DropCongested(t) ==
    /\ pc[t] = "enqueue"
    /\ pc' = [pc EXCEPT ![t] = "idle"]
    /\ UNCHANGED <<ports, outq, tx_pipe, txThread, inq, rx_pipe, rxThread>>

NotifyTx(t) ==
    /\ pc[t] = "notify"
    /\ tx_pipe' = Notified(tx_pipe)
    /\ pc' = [pc EXCEPT ![t] = "idle"]
    /\ UNCHANGED <<ports, outq, txThread, inq, rx_pipe, rxThread>>

-----------------------------------------------------------------------------
(* A's TX thread: process_port_tx and ioport_vlink::write *)

\* epoll_wait is level triggered.
WakeTx ==
    /\ txpc = "wait"
    /\ upA
    /\ tx_pipe > 0
    /\ txpc' = "scan" /\ txq' = 0
    /\ UNCHANGED <<ports, producer, tx_pipe, deferred_tx, buckets, inq, rx_pipe, rxThread>>

\* Mutant: only the first queue is served.
FirstQueueOnly == txpc' = "wait" /\ txq' = 0

NextQueue ==
    IF txq = NumQueues - 1 THEN txpc' = "wait" /\ txq' = 0
                       ELSE txpc' = "scan" /\ txq' = txq + 1

SkipQueue ==
    /\ txpc = "scan"
    /\ outq[txq] = 0
    /\ NextQueue
    /\ UNCHANGED <<ports, producer, tx_pipe, deferred_tx, buckets, inq, rx_pipe, rxThread>>

StartWrite ==
    /\ txpc = "scan"
    /\ outq[txq] > 0
    /\ txpc' = "write" /\ buckets' = Buckets
    /\ UNCHANGED <<ports, producer, tx_pipe, deferred_tx, txq, inq, rx_pipe, rxThread>>

\* Mutant: the batch goes on although the queue is empty.
DequeueFromEmpty ==
    /\ txpc = "write"
    /\ buckets > 0
    /\ outq' = [outq EXCEPT ![txq] = @ - 1]
    /\ deferred_tx' = deferred_tx + 1
    /\ txpc' = "send"
    /\ UNCHANGED <<ports, pc, tx_pipe, txq, buckets, inq, rx_pipe, rxThread>>

Dequeue ==
    /\ txpc = "write"
    /\ buckets > 0 /\ outq[txq] > 0
    /\ outq' = [outq EXCEPT ![txq] = @ - 1]
    /\ deferred_tx' = deferred_tx + 1
    /\ txpc' = "send"
    /\ UNCHANGED <<ports, pc, tx_pipe, txq, buckets, inq, rx_pipe, rxThread>>

\* Mutant: no byte for the packet.
tx_pktSilently ==
    /\ txpc = "send"
    /\ upB /\ inq < Cap
    /\ inq' = inq + 1
    /\ txpc' = "write" /\ buckets' = buckets - 1
    /\ UNCHANGED <<ports, producer, tx_pipe, deferred_tx, txq, rx_pipe, rxThread>>

\* tx_pkt on B: the packet is queued, the byte comes next.
tx_pkt ==
    /\ txpc = "send"
    /\ upB /\ inq < Cap
    /\ inq' = inq + 1
    /\ txpc' = "notify"
    /\ UNCHANGED <<ports, producer, tx_pipe, deferred_tx, txq, buckets, rx_pipe, rxThread>>

\* tx_pkt fails and the packet is dropped.
DropAtB ==
    /\ txpc = "send"
    /\ ~upB \/ inq = Cap
    /\ txpc' = "write" /\ buckets' = buckets - 1
    /\ UNCHANGED <<ports, producer, tx_pipe, deferred_tx, txq, inq, rx_pipe, rxThread>>

NotifyRx ==
    /\ txpc = "notify"
    /\ rx_pipe' = Notified(rx_pipe)
    /\ txpc' = "write" /\ buckets' = buckets - 1
    /\ UNCHANGED <<ports, producer, tx_pipe, deferred_tx, txq, inq, rxThread>>

EndWrite ==
    /\ txpc = "write"
    /\ buckets = 0 \/ outq[txq] = 0
    /\ txpc' = "drain" /\ buckets' = 0
    /\ UNCHANGED <<ports, producer, tx_pipe, deferred_tx, txq, inq, rx_pipe, rxThread>>

DrainTx ==
    /\ txpc = "drain"
    /\ tx_pipe' = tx_pipe - Drained(tx_pipe, deferred_tx)
    /\ deferred_tx' = deferred_tx - Drained(tx_pipe, deferred_tx)
    /\ NextQueue
    /\ UNCHANGED <<ports, producer, buckets, inq, rx_pipe, rxThread>>

-----------------------------------------------------------------------------
(* B's RX thread: process_port_rx and ioport_vlink::read *)

\* Mutant: an off-by-one in the event that wakes the thread.
WakeRxOnTwo ==
    /\ rxpc = "wait"
    /\ upB
    /\ rx_pipe > 1
    /\ rxpc' = "read" /\ reads' = ReadBatch
    /\ UNCHANGED <<ports, producer, tx_pipe, txThread, inq, rx_pipe, deferred_rx>>

WakeRx ==
    /\ rxpc = "wait"
    /\ upB
    /\ rx_pipe > 0
    /\ rxpc' = "read" /\ reads' = ReadBatch
    /\ UNCHANGED <<ports, producer, tx_pipe, txThread, inq, rx_pipe, deferred_rx>>

ReadPacket ==
    /\ rxpc = "read"
    /\ reads > 0 /\ inq > 0
    /\ inq' = inq - 1
    /\ deferred_rx' = deferred_rx + 1
    /\ rxpc' = "drain"
    /\ UNCHANGED <<ports, producer, tx_pipe, txThread, rx_pipe, reads>>

\* Mutant: everything is drained, also the bytes of packets not read yet.
DrainRxAll ==
    /\ rxpc = "drain"
    /\ rx_pipe' = 0 /\ deferred_rx' = 0
    /\ rxpc' = "read" /\ reads' = reads - 1
    /\ UNCHANGED <<ports, producer, tx_pipe, txThread, inq>>

DrainRx ==
    /\ rxpc = "drain"
    /\ rx_pipe' = rx_pipe - Drained(rx_pipe, deferred_rx)
    /\ deferred_rx' = deferred_rx - Drained(rx_pipe, deferred_rx)
    /\ rxpc' = "read" /\ reads' = reads - 1
    /\ UNCHANGED <<ports, producer, tx_pipe, txThread, inq>>

EndRead ==
    /\ rxpc = "read"
    /\ reads = 0 \/ inq = 0
    /\ rxpc' = "wait" /\ reads' = 0
    /\ UNCHANGED <<ports, producer, tx_pipe, txThread, inq, rx_pipe, deferred_rx>>

-----------------------------------------------------------------------------
(* up() and down(); the I/O manager calls down() when no thread serves the port *)

UpA == ~upA /\ upA' = TRUE /\ UNCHANGED <<upB, producer, tx_pipe, txThread, inq, rx_pipe, rxThread>>

DownA ==
    /\ upA /\ txpc = "wait" /\ upA' = FALSE
    /\ UNCHANGED <<upB, producer, tx_pipe, txThread, inq, rx_pipe, rxThread>>

UpB == ~upB /\ upB' = TRUE /\ UNCHANGED <<upA, producer, tx_pipe, txThread, inq, rx_pipe, rxThread>>

DownB ==
    /\ upB /\ rxpc = "wait" /\ upB' = FALSE
    /\ UNCHANGED <<upA, producer, tx_pipe, txThread, inq, rx_pipe, rxThread>>

-----------------------------------------------------------------------------

ProducerStep(t) == (\E q \in Queues : Enqueue(t, q)) \/ DropCongested(t) \/ NotifyTx(t)

TxStep == WakeTx \/ SkipQueue \/ StartWrite \/ Dequeue \/ tx_pkt \/ DropAtB
            \/ NotifyRx \/ EndWrite \/ DrainTx

RxStep == WakeRx \/ ReadPacket \/ DrainRx \/ EndRead

Next ==
    \/ \E t \in Producers : CheckUp(t) \/ ProducerStep(t)
    \/ TxStep \/ RxStep
    \/ UpA \/ DownA \/ UpB \/ DownB

Spec == Init /\ [][Next]_vars

\* Threads that are awake, or have an event, keep running.
Fairness ==
    /\ \A t \in Producers : WF_vars(ProducerStep(t))
    /\ WF_vars(TxStep)
    /\ WF_vars(RxStep)

FairSpec == Spec /\ Fairness

-----------------------------------------------------------------------------

Notifying == {t \in Producers : pc[t] = "notify"}

\* B's bytes match its packets: a byte in rx_notify_pipe, or one about to be
\* written by A's TX thread, for every packet in input_queue and for every byte
\* B's RX thread has deferred; and the pipe was never too full to take one.
RxBytesMatch ==
    rx_pipe + (IF txpc = "notify" THEN 1 ELSE 0) = inq + deferred_rx

\* No packet is stranded in B's input queue: while the queue is not empty, B's RX
\* thread has an event pending or A's TX thread is about to raise one.
NoStrandedInput == inq > 0 => rx_pipe > 0 \/ txpc = "notify"

\* The same on A: as long as packets wait in an output queue, A's TX thread has an
\* event pending, or some producer is about to raise one.
NoStrandedOutput ==
    (\E q \in Queues : outq[q] > 0) => tx_pipe > 0 \/ Notifying # {}

\* A waiting packet is served as long as the port stays up.
OutputServed ==
    \A q \in Queues : (outq[q] > 0 /\ upA) ~> (~upA \/ (txpc = "write" /\ txq = q))

InputServed == (inq > 0 /\ upB) ~> (~upB \/ rxpc = "drain")

=============================================================================
