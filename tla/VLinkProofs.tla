---------------------------- MODULE VLinkProofs ----------------------------
(***************************************************************************)
(* Proofs about one direction of a virtual link, for any number of pipeline*)
(* threads and queues and any sizes: no byte of B's notification pipe is   *)
(* ever lost, so that no packet is stranded in B's input queue.            *)
(***************************************************************************)
EXTENDS VLink, FiniteSetTheorems, TLAPS

\* Inside a batch the thread still has packets of the batch to account for:
\* what makes TypeOK inductive.
BatchOpen ==
    /\ txpc \in {"send", "notify"} => buckets > 0
    /\ rxpc = "drain" => reads > 0

TypeInv == TypeOK /\ BatchOpen

\* B's RX thread owes the pipe at most one byte between reads, and one more
\* between a read and the drain that follows it.
OwesLittle == deferred_rx <= IF rxpc = "drain" THEN 2 ELSE 1

RxInv == TypeInv /\ RxBytesMatch /\ OwesLittle

\* What a drain takes is never more than is owed or than is there, and it takes
\* something when both are positive (empty_pipe).
LEMMA DrainedBounds ==
    ASSUME NEW pipe \in Nat, NEW deferred \in Nat
    PROVE  /\ Drained(pipe, deferred) \in Nat
           /\ Drained(pipe, deferred) <= pipe
           /\ Drained(pipe, deferred) <= deferred
           /\ (pipe > 0 /\ deferred > 0) => Drained(pipe, deferred) > 0
BY SizeAssumption DEF Drained, MinOf

\* The type invariant holds initially.
LEMMA TypeInvInit == Init => TypeInv
<1> SUFFICES ASSUME Init PROVE TypeInv
  OBVIOUS
<1>1. upA \in BOOLEAN /\ upB \in BOOLEAN
  BY Zenon DEF Init
<1>2. outq \in [Queues -> 0..Cap] /\ txq \in Queues
  BY SizeAssumption DEF Init, Queues
<1>3. pc \in [Producers -> {"idle", "enqueue", "notify"}]
  BY DEF Init
<1> QED
  BY <1>1, <1>2, <1>3, SizeAssumption DEF Init, TypeInv, TypeOK, BatchOpen

\* Every operation of ioport_vlink.cc keeps the type invariant.
LEMMA TypeInvNext == TypeInv /\ [Next]_vars => TypeInv'
<1> SUFFICES ASSUME TypeInv, [Next]_vars PROVE TypeInv'
  OBVIOUS
<1> USE SizeAssumption DEF TypeInv, TypeOK, BatchOpen
<1>1. ASSUME NEW t \in Producers, CheckUp(t) PROVE TypeInv'
  BY <1>1 DEF CheckUp, ports, txThread, rxThread
<1>2. ASSUME NEW t \in Producers, NEW q \in Queues, Enqueue(t, q) PROVE TypeInv'
  BY <1>2 DEF Enqueue, ports, txThread, rxThread, Queues
<1>3. ASSUME NEW t \in Producers, DropCongested(t) PROVE TypeInv'
  BY <1>3 DEF DropCongested, ports, txThread, rxThread
<1>4. ASSUME NEW t \in Producers, NotifyTx(t) PROVE TypeInv'
  BY <1>4 DEF NotifyTx, Notified, ports, txThread, rxThread
<1>5. CASE WakeTx
  BY <1>5 DEF WakeTx, ports, producer, rxThread, Queues
<1>6. CASE SkipQueue
  BY <1>6 DEF SkipQueue, NextQueue, ports, producer, rxThread, Queues
<1>7. CASE StartWrite
  BY <1>7 DEF StartWrite, ports, producer, rxThread
<1>8. CASE Dequeue
  BY <1>8 DEF Dequeue, ports, rxThread, Queues
<1>9. CASE tx_pkt
  BY <1>9 DEF tx_pkt, ports, producer, rxThread
<1>10. CASE DropAtB
  BY <1>10 DEF DropAtB, ports, producer, rxThread
<1>11. CASE NotifyRx
  BY <1>11 DEF NotifyRx, Notified, ports, producer, rxThread
<1>12. CASE EndWrite
  BY <1>12 DEF EndWrite, ports, producer, rxThread
<1>13. CASE DrainTx
  <2> DEFINE n == Drained(tx_pipe, deferred_tx)
  <2>1. n \in Nat /\ n <= tx_pipe /\ n <= deferred_tx
    BY DrainedBounds
  <2>2. tx_pipe - n \in 0..PipeSize /\ deferred_tx - n \in Nat
    BY <2>1
  <2> HIDE DEF n
  <2> QED
    BY <1>13, <2>2 DEF n, DrainTx, NextQueue, ports, producer, rxThread, Queues
<1>14. CASE WakeRx
  BY <1>14 DEF WakeRx, ports, producer, txThread
<1>15. CASE ReadPacket
  BY <1>15 DEF ReadPacket, ports, producer, txThread
<1>16. CASE DrainRx
  <2> DEFINE n == Drained(rx_pipe, deferred_rx)
  <2>1. n \in Nat /\ n <= rx_pipe /\ n <= deferred_rx
    BY DrainedBounds
  <2>2. rx_pipe - n \in 0..PipeSize /\ deferred_rx - n \in Nat
    BY <2>1
  <2> HIDE DEF n
  <2> QED
    BY <1>16, <2>2 DEF n, DrainRx, ports, producer, txThread
<1>17. CASE EndRead
  BY <1>17 DEF EndRead, ports, producer, txThread
<1>18. CASE UpA
  BY <1>18 DEF UpA, producer, txThread, rxThread
<1>19. CASE DownA
  BY <1>19 DEF DownA, producer, txThread, rxThread
<1>20. CASE UpB
  BY <1>20 DEF UpB, producer, txThread, rxThread
<1>21. CASE DownB
  BY <1>21 DEF DownB, producer, txThread, rxThread
<1>22. CASE UNCHANGED vars
  BY <1>22 DEF vars
<1> QED
  BY <1>1, <1>2, <1>3, <1>4, <1>5, <1>6, <1>7, <1>8, <1>9, <1>10, <1>11, <1>12,
     <1>13, <1>14, <1>15, <1>16, <1>17, <1>18, <1>19, <1>20, <1>21, <1>22
  DEF Next, ProducerStep, TxStep, RxStep

\* Every variable keeps its type (ioport_vlink.cc); in particular no count of
\* packets or of bytes becomes negative and no queue overflows.
THEOREM TypeCorrect == Spec => []TypeOK
<1>1. TypeInv => TypeOK
  BY DEF TypeInv
<1> QED
  BY TypeInvInit, TypeInvNext, <1>1, PTL DEF Spec

\* The bytes of B's pipe keep matching its packets: the pipe is never full when
\* A's TX thread writes to it.
LEMMA RxInvNext == RxInv /\ [Next]_vars => RxInv'
<1> SUFFICES ASSUME RxInv, [Next]_vars PROVE RxInv'
  OBVIOUS
<1>0. TypeInv /\ TypeInv'
  BY TypeInvNext DEF RxInv
<1> DEFINE Match == RxBytesMatch' /\ OwesLittle'
<1> SUFFICES Match
  BY <1>0 DEF RxInv
<1>t. /\ rx_pipe \in 0..PipeSize /\ inq \in 0..Cap /\ deferred_rx \in Nat
      /\ Cap \in Nat /\ PipeSize \in Nat
  BY <1>0, SizeAssumption DEF TypeInv, TypeOK
<1> USE DEF RxInv, RxBytesMatch, OwesLittle
<1>1. CASE UNCHANGED <<inq, rx_pipe, deferred_rx, rxpc>> /\ (txpc = "notify" <=> txpc' = "notify")
  BY <1>1, <1>t
<1>2. CASE tx_pkt
  BY <1>2, <1>t DEF tx_pkt, rxThread
<1>3. CASE NotifyRx
  <2>1. rx_pipe < PipeSize
    BY <1>3, <1>t, PipeAssumption DEF NotifyRx
  <2> QED
    BY <1>3, <1>t, <2>1 DEF NotifyRx, Notified, rxThread
<1>4. CASE ReadPacket
  BY <1>4, <1>t DEF ReadPacket, txThread
<1>5. CASE DrainRx
  <2> DEFINE n == Drained(rx_pipe, deferred_rx)
  <2>1. /\ n \in Nat /\ n <= rx_pipe /\ n <= deferred_rx
        /\ (rx_pipe > 0 /\ deferred_rx > 0) => n > 0
    BY <1>t, DrainedBounds
  <2>2. /\ rx_pipe' = rx_pipe - n /\ deferred_rx' = deferred_rx - n
        /\ rxpc = "drain" /\ rxpc' = "read" /\ UNCHANGED <<inq, txpc>>
    BY <1>5 DEF DrainRx, txThread
  <2> HIDE DEF n
  <2>3. deferred_rx = 2 => rx_pipe > 0
    BY <1>t
  <2> QED
    BY <1>t, <2>1, <2>2, <2>3
<1>6. CASE WakeRx \/ EndRead
  BY <1>6, <1>t DEF WakeRx, EndRead, txThread
<1> QED
  <2>1. ASSUME NEW t \in Producers, CheckUp(t) \/ ProducerStep(t) PROVE Match
    BY <2>1, <1>1 DEF CheckUp, ProducerStep, Enqueue, DropCongested, NotifyTx, txThread, rxThread
  <2>2. CASE TxStep
    BY <2>2, <1>1, <1>2, <1>3 DEF TxStep, WakeTx, SkipQueue, NextQueue, StartWrite, Dequeue,
       DropAtB, EndWrite, DrainTx, rxThread
  <2>3. CASE RxStep
    BY <2>3, <1>4, <1>5, <1>6 DEF RxStep
  <2>4. CASE UpA \/ DownA \/ UpB \/ DownB
    BY <2>4, <1>1 DEF UpA, DownA, UpB, DownB, txThread, rxThread
  <2>5. CASE UNCHANGED vars
    BY <2>5, <1>1 DEF vars
  <2> QED
    BY <2>1, <2>2, <2>3, <2>4, <2>5 DEF Next

\* tx_pkt and read of ioport_vlink.cc: B's bytes and packets match in every state.
THEOREM RxBytesAlwaysMatch == Spec => []RxBytesMatch
<1>1. Init => RxInv
  BY TypeInvInit DEF Init, RxInv, RxBytesMatch, OwesLittle
<1>2. RxInv => RxBytesMatch
  BY DEF RxInv
<1> QED
  BY <1>1, <1>2, RxInvNext, PTL DEF Spec

\* A packet in B's input queue always has a byte in the pipe or one on its way.
THEOREM InputNeverStranded == Spec => []NoStrandedInput
<1>1. TypeOK /\ RxBytesMatch => NoStrandedInput
  BY DEF TypeOK, RxBytesMatch, NoStrandedInput
<1> QED
  BY <1>1, TypeCorrect, RxBytesAlwaysMatch, PTL

-----------------------------------------------------------------------------
(* The output side *)

\* The packets of A's output queues, each as its queue and its place in it.
Waiting == {x \in Queues \X (1..Cap) : x[2] <= outq[x[1]]}

\* Every packet waiting and every byte A's TX thread has deferred has its byte, in
\* the pipe or about to be written by a producer.
TxBytesMatch ==
    Cardinality(Waiting) + deferred_tx = tx_pipe + Cardinality(Notifying)

\* Packets the batch in progress has taken off its queue so far.
Taken ==
    IF txpc \in {"wait", "scan"} THEN 0
    ELSE IF txpc = "write" THEN Buckets - buckets
    ELSE IF txpc = "drain" THEN Buckets
    ELSE Buckets - buckets + 1

\* Between batches A's TX thread owes at most one byte per producer (the bytes that
\* were not written yet when it drained), inside one also what the batch took.
OwesBatch == deferred_tx <= Cardinality(Producers) + Taken

TxInv == TypeInv /\ TxBytesMatch /\ OwesBatch

\* A's output queues never hold more packets than they have places for, and no more
\* producers notify than there are.
LEMMA Counts ==
    ASSUME TypeOK
    PROVE  /\ IsFiniteSet(Waiting) /\ IsFiniteSet(Notifying)
           /\ Cardinality(Waiting) \in Nat /\ Cardinality(Notifying) \in Nat
           /\ Cardinality(Producers) \in Nat
           /\ Cardinality(Waiting) <= NumQueues * Cap
           /\ Cardinality(Notifying) <= Cardinality(Producers)
<1>1. IsFiniteSet(Queues) /\ Cardinality(Queues) = NumQueues
  BY SizeAssumption, FS_Interval DEF Queues
<1>2. IsFiniteSet(1..Cap) /\ Cardinality(1..Cap) = Cap
  BY SizeAssumption, FS_Interval
<1>3. /\ IsFiniteSet(Queues \X (1..Cap))
      /\ Cardinality(Queues \X (1..Cap)) = NumQueues * Cap
  BY <1>1, <1>2, FS_Product
<1>4. Waiting \subseteq Queues \X (1..Cap)
  BY DEF Waiting
<1>5. IsFiniteSet(Waiting) /\ Cardinality(Waiting) <= NumQueues * Cap
  BY <1>3, <1>4, FS_Subset
<1>6. Notifying \subseteq Producers
  BY DEF Notifying
<1>7. IsFiniteSet(Notifying) /\ Cardinality(Notifying) <= Cardinality(Producers)
  BY <1>6, TxPipeAssumption, FS_Subset
<1> QED
  BY <1>5, <1>7, TxPipeAssumption, FS_CardinalityType

\* enqueue_packet adds one packet to those waiting.
LEMMA EnqueueAddsOne ==
    ASSUME TypeOK, NEW t \in Producers, NEW q \in Queues, Enqueue(t, q)
    PROVE  Cardinality(Waiting') = Cardinality(Waiting) + 1
<1> DEFINE x == <<q, outq[q] + 1>>
<1>t. outq \in [Queues -> 0..Cap] /\ Cap \in Nat
  BY SizeAssumption DEF TypeOK
<1>1. outq' = [outq EXCEPT ![q] = @ + 1] /\ outq[q] < Cap
  BY DEF Enqueue
<1>2. x \in Queues \X (1..Cap) /\ x \notin Waiting
  BY <1>1, <1>t DEF Waiting
<1>3. Waiting' = Waiting \cup {x}
  <2>1. ASSUME NEW y \in Queues \X (1..Cap) PROVE y \in Waiting' <=> y \in Waiting \cup {x}
    <3>1. PICK r \in Queues, n \in 1..Cap : y = <<r, n>>
      BY <2>1
    <3>2. y \in Waiting' <=> n <= outq'[r]
      BY <3>1 DEF Waiting
    <3>3. y \in Waiting <=> n <= outq[r]
      BY <3>1 DEF Waiting
    <3>4. CASE r = q
      BY <1>1, <1>t, <3>1, <3>2, <3>3, <3>4
    <3>5. CASE r # q
      BY <1>1, <1>t, <3>1, <3>2, <3>3, <3>5
    <3> QED
      BY <3>4, <3>5
  <2>2. Waiting' \subseteq Queues \X (1..Cap) /\ Waiting \subseteq Queues \X (1..Cap)
    BY DEF Waiting
  <2> QED
    BY <1>2, <2>1, <2>2
<1> QED
  BY <1>2, <1>3, Counts, FS_AddElement

\* write() takes one packet off those waiting.
LEMMA DequeueTakesOne ==
    ASSUME TypeOK, Dequeue
    PROVE  Cardinality(Waiting') = Cardinality(Waiting) - 1
<1> DEFINE x == <<txq, outq[txq]>>
<1>t. outq \in [Queues -> 0..Cap] /\ Cap \in Nat /\ txq \in Queues
  BY SizeAssumption DEF TypeOK
<1>1. outq' = [outq EXCEPT ![txq] = @ - 1] /\ outq[txq] > 0
  BY DEF Dequeue
<1>2. x \in Waiting
  BY <1>1, <1>t DEF Waiting
<1>3. Waiting' = Waiting \ {x}
  <2>1. ASSUME NEW y \in Queues \X (1..Cap) PROVE y \in Waiting' <=> y \in Waiting \ {x}
    <3>1. PICK r \in Queues, n \in 1..Cap : y = <<r, n>>
      BY <2>1
    <3>2. y \in Waiting' <=> n <= outq'[r]
      BY <3>1 DEF Waiting
    <3>3. y \in Waiting <=> n <= outq[r]
      BY <3>1 DEF Waiting
    <3>4. CASE r = txq
      BY <1>1, <1>t, <3>1, <3>2, <3>3, <3>4
    <3>5. CASE r # txq
      BY <1>1, <1>t, <3>1, <3>2, <3>3, <3>5
    <3> QED
      BY <3>4, <3>5
  <2>2. Waiting' \subseteq Queues \X (1..Cap) /\ Waiting \subseteq Queues \X (1..Cap)
    BY DEF Waiting
  <2> QED
    BY <1>2, <2>1, <2>2
<1> QED
  BY <1>2, <1>3, Counts, FS_RemoveElement

\* A producer that has queued its packet is one more that will notify; one that
\* has notified is one less.
LEMMA NotifyingChanges ==
    ASSUME TypeOK, NEW t \in Producers
    PROVE  /\ pc[t] # "notify" /\ pc' = [pc EXCEPT ![t] = "notify"]
                => Cardinality(Notifying') = Cardinality(Notifying) + 1
           /\ pc[t] = "notify" /\ pc' = [pc EXCEPT ![t] = "idle"]
                => Cardinality(Notifying') = Cardinality(Notifying) - 1
<1>1. ASSUME pc[t] # "notify", pc' = [pc EXCEPT ![t] = "notify"]
      PROVE  Cardinality(Notifying') = Cardinality(Notifying) + 1
  <2>1. Notifying' = Notifying \cup {t} /\ t \notin Notifying
    BY <1>1 DEF Notifying, TypeOK
  <2> QED
    BY <2>1, Counts, FS_AddElement
<1>2. ASSUME pc[t] = "notify", pc' = [pc EXCEPT ![t] = "idle"]
      PROVE  Cardinality(Notifying') = Cardinality(Notifying) - 1
  <2>1. Notifying' = Notifying \ {t} /\ t \in Notifying
    BY <1>2 DEF Notifying, TypeOK
  <2> QED
    BY <2>1, Counts, FS_RemoveElement
<1> QED
  BY <1>1, <1>2

\* A step that leaves the output side's counts alone, whatever the rest does.
LEMMA SameCounts ==
    ASSUME UNCHANGED outq, \A t \in Producers : pc'[t] = "notify" <=> pc[t] = "notify"
    PROVE  Waiting' = Waiting /\ Notifying' = Notifying
BY DEF Waiting, Notifying

\* A's bytes keep matching its packets: its pipe is never full when a producer
\* writes to it.
LEMMA TxInvNext == TxInv /\ [Next]_vars => TxInv'
<1> SUFFICES ASSUME TxInv, [Next]_vars PROVE TxInv'
  OBVIOUS
<1>0. TypeInv /\ TypeInv'
  BY TypeInvNext DEF TxInv
<1> DEFINE Match == TxBytesMatch' /\ OwesBatch'
<1> SUFFICES Match
  BY <1>0 DEF TxInv
<1> DEFINE w == Cardinality(Waiting)
           n == Cardinality(Notifying)
           P == Cardinality(Producers)
<1>c. /\ w \in Nat /\ n \in Nat /\ P \in Nat /\ n <= P /\ w <= NumQueues * Cap
  BY <1>0, Counts DEF TypeInv
<1>t. /\ tx_pipe \in 0..PipeSize /\ deferred_tx \in Nat /\ buckets \in 0..Buckets
      /\ Buckets \in Nat /\ PipeSize \in Nat /\ DrainMax \in Nat /\ NumQueues * Cap \in Nat
      /\ txpc \in {"send", "notify"} => buckets > 0
      /\ Buckets <= DrainMax /\ PipeSize > NumQueues * Cap + P + Buckets
  BY <1>0, SizeAssumption, TxPipeAssumption DEF TypeInv, TypeOK, BatchOpen
<1>i. /\ w + deferred_tx = tx_pipe + n
      /\ deferred_tx <= P + Taken
  BY DEF TxInv, TxBytesMatch, OwesBatch
<1>m. ASSUME w' + deferred_tx' = tx_pipe' + n', deferred_tx' <= P + Taken' PROVE Match
  BY <1>m DEF TxBytesMatch, OwesBatch
<1>k. Taken \in 0..Buckets
  BY <1>t, <1>0 DEF Taken, TypeInv, TypeOK
<1>s. ASSUME UNCHANGED <<outq, tx_pipe, deferred_tx>>, Taken' >= Taken, Taken' \in Nat,
             \A t \in Producers : pc'[t] = "notify" <=> pc[t] = "notify"
      PROVE  Match
  <2>1. w' = w /\ n' = n
    BY <1>s, SameCounts
  <2>2. tx_pipe' = tx_pipe /\ deferred_tx' = deferred_tx
    BY <1>s
  <2> HIDE DEF w, n, P
  <2>3. w' + deferred_tx' = tx_pipe' + n'
    BY <1>i, <2>1, <2>2
  <2>4. Taken \in Int /\ Taken' \in Int /\ Taken <= Taken' /\ P \in Int
    BY <1>s, <1>c, <1>t, <1>k
  <2>5. deferred_tx \in Int /\ deferred_tx <= P + Taken
    BY <1>t, <1>i
  <2>6. \A a, b, c, p \in Int : a <= p + b /\ b <= c => a <= p + c
    OBVIOUS
  <2>7. deferred_tx' <= P + Taken'
    BY <2>2, <2>4, <2>5, <2>6, Zenon
  <2> QED
    BY <1>m, <2>3, <2>7
<1>1. ASSUME NEW t \in Producers, CheckUp(t) \/ DropCongested(t) PROVE Match
  BY <1>1, <1>s, <1>0, <1>k DEF CheckUp, DropCongested, txThread, Taken, TypeInv, TypeOK
<1>2. ASSUME NEW t \in Producers, NEW q \in Queues, Enqueue(t, q) PROVE Match
  <2>1. w' = w + 1
    BY <1>2, <1>0, EnqueueAddsOne DEF TypeInv
  <2>2. n' = n + 1
    BY <1>2, <1>0, NotifyingChanges DEF TypeInv, Enqueue
  <2>3. UNCHANGED <<tx_pipe, deferred_tx, txpc, buckets>>
    BY <1>2 DEF Enqueue, txThread
  <2>4. Taken' = Taken
    BY <2>3 DEF Taken
  <2> HIDE DEF w, n, P
  <2>5. w' + deferred_tx' = tx_pipe' + n' /\ deferred_tx' <= P + Taken'
    BY <1>c, <1>t, <1>i, <1>k, <2>1, <2>2, <2>3, <2>4
  <2> QED
    BY <1>m, <2>5
<1>3. ASSUME NEW t \in Producers, NotifyTx(t) PROVE Match
  <2>1. n' = n - 1
    BY <1>3, <1>0, NotifyingChanges DEF TypeInv, NotifyTx
  <2>2. UNCHANGED <<outq, deferred_tx, txpc, buckets>> /\ tx_pipe' = Notified(tx_pipe)
    BY <1>3 DEF NotifyTx, txThread
  <2>3. w' = w /\ Taken' = Taken
    BY <2>2 DEF Waiting, Taken
  <2> HIDE DEF w, n, P
  <2>4. tx_pipe < PipeSize
    BY <1>c, <1>t, <1>i, <1>k, <2>1
  <2>5. tx_pipe' = tx_pipe + 1
    BY <2>2, <2>4 DEF Notified
  <2>6. w' + deferred_tx' = tx_pipe' + n' /\ deferred_tx' <= P + Taken'
    BY <1>c, <1>t, <1>i, <1>k, <2>1, <2>2, <2>3, <2>5
  <2> QED
    BY <1>m, <2>6
<1>4. CASE WakeTx \/ SkipQueue \/ StartWrite
  <2>1. Taken = 0 /\ Taken' = 0
    BY <1>4, <1>t DEF WakeTx, SkipQueue, StartWrite, NextQueue, Taken
  <2>2. UNCHANGED <<outq, pc, tx_pipe, deferred_tx>>
    BY <1>4 DEF WakeTx, SkipQueue, StartWrite, producer
  <2> QED
    BY <1>s, <2>1, <2>2
<1>5. CASE Dequeue
  <2>1. w' = w - 1
    BY <1>5, <1>0, DequeueTakesOne DEF TypeInv
  <2>2. /\ UNCHANGED <<pc, tx_pipe, buckets>> /\ deferred_tx' = deferred_tx + 1
        /\ txpc = "write" /\ txpc' = "send"
    BY <1>5 DEF Dequeue
  <2>3. n' = n
    BY <2>2 DEF Notifying
  <2>4. Taken' = Taken + 1
    BY <2>2, <1>t DEF Taken
  <2> HIDE DEF w, n, P
  <2>5. w' + deferred_tx' = tx_pipe' + n' /\ deferred_tx' <= P + Taken'
    BY <1>c, <1>t, <1>i, <1>k, <2>1, <2>2, <2>3, <2>4
  <2> QED
    BY <1>m, <2>5
<1>6. CASE tx_pkt \/ DropAtB \/ NotifyRx
  <2>1. Taken' = Taken
    BY <1>6, <1>t DEF tx_pkt, DropAtB, NotifyRx, Taken
  <2>2. UNCHANGED <<outq, pc, tx_pipe, deferred_tx>>
    BY <1>6 DEF tx_pkt, DropAtB, NotifyRx, producer
  <2> QED
    BY <1>s, <1>k, <2>1, <2>2
<1>7. CASE EndWrite
  <2>1. Taken' = Buckets
    BY <1>7 DEF EndWrite, Taken
  <2>2. UNCHANGED <<outq, pc, tx_pipe, deferred_tx>>
    BY <1>7 DEF EndWrite, producer
  <2> QED
    BY <1>s, <1>k, <1>t, <2>1, <2>2
<1>8. CASE DrainTx
  <2> DEFINE d == Drained(tx_pipe, deferred_tx)
  <2>1. d \in Nat /\ d <= tx_pipe /\ d <= deferred_tx
    <3>1. tx_pipe \in Nat /\ deferred_tx \in Nat
      BY <1>t
    <3> QED
      BY <3>1, DrainedBounds
  <2>2. d = tx_pipe \/ d = deferred_tx \/ d = DrainMax
    BY DEF Drained, MinOf
  <2>3. /\ UNCHANGED <<outq, pc>> /\ txpc = "drain" /\ txpc' \in {"wait", "scan"}
        /\ tx_pipe' = tx_pipe - d /\ deferred_tx' = deferred_tx - d
    BY <1>8 DEF DrainTx, NextQueue, producer
  <2>4. w' = w /\ n' = n /\ Taken = Buckets /\ Taken' = 0
    BY <2>3 DEF Waiting, Notifying, Taken
  <2> HIDE DEF w, n, P, d
  <2>5. w' + deferred_tx' = tx_pipe' + n' /\ deferred_tx' <= P + Taken'
    BY <1>c, <1>t, <1>i, <2>1, <2>2, <2>3, <2>4
  <2> QED
    BY <1>m, <2>5
<1>9. CASE RxStep \/ UpA \/ DownA \/ UpB \/ DownB \/ UNCHANGED vars
  <2>1. UNCHANGED <<outq, pc, tx_pipe, deferred_tx, txpc, buckets>>
    BY <1>9 DEF RxStep, WakeRx, ReadPacket, DrainRx, EndRead, UpA, DownA, UpB, DownB,
       vars, producer, txThread
  <2>2. Taken' = Taken
    BY <2>1 DEF Taken
  <2> QED
    BY <1>s, <1>k, <2>1, <2>2
<1> QED
  BY <1>1, <1>2, <1>3, <1>4, <1>5, <1>6, <1>7, <1>8, <1>9 DEF Next, ProducerStep, TxStep

\* enqueue_packet and write of ioport_vlink.cc: no byte of A's pipe is ever lost,
\* although several threads write to it and it is drained in batches.
THEOREM TxBytesAlwaysMatch == Spec => []TxBytesMatch
<1>1. Init => TxInv
  <2> SUFFICES ASSUME Init PROVE TxInv
    OBVIOUS
  <2>1. TypeInv
    BY TypeInvInit
  <2>2. Waiting = {} /\ Notifying = {}
    BY SizeAssumption DEF Init, Waiting, Notifying, Queues
  <2>3. Cardinality(Waiting) = 0 /\ Cardinality(Notifying) = 0
    BY <2>2, FS_EmptySet
  <2>4. deferred_tx = 0 /\ tx_pipe = 0 /\ Taken = 0
    BY DEF Init, Taken
  <2>5. Cardinality(Producers) \in Nat
    BY TxPipeAssumption, FS_CardinalityType
  <2> QED
    BY <2>1, <2>3, <2>4, <2>5 DEF TxInv, TxBytesMatch, OwesBatch
<1>2. TxInv => TxBytesMatch
  BY DEF TxInv
<1> QED
  BY <1>1, <1>2, TxInvNext, PTL DEF Spec

\* A packet in one of A's output queues always has a byte in the pipe or one on its
\* way: A's TX thread does not sleep while packets wait.
THEOREM OutputNeverStranded == Spec => []NoStrandedOutput
<1>1. TypeOK /\ TxBytesMatch => NoStrandedOutput
  <2> SUFFICES ASSUME TypeOK, TxBytesMatch, NEW q \in Queues, outq[q] > 0, Notifying = {}
               PROVE  tx_pipe > 0
    BY DEF NoStrandedOutput
  <2>1. <<q, 1>> \in Waiting
    BY SizeAssumption DEF Waiting, TypeOK
  <2>2. Cardinality(Waiting) # 0 /\ Cardinality(Waiting) \in Nat
    BY <2>1, Counts, FS_EmptySet
  <2>3. Cardinality(Notifying) = 0
    BY FS_EmptySet
  <2> QED
    BY <2>2, <2>3 DEF TxBytesMatch, TypeOK
<1> QED
  BY <1>1, TypeCorrect, TxBytesAlwaysMatch, PTL
=============================================================================
