----------------------------- MODULE BufferPool -----------------------------
(***************************************************************************)
(* The pool of packet buffers (io/bufferpool_meta.h, io/bufferpool.cc): a  *)
(* circular_queue of capacity Slots that the constructor fills with        *)
(* Slots-1 buffers.  Threads take buffers (get_buffer) and give them back  *)
(* (release_buffer); a buffer may be given back by another thread than the *)
(* one that took it.  The steps of the two queue operations are those of   *)
(* CircularQueue.                                                          *)
(***************************************************************************)
EXTENDS CircularQueue

\* Buffers are named by their index in pool[]; the last slot has none.
ASSUME PoolAssumption == Elem = 0..(Slots - 2)

VARIABLE inuse       \* buffers whose slot has status BUFFERPOOL_SLOT_IN_USE

poolVars == <<vars, inuse>>

\* The constructor has written pool[0], pool[1], ... to the queue.
PoolInit ==
    /\ elements = [p \in Pointer |-> IF p \in Elem THEN p ELSE NoElem]
    /\ readp = 0 /\ writep = Slots - 1 /\ reservep = Slots - 1
    /\ pc = [t \in Threads |-> "idle"]
    /\ cpy = [t \in Threads |-> 0]
    /\ val = [t \in Threads |-> NoElem]
    /\ lag = [t \in Threads |-> 0]
    /\ inuse = {}

get_buffer(t) == StartRead(t) /\ UNCHANGED inuse

\* get_buffer marks the slot it has read and returns its packet.
get_bufferReturn(t) ==
    /\ pc[t] = "got"
    /\ inuse' = inuse \cup {val[t]}
    /\ Return(t)

\* Mutant: release_buffer does not mark the slot as available.
ReleaseWithoutMark(t, b) ==
    /\ b \in inuse
    /\ UNCHANGED inuse
    /\ StartWrite(t, b)

\* release_buffer marks the slot, then queues it; it ignores the queue's answer.
release_buffer(t, b) ==
    /\ b \in inuse
    /\ inuse' = inuse \ {b}
    /\ StartWrite(t, b)

QueueStep(t) ==
    /\ WriteStep(t) \/ ReadStep(t)
    /\ UNCHANGED inuse

PoolNext ==
    \/ \E t \in Readers : get_buffer(t) \/ get_bufferReturn(t)
    \/ \E t \in Writers, b \in Elem : release_buffer(t, b)
    \/ \E t \in Threads : QueueStep(t)

PoolSpec == PoolInit /\ [][PoolNext]_poolVars

\* A thread inside a call keeps running; nobody is obliged to make a call.
PoolFairSpec == PoolSpec /\ \A t \in Threads : WF_poolVars(QueueStep(t))

-----------------------------------------------------------------------------

\* get_buffer's assertion ("Corrupted pool"): the slot it has read from the
\* queue is a slot, is AVAILABLE, and no other thread is being handed the same.
NoCorruption ==
    \A t \in Threads : pc[t] = "got" =>
        /\ val[t] \in Elem \ inuse
        /\ \A u \in Threads \ {t} : pc[u] = "got" => val[u] # val[t]

\* The destructor's assertion ("check that no buffer was lost"): when all
\* buffers have been given back, all of them are in the queue.
NoBufferLost ==
    (inuse = {} /\ \A t \in Threads : pc[t] = "idle") => size(readp, writep) = Slots - 1

=============================================================================
