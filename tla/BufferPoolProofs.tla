-------------------------- MODULE BufferPoolProofs --------------------------
(***************************************************************************)
(* Proofs about the lock-free ring and the pool of packet buffers on it, for *)
(* any capacity, any number of threads and any lag.                          *)
(*                                                                         *)
(* The ring, with any elements (nothing here cites PoolAssumption): as long  *)
(* as no thread is preempted for a whole lap, the pointers stay in order,    *)
(* reserved slots stay apart, and the ring implements a FIFO queue.  With    *)
(* one writer and one reader that holds without the assumption, and the      *)
(* queue refuses nothing without cause.                                      *)
(*                                                                         *)
(* The pool: PoolInv says where a buffer may be, in the ring, with a thread  *)
(* that gives it back or has just taken it, or in use, and never in two of   *)
(* these places.  A buffer may be in none: the queue refuses a write without *)
(* reason now and then, and release_buffer ignores that.                     *)
(***************************************************************************)
EXTENDS BufferPool, SequenceTheorems, TLAPS

-----------------------------------------------------------------------------
(* The ring *)

\* The ring has a slot.
LEMMA SlotsPositive == Slots \in Nat /\ Slots > 0
BY SlotsAssumption

-----------------------------------------------------------------------------
(* Arithmetic of pointers *)

\* circ_inc_pointer stays inside the ring.
LEMMA IncType ==
    ASSUME NEW p \in Pointer
    PROVE  circ_inc_pointer(p) \in Pointer
BY SlotsPositive DEF Pointer, circ_inc_pointer

\* The mask in is_full computes the same successor as circ_inc_pointer.
LEMMA FullIsNext ==
    ASSUME NEW w \in Pointer, NEW r \in Pointer
    PROVE  is_full(w, r) <=> circ_inc_pointer(w) = r
<1>1. CASE w + 1 = Slots
  <2>1. (w + 1) % Slots = 0
    BY <1>1, SlotsPositive, SMTT(30)
  <2> QED
    BY <1>1, <2>1 DEF is_full, circ_inc_pointer
<1>2. CASE w + 1 < Slots
  <2>1. (w + 1) % Slots = w + 1
    BY <1>2, SlotsPositive, SMTT(30) DEF Pointer
  <2> QED
    BY <1>2, <2>1 DEF is_full, circ_inc_pointer, Pointer
<1> QED
  BY <1>1, <1>2, SlotsPositive DEF Pointer

\* How size changes when one of its pointers moves one slot.
LEMMA SizeStep ==
    ASSUME NEW a \in Pointer, NEW b \in Pointer
    PROVE  /\ size(a, b) \in 0..(Slots - 1)
           /\ size(a, b) = 0 <=> a = b
           /\ size(a, b) < Slots - 1 => size(a, circ_inc_pointer(b)) = size(a, b) + 1
           /\ a # b => size(circ_inc_pointer(a), b) = size(a, b) - 1
           /\ size(a, b) = Slots - 1 <=> circ_inc_pointer(b) = a
BY SlotsPositive DEF Pointer, size, circ_inc_pointer

\* Distances that do not wrap add up.
LEMMA SizeAdds ==
    ASSUME NEW a \in Pointer, NEW b \in Pointer, NEW c \in Pointer,
           size(a, b) + size(b, c) < Slots
    PROVE  size(a, c) = size(a, b) + size(b, c)
BY SlotsPositive DEF Pointer, size

\* Distances from one pointer tell pointers apart.
LEMMA SizeInjective ==
    ASSUME NEW a \in Pointer, NEW b \in Pointer, NEW c \in Pointer,
           size(a, b) = size(a, c)
    PROVE  b = c
BY SlotsPositive DEF Pointer, size

\* There and back is once round the ring.
LEMMA SizeAround ==
    ASSUME NEW a \in Pointer, NEW b \in Pointer, a # b
    PROVE  size(a, b) + size(b, a) = Slots
BY SlotsPositive DEF Pointer, size

\* A slot at distance k from a pointer.
LEMMA PlusSize ==
    ASSUME NEW a \in Pointer, NEW k \in 0..(Slots - 1)
    PROVE  /\ Plus(a, k) \in Pointer
           /\ size(a, Plus(a, k)) = k
           /\ k + 1 < Slots => Plus(circ_inc_pointer(a), k) = Plus(a, k + 1)
BY SlotsPositive DEF Pointer, size, Plus, circ_inc_pointer

\* The slot at distance size(a, b) from a is b.
LEMMA PlusOfSize ==
    ASSUME NEW a \in Pointer, NEW b \in Pointer
    PROVE  Plus(a, size(a, b)) = b
BY SlotsPositive DEF Pointer, size, Plus

-----------------------------------------------------------------------------
(* The inductive invariant *)

\* No thread is overtaken by a whole lap between loading a pointer and its
\* compare-and-swap on it.
NoLap == MaxLag < Slots

\* Only writers write, only readers read.
Roles ==
    \A t \in Threads : /\ pc[t] \in WriteSteps => t \in Writers
                       /\ pc[t] \in ReadSteps => t \in Readers

\* One writer and one reader: nobody competes for a pointer.
OneEach == \E w, r : Writers = {w} /\ Readers = {r}

\* No copy of a pointer is taken for a current one after a lap of the ring.
NotLapped == NoLap \/ (OneEach /\ Roles)

\* The three pointers in order: what may be read, then what is reserved, and at
\* least one slot left over.
Ordered == size(readp, writep) + size(writep, reservep) < Slots

\* A thread that has reserved a slot and not committed it yet.
Reserving(t) == pc[t] \in {"w_store", "w_commit"}

\* What a thread has copied and checked is still worth something: its copy is lag
\* slots behind; the slot it reserved is still reserved; and if the pointer is
\* where it was, the checks it made on it still hold.
ThreadInv(t) ==
    /\ HoldsReserve(t) => lag[t] = size(cpy[t], reservep)
    /\ HoldsRead(t) => lag[t] = size(cpy[t], readp)
    /\ Reserving(t) => size(writep, cpy[t]) < size(writep, reservep)
    /\ (pc[t] = "w_cas" /\ cpy[t] = reservep) => size(readp, reservep) < Slots - 1
    /\ (pc[t] \in {"r_elem", "r_cas"} /\ cpy[t] = readp) => readp # writep
    /\ (pc[t] = "r_cas" /\ cpy[t] = readp) => val[t] = elements[readp]
    /\ pc[t] = "w_commit" => elements[cpy[t]] = val[t]
    /\ pc[t] = "idle" => val[t] = NoElem

\* No two threads have reserved the same slot.
Apart ==
    \A t, u \in Threads : (t # u /\ Reserving(t) /\ Reserving(u)) => cpy[t] # cpy[u]

RingInv ==
    /\ TypeOK
    /\ Ordered
    /\ \A t \in Threads : ThreadInv(t)
    /\ Apart

-----------------------------------------------------------------------------
(* Types *)

\* The state is well typed initially.
LEMMA TypeInit == Init => TypeOK
BY SlotsPositive, LagAssumption DEF Init, TypeOK, Pointer

\* A thread that overtakes others leaves every lag within its bound.
LEMMA OvertakeType ==
    ASSUME NEW t \in Threads, lag \in [Threads -> 0..MaxLag],
           Overtake(t, HoldsReserve) \/ Overtake(t, HoldsRead)
    PROVE  lag' \in [Threads -> 0..MaxLag]
BY LagAssumption DEF Overtake

\* Every step of the two queue operations keeps the types.
LEMMA TypeNext == TypeOK /\ [Next]_vars => TypeOK'
<1> SUFFICES ASSUME TypeOK, [Next]_vars PROVE TypeOK'
  OBVIOUS
<1> USE LagAssumption DEF TypeOK, Goto, Leave, ring, WriteSteps, ReadSteps
<1>1. ASSUME NEW t \in Threads, NEW e \in Elem, StartWrite(t, e) PROVE TypeOK'
  BY <1>1 DEF StartWrite
<1>2. ASSUME NEW t \in Threads, WriteLoad(t) PROVE TypeOK'
  BY <1>2 DEF WriteLoad
<1>3. ASSUME NEW t \in Threads, WriteRefused(t) PROVE TypeOK'
  BY <1>3, SlotsPositive DEF WriteRefused, Pointer
<1>4. ASSUME NEW t \in Threads, WriteFits(t) PROVE TypeOK'
  BY <1>4 DEF WriteFits
<1>5. ASSUME NEW t \in Threads, WriteReserve(t) PROVE TypeOK'
  <2>1. reservep' \in Pointer /\ lag' \in [Threads -> 0..MaxLag]
    BY <1>5, IncType, OvertakeType DEF WriteReserve
  <2> QED
    BY <1>5, <2>1 DEF WriteReserve
<1>6. ASSUME NEW t \in Threads, WriteRetry(t) PROVE TypeOK'
  BY <1>6, SlotsPositive DEF WriteRetry, Pointer
<1>7. ASSUME NEW t \in Threads, WriteStore(t) PROVE TypeOK'
  BY <1>7 DEF WriteStore
<1>8. ASSUME NEW t \in Threads, WriteCommit(t) PROVE TypeOK'
  <2>1. writep' \in Pointer
    BY <1>8, IncType DEF WriteCommit
  <2> QED
    BY <1>8, <2>1, SlotsPositive DEF WriteCommit, Pointer
<1>9. ASSUME NEW t \in Threads, StartRead(t) PROVE TypeOK'
  BY <1>9 DEF StartRead
<1>10. ASSUME NEW t \in Threads, ReadLoad(t) PROVE TypeOK'
  BY <1>10 DEF ReadLoad
<1>11. ASSUME NEW t \in Threads, ReadNull(t) PROVE TypeOK'
  BY <1>11, SlotsPositive DEF ReadNull, Pointer
<1>12. ASSUME NEW t \in Threads, ReadNonEmpty(t) PROVE TypeOK'
  BY <1>12 DEF ReadNonEmpty
<1>13. ASSUME NEW t \in Threads, ReadElem(t) PROVE TypeOK'
  BY <1>13 DEF ReadElem
<1>14. ASSUME NEW t \in Threads, ReadAdvance(t) PROVE TypeOK'
  <2>1. readp' \in Pointer /\ lag' \in [Threads -> 0..MaxLag]
    BY <1>14, IncType, OvertakeType DEF ReadAdvance
  <2>2. /\ pc' = [pc EXCEPT ![t] = "got"] /\ cpy' = [cpy EXCEPT ![t] = 0]
        /\ val' = [val EXCEPT ![t] = val[t]]
        /\ UNCHANGED <<elements, writep, reservep>>
    BY <1>14 DEF ReadAdvance
  <2>3. 0 \in Pointer
    BY SlotsPositive DEF Pointer
  <2> QED
    BY <2>1, <2>2, <2>3
<1>15. ASSUME NEW t \in Threads, ReadRetry(t) PROVE TypeOK'
  BY <1>15, SlotsPositive DEF ReadRetry, Pointer
<1>16. ASSUME NEW t \in Threads, Return(t) PROVE TypeOK'
  BY <1>16, SlotsPositive DEF Return, Pointer
<1>17. CASE UNCHANGED vars
  BY <1>17 DEF vars
<1> QED
  BY <1>1, <1>2, <1>3, <1>4, <1>5, <1>6, <1>7, <1>8, <1>9, <1>10, <1>11, <1>12,
     <1>13, <1>14, <1>15, <1>16, <1>17
  DEF Next, WriteStep, ReadStep, Threads

\* Every variable of the ring and of its callers keeps its type: in particular a
\* pointer of circular_queue never leaves the array.
THEOREM TypeCorrect == Spec => []TypeOK
BY TypeInit, TypeNext, PTL DEF Spec

-----------------------------------------------------------------------------
(* The ring invariant is inductive *)

\* The invariant holds initially.
LEMMA RingInvInit == Init => RingInv
<1> SUFFICES ASSUME Init PROVE RingInv
  OBVIOUS
<1>1. TypeOK
  BY TypeInit
<1>2. Ordered
  BY SlotsPositive DEF Init, Ordered, size
<1>3. \A t \in Threads : pc[t] = "idle" /\ val[t] = NoElem
  BY DEF Init
<1> QED
  BY <1>1, <1>2, <1>3 DEF RingInv, ThreadInv, Apart, Reserving, HoldsReserve, HoldsRead

\* The locals of thread u do not change.
SameLocals(u) ==
    pc'[u] = pc[u] /\ cpy'[u] = cpy[u] /\ val'[u] = val[u] /\ lag'[u] = lag[u]

\* A step that leaves the ring alone disturbs no other thread.
LEMMA LocalStep ==
    ASSUME RingInv, TypeOK', NEW t \in Threads, UNCHANGED ring,
           \A u \in Threads \ {t} : SameLocals(u),
           ThreadInv(t)', ~Reserving(t)'
    PROVE  RingInv'
<1>1. Ordered'
  BY DEF RingInv, Ordered, ring, size
<1>2. ASSUME NEW u \in Threads, u # t PROVE ThreadInv(u)'
  <2>1. ThreadInv(u) /\ SameLocals(u)
    BY <1>2 DEF RingInv
  <2> QED
    BY <2>1 DEF ThreadInv, SameLocals, HoldsReserve, HoldsRead, Reserving, ring, size
<1>3. Apart'
  BY DEF RingInv, Apart, Reserving, SameLocals
<1> QED
  BY <1>1, <1>2, <1>3 DEF RingInv

\* Loading, checking, retrying, giving up and returning.
LEMMA LocalSteps ==
    ASSUME RingInv, TypeOK', NEW t \in Threads,
           \/ \E e \in Elem : StartWrite(t, e)
           \/ WriteLoad(t) \/ WriteRefused(t) \/ WriteFits(t) \/ WriteRetry(t)
           \/ StartRead(t) \/ ReadLoad(t) \/ ReadNull(t) \/ ReadNonEmpty(t)
           \/ ReadElem(t) \/ ReadRetry(t) \/ Return(t)
    PROVE  RingInv'
<1>0. TypeOK /\ Ordered /\ ThreadInv(t)
  BY DEF RingInv
<1>s. SUFFICES /\ UNCHANGED ring /\ \A u \in Threads \ {t} : SameLocals(u)
               /\ ThreadInv(t)' /\ ~Reserving(t)'
  BY LocalStep
<1> USE DEF TypeOK, Goto, Leave, SameLocals, ring, ThreadInv, HoldsReserve, HoldsRead, Reserving
<1>1. CASE \E e \in Elem : StartWrite(t, e)
  BY <1>0, <1>1 DEF StartWrite
<1>2. CASE WriteLoad(t)
  <2>1. size(reservep, reservep) = 0
    BY <1>0, SizeStep
  <2> QED
    BY <1>0, <1>2, <2>1 DEF WriteLoad
<1>3. CASE WriteRefused(t)
  BY <1>0, <1>3 DEF WriteRefused
<1>4. CASE WriteFits(t)
  <2>1. cpy[t] = reservep => size(readp, reservep) < Slots - 1
    <3>1. cpy[t] = reservep => circ_inc_pointer(reservep) # readp
      BY <1>0, <1>4, FullIsNext DEF WriteFits
    <3> QED
      BY <1>0, <3>1, SizeStep, SlotsPositive
  <2> QED
    BY <1>0, <1>4, <2>1 DEF WriteFits
<1>5. CASE WriteRetry(t)
  BY <1>0, <1>5 DEF WriteRetry
<1>6. CASE StartRead(t)
  BY <1>0, <1>6 DEF StartRead
<1>7. CASE ReadLoad(t)
  <2>1. size(readp, readp) = 0
    BY <1>0, SizeStep
  <2> QED
    BY <1>0, <1>7, <2>1 DEF ReadLoad
<1>8. CASE ReadNull(t)
  BY <1>0, <1>8 DEF ReadNull
<1>9. CASE ReadNonEmpty(t)
  BY <1>0, <1>9 DEF ReadNonEmpty, is_empty
<1>10. CASE ReadElem(t)
  BY <1>0, <1>10 DEF ReadElem
<1>11. CASE ReadRetry(t)
  BY <1>0, <1>11 DEF ReadRetry
<1>12. CASE Return(t)
  BY <1>0, <1>12 DEF Return
<1> QED
  BY <1>1, <1>2, <1>3, <1>4, <1>5, <1>6, <1>7, <1>8, <1>9, <1>10, <1>11, <1>12

\* The compare-and-swap that reserves a slot.
LEMMA ReserveStep ==
    ASSUME NotLapped, RingInv, TypeOK', NEW t \in Threads, WriteReserve(t)
    PROVE  RingInv'
<1>0. TypeOK /\ Ordered /\ ThreadInv(t) /\ Apart
  BY DEF RingInv
<1> DEFINE S == reservep
<1>1. /\ pc[t] = "w_cas" /\ cpy[t] = S /\ S' = circ_inc_pointer(S)
      /\ pc' = [pc EXCEPT ![t] = "w_store"]
      /\ UNCHANGED <<elements, readp, writep, cpy, val>>
  BY DEF WriteReserve, Goto
<1>2. /\ \A u \in Threads \ {t} : HoldsReserve(u) => lag[u] < MaxLag
      /\ lag' = [u \in Threads |-> IF u = t THEN 0
                                   ELSE IF HoldsReserve(u) THEN lag[u] + 1 ELSE lag[u]]
  BY DEF WriteReserve, Overtake
<1>3. /\ readp \in Pointer /\ writep \in Pointer /\ S \in Pointer /\ S' \in Pointer
      /\ cpy \in [Threads -> Pointer] /\ lag \in [Threads -> 0..MaxLag]
      /\ pc \in [Threads -> {"idle", "got"} \cup WriteSteps \cup ReadSteps]
  BY <1>0 DEF TypeOK
<1>4. size(readp, S) = size(readp, writep) + size(writep, S) /\ size(readp, S) < Slots - 1
  BY <1>0, <1>1, <1>3, SizeAdds DEF Ordered, ThreadInv
<1>5. size(writep, S') = size(writep, S) + 1
  BY <1>1, <1>3, <1>4, SizeStep, SlotsPositive
<1>6. Ordered'
  BY <1>1, <1>3, <1>4, <1>5, SizeStep, SlotsPositive DEF Ordered
<1>7. ThreadInv(t)'
  BY <1>1, <1>3, <1>5, SizeStep, SlotsPositive DEF ThreadInv, HoldsReserve, HoldsRead, Reserving
<1>8. ASSUME NEW u \in Threads, u # t PROVE ThreadInv(u)'
  <2>1. ThreadInv(u) /\ pc'[u] = pc[u]
    BY <1>1, <1>3, <1>8 DEF RingInv
  <2>2. HoldsReserve(u) => /\ lag'[u] = lag[u] + 1
                           /\ size(cpy[u], S') = lag[u] + 1
    <3> SUFFICES ASSUME HoldsReserve(u) PROVE lag'[u] = lag[u] + 1 /\ size(cpy[u], S') = lag[u] + 1
      OBVIOUS
    <3>0. NoLap
      BY <1>1, <1>8 DEF NotLapped, OneEach, Roles, HoldsReserve, WriteSteps
    <3>1. lag[u] = size(cpy[u], S) /\ lag[u] < Slots - 1
      BY <1>2, <1>3, <1>8, <2>1, <3>0, LagAssumption, SlotsPositive DEF ThreadInv, NoLap
    <3> QED
      BY <1>1, <1>2, <1>3, <1>8, <3>1, SizeStep
  <2>3. ~HoldsReserve(u) => lag'[u] = lag[u]
    BY <1>2, <1>8
  <2>4. pc[u] = "w_cas" => cpy[u] # S'
    <3> SUFFICES ASSUME pc[u] = "w_cas", cpy[u] = S' PROVE FALSE
      OBVIOUS
    <3>1. size(cpy[u], S') = 0
      BY <1>3, SizeStep
    <3> QED
      BY <1>3, <2>2, <3>1 DEF HoldsReserve
  <2>5. Reserving(u) => size(writep, cpy[u]) < size(writep, S')
    BY <1>3, <1>5, <2>1, SizeStep, SlotsPositive DEF ThreadInv
  <2> QED
    BY <1>1, <1>3, <2>1, <2>2, <2>3, <2>4, <2>5 DEF ThreadInv, HoldsReserve, HoldsRead, Reserving
<1>9. Apart'
  <2>1. ASSUME NEW u \in Threads, u # t, Reserving(u) PROVE cpy[u] # S
    BY <1>3, <2>1, SizeStep, SlotsPositive DEF RingInv, ThreadInv
  <2> QED
    BY <1>0, <1>1, <1>3, <2>1 DEF Apart, Reserving
<1> QED
  BY <1>6, <1>7, <1>8, <1>9 DEF RingInv

\* The store into the reserved slot.
LEMMA StoreStep ==
    ASSUME RingInv, TypeOK', NEW t \in Threads, WriteStore(t)
    PROVE  RingInv'
<1>0. TypeOK /\ Ordered /\ ThreadInv(t) /\ Apart
  BY DEF RingInv
<1>1. /\ pc[t] = "w_store" /\ pc' = [pc EXCEPT ![t] = "w_commit"]
      /\ elements' = [elements EXCEPT ![cpy[t]] = val[t]]
      /\ UNCHANGED <<readp, writep, reservep, cpy, val, lag>>
  BY DEF WriteStore, Goto
<1>2. /\ readp \in Pointer /\ writep \in Pointer /\ reservep \in Pointer
      /\ cpy \in [Threads -> Pointer] /\ elements \in [Pointer -> Elem \cup {NoElem}]
      /\ pc \in [Threads -> {"idle", "got"} \cup WriteSteps \cup ReadSteps]
  BY <1>0 DEF TypeOK
<1>3. readp # writep => cpy[t] # readp
  <2>1. size(writep, cpy[t]) < size(writep, reservep)
    BY <1>0, <1>1 DEF ThreadInv, Reserving
  <2> QED
    BY <1>0, <1>2, <2>1, SizeAround, SizeStep, SlotsPositive DEF Ordered
<1>4. Ordered'
  BY <1>0, <1>1 DEF Ordered
<1>5. ThreadInv(t)'
  BY <1>0, <1>1, <1>2 DEF ThreadInv, HoldsReserve, HoldsRead, Reserving
<1>6. ASSUME NEW u \in Threads, u # t PROVE ThreadInv(u)'
  <2>1. ThreadInv(u) /\ pc'[u] = pc[u]
    BY <1>1, <1>2, <1>6 DEF RingInv
  <2>2. pc[u] = "w_commit" => cpy[u] # cpy[t]
    BY <1>0, <1>1, <1>6 DEF Apart, Reserving
  <2> QED
    BY <1>1, <1>2, <1>3, <2>1, <2>2 DEF ThreadInv, HoldsReserve, HoldsRead, Reserving
<1>7. Apart'
  BY <1>0, <1>1, <1>2 DEF Apart, Reserving
<1> QED
  BY <1>4, <1>5, <1>6, <1>7 DEF RingInv

\* The end of the spin: the slot is handed to the readers.
LEMMA CommitStep ==
    ASSUME RingInv, TypeOK', NEW t \in Threads, WriteCommit(t)
    PROVE  RingInv'
<1>0. TypeOK /\ Ordered /\ ThreadInv(t) /\ Apart
  BY DEF RingInv
<1> DEFINE W == writep
<1>1. /\ pc[t] = "w_commit" /\ cpy[t] = W /\ W' = circ_inc_pointer(W)
      /\ pc' = [pc EXCEPT ![t] = "idle"] /\ cpy' = [cpy EXCEPT ![t] = 0]
      /\ val' = [val EXCEPT ![t] = NoElem]
      /\ UNCHANGED <<elements, readp, reservep, lag>>
  BY DEF WriteCommit, Leave, Goto
<1>2. /\ readp \in Pointer /\ W \in Pointer /\ W' \in Pointer /\ reservep \in Pointer
      /\ cpy \in [Threads -> Pointer] /\ val \in [Threads -> Elem \cup {NoElem}]
      /\ pc \in [Threads -> {"idle", "got"} \cup WriteSteps \cup ReadSteps]
  BY <1>0 DEF TypeOK
<1>3. W # reservep
  BY <1>0, <1>1, <1>2, SizeStep, SlotsPositive DEF ThreadInv, Reserving
<1>4. size(W', reservep) = size(W, reservep) - 1
  BY <1>1, <1>2, <1>3, SizeStep
<1>5. size(readp, W') = size(readp, W) + 1
  BY <1>0, <1>1, <1>2, <1>3, SizeStep, SlotsPositive DEF Ordered
<1>6. Ordered'
  BY <1>0, <1>1, <1>2, <1>4, <1>5, SizeStep, SlotsPositive DEF Ordered
<1>7. ThreadInv(t)'
  BY <1>1, <1>2 DEF ThreadInv, HoldsReserve, HoldsRead, Reserving
<1>8. ASSUME NEW u \in Threads, u # t PROVE ThreadInv(u)'
  <2>1. ThreadInv(u) /\ pc'[u] = pc[u] /\ cpy'[u] = cpy[u] /\ val'[u] = val[u]
    BY <1>1, <1>2, <1>8 DEF RingInv
  <2>2. Reserving(u) => size(W', cpy[u]) < size(W', reservep)
    <3> SUFFICES ASSUME Reserving(u) PROVE size(W', cpy[u]) < size(W', reservep)
      OBVIOUS
    <3>1. cpy[u] # W
      BY <1>0, <1>1, <1>8 DEF Apart, Reserving
    <3>2. size(W', cpy[u]) = size(W, cpy[u]) - 1
      BY <1>1, <1>2, <3>1, SizeStep
    <3> QED
      BY <1>2, <1>4, <2>1, <3>2, SizeStep, SlotsPositive DEF ThreadInv
  <2>3. readp # W'
    BY <1>2, <1>5, SizeStep, SlotsPositive
  <2> QED
    BY <1>1, <1>2, <2>1, <2>2, <2>3 DEF ThreadInv, HoldsReserve, HoldsRead, Reserving
<1>9. Apart'
  BY <1>0, <1>1, <1>2 DEF Apart, Reserving
<1> QED
  BY <1>6, <1>7, <1>8, <1>9 DEF RingInv

\* The compare-and-swap that takes an element.
LEMMA AdvanceStep ==
    ASSUME NotLapped, RingInv, TypeOK', NEW t \in Threads, ReadAdvance(t)
    PROVE  RingInv'
<1>0. TypeOK /\ Ordered /\ ThreadInv(t) /\ Apart
  BY DEF RingInv
<1> DEFINE R == readp
<1>1. /\ pc[t] = "r_cas" /\ cpy[t] = R /\ R' = circ_inc_pointer(R)
      /\ pc' = [pc EXCEPT ![t] = "got"] /\ cpy' = [cpy EXCEPT ![t] = 0]
      /\ val' = [val EXCEPT ![t] = val[t]]
      /\ UNCHANGED <<elements, writep, reservep>>
  BY DEF ReadAdvance, Leave, Goto
<1>2. /\ \A u \in Threads \ {t} : HoldsRead(u) => lag[u] < MaxLag
      /\ lag' = [u \in Threads |-> IF u = t THEN 0
                                   ELSE IF HoldsRead(u) THEN lag[u] + 1 ELSE lag[u]]
  BY DEF ReadAdvance, Overtake
<1>3. /\ R \in Pointer /\ R' \in Pointer /\ writep \in Pointer /\ reservep \in Pointer
      /\ cpy \in [Threads -> Pointer] /\ lag \in [Threads -> 0..MaxLag]
      /\ val \in [Threads -> Elem \cup {NoElem}]
      /\ pc \in [Threads -> {"idle", "got"} \cup WriteSteps \cup ReadSteps]
  BY <1>0 DEF TypeOK
<1>4. R # writep
  BY <1>0, <1>1 DEF ThreadInv
<1>5. size(R', writep) = size(R, writep) - 1
  BY <1>1, <1>3, <1>4, SizeStep
<1>6. Ordered'
  BY <1>0, <1>1, <1>3, <1>5, SizeStep, SlotsPositive DEF Ordered
<1>7. size(R', reservep) < Slots - 1
  <2>1. size(R', reservep) = size(R', writep) + size(writep, reservep)
    BY <1>1, <1>3, <1>6, SizeAdds DEF Ordered
  <2> QED
    BY <1>0, <1>3, <1>5, <2>1, SizeStep, SlotsPositive DEF Ordered
<1>8. ThreadInv(t)'
  BY <1>1, <1>3 DEF ThreadInv, HoldsReserve, HoldsRead, Reserving
<1>9. ASSUME NEW u \in Threads, u # t PROVE ThreadInv(u)'
  <2>1. ThreadInv(u) /\ pc'[u] = pc[u] /\ cpy'[u] = cpy[u] /\ val'[u] = val[u]
    BY <1>1, <1>3, <1>9 DEF RingInv
  <2>2. HoldsRead(u) => /\ lag'[u] = lag[u] + 1
                        /\ size(cpy[u], R') = lag[u] + 1
    <3> SUFFICES ASSUME HoldsRead(u) PROVE lag'[u] = lag[u] + 1 /\ size(cpy[u], R') = lag[u] + 1
      OBVIOUS
    <3>0. NoLap
      BY <1>1, <1>9 DEF NotLapped, OneEach, Roles, HoldsRead, ReadSteps
    <3>1. lag[u] = size(cpy[u], R) /\ lag[u] < Slots - 1
      BY <1>2, <1>3, <1>9, <2>1, <3>0, LagAssumption, SlotsPositive DEF ThreadInv, NoLap
    <3> QED
      BY <1>1, <1>2, <1>3, <1>9, <3>1, SizeStep
  <2>3. ~HoldsRead(u) => lag'[u] = lag[u]
    BY <1>2, <1>9
  <2>4. HoldsRead(u) => cpy[u] # R'
    BY <1>3, <2>2, SizeStep
  <2> QED
    BY <1>1, <1>3, <1>7, <2>1, <2>2, <2>3, <2>4 DEF ThreadInv, HoldsReserve, HoldsRead, Reserving
<1>10. Apart'
  BY <1>0, <1>1, <1>3 DEF Apart, Reserving
<1> QED
  BY <1>6, <1>8, <1>9, <1>10 DEF RingInv

\* Every step keeps the invariant.
LEMMA RingInvNext ==
    ASSUME NotLapped, RingInv, [Next]_vars
    PROVE  RingInv'
<1>1. TypeOK'
  BY TypeNext DEF RingInv
<1>2. CASE UNCHANGED vars
  BY <1>2 DEF vars, RingInv, TypeOK, Ordered, ThreadInv, Apart, HoldsReserve, HoldsRead, Reserving
<1>3. CASE Next
  <2>1. PICK t \in Threads :
          \/ WriteStep(t) \/ ReadStep(t) \/ StartRead(t) \/ Return(t)
          \/ \E e \in Elem : StartWrite(t, e)
    BY <1>3 DEF Next, Threads
  <2> QED
    BY <1>1, <2>1, LocalSteps, ReserveStep, StoreStep, CommitStep, AdvanceStep
    DEF WriteStep, ReadStep
<1> QED
  BY <1>2, <1>3

\* As long as nobody is preempted for a whole lap, the pointers of circular_queue stay
\* in order, what is reserved is never what is read, and no slot has two writers.
THEOREM RingSafe ==
    ASSUME NoLap
    PROVE  Spec => []RingInv
<1>1. RingInv /\ [Next]_vars => RingInv'
  BY RingInvNext DEF NotLapped
<1> QED
  BY <1>1, RingInvInit, PTL DEF Spec

-----------------------------------------------------------------------------
(* The ring implements a FIFO queue *)

\* The elements between two pointers as a sequence.
LEMMA SliceSeq ==
    ASSUME NEW r \in Pointer, NEW w \in Pointer, NEW el \in [Pointer -> Elem \cup {NoElem}],
           NEW c, c = [i \in 1..size(r, w) |-> el[Plus(r, i - 1)]]
    PROVE  /\ c \in Seq(Elem \cup {NoElem})
           /\ Len(c) = size(r, w)
           /\ \A i \in 1..size(r, w) : c[i] = el[Plus(r, i - 1)]
<1>1. size(r, w) \in 0..(Slots - 1)
  BY SizeStep
<1>2. \A i \in 1..size(r, w) : Plus(r, i - 1) \in Pointer
  BY <1>1, PlusSize, SlotsPositive
<1>3. c \in [1..size(r, w) -> Elem \cup {NoElem}]
  BY <1>2
<1> QED
  BY <1>1, <1>3

\* The queued elements as a sequence.
LEMMA ContentSeq ==
    ASSUME TypeOK
    PROVE  /\ Content \in Seq(Elem \cup {NoElem})
           /\ Len(Content) = size(readp, writep)
           /\ \A i \in 1..size(readp, writep) : Content[i] = elements[Plus(readp, i - 1)]
BY SliceSeq DEF TypeOK, Content

\* Same ring, same queue.
LEMMA SameContent ==
    ASSUME UNCHANGED ring
    PROVE  UNCHANGED Content
BY DEF ring, Content

\* The queue is empty and no call is under way initially.
LEMMA FifoInit == Init => Fifo!Init
<1> SUFFICES ASSUME Init PROVE Fifo!Init
  OBVIOUS
<1>1. TypeOK /\ size(readp, writep) = 0
  BY TypeInit, SizeStep DEF Init, TypeOK
<1>2. Content = <<>>
  BY <1>1, ContentSeq
<1>3. Call = [t \in Threads |-> "idle"] /\ Arg = [t \in Threads |-> NoElem]
  BY DEF Init, Call, Arg, WriteSteps, ReadSteps
<1> QED
  BY <1>2, <1>3 DEF Fifo!Init

\* The abstract call of a thread that is at a given step.
CallAt(step) == IF step \in WriteSteps THEN "writing"
                ELSE IF step \in ReadSteps THEN "reading" ELSE step

\* The abstract argument of a thread that is at a given step with value v.
ArgAt(step, v) == IF step \in ReadSteps THEN NoElem ELSE v

\* The other threads do not move.
OthersStay(t) == \A u \in Threads \ {t} : pc'[u] = pc[u] /\ val'[u] = val[u]

\* A step of one thread changes the abstract call and argument of that thread only.
LEMMA CallArgStep ==
    ASSUME TypeOK, TypeOK', NEW t \in Threads, OthersStay(t)
    PROVE  /\ Call[t] = CallAt(pc[t]) /\ Arg[t] = ArgAt(pc[t], val[t])
           /\ Call' = [Call EXCEPT ![t] = CallAt(pc'[t])]
           /\ Arg' = [Arg EXCEPT ![t] = ArgAt(pc'[t], val'[t])]
<1>1. Call = [u \in Threads |-> CallAt(pc[u])] /\ Call' = [u \in Threads |-> CallAt(pc'[u])]
  BY DEF Call, CallAt, WriteSteps, ReadSteps
<1>2. Arg = [u \in Threads |-> ArgAt(pc[u], val[u])] /\ Arg' = [u \in Threads |-> ArgAt(pc'[u], val'[u])]
  BY DEF Arg, ArgAt
<1> QED
  BY <1>1, <1>2 DEF OthersStay

\* A step inside a call that does not change what is queued is invisible.
LEMMA Invisible ==
    ASSUME TypeOK, TypeOK', NEW t \in Threads, OthersStay(t),
           CallAt(pc'[t]) = CallAt(pc[t]), ArgAt(pc'[t], val'[t]) = ArgAt(pc[t], val[t]),
           UNCHANGED Content
    PROVE  UNCHANGED Fifo!vars
<1>1. Call' = [Call EXCEPT ![t] = Call[t]] /\ Arg' = [Arg EXCEPT ![t] = Arg[t]]
  BY CallArgStep
<1>2. Call = [u \in Threads |-> Call[u]] /\ Arg = [u \in Threads |-> Arg[u]]
  BY DEF Call, Arg
<1>3. Call' = Call /\ Arg' = Arg
  BY <1>1, <1>2
<1> QED
  BY <1>3 DEF Fifo!vars

\* Storing into a reserved slot does not change what is queued.
LEMMA StoreInvisible ==
    ASSUME RingInv, NEW t \in Threads, WriteStore(t)
    PROVE  UNCHANGED Content
<1>0. TypeOK /\ Ordered /\ ThreadInv(t)
  BY DEF RingInv
<1>1. /\ pc[t] = "w_store" /\ elements' = [elements EXCEPT ![cpy[t]] = val[t]]
      /\ UNCHANGED <<readp, writep>>
  BY DEF WriteStore
<1>2. /\ readp \in Pointer /\ writep \in Pointer /\ reservep \in Pointer /\ cpy[t] \in Pointer
      /\ elements \in [Pointer -> Elem \cup {NoElem}]
  BY <1>0 DEF TypeOK
<1>3. size(readp, cpy[t]) >= size(readp, writep)
  <2>1. size(writep, cpy[t]) < size(writep, reservep)
    BY <1>0, <1>1 DEF ThreadInv, Reserving
  <2>2. size(readp, cpy[t]) = size(readp, writep) + size(writep, cpy[t])
    BY <1>0, <1>2, <2>1, SizeAdds, SizeStep, SlotsPositive DEF Ordered
  <2> QED
    BY <1>2, <2>2, SizeStep, SlotsPositive
<1>4. ASSUME NEW i \in 1..size(readp, writep)
      PROVE  Plus(readp, i - 1) \in Pointer /\ Plus(readp, i - 1) # cpy[t]
  <2>1. i - 1 \in 0..(Slots - 1) /\ i - 1 < size(readp, writep)
    BY <1>2, SizeStep, SlotsPositive
  <2> QED
    BY <1>2, <1>3, <2>1, PlusSize, SizeStep, SlotsPositive
<1>5. \A i \in 1..size(readp, writep) : elements'[Plus(readp, i - 1)] = elements[Plus(readp, i - 1)]
  BY <1>1, <1>2, <1>4
<1> QED
  BY <1>1, <1>5 DEF Content

\* A commit appends the element to the queue.
LEMMA CommitPuts ==
    ASSUME RingInv, TypeOK', NEW t \in Threads, WriteCommit(t)
    PROVE  Fifo!Put(t)
<1>0. TypeOK /\ Ordered /\ ThreadInv(t)
  BY DEF RingInv
<1>1. /\ pc[t] = "w_commit" /\ cpy[t] = writep /\ writep' = circ_inc_pointer(writep)
      /\ pc' = [pc EXCEPT ![t] = "idle"] /\ val' = [val EXCEPT ![t] = NoElem]
      /\ elements' = elements /\ readp' = readp
  BY DEF WriteCommit, Leave, Goto
<1>2. readp \in Pointer /\ writep \in Pointer /\ reservep \in Pointer
  BY <1>0 DEF TypeOK
<1> DEFINE n == size(readp, writep)
<1>3. n \in 0..(Slots - 1) /\ n < Slots - 1 /\ size(readp', writep') = n + 1
  <2>1. size(writep, reservep) > 0
    BY <1>0, <1>1, <1>2, SizeStep, SlotsPositive DEF ThreadInv, Reserving
  <2> QED
    BY <1>0, <1>1, <1>2, <2>1, SizeStep, SlotsPositive DEF Ordered
<1>4. /\ Content \in Seq(Elem \cup {NoElem}) /\ Len(Content) = n
      /\ \A i \in 1..n : Content[i] = elements[Plus(readp, i - 1)]
  BY <1>0, ContentSeq
<1>5. /\ Content' \in Seq(Elem \cup {NoElem}) /\ Len(Content') = n + 1
      /\ \A i \in 1..(n + 1) : Content'[i] = elements[Plus(readp, i - 1)]
  <2>1. /\ Content' \in Seq(Elem \cup {NoElem})
        /\ Len(Content') = size(readp', writep')
        /\ \A i \in 1..size(readp', writep') : Content'[i] = elements'[Plus(readp', i - 1)]
    BY SliceSeq DEF TypeOK, Content
  <2> QED
    BY <1>1, <1>3, <2>1
<1>6. Content' = Append(Content, val[t])
  <2>1. Plus(readp, n) = writep /\ elements[writep] = val[t]
    BY <1>0, <1>1, <1>2, PlusOfSize DEF ThreadInv
  <2>2. Content'[n + 1] = val[t]
    BY <1>3, <1>5, <2>1
  <2>3. \A i \in 1..n : Content'[i] = Content[i]
    BY <1>3, <1>4, <1>5
  <2>4. val[t] \in Elem \cup {NoElem}
    BY <1>0 DEF TypeOK
  <2> HIDE DEF n
  <2> QED
    BY <1>3, <1>4, <1>5, <2>2, <2>3, <2>4
<1>7. /\ Call[t] = "writing" /\ Arg[t] = val[t]
      /\ Call' = [Call EXCEPT ![t] = "idle"] /\ Arg' = [Arg EXCEPT ![t] = NoElem]
  <2>1. OthersStay(t) /\ pc'[t] = "idle" /\ val'[t] = NoElem
    BY <1>0, <1>1 DEF OthersStay, TypeOK
  <2> QED
    BY <1>0, <1>1, <2>1, CallArgStep DEF CallAt, ArgAt, WriteSteps, ReadSteps
<1> QED
  BY <1>3, <1>4, <1>6, <1>7 DEF Fifo!Put

\* A successful compare-and-swap of a reader takes the oldest element.
LEMMA AdvanceTakes ==
    ASSUME RingInv, TypeOK', NEW t \in Threads, ReadAdvance(t)
    PROVE  Fifo!Take(t)
<1>0. TypeOK /\ Ordered /\ ThreadInv(t)
  BY DEF RingInv
<1>1. /\ pc[t] = "r_cas" /\ cpy[t] = readp /\ readp' = circ_inc_pointer(readp)
      /\ pc' = [pc EXCEPT ![t] = "got"] /\ val' = [val EXCEPT ![t] = val[t]]
      /\ elements' = elements /\ writep' = writep
  BY DEF ReadAdvance, Leave, Goto
<1>2. readp \in Pointer /\ writep \in Pointer
  BY <1>0 DEF TypeOK
<1>3. readp # writep /\ val[t] = elements[readp]
  BY <1>0, <1>1 DEF ThreadInv
<1> DEFINE n == size(readp, writep)
<1>4. n \in 1..(Slots - 1) /\ size(readp', writep') = n - 1
  BY <1>1, <1>2, <1>3, SizeStep, SlotsPositive
<1>5. /\ Content \in Seq(Elem \cup {NoElem}) /\ Len(Content) = n
      /\ \A i \in 1..n : Content[i] = elements[Plus(readp, i - 1)]
  BY <1>0, ContentSeq
<1>6. /\ Content' \in Seq(Elem \cup {NoElem}) /\ Len(Content') = n - 1
      /\ \A i \in 1..(n - 1) : Content'[i] = elements[Plus(readp', i - 1)]
  <2>1. /\ Content' \in Seq(Elem \cup {NoElem})
        /\ Len(Content') = size(readp', writep')
        /\ \A i \in 1..size(readp', writep') : Content'[i] = elements'[Plus(readp', i - 1)]
    BY SliceSeq DEF TypeOK, Content
  <2> QED
    BY <1>1, <1>4, <2>1
<1>7. Content # <<>> /\ Head(Content) = val[t]
  <2>1. Plus(readp, 0) = readp
    BY <1>2, SlotsPositive DEF Plus, Pointer
  <2>2. Content[1] = elements[readp]
    BY <1>4, <1>5, <2>1
  <2> HIDE DEF n
  <2> QED
    BY <1>3, <1>4, <1>5, <2>2
<1>8. Content' = Tail(Content)
  <2>1. ASSUME NEW i \in 1..(n - 1) PROVE Content'[i] = Content[i + 1]
    <3>1. i - 1 \in 0..(Slots - 1) /\ (i - 1) + 1 < Slots /\ (i - 1) + 1 = (i + 1) - 1 /\ i + 1 \in 1..n
      BY <1>4, SlotsPositive
    <3>2. Plus(readp', i - 1) = Plus(readp, (i + 1) - 1)
      BY <1>1, <1>2, <3>1, PlusSize
    <3> QED
      BY <1>5, <1>6, <3>1, <3>2
  <2> HIDE DEF n
  <2> QED
    BY <1>4, <1>5, <1>6, <2>1
<1>9. /\ Call[t] = "reading" /\ Call' = [Call EXCEPT ![t] = "got"]
      /\ Arg' = [Arg EXCEPT ![t] = val[t]]
  <2>1. OthersStay(t) /\ pc'[t] = "got" /\ val'[t] = val[t]
    BY <1>0, <1>1 DEF OthersStay, TypeOK
  <2> QED
    BY <1>0, <1>1, <2>1, CallArgStep DEF CallAt, ArgAt, WriteSteps, ReadSteps
<1> QED
  BY <1>7, <1>8, <1>9 DEF Fifo!Take

\* Calls that start, are refused or return.
LEMMA CallSteps ==
    ASSUME RingInv, TypeOK', NEW t \in Threads
    PROVE  /\ \A e \in Elem : StartWrite(t, e) => Fifo!StartWrite(t, e)
           /\ StartRead(t) => Fifo!StartRead(t)
           /\ WriteRefused(t) => Fifo!RefuseWrite(t)
           /\ ReadNull(t) => Fifo!RefuseRead(t)
           /\ Return(t) => Fifo!Return(t)
<1>0. TypeOK /\ ThreadInv(t)
  BY DEF RingInv
<1>1. ASSUME NEW e \in Elem, StartWrite(t, e) PROVE Fifo!StartWrite(t, e)
  <2>1. UNCHANGED Content
    BY <1>1, SameContent DEF StartWrite
  <2>2. pc[t] = "idle" /\ OthersStay(t) /\ pc'[t] = "w_load" /\ val'[t] = e
    BY <1>0, <1>1 DEF StartWrite, OthersStay, TypeOK, ThreadInv, Goto, Leave
  <2>3. /\ Call[t] = CallAt("idle") /\ Arg[t] = ArgAt("idle", val[t])
        /\ Call' = [Call EXCEPT ![t] = CallAt("w_load")]
        /\ Arg' = [Arg EXCEPT ![t] = ArgAt("w_load", e)]
    BY <1>0, <2>2, CallArgStep
  <2> QED
    BY <2>1, <2>3 DEF Fifo!StartWrite, CallAt, ArgAt, WriteSteps, ReadSteps
<1>2. ASSUME StartRead(t) PROVE Fifo!StartRead(t)
  <2>1. UNCHANGED Content
    BY <1>2, SameContent DEF StartRead
  <2>2. pc[t] = "idle" /\ OthersStay(t) /\ pc'[t] = "r_load" /\ val'[t] = NoElem
    BY <1>0, <1>2 DEF StartRead, OthersStay, TypeOK, ThreadInv, Goto, Leave
  <2>3. /\ Call[t] = CallAt("idle") /\ Arg[t] = ArgAt("idle", val[t])
        /\ Call' = [Call EXCEPT ![t] = CallAt("r_load")]
        /\ Arg' = [Arg EXCEPT ![t] = ArgAt("r_load", NoElem)]
    BY <1>0, <2>2, CallArgStep
  <2> QED
    BY <2>1, <2>3 DEF Fifo!StartRead, CallAt, ArgAt, WriteSteps, ReadSteps
<1>3. ASSUME WriteRefused(t) PROVE Fifo!RefuseWrite(t)
  <2>1. UNCHANGED Content
    BY <1>3, SameContent DEF WriteRefused
  <2>2. pc[t] = "w_full" /\ OthersStay(t) /\ pc'[t] = "idle" /\ val'[t] = NoElem
    BY <1>0, <1>3 DEF WriteRefused, OthersStay, TypeOK, ThreadInv, Goto, Leave
  <2>3. /\ Call[t] = CallAt("w_full") /\ Arg[t] = ArgAt("w_full", val[t])
        /\ Call' = [Call EXCEPT ![t] = CallAt("idle")]
        /\ Arg' = [Arg EXCEPT ![t] = ArgAt("idle", NoElem)]
    BY <1>0, <2>2, CallArgStep
  <2> QED
    BY <2>1, <2>3 DEF Fifo!RefuseWrite, CallAt, ArgAt, WriteSteps, ReadSteps
<1>4. ASSUME ReadNull(t) PROVE Fifo!RefuseRead(t)
  <2>1. UNCHANGED Content
    BY <1>4, SameContent DEF ReadNull
  <2>2. pc[t] = "r_empty" /\ OthersStay(t) /\ pc'[t] = "idle" /\ val'[t] = NoElem
    BY <1>0, <1>4 DEF ReadNull, OthersStay, TypeOK, ThreadInv, Goto, Leave
  <2>3. /\ Call[t] = CallAt("r_empty") /\ Arg[t] = ArgAt("r_empty", val[t])
        /\ Call' = [Call EXCEPT ![t] = CallAt("idle")]
        /\ Arg' = [Arg EXCEPT ![t] = ArgAt("idle", NoElem)]
    BY <1>0, <2>2, CallArgStep
  <2>4. Arg = [u \in Threads |-> Arg[u]]
    BY DEF Arg
  <2>5. Arg' = Arg
    BY <2>3, <2>4 DEF ArgAt, ReadSteps
  <2> QED
    BY <2>1, <2>3, <2>5 DEF Fifo!RefuseRead, CallAt, WriteSteps, ReadSteps
<1>5. ASSUME Return(t) PROVE Fifo!Return(t)
  <2>1. UNCHANGED Content
    BY <1>5, SameContent DEF Return
  <2>2. pc[t] = "got" /\ OthersStay(t) /\ pc'[t] = "idle" /\ val'[t] = NoElem
    BY <1>0, <1>5 DEF Return, OthersStay, TypeOK, ThreadInv, Goto, Leave
  <2>3. /\ Call[t] = CallAt("got") /\ Arg[t] = ArgAt("got", val[t])
        /\ Call' = [Call EXCEPT ![t] = CallAt("idle")]
        /\ Arg' = [Arg EXCEPT ![t] = ArgAt("idle", NoElem)]
    BY <1>0, <2>2, CallArgStep
  <2> QED
    BY <2>1, <2>3 DEF Fifo!Return, CallAt, ArgAt, WriteSteps, ReadSteps
<1> QED
  BY <1>1, <1>2, <1>3, <1>4, <1>5

\* The other steps are invisible to the callers.
LEMMA InnerSteps ==
    ASSUME RingInv, TypeOK', NEW t \in Threads,
           \/ WriteLoad(t) \/ WriteFits(t) \/ WriteReserve(t) \/ WriteRetry(t) \/ WriteStore(t)
           \/ ReadLoad(t) \/ ReadNonEmpty(t) \/ ReadElem(t) \/ ReadRetry(t)
    PROVE  UNCHANGED Fifo!vars
<1>0. TypeOK
  BY DEF RingInv
<1>1. UNCHANGED Content
  BY SameContent, StoreInvisible DEF WriteLoad, WriteFits, WriteReserve, WriteRetry, ReadLoad,
     ReadNonEmpty, ReadElem, ReadRetry, ring, Content
<1>2. OthersStay(t)
  BY <1>0 DEF WriteLoad, WriteFits, WriteReserve, WriteRetry, WriteStore, ReadLoad,
     ReadNonEmpty, ReadElem, ReadRetry, Goto, Leave, TypeOK, OthersStay
<1>3. CASE WriteLoad(t) \/ WriteFits(t) \/ WriteReserve(t) \/ WriteRetry(t) \/ WriteStore(t)
  <2>1. pc[t] \in WriteSteps /\ pc'[t] \in WriteSteps /\ val'[t] = val[t]
    BY <1>0, <1>3 DEF WriteLoad, WriteFits, WriteReserve, WriteRetry, WriteStore, Goto, TypeOK, WriteSteps
  <2>2. CallAt(pc'[t]) = CallAt(pc[t]) /\ ArgAt(pc'[t], val'[t]) = ArgAt(pc[t], val[t])
    BY <2>1 DEF CallAt, ArgAt, WriteSteps, ReadSteps
  <2> QED
    BY <1>0, <1>1, <1>2, <2>2, Invisible
<1>4. CASE ReadLoad(t) \/ ReadNonEmpty(t) \/ ReadElem(t) \/ ReadRetry(t)
  <2>1. pc[t] \in ReadSteps /\ pc'[t] \in ReadSteps
    BY <1>0, <1>4 DEF ReadLoad, ReadNonEmpty, ReadElem, ReadRetry, Leave, Goto, TypeOK, ReadSteps
  <2>2. CallAt(pc'[t]) = CallAt(pc[t]) /\ ArgAt(pc'[t], val'[t]) = ArgAt(pc[t], val[t])
    BY <2>1 DEF CallAt, ArgAt, WriteSteps, ReadSteps
  <2> QED
    BY <1>0, <1>1, <1>2, <2>2, Invisible
<1> QED
  BY <1>3, <1>4

\* Every step of the ring is a step of the queue or invisible.
LEMMA FifoNext ==
    ASSUME RingInv, [Next]_vars
    PROVE  [Fifo!LossyNext]_(Fifo!vars)
<1>1. TypeOK'
  BY TypeNext DEF RingInv
<1>2. CASE UNCHANGED vars
  BY <1>2 DEF vars, Fifo!vars, Content, Call, Arg
<1>3. CASE Next
  <2>1. PICK t \in Threads :
          \/ WriteStep(t) \/ ReadStep(t) \/ StartRead(t) \/ Return(t)
          \/ \E e \in Elem : StartWrite(t, e)
    BY <1>3 DEF Next, Threads
  <2> QED
    BY <1>1, <2>1, CallSteps, InnerSteps, CommitPuts, AdvanceTakes
    DEF WriteStep, ReadStep, Fifo!LossyNext, Fifo!Common
<1> QED
  BY <1>2, <1>3

\* circular_queue implements a FIFO queue for any number of writers and readers as long
\* as nobody is preempted for a whole lap: what is written is read exactly once, in the
\* order of the commits.
THEOREM ImplementsLossyFifo ==
    ASSUME NoLap
    PROVE  Spec => LossyFifo
<1>1. RingInv /\ [Next]_vars => [Fifo!LossyNext]_(Fifo!vars)
  BY FifoNext
<1> QED
  BY <1>1, RingSafe, FifoInit, PTL DEF Spec, LossyFifo, Fifo!LossySpec

-----------------------------------------------------------------------------
(* One writer and one reader *)

\* The writer's copy is where the reservations end, the reader's is where reading
\* begins, and while the writer holds no slot nothing is reserved.
Level ==
    /\ \A t \in Writers : /\ HoldsReserve(t) => cpy[t] = reservep
                          /\ Reserving(t) => circ_inc_pointer(cpy[t]) = reservep
                          /\ ~Reserving(t) => writep = reservep
    /\ \A t \in Readers : HoldsRead(t) => cpy[t] = readp

StrictInv == RingInv /\ Roles /\ Level

\* Every step keeps the writer and the reader level with the ring.
LEMMA LevelNext ==
    ASSUME OneEach, StrictInv, [Next]_vars
    PROVE  Roles' /\ Level'
<1>0. /\ cpy \in [Threads -> Pointer] /\ Level /\ Roles
      /\ pc \in [Threads -> {"idle", "got"} \cup WriteSteps \cup ReadSteps]
  BY DEF StrictInv, RingInv, TypeOK
<1>1. PICK w, r : Writers = {w} /\ Readers = {r}
  BY DEF OneEach
<1>2. w \in Threads /\ r \in Threads /\ Threads = {w, r}
  BY <1>1 DEF Threads
<1> USE DEF Roles, Level, Goto, Leave, ring, HoldsReserve, HoldsRead, Reserving, WriteSteps, ReadSteps
<1>3. ASSUME NEW e \in Elem, StartWrite(w, e) PROVE Roles' /\ Level'
  BY <1>0, <1>1, <1>2, <1>3 DEF StartWrite
<1>4. CASE WriteLoad(w)
  BY <1>0, <1>1, <1>2, <1>4 DEF WriteLoad
<1>5. CASE WriteRefused(w)
  BY <1>0, <1>1, <1>2, <1>5 DEF WriteRefused
<1>6. CASE WriteFits(w)
  BY <1>0, <1>1, <1>2, <1>6 DEF WriteFits
<1>7. CASE WriteReserve(w)
  BY <1>0, <1>1, <1>2, <1>7 DEF WriteReserve
<1>8. CASE WriteRetry(w)
  BY <1>0, <1>1, <1>2, <1>8 DEF WriteRetry
<1>9. CASE WriteStore(w)
  BY <1>0, <1>1, <1>2, <1>9 DEF WriteStore
<1>10. CASE WriteCommit(w)
  BY <1>0, <1>1, <1>2, <1>10 DEF WriteCommit
<1>11. CASE StartRead(r)
  BY <1>0, <1>1, <1>2, <1>11 DEF StartRead
<1>12. CASE ReadLoad(r)
  BY <1>0, <1>1, <1>2, <1>12 DEF ReadLoad
<1>13. CASE ReadNull(r)
  BY <1>0, <1>1, <1>2, <1>13 DEF ReadNull
<1>14. CASE ReadNonEmpty(r)
  BY <1>0, <1>1, <1>2, <1>14 DEF ReadNonEmpty
<1>15. CASE ReadElem(r)
  BY <1>0, <1>1, <1>2, <1>15 DEF ReadElem
<1>16. CASE ReadAdvance(r)
  BY <1>0, <1>1, <1>2, <1>16 DEF ReadAdvance
<1>17. CASE ReadRetry(r)
  BY <1>0, <1>1, <1>2, <1>17 DEF ReadRetry
<1>18. ASSUME NEW t \in Threads, Return(t) PROVE Roles' /\ Level'
  BY <1>0, <1>1, <1>2, <1>18 DEF Return
<1>19. CASE UNCHANGED vars
  BY <1>0, <1>1, <1>19 DEF vars
<1> QED
  BY <1>1, <1>3, <1>4, <1>5, <1>6, <1>7, <1>8, <1>9, <1>10, <1>11, <1>12, <1>13, <1>14, <1>15,
     <1>16, <1>17, <1>18, <1>19 DEF Next, WriteStep, ReadStep

\* A write is refused only when the queue is full, a read only when it is empty.
LEMMA RefusedForCause ==
    ASSUME OneEach, StrictInv, NEW t \in Threads
    PROVE  /\ WriteRefused(t) => Len(Content) = Slots - 1
           /\ ReadNull(t) => Content = <<>>
<1>0. /\ TypeOK /\ Level /\ Roles
      /\ readp \in Pointer /\ writep \in Pointer /\ reservep \in Pointer
  BY DEF StrictInv, RingInv, TypeOK
<1>1. PICK w, r : Writers = {w} /\ Readers = {r}
  BY DEF OneEach
<1>2. Len(Content) = size(readp, writep) /\ Content \in Seq(Elem \cup {NoElem})
  BY <1>0, ContentSeq
<1>3. ASSUME WriteRefused(t) PROVE Len(Content) = Slots - 1
  <2>1. t = w /\ pc[t] = "w_full" /\ is_full(cpy[t], readp)
    BY <1>0, <1>1, <1>3 DEF WriteRefused, Roles, WriteSteps
  <2>2. cpy[t] = writep
    BY <1>0, <1>1, <2>1 DEF Level, HoldsReserve, Reserving
  <2>3. circ_inc_pointer(writep) = readp
    BY <1>0, <2>1, <2>2, FullIsNext
  <2> QED
    BY <1>0, <1>2, <2>3, SizeStep
<1>4. ASSUME ReadNull(t) PROVE Content = <<>>
  <2>1. t = r /\ pc[t] = "r_empty" /\ is_empty(writep, cpy[t])
    BY <1>0, <1>1, <1>4 DEF ReadNull, Roles, ReadSteps
  <2>2. readp = writep
    BY <1>0, <1>1, <2>1 DEF Level, HoldsRead, is_empty
  <2>3. Len(Content) = 0
    BY <1>0, <1>2, <2>2, SizeStep
  <2> QED
    BY <1>2, <2>3, EmptySeq
<1> QED
  BY <1>3, <1>4

\* Every step is a step of the strict queue or invisible.
LEMMA StrictNext ==
    ASSUME OneEach, StrictInv, [Next]_vars
    PROVE  [Fifo!Next]_(Fifo!vars)
<1>1. TypeOK' /\ RingInv
  BY TypeNext DEF StrictInv, RingInv
<1>2. CASE UNCHANGED vars
  BY <1>2 DEF vars, Fifo!vars, Content, Call, Arg
<1>3. CASE Next
  <2>1. PICK t \in Threads :
          \/ WriteStep(t) \/ ReadStep(t) \/ StartRead(t) \/ Return(t)
          \/ \E e \in Elem : StartWrite(t, e)
    BY <1>3 DEF Next, Threads
  <2> QED
    BY <1>1, <2>1, CallSteps, InnerSteps, CommitPuts, AdvanceTakes, RefusedForCause
    DEF WriteStep, ReadStep, Fifo!Next, Fifo!Common
<1> QED
  BY <1>2, <1>3

\* With one writer and one reader (a vlink's input_queue) circular_queue is a bounded
\* FIFO in every respect, however long either is preempted: a write is refused only
\* when slots-1 elements are queued, a read returns NULL only when none is.
THEOREM ImplementsStrictFifo ==
    ASSUME OneEach
    PROVE  Spec => StrictFifo
<1>1. Init => StrictInv
  <2> SUFFICES ASSUME Init PROVE StrictInv
    OBVIOUS
  <2>1. RingInv
    BY RingInvInit
  <2>2. \A t \in Threads : pc[t] = "idle"
    BY DEF Init
  <2>3. writep = reservep
    BY DEF Init
  <2> QED
    BY <2>1, <2>2, <2>3 DEF StrictInv, Roles, Level, HoldsReserve, HoldsRead, Reserving, WriteSteps, ReadSteps, Threads
<1>2. StrictInv /\ [Next]_vars => StrictInv'
  BY RingInvNext, LevelNext DEF StrictInv, NotLapped
<1>3. StrictInv /\ [Next]_vars => [Fifo!Next]_(Fifo!vars)
  BY StrictNext
<1> QED
  BY <1>1, <1>2, <1>3, FifoInit, PTL DEF Spec, StrictFifo, Fifo!Spec

-----------------------------------------------------------------------------
(* The pool *)

\* The slot is between readp and writep.
InRing(p) == size(readp, p) < size(readp, writep)

\* The thread gives val back, or has just taken it.
Holding(t) == pc[t] \in WriteSteps \cup {"got"}

PoolInv ==
    /\ Roles
    /\ \A p \in Pointer : InRing(p) =>
          /\ elements[p] \in Elem \ inuse
          /\ \A q \in Pointer : InRing(q) /\ q # p => elements[q] # elements[p]
    /\ \A t \in Threads : Holding(t) =>
          /\ val[t] \in Elem \ inuse
          /\ \A u \in Threads : Holding(u) /\ u # t => val[u] # val[t]
          /\ \A p \in Pointer : InRing(p) => elements[p] # val[t]

\* The constructor leaves every buffer in the ring, once.
LEMMA PoolInvInit == PoolInit => RingInv /\ PoolInv
<1> SUFFICES ASSUME PoolInit PROVE RingInv /\ PoolInv
  OBVIOUS
<1>1. 0 \in Pointer /\ Slots - 1 \in Pointer /\ 0 \in 0..MaxLag
  BY SlotsPositive, LagAssumption DEF Pointer
<1>2. elements \in [Pointer -> Elem \cup {NoElem}]
  BY DEF PoolInit
<1>3. TypeOK
  BY <1>1, <1>2 DEF PoolInit, TypeOK
<1>4. size(0, Slots - 1) = Slots - 1 /\ size(Slots - 1, Slots - 1) = 0
  BY SlotsPositive DEF size
<1>5. Ordered
  BY <1>4, SlotsPositive DEF PoolInit, Ordered
<1>6. \A t \in Threads : pc[t] = "idle" /\ val[t] = NoElem
  BY DEF PoolInit
<1>7. RingInv
  BY <1>3, <1>5, <1>6 DEF RingInv, ThreadInv, Apart, Reserving, HoldsReserve, HoldsRead
<1>8. \A p \in Pointer : InRing(p) => p \in Elem /\ elements[p] = p
  <2> SUFFICES ASSUME NEW p \in Pointer, InRing(p) PROVE p \in Elem /\ elements[p] = p
    OBVIOUS
  <2>1. size(0, p) = p
    BY SlotsPositive DEF size, Pointer
  <2>2. p < Slots - 1
    BY <1>4, <2>1 DEF PoolInit, InRing
  <2>3. p \in Elem
    BY <2>2, PoolAssumption, SlotsPositive DEF Pointer
  <2> QED
    BY <2>3 DEF PoolInit
<1>9. PoolInv
  BY <1>6, <1>8 DEF PoolInv, PoolInit, Holding, Roles, WriteSteps, ReadSteps
<1> QED
  BY <1>7, <1>9

\* A step that brings no buffer to a new place.
LEMMA QuietStep ==
    ASSUME PoolInv, Roles', UNCHANGED inuse,
           \A p \in Pointer : InRing(p)' => InRing(p) /\ elements'[p] = elements[p],
           \A t \in Threads : Holding(t)' => Holding(t) /\ val'[t] = val[t]
    PROVE  PoolInv'
<1>1. ASSUME NEW p \in Pointer, InRing(p)'
      PROVE  /\ elements'[p] \in Elem \ inuse'
             /\ \A q \in Pointer : InRing(q)' /\ q # p => elements'[q] # elements'[p]
  BY <1>1 DEF PoolInv
<1>2. ASSUME NEW t \in Threads, Holding(t)'
      PROVE  /\ val'[t] \in Elem \ inuse'
             /\ \A u \in Threads : Holding(u)' /\ u # t => val'[u] # val'[t]
             /\ \A p \in Pointer : InRing(p)' => elements'[p] # val'[t]
  BY <1>2 DEF PoolInv
<1> QED
  BY <1>1, <1>2 DEF PoolInv

\* A thread's step leaves the step and the element of the others alone.
LEMMA OneThread ==
    ASSUME TypeOK, NEW t \in Threads,
           \/ WriteStep(t) \/ ReadStep(t) \/ StartRead(t) \/ Return(t)
           \/ \E e \in Elem : StartWrite(t, e)
    PROVE  \A u \in Threads \ {t} : pc'[u] = pc[u] /\ val'[u] = val[u]
BY DEF TypeOK, WriteStep, ReadStep, StartRead, Return, StartWrite, WriteLoad, WriteRefused,
   WriteFits, WriteReserve, WriteRetry, WriteStore, WriteCommit, ReadLoad, ReadNull,
   ReadNonEmpty, ReadElem, ReadAdvance, ReadRetry, Goto, Leave

\* The steps of a call that leave readp and writep alone.
LEMMA InnerStep ==
    ASSUME RingInv, PoolInv, UNCHANGED inuse, NEW t \in Threads,
           \/ WriteLoad(t) \/ WriteRefused(t) \/ WriteFits(t) \/ WriteReserve(t) \/ WriteRetry(t)
           \/ WriteStore(t)
           \/ ReadLoad(t) \/ ReadNull(t) \/ ReadNonEmpty(t) \/ ReadElem(t) \/ ReadRetry(t)
    PROVE  PoolInv'
<1>0. TypeOK /\ Ordered /\ ThreadInv(t)
  BY DEF RingInv
<1>1. \A u \in Threads \ {t} : pc'[u] = pc[u] /\ val'[u] = val[u]
  BY <1>0, OneThread DEF WriteStep, ReadStep
<1>2. /\ Holding(t)' => Holding(t) /\ val'[t] = val[t]
      /\ pc'[t] \in WriteSteps => pc[t] \in WriteSteps
      /\ pc'[t] \in ReadSteps => pc[t] \in ReadSteps
  BY <1>0 DEF TypeOK, WriteLoad, WriteRefused, WriteFits, WriteReserve, WriteRetry, WriteStore,
     ReadLoad, ReadNull, ReadNonEmpty, ReadElem, ReadRetry, Goto, Leave, Holding, WriteSteps, ReadSteps
<1>3. Roles'
  BY <1>1, <1>2 DEF PoolInv, Roles
<1>4. \A u \in Threads : Holding(u)' => Holding(u) /\ val'[u] = val[u]
  BY <1>1, <1>2 DEF Holding
<1>5. UNCHANGED <<readp, writep>>
  BY DEF WriteLoad, WriteRefused, WriteFits, WriteReserve, WriteRetry, WriteStore,
     ReadLoad, ReadNull, ReadNonEmpty, ReadElem, ReadRetry, ring
<1>6. \A p \in Pointer : InRing(p)' <=> InRing(p)
  BY <1>5 DEF InRing, size
<1>7. ASSUME NEW p \in Pointer, InRing(p) PROVE elements'[p] = elements[p]
  <2>1. CASE WriteStore(t)
    <3>1. Reserving(t) /\ elements' = [elements EXCEPT ![cpy[t]] = val[t]]
      BY <2>1 DEF WriteStore, Reserving
    <3>2. size(writep, cpy[t]) < size(writep, reservep)
      BY <1>0, <3>1 DEF ThreadInv
    <3>3. /\ readp \in Pointer /\ writep \in Pointer /\ reservep \in Pointer /\ cpy[t] \in Pointer
      BY <1>0 DEF TypeOK
    <3>4. size(readp, cpy[t]) = size(readp, writep) + size(writep, cpy[t])
      <4>1. size(readp, writep) + size(writep, cpy[t]) < Slots
        BY <1>0, <3>2, <3>3, SizeStep, SlotsPositive DEF Ordered
      <4> QED
        BY <3>3, <4>1, SizeAdds
    <3>5. p # cpy[t]
      BY <1>7, <3>3, <3>4, SizeStep, SlotsPositive DEF InRing
    <3> QED
      BY <1>0, <3>1, <3>5 DEF TypeOK
  <2>2. CASE ~WriteStore(t)
    BY <2>2 DEF WriteLoad, WriteRefused, WriteFits, WriteReserve, WriteRetry,
       ReadLoad, ReadNull, ReadNonEmpty, ReadElem, ReadRetry, ring
  <2> QED
    BY <2>1, <2>2
<1> QED
  BY <1>3, <1>4, <1>6, <1>7, QuietStep

\* A reader takes the buffer at readp out of the ring.
LEMMA AdvanceMoves ==
    ASSUME RingInv, PoolInv, UNCHANGED inuse, NEW t \in Threads, ReadAdvance(t)
    PROVE  PoolInv'
<1>0. TypeOK /\ Ordered /\ ThreadInv(t)
  BY DEF RingInv
<1>1. /\ pc[t] = "r_cas" /\ cpy[t] = readp /\ readp' = circ_inc_pointer(readp)
      /\ UNCHANGED <<elements, writep>>
  BY DEF ReadAdvance
<1>2. pc'[t] = "got" /\ val'[t] = val[t]
  BY <1>0 DEF ReadAdvance, Leave, Goto, TypeOK
<1>3. \A u \in Threads \ {t} : pc'[u] = pc[u] /\ val'[u] = val[u]
  BY <1>0, OneThread DEF ReadStep
<1>4. readp # writep /\ val[t] = elements[readp] /\ readp \in Pointer /\ writep \in Pointer
  BY <1>0, <1>1 DEF ThreadInv, TypeOK
<1>5. InRing(readp)
  BY <1>4, SizeStep, SlotsPositive DEF InRing
<1>6. ASSUME NEW p \in Pointer, InRing(p)' PROVE InRing(p) /\ p # readp
  <2>1. size(readp', p) < size(readp', writep) /\ readp' \in Pointer
    BY <1>1, <1>4, <1>6, IncType DEF InRing
  <2>2. size(readp', writep) = size(readp, writep) - 1
    BY <1>1, <1>4, SizeStep
  <2>3. CASE p # readp
    <3>1. size(readp', p) = size(readp, p) - 1
      BY <1>1, <1>4, <2>3, SizeStep
    <3> QED
      BY <1>4, <2>1, <2>2, <2>3, <3>1, SizeStep, SlotsPositive DEF InRing
  <2>4. CASE p = readp
    <3>1. size(readp', readp) = Slots - 1
      BY <1>1, <1>4, SizeAround, SlotsPositive DEF circ_inc_pointer, size, Pointer
    <3> QED
      BY <1>4, <2>1, <2>4, <3>1, SizeStep, SlotsPositive
  <2> QED
    BY <2>3, <2>4
<1>7. Roles'
  BY <1>2, <1>3 DEF PoolInv, Roles, WriteSteps, ReadSteps
<1>8. Holding(t)' /\ \A u \in Threads \ {t} : Holding(u)' <=> Holding(u)
  BY <1>2, <1>3 DEF Holding
<1>9. ASSUME NEW p \in Pointer, InRing(p)'
      PROVE  /\ elements'[p] \in Elem \ inuse'
             /\ \A q \in Pointer : InRing(q)' /\ q # p => elements'[q] # elements'[p]
  BY <1>1, <1>6, <1>9 DEF PoolInv
<1>10. /\ val'[t] \in Elem \ inuse'
       /\ \A u \in Threads : Holding(u)' /\ u # t => val'[u] # val'[t]
       /\ \A p \in Pointer : InRing(p)' => elements'[p] # val'[t]
  BY <1>1, <1>2, <1>3, <1>4, <1>5, <1>6, <1>8 DEF PoolInv
<1>11. ASSUME NEW u \in Threads, u # t, Holding(u)'
       PROVE  /\ val'[u] \in Elem \ inuse'
              /\ \A v \in Threads : Holding(v)' /\ v # u => val'[v] # val'[u]
              /\ \A p \in Pointer : InRing(p)' => elements'[p] # val'[u]
  <2>1. Holding(u) /\ val'[u] = val[u]
    BY <1>3, <1>8, <1>11
  <2>2. /\ val[u] \in Elem \ inuse
        /\ \A p \in Pointer : InRing(p) => elements[p] # val[u]
        /\ \A v \in Threads \ {t} : Holding(v) /\ v # u => val[v] # val[u]
    BY <2>1 DEF PoolInv
  <2>3. \A v \in Threads \ {t} : Holding(v)' /\ v # u => val'[v] # val'[u]
    BY <1>3, <1>8, <2>1, <2>2
  <2>4. val'[t] # val'[u]
    BY <1>2, <1>4, <1>5, <2>1, <2>2
  <2> QED
    BY <1>1, <1>6, <2>1, <2>2, <2>3, <2>4
<1> QED
  BY <1>7, <1>9, <1>10, <1>11 DEF PoolInv

\* A writer makes its buffer readable.
LEMMA CommitMoves ==
    ASSUME RingInv, PoolInv, UNCHANGED inuse, NEW t \in Threads, WriteCommit(t)
    PROVE  PoolInv'
<1>0. TypeOK /\ Ordered /\ ThreadInv(t)
  BY DEF RingInv
<1>1. /\ pc[t] = "w_commit" /\ cpy[t] = writep /\ writep' = circ_inc_pointer(writep)
      /\ UNCHANGED <<elements, readp>>
  BY DEF WriteCommit
<1>2. pc'[t] = "idle"
  BY <1>0 DEF WriteCommit, Leave, Goto, TypeOK
<1>3. \A u \in Threads \ {t} : pc'[u] = pc[u] /\ val'[u] = val[u]
  BY <1>0, OneThread DEF WriteStep
<1>4. /\ elements[writep] = val[t] /\ Holding(t) /\ readp \in Pointer /\ writep \in Pointer
      /\ reservep \in Pointer /\ size(writep, reservep) > 0
  BY <1>0, <1>1, SizeStep, SlotsPositive DEF ThreadInv, TypeOK, Holding, WriteSteps, Reserving
<1>5. size(readp, writep') = size(readp, writep) + 1
  BY <1>0, <1>1, <1>4, SizeStep, SlotsPositive DEF Ordered
<1>6. ASSUME NEW p \in Pointer, InRing(p)', p # writep PROVE InRing(p)
  <2>1. size(readp, p) # size(readp, writep)
    BY <1>4, <1>6, SizeInjective
  <2> QED
    BY <1>1, <1>4, <1>5, <1>6, <2>1, SizeStep, SlotsPositive DEF InRing
<1>7. Roles'
  BY <1>2, <1>3 DEF PoolInv, Roles, WriteSteps, ReadSteps
<1>8. ~Holding(t)' /\ \A u \in Threads \ {t} : Holding(u)' <=> Holding(u)
  BY <1>2, <1>3 DEF Holding, WriteSteps
<1>9. val[t] \in Elem \ inuse /\ \A p \in Pointer : InRing(p) => elements[p] # val[t]
  BY <1>4 DEF PoolInv
<1>10. ASSUME NEW p \in Pointer, InRing(p)'
       PROVE  /\ elements'[p] \in Elem \ inuse'
              /\ \A q \in Pointer : InRing(q)' /\ q # p => elements'[q] # elements'[p]
  <2>1. CASE p = writep
    BY <1>1, <1>4, <1>6, <1>9, <2>1
  <2>2. CASE p # writep
    <3>1. InRing(p)
      BY <1>6, <1>10, <2>2
    <3>2. /\ elements[p] \in Elem \ inuse /\ elements[p] # val[t]
          /\ \A q \in Pointer : InRing(q) /\ q # p => elements[q] # elements[p]
      BY <1>9, <3>1 DEF PoolInv
    <3> QED
      BY <1>1, <1>4, <1>6, <3>2
  <2> QED
    BY <2>1, <2>2
<1>11. ASSUME NEW u \in Threads, Holding(u)'
       PROVE  /\ val'[u] \in Elem \ inuse'
              /\ \A v \in Threads : Holding(v)' /\ v # u => val'[v] # val'[u]
              /\ \A p \in Pointer : InRing(p)' => elements'[p] # val'[u]
  <2>1. u # t /\ Holding(u) /\ val'[u] = val[u]
    BY <1>3, <1>8, <1>11
  <2>2. /\ val[u] \in Elem \ inuse /\ val[t] # val[u]
        /\ \A v \in Threads : Holding(v) /\ v # u => val[v] # val[u]
        /\ \A p \in Pointer : InRing(p) => elements[p] # val[u]
    BY <1>4, <2>1 DEF PoolInv
  <2>3. \A v \in Threads : Holding(v)' /\ v # u => val'[v] # val'[u]
    BY <1>3, <1>8, <2>1, <2>2
  <2>4. \A p \in Pointer : InRing(p)' => elements'[p] # val'[u]
    BY <1>1, <1>4, <1>6, <2>1, <2>2
  <2> QED
    BY <2>1, <2>2, <2>3, <2>4
<1> QED
  BY <1>7, <1>10, <1>11 DEF PoolInv

\* get_buffer hands out the buffer; release_buffer takes it back.
LEMMA HandOver ==
    ASSUME RingInv, PoolInv, NEW t \in Threads,
           get_bufferReturn(t) \/ (t \in Writers /\ \E b \in Elem : release_buffer(t, b))
    PROVE  PoolInv'
<1>0. TypeOK
  BY DEF RingInv
<1>r. UNCHANGED <<elements, readp, writep>>
  BY DEF get_bufferReturn, Return, release_buffer, StartWrite, ring
<1>i. \A p \in Pointer : InRing(p)' <=> InRing(p)
  BY <1>r DEF InRing, size
<1>1. CASE get_bufferReturn(t)
  <2>1. pc[t] = "got" /\ inuse' = inuse \cup {val[t]} /\ Return(t) /\ Holding(t)
    BY <1>1 DEF get_bufferReturn, Holding
  <2>2. pc'[t] = "idle" /\ \A u \in Threads \ {t} : pc'[u] = pc[u] /\ val'[u] = val[u]
    BY <1>0, <2>1 DEF Return, Leave, Goto, TypeOK
  <2>3. Roles' /\ ~Holding(t)' /\ \A u \in Threads \ {t} : Holding(u)' <=> Holding(u)
    BY <2>2 DEF PoolInv, Roles, WriteSteps, ReadSteps, Holding
  <2>4. ASSUME NEW p \in Pointer, InRing(p)'
        PROVE  /\ elements'[p] \in Elem \ inuse'
               /\ \A q \in Pointer : InRing(q)' /\ q # p => elements'[q] # elements'[p]
    BY <1>r, <1>i, <2>1, <2>4 DEF PoolInv
  <2>5. ASSUME NEW u \in Threads, Holding(u)'
        PROVE  /\ val'[u] \in Elem \ inuse'
               /\ \A v \in Threads : Holding(v)' /\ v # u => val'[v] # val'[u]
               /\ \A p \in Pointer : InRing(p)' => elements'[p] # val'[u]
    BY <1>r, <1>i, <2>1, <2>2, <2>3, <2>5 DEF PoolInv
  <2> QED
    BY <2>3, <2>4, <2>5 DEF PoolInv
<1>2. ASSUME NEW b \in Elem, t \in Writers, release_buffer(t, b) PROVE PoolInv'
  <2>1. b \in inuse /\ inuse' = inuse \ {b} /\ StartWrite(t, b)
    BY <1>2 DEF release_buffer
  <2>2. /\ pc[t] = "idle" /\ pc'[t] = "w_load" /\ val'[t] = b
        /\ \A u \in Threads \ {t} : pc'[u] = pc[u] /\ val'[u] = val[u]
    BY <1>0, <2>1 DEF StartWrite, Goto, TypeOK
  <2>3. Roles' /\ ~Holding(t) /\ Holding(t)' /\ \A u \in Threads \ {t} : Holding(u)' <=> Holding(u)
    BY <1>2, <2>2 DEF PoolInv, Roles, WriteSteps, ReadSteps, Holding
  <2>4. ASSUME NEW p \in Pointer, InRing(p)'
        PROVE  /\ elements'[p] \in Elem \ inuse'
               /\ \A q \in Pointer : InRing(q)' /\ q # p => elements'[q] # elements'[p]
    BY <1>r, <1>i, <2>1, <2>4 DEF PoolInv
  <2>5. ASSUME NEW u \in Threads, Holding(u)'
        PROVE  /\ val'[u] \in Elem \ inuse'
               /\ \A v \in Threads : Holding(v)' /\ v # u => val'[v] # val'[u]
               /\ \A p \in Pointer : InRing(p)' => elements'[p] # val'[u]
    BY <1>r, <1>i, <2>1, <2>2, <2>3, <2>5 DEF PoolInv
  <2> QED
    BY <2>3, <2>4, <2>5 DEF PoolInv
<1> QED
  BY <1>1, <1>2

\* The steps of the pool are steps of its queue.
LEMMA PoolStepsAreQueueSteps == PoolInv /\ TypeOK /\ [PoolNext]_poolVars => [Next]_vars
<1> SUFFICES ASSUME PoolInv, TypeOK, [PoolNext]_poolVars PROVE [Next]_vars
  OBVIOUS
<1>1. CASE UNCHANGED poolVars
  BY <1>1 DEF poolVars
<1>2. ASSUME NEW t \in Readers, get_buffer(t) \/ get_bufferReturn(t) PROVE Next
  BY <1>2 DEF get_buffer, get_bufferReturn, Next, Threads
<1>3. ASSUME NEW t \in Writers, NEW b \in Elem, release_buffer(t, b) PROVE Next
  BY <1>3 DEF release_buffer, Next
<1>4. ASSUME NEW t \in Threads, QueueStep(t) PROVE Next
  <2>1. WriteStep(t) => t \in Writers
    BY DEF PoolInv, Roles, WriteSteps, WriteStep, WriteLoad, WriteRefused, WriteFits, WriteReserve,
       WriteRetry, WriteStore, WriteCommit
  <2>2. ReadStep(t) => t \in Readers
    BY DEF PoolInv, Roles, ReadSteps, ReadStep, ReadLoad, ReadNull, ReadNonEmpty, ReadElem,
       ReadAdvance, ReadRetry
  <2> QED
    BY <1>4, <2>1, <2>2 DEF QueueStep, Next
<1> QED
  BY <1>1, <1>2, <1>3, <1>4 DEF PoolNext

\* Every step of the pool keeps PoolInv.
LEMMA PoolInvNext == RingInv /\ PoolInv /\ [PoolNext]_poolVars => PoolInv'
<1> SUFFICES ASSUME RingInv, PoolInv, [PoolNext]_poolVars PROVE PoolInv'
  OBVIOUS
<1>0. TypeOK
  BY DEF RingInv
<1>1. CASE UNCHANGED poolVars
  BY <1>1 DEF poolVars, vars, PoolInv, Roles, InRing, size, Holding
<1>2. ASSUME NEW t \in Readers, get_buffer(t) PROVE PoolInv'
  <2>1. /\ pc[t] = "idle" /\ pc' = [pc EXCEPT ![t] = "r_load"] /\ t \in Threads
        /\ UNCHANGED <<elements, readp, writep, val, inuse>>
    BY <1>2 DEF get_buffer, StartRead, Goto, ring, Threads
  <2>2. pc'[t] = "r_load" /\ \A u \in Threads \ {t} : pc'[u] = pc[u]
    BY <1>0, <2>1 DEF TypeOK
  <2>3. Roles'
    BY <1>2, <2>2 DEF PoolInv, Roles, WriteSteps, ReadSteps
  <2>4. \A u \in Threads : Holding(u)' => Holding(u) /\ val'[u] = val[u]
    BY <2>1, <2>2 DEF Holding, WriteSteps
  <2>5. \A p \in Pointer : InRing(p)' => InRing(p) /\ elements'[p] = elements[p]
    BY <2>1 DEF InRing, size
  <2> QED
    BY <2>1, <2>3, <2>4, <2>5, QuietStep
<1>3. ASSUME NEW t \in Readers, get_bufferReturn(t) PROVE PoolInv'
  BY <1>3, HandOver DEF Threads
<1>4. ASSUME NEW t \in Writers, NEW b \in Elem, release_buffer(t, b) PROVE PoolInv'
  BY <1>4, HandOver DEF Threads
<1>5. ASSUME NEW t \in Threads, QueueStep(t) PROVE PoolInv'
  BY <1>5, InnerStep, AdvanceMoves, CommitMoves DEF QueueStep, WriteStep, ReadStep
<1> QED
  BY <1>1, <1>2, <1>3, <1>4, <1>5 DEF PoolNext

\* As long as nobody is preempted for a whole lap of the ring, get_buffer's
\* assertion ("Corrupted pool") holds: what it takes is a buffer nobody uses and
\* nobody else is given.
THEOREM NeverCorrupted == ASSUME NoLap PROVE PoolSpec => []NoCorruption
<1>1. PoolInit => RingInv /\ PoolInv
  BY PoolInvInit
<1>2. RingInv /\ PoolInv /\ [PoolNext]_poolVars => (RingInv /\ PoolInv)'
  <2>1. RingInv => TypeOK
    BY DEF RingInv
  <2> QED
    BY <2>1, PoolStepsAreQueueSteps, RingInvNext, PoolInvNext DEF NotLapped
<1>3. PoolInv => NoCorruption
  BY DEF PoolInv, Holding, NoCorruption
<1> QED
  BY <1>1, <1>2, <1>3, PTL DEF PoolSpec

=============================================================================
