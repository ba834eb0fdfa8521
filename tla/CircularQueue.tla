--------------------------- MODULE CircularQueue ---------------------------
(***************************************************************************)
(* The lock-free ring of util/circular_queue.h (the non-PTHREAD_IMP build):*)
(* non_blocking_write and non_blocking_read, one step for each access to   *)
(* shared memory.  Pointers into "elements" are the indices 0..Slots-1.    *)
(* The code's _writep is called reservep here.                             *)
(*                                                                         *)
(* A thread keeps a copy of a pointer between loading it and the           *)
(* compare-and-swap on it.  The swap compares pointers, not positions, so  *)
(* it cannot see that the pointer went once round the ring in between.     *)
(* lag counts those advances, and MaxLag bounds them: MaxLag < Slots is    *)
(* the assumption that no thread is preempted for a whole lap, MaxLag >=   *)
(* Slots lets it happen.                                                   *)
(***************************************************************************)
EXTENDS Integers, Sequences

CONSTANTS Slots,     \* capacity given to the constructor
          Writers,   \* threads that call non_blocking_write
          Readers,   \* threads that call non_blocking_read
          Elem,      \* elements (pointers in the code)
          NoElem,    \* NULL
          MaxLag     \* advances a thread may be overtaken by: see above

\* The constructor throws eCircularQueueInvalidSize on any other capacity.
ASSUME SlotsAssumption ==
    /\ Slots \in Nat \ {0}
    /\ \E k \in 0..Slots : Slots = 2^k

ASSUME ElemAssumption == NoElem \notin Elem

ASSUME LagAssumption == MaxLag \in Nat

Threads == Writers \cup Readers

Pointer == 0..(Slots - 1)

VARIABLES elements,  \* the ring
          readp,     \* next slot to read
          writep,    \* end of what readers may read
          reservep,  \* end of what writers have reserved (_writep)
          pc,        \* per thread: its next step; "got": it has read val
          cpy,       \* per thread: read_cpy / write_cpy
          val,       \* per thread: elem / to_return
          lag        \* per thread: advances of the copied pointer since

ring == <<elements, readp, writep, reservep>>
vars == <<elements, readp, writep, reservep, pc, cpy, val, lag>>

WriteSteps == {"w_load", "w_full", "w_cas", "w_store", "w_commit"}
ReadSteps == {"r_load", "r_empty", "r_elem", "r_cas"}

\* Threads whose pending compare-and-swap is on reservep, or on readp.
HoldsReserve(t) == pc[t] \in {"w_full", "w_cas"}
HoldsRead(t) == pc[t] \in {"r_empty", "r_elem", "r_cas"}

TypeOK ==
    /\ elements \in [Pointer -> Elem \cup {NoElem}]
    /\ readp \in Pointer
    /\ writep \in Pointer
    /\ reservep \in Pointer
    /\ pc \in [Threads -> {"idle", "got"} \cup WriteSteps \cup ReadSteps]
    /\ cpy \in [Threads -> Pointer]
    /\ val \in [Threads -> Elem \cup {NoElem}]
    /\ lag \in [Threads -> 0..MaxLag]

\* Mutant: the pointer does not wrap.
NoWrap(p) == p + 1

circ_inc_pointer(p) == IF p + 1 = Slots THEN 0 ELSE p + 1

\* Mutant: full and empty confused.
FullMeansEqual(w, r) == w = r

\* Slots is a power of 2, so masking with slots-1 is the remainder.
is_full(w, r) == (w + 1) % Slots = r

is_empty(w, r) == w = r

\* Elements between two pointers.
size(r, w) == IF w >= r THEN w - r ELSE Slots - (r - w)

Init ==
    /\ elements = [p \in Pointer |-> NoElem]
    /\ readp = 0 /\ writep = 0 /\ reservep = 0
    /\ pc = [t \in Threads |-> "idle"]
    /\ cpy = [t \in Threads |-> 0]
    /\ val = [t \in Threads |-> NoElem]
    /\ lag = [t \in Threads |-> 0]

Goto(t, step) == pc' = [pc EXCEPT ![t] = step]

\* The call is over and its locals are gone; v is what it returns.
Leave(t, step, v) ==
    /\ Goto(t, step)
    /\ cpy' = [cpy EXCEPT ![t] = 0]
    /\ val' = [val EXCEPT ![t] = v]

\* One more advance for every other thread that holds a copy of the pointer.
\* t itself is past its compare-and-swap and is no longer counted.
Overtake(t, Holds(_)) ==
    /\ \A u \in Threads \ {t} : Holds(u) => lag[u] < MaxLag
    /\ lag' = [u \in Threads |-> IF u = t THEN 0
                                ELSE IF Holds(u) THEN lag[u] + 1 ELSE lag[u]]

-----------------------------------------------------------------------------
(* non_blocking_write *)

StartWrite(t, e) ==
    /\ pc[t] = "idle"
    /\ Goto(t, "w_load")
    /\ val' = [val EXCEPT ![t] = e]
    /\ UNCHANGED <<ring, cpy, lag>>

WriteLoad(t) ==
    /\ pc[t] = "w_load"
    /\ cpy' = [cpy EXCEPT ![t] = reservep]
    /\ lag' = [lag EXCEPT ![t] = 0]
    /\ Goto(t, "w_full")
    /\ UNCHANGED <<ring, val>>

WriteRefused(t) ==
    /\ pc[t] = "w_full"
    /\ is_full(cpy[t], readp)
    /\ Leave(t, "idle", NoElem)
    /\ lag' = [lag EXCEPT ![t] = 0]
    /\ UNCHANGED ring

WriteFits(t) ==
    /\ pc[t] = "w_full"
    /\ ~is_full(cpy[t], readp)
    /\ Goto(t, "w_cas")
    /\ UNCHANGED <<ring, cpy, val, lag>>

WriteReserve(t) ==
    /\ pc[t] = "w_cas"
    /\ cpy[t] = reservep
    /\ reservep' = circ_inc_pointer(cpy[t])
    /\ Overtake(t, HoldsReserve)
    /\ Goto(t, "w_store")
    /\ UNCHANGED <<elements, readp, writep, cpy, val>>

WriteRetry(t) ==
    /\ pc[t] = "w_cas"
    /\ cpy[t] # reservep
    /\ Goto(t, "w_load")
    /\ cpy' = [cpy EXCEPT ![t] = 0]
    /\ lag' = [lag EXCEPT ![t] = 0]
    /\ UNCHANGED <<ring, val>>

WriteStore(t) ==
    /\ pc[t] = "w_store"
    /\ elements' = [elements EXCEPT ![cpy[t]] = val[t]]
    /\ Goto(t, "w_commit")
    /\ UNCHANGED <<readp, writep, reservep, cpy, val, lag>>

\* Mutant: no spin, a writer publishes its slot before earlier ones are filled.
CommitWithoutSpin(t) ==
    /\ pc[t] = "w_commit"
    /\ writep' = circ_inc_pointer(cpy[t])
    /\ Leave(t, "idle", NoElem)
    /\ UNCHANGED <<elements, readp, reservep, lag>>

\* Mutant: the spin waits for the later reservations instead of the earlier ones.
CommitLastFirst(t) ==
    /\ pc[t] = "w_commit"
    /\ circ_inc_pointer(cpy[t]) = reservep
    /\ writep' = circ_inc_pointer(cpy[t])
    /\ Leave(t, "idle", NoElem)
    /\ UNCHANGED <<elements, readp, reservep, lag>>

\* The spin ends when every earlier reservation has been committed.
WriteCommit(t) ==
    /\ pc[t] = "w_commit"
    /\ cpy[t] = writep
    /\ writep' = circ_inc_pointer(cpy[t])
    /\ Leave(t, "idle", NoElem)
    /\ UNCHANGED <<elements, readp, reservep, lag>>

-----------------------------------------------------------------------------
(* non_blocking_read *)

StartRead(t) ==
    /\ pc[t] = "idle"
    /\ Goto(t, "r_load")
    /\ UNCHANGED <<ring, cpy, val, lag>>

ReadLoad(t) ==
    /\ pc[t] = "r_load"
    /\ cpy' = [cpy EXCEPT ![t] = readp]
    /\ lag' = [lag EXCEPT ![t] = 0]
    /\ Goto(t, "r_empty")
    /\ UNCHANGED <<ring, val>>

ReadNull(t) ==
    /\ pc[t] = "r_empty"
    /\ is_empty(writep, cpy[t])
    /\ Leave(t, "idle", NoElem)
    /\ lag' = [lag EXCEPT ![t] = 0]
    /\ UNCHANGED ring

ReadNonEmpty(t) ==
    /\ pc[t] = "r_empty"
    /\ ~is_empty(writep, cpy[t])
    /\ Goto(t, "r_elem")
    /\ UNCHANGED <<ring, cpy, val, lag>>

ReadElem(t) ==
    /\ pc[t] = "r_elem"
    /\ val' = [val EXCEPT ![t] = elements[cpy[t]]]
    /\ Goto(t, "r_cas")
    /\ UNCHANGED <<ring, cpy, lag>>

ReadAdvance(t) ==
    /\ pc[t] = "r_cas"
    /\ cpy[t] = readp
    /\ readp' = circ_inc_pointer(cpy[t])
    /\ Overtake(t, HoldsRead)
    /\ Leave(t, "got", val[t])
    /\ UNCHANGED <<elements, writep, reservep>>

ReadRetry(t) ==
    /\ pc[t] = "r_cas"
    /\ cpy[t] # readp
    /\ Leave(t, "r_load", NoElem)
    /\ lag' = [lag EXCEPT ![t] = 0]
    /\ UNCHANGED ring

-----------------------------------------------------------------------------

\* The caller takes the element it has read.
Return(t) ==
    /\ pc[t] = "got"
    /\ Leave(t, "idle", NoElem)
    /\ UNCHANGED <<ring, lag>>

WriteStep(t) ==
    \/ WriteLoad(t) \/ WriteRefused(t) \/ WriteFits(t) \/ WriteReserve(t)
    \/ WriteRetry(t) \/ WriteStore(t) \/ WriteCommit(t)

ReadStep(t) ==
    \/ ReadLoad(t) \/ ReadNull(t) \/ ReadNonEmpty(t) \/ ReadElem(t)
    \/ ReadAdvance(t) \/ ReadRetry(t)

Next ==
    \/ \E t \in Writers : WriteStep(t) \/ \E e \in Elem : StartWrite(t, e)
    \/ \E t \in Readers : ReadStep(t) \/ StartRead(t)
    \/ \E t \in Threads : Return(t)

Spec == Init /\ [][Next]_vars

-----------------------------------------------------------------------------
(* The ring seen as a queue: what lies between readp and writep. *)

Plus(p, k) == IF p + k < Slots THEN p + k ELSE p + k - Slots

Content == [i \in 1..size(readp, writep) |-> elements[Plus(readp, i - 1)]]

Call == [t \in Threads |-> CASE pc[t] \in WriteSteps -> "writing"
                             [] pc[t] \in ReadSteps -> "reading"
                             [] OTHER -> pc[t]]

Arg == [t \in Threads |-> IF pc[t] \in ReadSteps THEN NoElem ELSE val[t]]

Fifo == INSTANCE BoundedFifo
            WITH Bound <- Slots - 1, q <- Content, call <- Call, arg <- Arg

\* With one writer and one reader (a vlink's input_queue) the ring is a bounded
\* FIFO in every respect: nothing is lost, repeated or reordered, a write is
\* refused only when slots-1 elements are queued and a read returns NULL only
\* when none is.
StrictFifo == Fifo!Spec

\* With any number of writers and readers, and nobody preempted for a whole
\* lap, what is written successfully is read exactly once and in the order it
\* was committed; but a call may be refused without reason.
LossyFifo == Fifo!LossySpec

\* A writer that reserved a slot is never left spinning in the second stage of
\* the commit: whoever reserved before it commits first.
CommitEnds == \A t \in Writers : pc[t] = "w_commit" ~> pc[t] = "idle"

=============================================================================
