---------------------------- MODULE BoundedFifo ----------------------------
(***************************************************************************)
(* What circular_queue promises its callers: a bounded FIFO that any       *)
(* thread may write to or read from without blocking.  An operation starts,*)
(* takes effect in one instant or is refused.                                *)
(*                                                                         *)
(* Spec is the strict promise: a write is refused only when the queue is   *)
(* full, a read returns NULL only when it is empty.  LossySpec lets an     *)
(* operation be refused at any time; what succeeds is still FIFO, exactly  *)
(* once.                                                                   *)
(***************************************************************************)
EXTENDS Naturals, Sequences

CONSTANTS Threads,   \* threads that call the queue
          Elem,      \* what is queued (pointers in the code)
          NoElem,    \* the NULL pointer
          Bound      \* elements the queue holds at most

VARIABLES q,         \* the queued elements, oldest first
          call,      \* per thread: idle, writing, reading, or got (has read arg)
          arg        \* per thread: what it writes, or what it has read

vars == <<q, call, arg>>

Init ==
    /\ q = <<>>
    /\ call = [t \in Threads |-> "idle"]
    /\ arg = [t \in Threads |-> NoElem]

StartWrite(t, e) ==
    /\ call[t] = "idle"
    /\ call' = [call EXCEPT ![t] = "writing"]
    /\ arg' = [arg EXCEPT ![t] = e]
    /\ UNCHANGED q

StartRead(t) ==
    /\ call[t] = "idle"
    /\ call' = [call EXCEPT ![t] = "reading"]
    /\ arg' = [arg EXCEPT ![t] = NoElem]
    /\ UNCHANGED q

Put(t) ==
    /\ call[t] = "writing"
    /\ Len(q) < Bound
    /\ q' = Append(q, arg[t])
    /\ call' = [call EXCEPT ![t] = "idle"]
    /\ arg' = [arg EXCEPT ![t] = NoElem]

Take(t) ==
    /\ call[t] = "reading"
    /\ q # <<>>
    /\ q' = Tail(q)
    /\ arg' = [arg EXCEPT ![t] = Head(q)]
    /\ call' = [call EXCEPT ![t] = "got"]

RefuseWrite(t) ==
    /\ call[t] = "writing"
    /\ call' = [call EXCEPT ![t] = "idle"]
    /\ arg' = [arg EXCEPT ![t] = NoElem]
    /\ UNCHANGED q

RefuseRead(t) ==
    /\ call[t] = "reading"
    /\ call' = [call EXCEPT ![t] = "idle"]
    /\ UNCHANGED <<q, arg>>

Return(t) ==
    /\ call[t] = "got"
    /\ call' = [call EXCEPT ![t] = "idle"]
    /\ arg' = [arg EXCEPT ![t] = NoElem]
    /\ UNCHANGED q

Common(t) ==
    \/ \E e \in Elem : StartWrite(t, e)
    \/ StartRead(t)
    \/ Put(t)
    \/ Take(t)
    \/ Return(t)

Next == \E t \in Threads : \/ Common(t)
                           \/ RefuseWrite(t) /\ Len(q) = Bound
                           \/ RefuseRead(t) /\ q = <<>>

Spec == Init /\ [][Next]_vars

LossyNext == \E t \in Threads : Common(t) \/ RefuseWrite(t) \/ RefuseRead(t)

LossySpec == Init /\ [][LossyNext]_vars

=============================================================================
