--------------------------- MODULE IoManagerProofs ---------------------------
(***************************************************************************)
(* Proofs about the port groups and their I/O threads (IoManager).         *)
(*                                                                         *)
(* Three invariants build on each other.  CallInv is about the callers:    *)
(* what the owner of iomanager::mutex is doing, and which groups the ports *)
(* are in.  RunInv is about running_ports: what the scan of the groups has *)
(* done so far.  SyncInv is about the I/O threads: all of them serve what  *)
(* their group runs, but for the thread the owner of the mutex waits for,  *)
(* whose lag is bounded by its step and the semaphore.                     *)
(***************************************************************************)
EXTENDS IoManager, WellFoundedInduction, TLAPS

UpWorking == {"up_hash", "up_wait"}
DownWorking == {"down_hash", "down_stop", "down_join", "down_wait"}

\* The owner of the mutex has picked a group and is changing it.
Working == cs \in UpWorking \cup DownWorking

\* The mutex is taken for a call, and the group that is changed is one.
SectionInv ==
    /\ cs = "free" <=> holder = None
    /\ cs = "free" => grp = 0 /\ ~rx /\ ~tx
    /\ cs \in UpWorking \cup {"up"} => op[holder] = "up"
    /\ cs \in DownWorking \cup {"down"} => op[holder] \in {"down", "remove_rx", "remove_tx"}
    /\ Working => grp \in Groups

\* Only the manager adds and removes ports.
CallsOf(c) ==
    /\ op[c] # "idle" => arg[c] \in Ports
    /\ c \in Others => op[c] \in {"idle", "up", "down"}

CallInv == TypeOK /\ SectionInv /\ \A c \in Callers : CallsOf(c)

InRx(q) == \E g \in RxGroups : q \in ports[g]
InTx(q) == \E g \in TxGroups : q \in ports[g]

\* No two groups of one type have a port in common.
OnePerType ==
    /\ \A g, h \in RxGroups : g # h => ports[g] \cap ports[h] = {}
    /\ \A g, h \in TxGroups : g # h => ports[g] \cap ports[h] = {}

\* An attached port is in a group of each type, but for the one being added or removed.
PlaceInv ==
    /\ op[Manager] # "idle" => arg[Manager] \in attached
    /\ \A q \in Ports :
          /\ InRx(q) <=> q \in attached /\ ~(op[Manager] \in {"add_rx", "remove_tx"} /\ q = arg[Manager])
          /\ InTx(q) <=> q \in attached /\ ~(op[Manager] \in {"add_rx", "add_tx"} /\ q = arg[Manager])
    /\ OnePerType

\* The running ports are open; what the scan of the groups has done so far.
RunInv ==
    /\ \A g \in Groups : running[g] \subseteq ports[g] \cap open
    /\ cs \in UpWorking => port \in running[grp]
    /\ cs \in UpWorking \cup {"up"} /\ (rx \/ tx) => \E g \in Groups : port \in running[g]
    /\ cs \in DownWorking => port \in ports[grp] \cap open /\ port \notin running[grp]
    /\ cs \in DownWorking \cup {"down"} =>
          /\ \A g \in Groups : g < grp => port \notin running[g]
          /\ rx => \A g \in RxGroups : port \notin running[g]
          /\ tx => \A g \in TxGroups : port \notin running[g]

\* The thread is in its loop, between two looks at the group.
Looping(g) == tpc[g] \in {"loop", "poll", "io"}

\* The thread serves exactly what the group runs, and has signalled nothing.
Settled(g) ==
    /\ sem[g] = 0
    /\ IF running[g] = {} THEN tpc[g] = "none" /\ tports[g] = {}
       ELSE Looping(g) /\ tports[g] = running[g] /\ thash[g] = hash[g] /\ keep_on[g]

\* The thread is to notice the change, takes it over step by step, or has signalled it.
Adopting(g) ==
    /\ running[g] # {} /\ keep_on[g]
    /\ \/ Looping(g) /\ sem[g] = 0 /\ thash[g] # hash[g] /\ tports[g] \subseteq running[g] \cup {port}
       \/ tpc[g] \in {"size", "snap"} /\ sem[g] = 0 /\ tports[g] \subseteq running[g] \cup {port}
       \/ tpc[g] = "hash" /\ sem[g] = 0 /\ tports[g] = running[g]
       \/ tpc[g] = "post" /\ sem[g] = 0 /\ tports[g] = running[g] /\ thash[g] = hash[g]
       \/ Looping(g) /\ sem[g] = 1 /\ tports[g] = running[g] /\ thash[g] = hash[g]

\* The thread of the group that is being changed.
Changing(g) ==
    /\ cs \in {"up_hash", "down_hash"} =>
          /\ Looping(g) /\ sem[g] = 0 /\ thash[g] = hash[g] /\ keep_on[g]
          /\ tports[g] \subseteq running[g] \cup {port}
          /\ cs = "up_hash" => running[g] # {}
    /\ cs \in {"up_wait", "down_wait"} => Adopting(g)
    /\ cs \in {"down_stop", "down_join"} =>
          /\ running[g] = {} /\ sem[g] = 0 /\ tports[g] \subseteq {port}
          /\ keep_on[g] <=> cs = "down_stop"
          /\ \/ Looping(g) \/ tpc[g] = "size"
             \/ cs = "down_join" /\ tpc[g] = "none" /\ tports[g] = {}

\* The thread of g serves events of its own ports, and is as far as it should be.
InStep(g) ==
    /\ tio[g] \subseteq tports[g] /\ (tpc[g] # "io" => tio[g] = {})
    /\ IF Working /\ g = grp THEN Changing(g) ELSE Settled(g)

SyncInv == \A g \in Groups : InStep(g)

-----------------------------------------------------------------------------
(* The callers *)

\* The group ids are natural numbers, RX before TX.
LEMMA GroupIds ==
    /\ Groups \subseteq Nat /\ RxGroups \cap TxGroups = {}
    /\ \A g \in RxGroups, h \in TxGroups : g < h
    /\ \A g \in Groups : g + 1 \in 0..(NumRx + NumTx)
    /\ 0 \in RxGroups /\ NumRx \in TxGroups
BY GroupAssumption DEF Groups, RxGroups, TxGroups

\* The scan picks the first of the groups that are left.
LEMMA FirstGroup ==
    ASSUME NEW S, S \subseteq Groups, S # {}
    PROVE  Min(S) \in S /\ \A g \in S : Min(S) <= g
<1>1. S \in SUBSET Nat
  BY GroupIds
<1>2. \E n \in S : \A m \in S : n <= m
  <2> DEFINE less == {ss \in Nat \X Nat : ss[1] < ss[2]}
  <2>1. IsWellFoundedOn(less, Nat)
    BY NatLessThanWellFounded, Zenon DEF OpToRel
  <2>2. \A m, n \in Nat : <<m, n>> \in less <=> m < n
    OBVIOUS
  <2> HIDE DEF less
  <2>3. \E n \in S : \A m \in S : ~(<<m, n>> \in less)
    BY <1>1, <2>1, WFMin, ZenonT(30)
  <2>4. PICK n \in S : \A m \in S : ~(<<m, n>> \in less)
    BY <2>3
  <2>5. \A m \in S : ~(m < n)
    BY <1>1, <2>2, <2>4
  <2>6. \A m \in S : n <= m
    BY <1>1, <2>5
  <2> QED
    BY <2>6
<1> QED
  BY <1>2 DEF Min

\* The hash is a new one, of the same width.
LEMMA BumpChanges ==
    ASSUME NEW h \in 0..(HashSize - 1) PROVE Bump(h) \in 0..(HashSize - 1) /\ Bump(h) # h
BY HashAssumption DEF Bump

\* The round robin stays among the groups.
LEMMA RoundRobin ==
    ASSUME NEW n \in Nat \ {0}, NEW k \in 0..(n - 1) PROVE (k + 1) % n \in 0..(n - 1)
OBVIOUS

\* The owner of the mutex, and the call it is in.
LEMMA HolderCalls ==
    ASSUME CallInv, cs # "free"
    PROVE  /\ holder \in Callers /\ holder # None /\ op[holder] # "idle" /\ port \in Ports
           /\ cs \in UpWorking \cup {"up"} \/ cs \in DownWorking \cup {"down"}
           /\ op[holder] \in {"remove_rx", "remove_tx"} => holder = Manager
<1>1. holder \in Callers /\ holder # None
  BY DEF CallInv, TypeOK, SectionInv
<1>2. cs \in UpWorking \cup {"up"} \/ cs \in DownWorking \cup {"down"}
  BY DEF CallInv, TypeOK, SectionSteps, UpWorking, DownWorking
<1>3. op[holder] \in {"up", "down", "remove_rx", "remove_tx"}
  BY <1>2 DEF CallInv, SectionInv
<1>4. CallsOf(holder)
  BY <1>1 DEF CallInv
<1>5. op[holder] # "idle" /\ port \in Ports
  BY <1>3, <1>4 DEF CallsOf, port
<1>6. op[holder] \in {"remove_rx", "remove_tx"} => holder = Manager
  BY <1>1, <1>4 DEF CallsOf, Callers
<1> QED
  BY <1>1, <1>2, <1>5, <1>6

\* What is left of the ports of the groups of a type when port q is removed from them.
Without(kind, q) == [g \in Groups |-> IF g \in kind THEN ports[g] \ {q} ELSE ports[g]]

\* bring_port_down returns to its three callers.
LEMMA DownReturnEffect ==
    ASSUME CallInv, cs \in DownWorking \cup {"down"}, DownReturn
    PROVE  /\ Release
           /\ \/ op[holder] = "down" /\ EndCall(holder) /\ UNCHANGED <<ports, attached>>
              \/ /\ op[holder] = "remove_rx" /\ holder = Manager
                 /\ ports' = Without(RxGroups, port)
                 /\ op' = [op EXCEPT ![Manager] = "remove_tx"] /\ UNCHANGED <<arg, attached>>
              \/ /\ op[holder] = "remove_tx" /\ holder = Manager
                 /\ ports' = Without(TxGroups, port)
                 /\ attached' = attached \ {port} /\ EndCall(Manager)
<1>1. op[holder] \in {"down", "remove_rx", "remove_tx"}
  BY DEF CallInv, SectionInv
<1>2. op[holder] \in {"remove_rx", "remove_tx"} => holder = Manager
  BY HolderCalls DEF DownWorking
<1>3. CASE op[holder] = "down"
  BY <1>3, Zenon DEF DownReturn
<1>4. CASE op[holder] = "remove_rx"
  <2>1. holder = Manager
    BY <1>2, <1>4
  <2> QED
    BY <1>4, <2>1, Zenon DEF DownReturn, Without
<1>5. CASE op[holder] = "remove_tx"
  <2>1. holder = Manager
    BY <1>2, <1>5
  <2> QED
    BY <1>5, <2>1, Zenon DEF DownReturn, Without
<1> QED
  BY <1>1, <1>3, <1>4, <1>5

\* The call of c ends.
LEMMA EndCallEffect ==
    ASSUME TypeOK, NEW c \in Callers, EndCall(c)
    PROVE  /\ op' \in [Callers -> Ops] /\ arg' \in [Callers -> Ports \cup {None}]
           /\ op'[c] = "idle" /\ \A b \in Callers \ {c} : op'[b] = op[b] /\ arg'[b] = arg[b]
BY DEF EndCall, TypeOK, Ops

\* The mutex is let go.
LEMMA ReleaseTypes ==
    ASSUME Release
    PROVE  /\ holder' \in Callers \cup {None} /\ cs' \in SectionSteps
           /\ grp' \in 0..(NumRx + NumTx) /\ rx' \in BOOLEAN /\ tx' \in BOOLEAN
<1>1. 0 \in 0..(NumRx + NumTx)
  BY GroupAssumption
<1>2. holder' = None /\ cs' = "free" /\ grp' = 0 /\ rx' = FALSE /\ tx' = FALSE
  BY DEF Release
<1> QED
  BY <1>1, <1>2 DEF SectionSteps

\* Every step of the callers and of the threads keeps CallInv.
LEMMA CallInvNext == CallInv /\ [Next]_vars => CallInv'
<1> SUFFICES ASSUME CallInv, [Next]_vars PROVE CallInv'
  OBVIOUS
<1>t. TypeOK /\ SectionInv /\ \A c \in Callers : CallsOf(c)
  BY DEF CallInv
<1> USE DEF groupState, sched, portState, call, section, threadState
<1>1. CASE UNCHANGED vars
  BY <1>1 DEF CallInv, TypeOK, SectionInv, CallsOf, Working, port, vars
<1>b. ASSUME NEW c \in Callers, NEW what \in Ops \ {"idle"}, NEW q \in Ports,
             op[c] = "idle", Begin(c, what, q), c = Manager \/ what \in {"up", "down"},
             attached' \subseteq Ports, UNCHANGED <<open, up>>
      PROVE  CallInv'
  <2>1. TypeOK'
    BY <1>b, <1>t DEF Begin, TypeOK, Ops
  <2>2. /\ op'[c] = what /\ arg'[c] = q
        /\ \A b \in Callers \ {c} : op'[b] = op[b] /\ arg'[b] = arg[b]
    BY <1>b, <1>t DEF Begin, TypeOK
  <2>3. UNCHANGED <<ports, holder, cs, grp, rx, tx>>
    BY <1>b DEF Begin
  <2>4. cs # "free" => holder \in Callers \ {c} /\ op'[holder] = op[holder] /\ port' = port
    BY <1>b, <2>2, <2>3, HolderCalls DEF port
  <2>5. SectionInv'
    BY <1>t, <2>3, <2>4 DEF SectionInv, Working, UpWorking, DownWorking
  <2>6. \A b \in Callers : CallsOf(b)'
    BY <1>t, <1>b, <2>2, CallerAssumption DEF CallsOf
  <2> QED
    BY <2>1, <2>5, <2>6 DEF CallInv
<1>2. ASSUME NEW q \in Ports, Attach(q) \/ Detach(q) \/ BringPort(q) PROVE CallInv'
  <2>1. op[Manager] = "idle" /\ attached' \subseteq Ports /\ UNCHANGED <<open, up>>
    BY <1>2, <1>t DEF Attach, Detach, BringPort, Idle, TypeOK
  <2>2. \/ Begin(Manager, "add_rx", q) \/ Begin(Manager, "remove_rx", q)
        \/ Begin(Manager, "up", q) \/ Begin(Manager, "down", q)
    BY <1>2 DEF Attach, Detach, BringPort, remove_port
  <2>3. Manager \in Callers /\ {"add_rx", "remove_rx", "up", "down"} \subseteq Ops \ {"idle"}
    BY DEF Callers, Ops
  <2> QED
    BY <1>b, <2>1, <2>2, <2>3
<1>3. ASSUME NEW c \in Others, NEW q \in Ports, update_port_status(c, q) PROVE CallInv'
  <2>1. op[c] = "idle" /\ attached' \subseteq Ports /\ UNCHANGED <<open, up>>
    BY <1>3, <1>t DEF update_port_status, Idle, TypeOK
  <2>2. Begin(c, "up", q) \/ Begin(c, "down", q)
    BY <1>3 DEF update_port_status
  <2>3. c \in Callers /\ {"up", "down"} \subseteq Ops \ {"idle"}
    BY DEF Callers, Ops
  <2> QED
    BY <1>b, <2>1, <2>2, <2>3
<1>4. ASSUME NEW q \in Ports, BringUnattachedUp(q) \/ BringUnattachedDown(q) PROVE CallInv'
  BY <1>4, <1>t DEF BringUnattachedUp, BringUnattachedDown, CallInv, TypeOK, SectionInv,
     CallsOf, Working, port
\* The mutex is let go and the call ends.
<1>e. ASSUME cs # "free", Release, EndCall(holder)
      PROVE  /\ op' \in [Callers -> Ops] /\ arg' \in [Callers -> Ports \cup {None}]
             /\ SectionInv' /\ \A c \in Callers : CallsOf(c)'
  <2>1. holder \in Callers
    BY <1>e, HolderCalls
  <2>2. /\ op' \in [Callers -> Ops] /\ arg' \in [Callers -> Ports \cup {None}]
        /\ op'[holder] = "idle"
        /\ \A b \in Callers \ {holder} : op'[b] = op[b] /\ arg'[b] = arg[b]
    BY <1>e, <1>t, <2>1, EndCallEffect
  <2>3. SectionInv'
    BY <1>e DEF Release, SectionInv, Working, UpWorking, DownWorking
  <2> QED
    BY <1>t, <2>2, <2>3 DEF CallsOf
\* The owner of the mutex goes on, in the same call.
<1>g. ASSUME cs # "free", UNCHANGED <<holder, op, arg, ports>>,
             \/ /\ cs \in UpWorking \cup {"up"} /\ cs' \in UpWorking \cup {"up"}
             \/ /\ cs \in DownWorking \cup {"down"} /\ cs' \in DownWorking \cup {"down"},
             cs' \notin {"up", "down"} => grp' \in Groups
      PROVE  SectionInv' /\ \A c \in Callers : CallsOf(c)'
  <2>1. port' = port /\ holder # None /\ cs' # "free" /\ op'[holder'] = op[holder]
    BY <1>g, HolderCalls DEF port, UpWorking, DownWorking
  <2>2. SectionInv'
    BY <1>g, <1>t, <2>1 DEF SectionInv, Working, UpWorking, DownWorking
  <2> QED
    BY <1>g, <1>t, <2>2 DEF CallsOf
<1>5. CASE AddRx \/ AddTx
  <2>1. holder = None /\ cs = "free" /\ UNCHANGED <<holder, cs, grp, rx, tx>>
    BY <1>5, <1>t DEF AddRx, AddTx, SectionInv
  <2>2. SectionInv'
    BY <1>t, <2>1 DEF SectionInv, Working, UpWorking, DownWorking
  <2>3. Manager \in Callers /\ op[Manager] \in {"add_rx", "add_tx"} /\ arg[Manager] \in Ports
    BY <1>5, <1>t DEF AddRx, AddTx, CallsOf, Callers
  <2>4. CASE AddRx
    <3>1. op' = [op EXCEPT ![Manager] = "add_tx"] /\ arg' = arg
      BY <2>4 DEF AddRx
    <3>2. op' \in [Callers -> Ops] /\ \A c \in Callers : CallsOf(c)'
      BY <1>t, <2>3, <3>1, CallerAssumption DEF TypeOK, CallsOf, Ops
    <3>3. next_rx' \in RxGroups
      BY <1>t, <2>4, RoundRobin, GroupAssumption DEF AddRx, TypeOK, RxGroups
    <3>4. ports' \in [Groups -> SUBSET Ports]
      BY <1>t, <2>3, <2>4 DEF AddRx, TypeOK
    <3> QED
      BY <1>t, <2>2, <2>4, <3>1, <3>2, <3>3, <3>4 DEF CallInv, TypeOK, AddRx
  <2>5. CASE AddTx
    <3>1. EndCall(Manager)
      BY <2>5 DEF AddTx
    <3>2. /\ op' \in [Callers -> Ops] /\ arg' \in [Callers -> Ports \cup {None}]
          /\ op'[Manager] = "idle"
          /\ \A b \in Callers \ {Manager} : op'[b] = op[b] /\ arg'[b] = arg[b]
      BY <1>t, <2>3, <3>1, EndCallEffect
    <3>3. \A c \in Callers : CallsOf(c)'
      BY <1>t, <3>2, CallerAssumption DEF CallsOf
    <3>4. next_tx' \in 0..(NumTx - 1)
      BY <1>t, <2>5, RoundRobin, GroupAssumption DEF AddTx, TypeOK
    <3>5. ports' \in [Groups -> SUBSET Ports]
      BY <1>t, <2>3, <2>5 DEF AddTx, TypeOK
    <3> QED
      BY <1>t, <2>2, <2>5, <3>2, <3>3, <3>4, <3>5 DEF CallInv, TypeOK, AddTx
  <2> QED
    BY <1>5, <2>4, <2>5
<1>6. ASSUME NEW c \in Callers, Lock(c) PROVE CallInv'
  <2>1. /\ holder = None /\ holder' = c /\ c # None
        /\ cs' = (IF op[c] = "up" THEN "up" ELSE "down")
        /\ op[c] \in {"up", "down", "remove_rx", "remove_tx"}
        /\ UNCHANGED <<grp, rx, tx, ports, op, arg>>
    BY <1>6, CallerAssumption DEF Lock, Callers
  <2>2. SectionInv'
    BY <1>t, <2>1 DEF SectionInv, Working, UpWorking, DownWorking
  <2>3. TypeOK'
    BY <1>6, <1>t, <2>1 DEF Lock, TypeOK, SectionSteps
  <2> QED
    BY <1>t, <2>1, <2>2, <2>3 DEF CallInv, CallsOf
<1>7. CASE UpNotFound \/ UpAlready
  <2>1. cs = "up" /\ Release /\ EndCall(holder) /\ port \in Ports /\ op[holder] = "up" /\ holder \in Callers
    BY <1>7, <1>t, HolderCalls DEF UpNotFound, UpAlready, SectionInv
  <2>3. /\ op' \in [Callers -> Ops] /\ arg' \in [Callers -> Ports \cup {None}]
        /\ SectionInv' /\ \A c \in Callers : CallsOf(c)'
    BY <1>e, <2>1
  <2>4. TypeOK'
    BY <1>7, <1>t, <2>1, <2>3, ReleaseTypes DEF UpNotFound, UpAlready, TypeOK
  <2> QED
    BY <2>3, <2>4 DEF CallInv
<1>8. CASE UpStartThread \/ UpAddRunning
  <2> DEFINE g == Min(Contains(ports))
  <2>1. cs = "up" /\ port \in Ports
    BY <1>8, HolderCalls DEF UpStartThread, UpAddRunning
  <2>2. g \in Groups /\ port \in ports[g]
    BY <1>8, FirstGroup DEF UpStartThread, UpAddRunning, Contains
  <2>3. grp' = g /\ cs' \in UpWorking /\ UNCHANGED <<holder, op, arg, ports>>
    BY <1>8 DEF UpStartThread, UpAddRunning, UpWorking
  <2> HIDE DEF g
  <2>4. SectionInv' /\ \A c \in Callers : CallsOf(c)'
    BY <1>g, <2>1, <2>2, <2>3
  <2>5. TypeOK'
    <3>1. open' \subseteq Ports /\ up' \subseteq Ports
      BY <1>8, <1>t, <2>1 DEF UpStartThread, UpAddRunning, OpenFirst, TypeOK
    <3>2. g \in 0..(NumRx + NumTx) /\ cs' \in SectionSteps
      BY <2>2, <2>3, GroupIds, GroupAssumption DEF SectionSteps, UpWorking
    <3>3. CASE UpStartThread
      <4>1. /\ running' = [running EXCEPT ![g] = {port}]
            /\ keep_on' = [keep_on EXCEPT ![g] = TRUE]
            /\ tpc' = [tpc EXCEPT ![g] = "size"]
            /\ tports' = [tports EXCEPT ![g] = {}]
            /\ thash' = [thash EXCEPT ![g] = 0]
            /\ UNCHANGED <<ports, hash, sem, sched, attached, call, holder, rx, tx, tio, errs>>
        BY <3>3 DEF UpStartThread, g
      <4> QED
        BY <1>t, <2>1, <2>2, <2>3, <3>1, <3>2, <4>1, HashAssumption DEF TypeOK, ThreadSteps
    <3>4. CASE UpAddRunning
      <4>1. /\ running' = [running EXCEPT ![g] = @ \cup {port}]
            /\ UNCHANGED <<ports, hash, sem, keep_on, sched, attached, call, holder, rx, tx, threadState>>
        BY <3>4 DEF UpAddRunning, g
      <4> QED
        BY <1>t, <2>1, <2>2, <2>3, <3>1, <3>2, <4>1 DEF TypeOK
    <3> QED
      BY <1>8, <3>3, <3>4
  <2> QED
    BY <2>4, <2>5 DEF CallInv
<1>w. Working => grp \in Groups /\ port \in Ports /\ hash[grp] \in 0..(HashSize - 1) /\ cs # "free"
  BY <1>t, HolderCalls DEF SectionInv, TypeOK, Working, UpWorking, DownWorking
<1>9. CASE UpHash \/ DownHash \/ DownStop
  <2>1. Working /\ UNCHANGED <<holder, op, arg, ports, grp>>
    BY <1>9 DEF UpHash, DownHash, DownStop, Working, UpWorking, DownWorking
  <2>2. \/ /\ cs \in UpWorking \cup {"up"} /\ cs' \in UpWorking \cup {"up"}
        \/ /\ cs \in DownWorking \cup {"down"} /\ cs' \in DownWorking \cup {"down"}
    BY <1>9 DEF UpHash, DownHash, DownStop, UpWorking, DownWorking
  <2>3. SectionInv' /\ \A c \in Callers : CallsOf(c)'
    BY <1>g, <1>w, <2>1, <2>2
  <2>4. TypeOK'
    <3>1. cs' \in SectionSteps
      BY <2>2 DEF UpWorking, DownWorking, SectionSteps
    <3>2. hash' \in [Groups -> 0..(HashSize - 1)]
      BY <1>9, <1>t, <1>w, <2>1, BumpChanges DEF UpHash, DownHash, DownStop, TypeOK
    <3> QED
      BY <1>9, <1>t, <1>w, <2>1, <3>1, <3>2 DEF UpHash, DownHash, DownStop, TypeOK
  <2> QED
    BY <2>3, <2>4 DEF CallInv
\* The group is done: the scan goes on.
<1>n. ASSUME NEW step \in {"up", "down"}, NextGroup(step), Working, ports' = ports,
             step = "up" <=> cs \in UpWorking
      PROVE  SectionInv' /\ (\A c \in Callers : CallsOf(c)') /\ grp' \in 0..(NumRx + NumTx)
  <2>1. UNCHANGED <<holder, op, arg, ports>> /\ cs' = step /\ grp' = grp + 1
    BY <1>n DEF NextGroup
  <2>2. \/ /\ cs \in UpWorking \cup {"up"} /\ cs' \in UpWorking \cup {"up"}
        \/ /\ cs \in DownWorking \cup {"down"} /\ cs' \in DownWorking \cup {"down"}
    BY <1>n, <2>1 DEF Working
  <2>3. SectionInv' /\ \A c \in Callers : CallsOf(c)'
    BY <1>g, <1>n, <1>w, <2>1, <2>2
  <2> QED
    BY <1>n, <1>w, <2>1, <2>3, GroupIds
<1>10. CASE UpWait
  <2>1. /\ cs = "up_wait" /\ Working /\ ports' = ports
        /\ \/ Release /\ EndCall(holder)
           \/ NextGroup("up")
        /\ sem' = [sem EXCEPT ![grp] = @ - 1] /\ sem[grp] > 0
        /\ UNCHANGED <<ports, running, hash, keep_on, sched, portState, threadState>>
    BY <1>10 DEF UpWait, Working, UpWorking
  <2>2. sem' \in [Groups -> Nat]
    BY <1>t, <1>w, <2>1 DEF TypeOK
  <2>3. CASE Release /\ EndCall(holder)
    <3>3. /\ op' \in [Callers -> Ops] /\ arg' \in [Callers -> Ports \cup {None}]
          /\ SectionInv' /\ \A c \in Callers : CallsOf(c)'
      BY <1>e, <2>1, <2>3
    <3>4. TypeOK'
      BY <1>t, <2>1, <2>2, <2>3, <3>3, ReleaseTypes DEF TypeOK
    <3> QED
      BY <3>3, <3>4 DEF CallInv
  <2>4. CASE NextGroup("up")
    <3>1. SectionInv' /\ (\A c \in Callers : CallsOf(c)') /\ grp' \in 0..(NumRx + NumTx)
      BY <1>n, <2>1, <2>4 DEF UpWorking
    <3>2. TypeOK'
      BY <1>t, <2>1, <2>2, <2>4, <3>1 DEF TypeOK, NextGroup, SectionSteps
    <3> QED
      BY <3>1, <3>2 DEF CallInv
  <2> QED
    BY <2>1, <2>3, <2>4
\* bring_port_down is over.
<1>r. ASSUME DownReturn, cs \in DownWorking \cup {"down"},
             UNCHANGED <<running, hash, keep_on, sched, threadState>>,
             sem' \in [Groups -> Nat], open' \subseteq Ports, up' \subseteq Ports
      PROVE  CallInv'
  <2>1. cs # "free"
    BY <1>r DEF DownWorking
  <2>2. holder \in Callers /\ port \in Ports
    BY <2>1, HolderCalls
  <2>3. /\ Release
        /\ \/ op[holder] = "down" /\ EndCall(holder) /\ UNCHANGED <<ports, attached>>
           \/ /\ op[holder] = "remove_rx" /\ holder = Manager
              /\ ports' = Without(RxGroups, port)
              /\ op' = [op EXCEPT ![Manager] = "remove_tx"] /\ UNCHANGED <<arg, attached>>
           \/ /\ op[holder] = "remove_tx" /\ holder = Manager
              /\ ports' = Without(TxGroups, port)
              /\ attached' = attached \ {port} /\ EndCall(Manager)
    BY <1>r, DownReturnEffect
  <2>5. /\ op' \in [Callers -> Ops] /\ arg' \in [Callers -> Ports \cup {None}]
        /\ SectionInv' /\ \A c \in Callers : CallsOf(c)'
    <3>1. CASE op[holder] # "remove_rx"
      <4>1. EndCall(holder)
        BY <2>3, <3>1
      <4> QED
        BY <1>e, <2>1, <2>3, <4>1
    <3>2. CASE op[holder] = "remove_rx"
      <4>1. /\ holder = Manager /\ op' = [op EXCEPT ![Manager] = "remove_tx"] /\ arg' = arg
            /\ arg[Manager] \in Ports
        BY <2>2, <2>3, <3>2 DEF port
      <4>2. op' \in [Callers -> Ops] /\ \A c \in Callers : CallsOf(c)'
        BY <1>t, <4>1, CallerAssumption DEF TypeOK, CallsOf, Ops
      <4>3. SectionInv'
        BY <2>3 DEF Release, SectionInv, Working, UpWorking, DownWorking
      <4> QED
        BY <1>t, <4>1, <4>2, <4>3 DEF TypeOK
    <3> QED
      BY <3>1, <3>2
  <2>6. ports' \in [Groups -> SUBSET Ports] /\ attached' \subseteq Ports
    BY <1>t, <2>3 DEF TypeOK, Without
  <2>7. TypeOK'
    BY <1>r, <1>t, <2>3, <2>5, <2>6, ReleaseTypes DEF TypeOK
  <2> QED
    BY <2>5, <2>7 DEF CallInv
<1>11. CASE DownNotFound
  <2>1. cs = "down" /\ DownReturn /\ up' \subseteq Ports /\ open' \subseteq Ports /\ sem' \in [Groups -> Nat]
    BY <1>11, <1>t DEF DownNotFound, TypeOK
  <2> QED
    BY <1>11, <1>r, <2>1 DEF DownNotFound
<1>12. CASE DownErase
  <2> DEFINE g == Min(Contains(running))
  <2>1. cs = "down" /\ port \in Ports /\ cs # "free"
    BY <1>12, HolderCalls DEF DownErase
  <2>2. g \in Groups
    BY <1>12, FirstGroup DEF DownErase, Contains
  <2>3. /\ grp' = g /\ cs' = "down_hash" /\ UNCHANGED <<holder, op, arg, ports>>
        /\ running' = [running EXCEPT ![g] = @ \ {port}]
        /\ UNCHANGED <<hash, sem, keep_on, sched, portState, rx, tx, threadState>>
    BY <1>12 DEF DownErase
  <2> HIDE DEF g
  <2>4. SectionInv' /\ \A c \in Callers : CallsOf(c)'
    BY <1>g, <2>1, <2>2, <2>3 DEF DownWorking
  <2>5. g \in 0..(NumRx + NumTx)
    BY <2>2, GroupIds, GroupAssumption
  <2>6. TypeOK'
    BY <1>t, <2>2, <2>3, <2>5 DEF TypeOK, SectionSteps
  <2> QED
    BY <2>4, <2>6 DEF CallInv
<1>13. CASE DownJoin \/ DownWait
  <2>1. /\ cs \in DownWorking /\ Working /\ DownGroupDone
        /\ UNCHANGED <<running, hash, keep_on, sched, threadState>>
    BY <1>13 DEF DownJoin, DownWait, Working, DownWorking
  <2>2. sem' \in [Groups -> Nat]
    BY <1>13, <1>t, <1>w, <2>1 DEF DownJoin, DownWait, TypeOK
  <2>3. CASE Both
    <3>1. DownReturn /\ open' \subseteq Ports /\ up' \subseteq Ports
      BY <1>t, <2>1, <2>3 DEF DownGroupDone, TypeOK
    <3> QED
      BY <1>r, <2>1, <2>2, <3>1
  <2>4. CASE ~Both
    <3>1. NextGroup("down") /\ UNCHANGED <<portState, ports>>
      BY <2>1, <2>4 DEF DownGroupDone
    <3>2. SectionInv' /\ (\A c \in Callers : CallsOf(c)') /\ grp' \in 0..(NumRx + NumTx)
      BY <1>n, <2>1, <3>1 DEF UpWorking, DownWorking
    <3>3. TypeOK'
      BY <1>t, <2>1, <2>2, <3>1, <3>2 DEF TypeOK, NextGroup, SectionSteps
    <3> QED
      BY <3>2, <3>3 DEF CallInv
  <2> QED
    BY <2>3, <2>4
<1>14. ASSUME NEW g \in Groups, ThreadStep(g) \/ ProcessPortTxError(g) PROVE CallInv'
  <2>1. UNCHANGED <<ports, running, keep_on, sched, portState, call, section>>
    BY <1>14 DEF ThreadStep, UpdateSize, UpdatePorts, UpdateHash, signal_as_synchronized,
       keep_on_working, EpollWait, ProcessPort, CheckHash, ProcessPortTxError
  <2>2. SectionInv' /\ \A c \in Callers : CallsOf(c)'
    BY <1>t, <2>1 DEF SectionInv, Working, CallsOf, port
  <2>3. TypeOK'
    <3>1. hash' \in [Groups -> 0..(HashSize - 1)] /\ errs' \in 0..TxErrors
      <4>1. CASE ProcessPortTxError(g)
        BY <1>t, <4>1, BumpChanges, HashAssumption DEF ProcessPortTxError, TypeOK
      <4>2. CASE ThreadStep(g)
        BY <1>t, <4>2 DEF ThreadStep, UpdateSize, UpdatePorts, UpdateHash,
           signal_as_synchronized, keep_on_working, EpollWait, ProcessPort, CheckHash, TypeOK
      <4> QED
        BY <1>14, <4>1, <4>2
    <3>2. sem' \in [Groups -> Nat]
      BY <1>14, <1>t DEF ThreadStep, UpdateSize, UpdatePorts, UpdateHash, signal_as_synchronized,
         keep_on_working, EpollWait, ProcessPort, CheckHash, ProcessPortTxError, TypeOK
    <3>3. tpc' \in [Groups -> {"none"} \cup ThreadSteps]
      BY <1>14, <1>t DEF ThreadStep, UpdateSize, UpdatePorts, UpdateHash, signal_as_synchronized,
         keep_on_working, EpollWait, ProcessPort, CheckHash, ProcessPortTxError, TypeOK, Goto,
         ThreadSteps
    <3>4. /\ tports' \in [Groups -> SUBSET Ports] /\ thash' \in [Groups -> 0..(HashSize - 1)]
          /\ tio' \in [Groups -> SUBSET Ports]
      BY <1>14, <1>t DEF ThreadStep, UpdateSize, UpdatePorts, UpdateHash, signal_as_synchronized,
         keep_on_working, EpollWait, ProcessPort, CheckHash, ProcessPortTxError, TypeOK
    <3> QED
      BY <1>t, <2>1, <3>1, <3>2, <3>3, <3>4 DEF TypeOK
  <2> QED
    BY <2>2, <2>3 DEF CallInv
<1> QED
  BY <1>1, <1>2, <1>3, <1>4, <1>5, <1>6, <1>7, <1>8, <1>9, <1>10, <1>11, <1>12, <1>13, <1>14
  DEF Next, Call, CallerStep

\* At the start nobody is in a call.
LEMMA CallInvInit == Init => CallInv
<1> SUFFICES ASSUME Init PROVE CallInv
  OBVIOUS
<1>1. TypeOK
  <2>1. /\ 0 \in 0..(NumRx + NumTx) /\ 0 \in RxGroups /\ 0 \in 0..(NumTx - 1)
        /\ 0 \in 0..(HashSize - 1) /\ 0 \in 0..TxErrors
    BY GroupAssumption, HashAssumption DEF RxGroups
  <2>2. /\ ports \in [Groups -> SUBSET Ports] /\ running \in [Groups -> SUBSET Ports]
        /\ tports \in [Groups -> SUBSET Ports] /\ tio \in [Groups -> SUBSET Ports]
    BY DEF Init
  <2>3. /\ hash \in [Groups -> 0..(HashSize - 1)] /\ sem \in [Groups -> Nat]
        /\ keep_on \in [Groups -> BOOLEAN] /\ thash \in [Groups -> 0..(HashSize - 1)]
        /\ tpc \in [Groups -> {"none"} \cup ThreadSteps]
    BY <2>1 DEF Init
  <2>4. op \in [Callers -> Ops] /\ arg \in [Callers -> Ports \cup {None}]
    BY DEF Init, Ops
  <2> QED
    BY <2>1, <2>2, <2>3, <2>4 DEF Init, TypeOK, SectionSteps
<1>2. SectionInv /\ \A c \in Callers : CallsOf(c)
  BY DEF Init, SectionInv, CallsOf, Working, UpWorking, DownWorking
<1> QED
  BY <1>1, <1>2 DEF CallInv

\* The groups, the callers and the threads always have values of their types.
THEOREM TypeCorrect == Spec => []TypeOK
<1>1. CallInv => TypeOK
  BY DEF CallInv
<1> QED
  BY <1>1, CallInvInit, CallInvNext, PTL DEF Spec

-----------------------------------------------------------------------------
(* The groups of the ports *)

\* The calls of the manager that are between two groups.
Between == {"add_rx", "add_tx", "remove_tx"}

\* What the manager is doing to its port.
SameCall == op'[Manager] = op[Manager] /\ arg'[Manager] = arg[Manager]

\* The call of somebody else, or of the manager, ends; no port moves.
LEMMA CallEnds ==
    ASSUME CallInv, cs # "free", EndCall(holder), op[holder] \in {"up", "down"}
    PROVE  \/ SameCall
           \/ op[Manager] \in {"up", "down"} /\ op'[Manager] = "idle"
<1>1. holder \in Callers /\ Manager \in Callers /\ TypeOK
  BY HolderCalls DEF Callers, CallInv
<1>2. op'[holder] = "idle" /\ \A b \in Callers \ {holder} : op'[b] = op[b] /\ arg'[b] = arg[b]
  BY <1>1, EndCallEffect
<1>3. CASE holder = Manager
  BY <1>2, <1>3
<1>4. CASE holder # Manager
  <2>1. Manager \in Callers \ {holder}
    BY <1>1, <1>4
  <2> QED
    BY <1>2, <2>1 DEF SameCall
<1> QED
  BY <1>3, <1>4

\* Which steps change what PlaceInv is about, and how.
LEMMA PlaceSteps ==
    ASSUME CallInv, [Next]_vars
    PROVE  \/ UNCHANGED <<ports, attached>> /\ SameCall
           \/ /\ UNCHANGED <<ports, attached>>
              /\ op[Manager] \in {"up", "down"} /\ op'[Manager] = "idle"
           \/ /\ UNCHANGED <<ports, attached>>
              /\ op[Manager] = "idle" /\ op'[Manager] \in {"remove_rx", "up", "down"}
              /\ arg'[Manager] \in attached
           \/ \E q \in Ports \ attached :
                 /\ op[Manager] = "idle" /\ op'[Manager] = "add_rx" /\ arg'[Manager] = q
                 /\ attached' = attached \cup {q} /\ ports' = ports
           \/ AddRx /\ op'[Manager] = "add_tx" /\ arg'[Manager] = arg[Manager]
           \/ AddTx /\ op'[Manager] = "idle"
           \/ /\ op[Manager] = "remove_rx" /\ ports' = Without(RxGroups, arg[Manager])
              /\ op'[Manager] = "remove_tx" /\ arg'[Manager] = arg[Manager]
              /\ attached' = attached
           \/ /\ op[Manager] = "remove_tx" /\ ports' = Without(TxGroups, arg[Manager])
              /\ op'[Manager] = "idle" /\ attached' = attached \ {arg[Manager]}
<1> DEFINE Goal == \/ UNCHANGED <<ports, attached>> /\ SameCall
                   \/ /\ UNCHANGED <<ports, attached>>
                      /\ op[Manager] \in {"up", "down"} /\ op'[Manager] = "idle"
                   \/ /\ UNCHANGED <<ports, attached>>
                      /\ op[Manager] = "idle" /\ op'[Manager] \in {"remove_rx", "up", "down"}
                      /\ arg'[Manager] \in attached
                   \/ \E q \in Ports \ attached :
                         /\ op[Manager] = "idle" /\ op'[Manager] = "add_rx" /\ arg'[Manager] = q
                         /\ attached' = attached \cup {q} /\ ports' = ports
                   \/ AddRx /\ op'[Manager] = "add_tx" /\ arg'[Manager] = arg[Manager]
                   \/ AddTx /\ op'[Manager] = "idle"
                   \/ /\ op[Manager] = "remove_rx" /\ ports' = Without(RxGroups, arg[Manager])
                      /\ op'[Manager] = "remove_tx" /\ arg'[Manager] = arg[Manager]
                      /\ attached' = attached
                   \/ /\ op[Manager] = "remove_tx" /\ ports' = Without(TxGroups, arg[Manager])
                      /\ op'[Manager] = "idle" /\ attached' = attached \ {arg[Manager]}
<1> SUFFICES Goal
  OBVIOUS
<1>t. TypeOK /\ SectionInv /\ Manager \in Callers
  BY DEF CallInv, Callers
<1> USE DEF groupState, sched, portState, call, section, threadState
<1>1. CASE UNCHANGED vars
  BY <1>1 DEF SameCall, vars
<1>2. ASSUME NEW q \in Ports, Attach(q) PROVE Goal
  BY <1>2, <1>t DEF Attach, Begin, Idle, TypeOK
<1>3. ASSUME NEW q \in Ports, Detach(q) \/ BringPort(q) PROVE Goal
  <2>1. /\ op[Manager] = "idle" /\ q \in attached
        /\ Begin(Manager, "remove_rx", q) \/ Begin(Manager, "up", q) \/ Begin(Manager, "down", q)
        /\ UNCHANGED portState
    BY <1>3 DEF Detach, BringPort, remove_port, Idle
  <2>2. op'[Manager] \in {"remove_rx", "up", "down"} /\ arg'[Manager] = q /\ ports' = ports
    BY <1>t, <2>1 DEF Begin, TypeOK
  <2> QED
    BY <2>1, <2>2
<1>4. ASSUME NEW c \in Others, NEW q \in Ports, update_port_status(c, q) PROVE Goal
  BY <1>4, <1>t, CallerAssumption DEF update_port_status, Begin, SameCall, TypeOK
<1>5. ASSUME NEW q \in Ports, BringUnattachedUp(q) \/ BringUnattachedDown(q) PROVE Goal
  BY <1>5 DEF BringUnattachedUp, BringUnattachedDown, SameCall
<1>6. CASE AddRx
  BY <1>6, <1>t DEF AddRx, TypeOK
<1>7. CASE AddTx
  <2>1. op'[Manager] = "idle"
    BY <1>7, <1>t, EndCallEffect DEF AddTx
  <2> QED
    BY <1>7, <2>1
<1>8. ASSUME NEW c \in Callers, Lock(c) PROVE Goal
  BY <1>8 DEF Lock, SameCall
<1>9. ASSUME cs # "free", EndCall(holder), op[holder] \in {"up", "down"}, UNCHANGED <<ports, attached>>
      PROVE  Goal
  BY <1>9, CallEnds
<1>10. CASE UpNotFound \/ UpAlready
  <2>1. /\ cs = "up" /\ cs # "free" /\ EndCall(holder) /\ UNCHANGED <<ports, attached>>
    BY <1>10 DEF UpNotFound, UpAlready
  <2>2. op[holder] \in {"up", "down"}
    BY <1>t, <2>1 DEF SectionInv
  <2> QED
    BY <1>9, <2>1, <2>2
<1>11. CASE UpStartThread \/ UpAddRunning \/ UpHash \/ DownHash \/ DownStop \/ DownErase
  BY <1>11 DEF UpStartThread, UpAddRunning, UpHash, DownHash, DownStop, DownErase, SameCall
<1>12. CASE UpWait
  <2>1. cs = "up_wait" /\ cs # "free" /\ UNCHANGED <<ports, attached>>
    BY <1>12 DEF UpWait
  <2>2. op[holder] \in {"up", "down"}
    BY <1>t, <2>1 DEF SectionInv, UpWorking
  <2>3. EndCall(holder) \/ SameCall
    BY <1>12 DEF UpWait, NextGroup, SameCall
  <2> QED
    BY <1>9, <2>1, <2>2, <2>3
<1>13. ASSUME DownReturn, cs \in DownWorking \cup {"down"} PROVE Goal
  <2>1. \/ op[holder] = "down" /\ EndCall(holder) /\ UNCHANGED <<ports, attached>>
        \/ /\ op[holder] = "remove_rx" /\ holder = Manager
           /\ ports' = Without(RxGroups, port)
           /\ op' = [op EXCEPT ![Manager] = "remove_tx"] /\ UNCHANGED <<arg, attached>>
        \/ /\ op[holder] = "remove_tx" /\ holder = Manager
           /\ ports' = Without(TxGroups, port)
           /\ attached' = attached \ {port} /\ EndCall(Manager)
    BY <1>13, DownReturnEffect
  <2>2. cs # "free"
    BY <1>13 DEF DownWorking
  <2>3. CASE op[holder] = "down"
    BY <1>9, <2>1, <2>2, <2>3
  <2>4. CASE op[holder] = "remove_rx"
    BY <1>t, <2>1, <2>4 DEF port, TypeOK
  <2>5. CASE op[holder] = "remove_tx"
    <3>1. EndCall(Manager)
      BY <2>1, <2>5
    <3>2. op'[Manager] = "idle"
      BY <1>t, <3>1, EndCallEffect
    <3> QED
      BY <2>1, <2>5, <3>2 DEF port
  <2> QED
    BY <2>1, <2>3, <2>4, <2>5
<1>14. CASE DownNotFound
  BY <1>13, <1>14 DEF DownNotFound
<1>15. CASE DownJoin \/ DownWait
  <2>1. cs \in DownWorking /\ DownGroupDone
    BY <1>15 DEF DownJoin, DownWait, DownWorking
  <2>2. DownReturn \/ (SameCall /\ UNCHANGED <<ports, attached>>)
    BY <2>1 DEF DownGroupDone, NextGroup, SameCall
  <2>3. CASE DownReturn
    BY <1>13, <2>1, <2>3
  <2>4. CASE SameCall /\ UNCHANGED <<ports, attached>>
    BY <2>4
  <2> QED
    BY <2>2, <2>3, <2>4
<1>16. ASSUME NEW g \in Groups, ThreadStep(g) \/ ProcessPortTxError(g) PROVE Goal
  BY <1>16 DEF ThreadStep, UpdateSize, UpdatePorts, UpdateHash, signal_as_synchronized,
     keep_on_working, EpollWait, ProcessPort, CheckHash, ProcessPortTxError, SameCall
<1> HIDE DEF Goal
<1> QED
  BY <1>1, <1>2, <1>3, <1>4, <1>5, <1>6, <1>7, <1>8, <1>10, <1>11, <1>12, <1>14, <1>15, <1>16
  DEF Next, Call, CallerStep

\* Every step keeps PlaceInv.
LEMMA PlaceInvNext == CallInv /\ PlaceInv /\ [Next]_vars => PlaceInv'
<1> SUFFICES ASSUME CallInv, PlaceInv, [Next]_vars PROVE PlaceInv'
  OBVIOUS
<1>t. TypeOK /\ (op[Manager] # "idle" => arg[Manager] \in Ports)
  BY DEF CallInv, CallsOf, Callers
<1>g. RxGroups \subseteq Groups /\ TxGroups \subseteq Groups /\ RxGroups \cap TxGroups = {}
  BY GroupIds DEF Groups
<1>p. /\ op[Manager] # "idle" => arg[Manager] \in attached
      /\ \A q \in Ports :
            /\ InRx(q) <=> q \in attached /\ ~(op[Manager] \in {"add_rx", "remove_tx"} /\ q = arg[Manager])
            /\ InTx(q) <=> q \in attached /\ ~(op[Manager] \in {"add_rx", "add_tx"} /\ q = arg[Manager])
      /\ OnePerType
  BY DEF PlaceInv
\* No port is moved.
<1>s. ASSUME ports' = ports PROVE OnePerType' /\ \A q \in Ports : InRx(q)' = InRx(q) /\ InTx(q)' = InTx(q)
  BY <1>s, <1>p DEF OnePerType, InRx, InTx
<1>1. CASE UNCHANGED <<ports, attached>> /\ SameCall
  BY <1>1, <1>p, <1>s DEF PlaceInv, SameCall
<1>2. CASE UNCHANGED <<ports, attached>> /\ op[Manager] \in {"up", "down"} /\ op'[Manager] = "idle"
  BY <1>2, <1>p, <1>s DEF PlaceInv
<1>3. CASE /\ UNCHANGED <<ports, attached>>
           /\ op[Manager] = "idle" /\ op'[Manager] \in {"remove_rx", "up", "down"}
           /\ arg'[Manager] \in attached
  BY <1>3, <1>p, <1>s DEF PlaceInv
<1>4. CASE \E q \in Ports \ attached :
              /\ op[Manager] = "idle" /\ op'[Manager] = "add_rx" /\ arg'[Manager] = q
              /\ attached' = attached \cup {q} /\ ports' = ports
  <2>1. PICK q \in Ports \ attached :
              /\ op[Manager] = "idle" /\ op'[Manager] = "add_rx" /\ arg'[Manager] = q
              /\ attached' = attached \cup {q} /\ ports' = ports
    BY <1>4
  <2> QED
    BY <1>p, <1>s, <2>1 DEF PlaceInv
\* The manager's port is put into group n, of one type.
<1>a. ASSUME NEW n \in Groups, NEW q \in Ports, ports' = [ports EXCEPT ![n] = @ \cup {q}]
      PROVE  \A g \in Groups : ports'[g] = IF g = n THEN ports[g] \cup {q} ELSE ports[g]
  BY <1>a, <1>t DEF TypeOK
<1>5. CASE AddRx /\ op'[Manager] = "add_tx" /\ arg'[Manager] = arg[Manager]
  <2> DEFINE a == arg[Manager]
  <2>1. /\ op[Manager] = "add_rx" /\ ports' = [ports EXCEPT ![next_rx] = @ \cup {a}]
        /\ attached' = attached /\ next_rx \in RxGroups /\ a \in Ports /\ a \in attached
    BY <1>5, <1>t, <1>p DEF AddRx, TypeOK, portState
  <2>2. \A g \in Groups : ports'[g] = IF g = next_rx THEN ports[g] \cup {a} ELSE ports[g]
    BY <1>a, <1>g, <2>1
  <2> HIDE DEF a
  <2>3. ~InRx(a)
    BY <1>p, <2>1 DEF a
  <2>4. \A q \in Ports : InRx(q)' <=> InRx(q) \/ q = a
    BY <1>g, <2>1, <2>2 DEF InRx
  <2>5. \A q \in Ports : InTx(q)' <=> InTx(q)
    BY <1>g, <2>1, <2>2 DEF InTx
  <2>6. OnePerType'
    BY <1>g, <1>p, <2>1, <2>2, <2>3 DEF OnePerType, InRx
  <2> QED
    BY <1>5, <1>p, <2>1, <2>4, <2>5, <2>6 DEF PlaceInv, a
<1>6. CASE AddTx /\ op'[Manager] = "idle"
  <2> DEFINE a == arg[Manager]
             n == next_tx + NumRx
  <2>1. /\ op[Manager] = "add_tx" /\ ports' = [ports EXCEPT ![n] = @ \cup {a}]
        /\ attached' = attached /\ a \in Ports /\ a \in attached
    BY <1>6, <1>t, <1>p DEF AddTx, TypeOK, portState
  <2>n. n \in TxGroups
    BY <1>t, GroupAssumption DEF TypeOK, TxGroups
  <2> HIDE DEF n
  <2>2. \A g \in Groups : ports'[g] = IF g = n THEN ports[g] \cup {a} ELSE ports[g]
    BY <1>a, <1>g, <2>1, <2>n
  <2> HIDE DEF a
  <2>3. ~InTx(a)
    BY <1>p, <2>1 DEF a
  <2>4. \A q \in Ports : InTx(q)' <=> InTx(q) \/ q = a
    BY <1>g, <2>n, <2>2 DEF InTx
  <2>5. \A q \in Ports : InRx(q)' <=> InRx(q)
    BY <1>g, <2>n, <2>2 DEF InRx
  <2>6. OnePerType'
    <3>1. \A g, h \in RxGroups : g # h => ports'[g] \cap ports'[h] = {}
      BY <1>g, <1>p, <2>n, <2>2 DEF OnePerType
    <3>2. \A g \in TxGroups : a \notin ports[g]
      BY <2>3 DEF InTx
    <3>3. \A g, h \in TxGroups : g # h => ports'[g] \cap ports'[h] = {}
      <4> SUFFICES ASSUME NEW g \in TxGroups, NEW h \in TxGroups, g # h
                   PROVE  ports'[g] \cap ports'[h] = {}
        OBVIOUS
      <4>1. ports[g] \cap ports[h] = {} /\ a \notin ports[g] /\ a \notin ports[h]
        BY <1>p, <3>2 DEF OnePerType
      <4>2. ports'[g] \subseteq ports[g] \cup {a} /\ ports'[h] \subseteq ports[h] \cup {a}
        BY <1>g, <2>2
      <4>3. ports'[g] = ports[g] \/ ports'[h] = ports[h]
        BY <1>g, <2>2
      <4> QED
        BY <4>1, <4>2, <4>3
    <3> QED
      BY <3>1, <3>3 DEF OnePerType
  <2> QED
    BY <1>6, <1>p, <2>1, <2>4, <2>5, <2>6 DEF PlaceInv, a
<1>7. CASE /\ op[Manager] = "remove_rx" /\ ports' = Without(RxGroups, arg[Manager])
           /\ op'[Manager] = "remove_tx" /\ arg'[Manager] = arg[Manager] /\ attached' = attached
  <2> DEFINE a == arg[Manager]
  <2>1. \A g \in Groups : ports'[g] = IF g \in RxGroups THEN ports[g] \ {a} ELSE ports[g]
    BY <1>7 DEF Without
  <2> HIDE DEF a
  <2>2. \A q \in Ports : InRx(q)' <=> InRx(q) /\ q # a
    BY <1>g, <2>1 DEF InRx
  <2>3. \A q \in Ports : InTx(q)' <=> InTx(q)
    BY <1>g, <2>1 DEF InTx
  <2>4. OnePerType'
    BY <1>g, <1>p, <2>1 DEF OnePerType
  <2> QED
    BY <1>7, <1>p, <2>2, <2>3, <2>4 DEF PlaceInv, a
<1>8. CASE /\ op[Manager] = "remove_tx" /\ ports' = Without(TxGroups, arg[Manager])
           /\ op'[Manager] = "idle" /\ attached' = attached \ {arg[Manager]}
  <2> DEFINE a == arg[Manager]
  <2>1. \A g \in Groups : ports'[g] = IF g \in TxGroups THEN ports[g] \ {a} ELSE ports[g]
    BY <1>8 DEF Without
  <2> HIDE DEF a
  <2>2. \A q \in Ports : InTx(q)' <=> InTx(q) /\ q # a
    BY <1>g, <2>1 DEF InTx
  <2>3. \A q \in Ports : InRx(q)' <=> InRx(q)
    BY <1>g, <2>1 DEF InRx
  <2>4. OnePerType'
    BY <1>g, <1>p, <2>1 DEF OnePerType
  <2> QED
    BY <1>8, <1>p, <2>2, <2>3, <2>4 DEF PlaceInv, a
<1> QED
  BY <1>1, <1>2, <1>3, <1>4, <1>5, <1>6, <1>7, <1>8, PlaceSteps

\* At the start no port is attached and the groups are empty.
LEMMA PlaceInvInit == Init => PlaceInv
<1> SUFFICES ASSUME Init PROVE PlaceInv
  OBVIOUS
<1>1. Manager \in Callers /\ RxGroups \subseteq Groups /\ TxGroups \subseteq Groups
  BY DEF Callers, Groups
<1>2. op[Manager] = "idle" /\ attached = {} /\ \A g \in Groups : ports[g] = {}
  BY <1>1 DEF Init
<1> QED
  BY <1>1, <1>2 DEF PlaceInv, InRx, InTx, OnePerType

\* The assertions of add_port_to_group and of remove_port never fail: a port
\* that is added is in no group of that type, one that is removed is in one.
THEOREM AssertsHold == Spec => []GroupAsserts
<1>1. CallInv /\ PlaceInv => GroupAsserts
  BY DEF CallInv, CallsOf, Callers, PlaceInv, InRx, InTx, GroupAsserts
<1> QED
  BY <1>1, CallInvInit, CallInvNext, PlaceInvInit, PlaceInvNext, PTL DEF Spec

-----------------------------------------------------------------------------
(* The running ports *)

\* A call of somebody who does not have the mutex leaves the owner's port alone.
LEMMA BeginElsewhere ==
    ASSUME CallInv, NEW c \in Callers, op[c] = "idle", cs # "free", NEW what, NEW q, Begin(c, what, q)
    PROVE  port' = port
<1>1. holder \in Callers /\ holder # c
  BY HolderCalls
<1>2. holder' = holder /\ arg' = [arg EXCEPT ![c] = q]
  BY DEF Begin, section
<1> QED
  BY <1>1, <1>2 DEF CallInv, TypeOK, port

\* When both types of groups are done no group runs the port any more.
LEMMA BothDone ==
    ASSUME CallInv, PlaceInv, RunInv, cs \in DownWorking
    PROVE  /\ rx \/ grp \in RxGroups => \A g \in RxGroups : port \notin running[g]
           /\ tx \/ grp \in TxGroups => \A g \in TxGroups : port \notin running[g]
<1>1. /\ port \in ports[grp] /\ port \notin running[grp]
      /\ rx => \A g \in RxGroups : port \notin running[g]
      /\ tx => \A g \in TxGroups : port \notin running[g]
  BY DEF RunInv
<1>2. OnePerType /\ \A g \in Groups : running[g] \subseteq ports[g]
  BY DEF PlaceInv, RunInv
<1>3. ASSUME grp \in RxGroups, NEW g \in RxGroups PROVE port \notin running[g]
  BY <1>1, <1>2, <1>3 DEF OnePerType, Groups
<1>4. ASSUME grp \in TxGroups, NEW g \in TxGroups PROVE port \notin running[g]
  BY <1>1, <1>2, <1>4 DEF OnePerType, Groups
<1> QED
  BY <1>1, <1>3, <1>4

\* Every step keeps RunInv.
LEMMA RunInvNext == CallInv /\ PlaceInv /\ RunInv /\ [Next]_vars => RunInv'
<1> SUFFICES ASSUME CallInv, PlaceInv, RunInv, [Next]_vars PROVE RunInv'
  OBVIOUS
<1>t. TypeOK /\ SectionInv
  BY DEF CallInv
<1>r. /\ \A g \in Groups : running[g] \subseteq ports[g] \cap open
      /\ cs \in UpWorking => port \in running[grp]
      /\ cs \in UpWorking \cup {"up"} /\ (rx \/ tx) => \E g \in Groups : port \in running[g]
      /\ cs \in DownWorking => port \in ports[grp] \cap open /\ port \notin running[grp]
      /\ cs \in DownWorking \cup {"down"} =>
            /\ \A g \in Groups : g < grp => port \notin running[g]
            /\ rx => \A g \in RxGroups : port \notin running[g]
            /\ tx => \A g \in TxGroups : port \notin running[g]
  BY DEF RunInv
<1> USE DEF groupState, sched, portState, call, section, threadState
\* The owner of the mutex does nothing to the running ports.
<1>s. ASSUME UNCHANGED <<ports, running, grp, rx, tx>>, cs # "free" => port' = port, open \subseteq open',
             cs' = cs \/ (cs = "up_hash" /\ cs' = "up_wait") \/ (cs \in DownWorking /\ cs' \in DownWorking)
      PROVE  RunInv'
  <2>1. CASE cs' = "free"
    BY <1>r, <1>s, <2>1 DEF RunInv, UpWorking, DownWorking
  <2>2. CASE cs' # "free"
    <3>1. /\ cs # "free" /\ port' = port
          /\ cs' \in UpWorking <=> cs \in UpWorking
          /\ cs' \in UpWorking \cup {"up"} <=> cs \in UpWorking \cup {"up"}
          /\ cs' \in DownWorking <=> cs \in DownWorking
          /\ cs' \in DownWorking \cup {"down"} <=> cs \in DownWorking \cup {"down"}
      BY <1>s, <2>2 DEF UpWorking, DownWorking
    <3> QED
      BY <1>r, <1>s, <3>1 DEF RunInv
  <2> QED
    BY <2>1, <2>2
\* The mutex is free after the step.
<1>f. ASSUME cs' = "free", \A g \in Groups : running'[g] \subseteq ports'[g] \cap open' PROVE RunInv'
  BY <1>f DEF RunInv, UpWorking, DownWorking
<1>1. CASE UNCHANGED vars
  <2>1. UNCHANGED <<ports, running, grp, rx, tx, cs, open>> /\ port' = port
    BY <1>1 DEF vars, port
  <2> QED
    BY <1>s, <2>1
<1>2. ASSUME NEW q \in Ports, Attach(q) \/ Detach(q) \/ BringPort(q) PROVE RunInv'
  <2>1. /\ op[Manager] = "idle" /\ UNCHANGED <<open, ports, running, grp, rx, tx, cs>>
        /\ \/ Begin(Manager, "add_rx", q) \/ Begin(Manager, "remove_rx", q)
           \/ Begin(Manager, "up", q) \/ Begin(Manager, "down", q)
    BY <1>2 DEF Attach, Detach, BringPort, remove_port, Idle, Begin
  <2>2. cs # "free" => port' = port
    BY <2>1, BeginElsewhere DEF Callers
  <2> QED
    BY <1>s, <2>1, <2>2
<1>3. ASSUME NEW c \in Others, NEW q \in Ports, update_port_status(c, q) PROVE RunInv'
  <2>1. /\ op[c] = "idle" /\ UNCHANGED <<open, ports, running, grp, rx, tx, cs>>
        /\ Begin(c, "up", q) \/ Begin(c, "down", q)
    BY <1>3 DEF update_port_status, Idle, Begin
  <2>2. cs # "free" => port' = port
    BY <2>1, BeginElsewhere DEF Callers
  <2> QED
    BY <1>s, <2>1, <2>2
<1>4. ASSUME NEW q \in Ports, BringUnattachedUp(q) PROVE RunInv'
  <2>1. UNCHANGED <<ports, running, grp, rx, tx, cs>> /\ port' = port /\ open \subseteq open'
    BY <1>4 DEF BringUnattachedUp, port
  <2> QED
    BY <1>s, <2>1
<1>5. ASSUME NEW q \in Ports, BringUnattachedDown(q) PROVE RunInv'
  <2>1. /\ q \notin attached /\ open' = open \ {q}
        /\ UNCHANGED <<ports, running, grp, rx, tx, cs>> /\ port' = port
    BY <1>5 DEF BringUnattachedDown, port
  <2>2. \A g \in Groups : q \notin ports[g]
    BY <2>1 DEF PlaceInv, InRx, InTx, Groups
  <2>3. cs \in DownWorking => grp \in Groups
    BY <1>t DEF SectionInv, Working
  <2>4. /\ \A g \in Groups : running'[g] \subseteq ports'[g] \cap open'
        /\ cs \in DownWorking => port \in ports[grp] \cap open'
    BY <1>r, <2>1, <2>2, <2>3
  <2> QED
    BY <1>r, <2>1, <2>4 DEF RunInv
<1>6. CASE AddRx \/ AddTx
  <2>1. /\ cs' = "free" /\ UNCHANGED <<running, open>>
        /\ \/ ports' = [ports EXCEPT ![next_rx] = @ \cup {arg[Manager]}]
           \/ ports' = [ports EXCEPT ![next_tx + NumRx] = @ \cup {arg[Manager]}]
    BY <1>6, <1>t DEF AddRx, AddTx, SectionInv
  <2>2. \A g \in Groups : ports[g] \subseteq ports'[g]
    BY <1>t, <2>1 DEF TypeOK
  <2> QED
    BY <1>f, <1>r, <2>1, <2>2
<1>7. ASSUME NEW c \in Callers, Lock(c) PROVE RunInv'
  <2>1. /\ cs' \in {"up", "down"} /\ grp' = 0 /\ ~rx' /\ ~tx'
        /\ UNCHANGED <<ports, running, open>>
    BY <1>7, <1>t DEF Lock, SectionInv
  <2>2. \A g \in Groups : ~(g < 0)
    BY GroupIds
  <2> QED
    BY <1>r, <2>1, <2>2 DEF RunInv, UpWorking, DownWorking
<1>8. CASE UpNotFound \/ UpAlready
  <2>1. cs' = "free" /\ UNCHANGED <<ports, running, open>>
    BY <1>8 DEF UpNotFound, UpAlready, Release
  <2> QED
    BY <1>f, <1>r, <2>1
<1>9. CASE UpStartThread \/ UpAddRunning
  <2> DEFINE g == Min(Contains(ports))
  <2>1. g \in Groups /\ port \in ports[g]
    BY <1>9, FirstGroup DEF UpStartThread, UpAddRunning, Contains
  <2>2. /\ cs = "up" /\ grp' = g /\ cs' \in UpWorking /\ UNCHANGED <<ports, rx, tx>> /\ port' = port
        /\ running' = [running EXCEPT ![g] = @ \cup {port}]
    <3>1. CASE UpStartThread
      <4>1. running[g] = {} /\ running' = [running EXCEPT ![g] = {port}]
        BY <3>1 DEF UpStartThread
      <4> HIDE DEF g
      <4>2. running' = [running EXCEPT ![g] = @ \cup {port}]
        BY <1>t, <2>1, <4>1 DEF TypeOK
      <4> QED
        BY <3>1, <4>2 DEF UpStartThread, UpWorking, port, g
    <3>2. CASE UpAddRunning
      BY <3>2 DEF UpAddRunning, UpWorking, port
    <3> QED
      BY <1>9, <3>1, <3>2
  <2>3. OpenFirst
    BY <1>9 DEF UpStartThread, UpAddRunning
  <2> HIDE DEF g
  <2>4. open \subseteq open' /\ port \in open'
    <3>1. CASE ~rx /\ ~tx
      BY <2>3, <3>1 DEF OpenFirst
    <3>2. CASE rx \/ tx
      <4>1. PICK h \in Groups : port \in running[h]
        BY <1>r, <2>2, <3>2
      <4> QED
        BY <1>r, <2>3, <3>2, <4>1 DEF OpenFirst
    <3> QED
      BY <1>t, <3>1, <3>2 DEF TypeOK
  <2>5. \A h \in Groups : running'[h] = IF h = g THEN running[h] \cup {port} ELSE running[h]
    BY <1>t, <2>1, <2>2 DEF TypeOK
  <2>6. \A h \in Groups : running'[h] \subseteq ports'[h] \cap open'
    BY <1>r, <2>1, <2>2, <2>4, <2>5
  <2>7. port \in running'[g] /\ cs' \notin DownWorking \cup {"down"}
    BY <2>1, <2>2, <2>5 DEF UpWorking, DownWorking
  <2> QED
    BY <2>1, <2>2, <2>6, <2>7 DEF RunInv, DownWorking
<1>10. CASE UpHash
  <2>1. cs = "up_hash" /\ cs' = "up_wait" /\ UNCHANGED <<ports, running, grp, rx, tx, open>> /\ port' = port
    BY <1>10 DEF UpHash, port
  <2> QED
    BY <1>s, <2>1
<1>11. CASE UpWait
  <2>1. /\ cs \in UpWorking /\ UNCHANGED <<ports, running, open>>
        /\ Release \/ NextGroup("up")
    BY <1>11 DEF UpWait, UpWorking
  <2>2. CASE Release
    <3>1. cs' = "free"
      BY <2>2 DEF Release
    <3> QED
      BY <1>f, <1>r, <2>1, <3>1
  <2>3. CASE NextGroup("up")
    <3>1. cs' = "up" /\ port' = port
      BY <2>3 DEF NextGroup, port
    <3>2. grp \in Groups /\ port \in running[grp]
      BY <1>r, <1>t, <2>1 DEF SectionInv, Working
    <3> QED
      BY <1>r, <2>1, <3>1, <3>2 DEF RunInv, UpWorking, DownWorking
  <2> QED
    BY <2>1, <2>2, <2>3
<1>12. CASE DownHash \/ DownStop
  <2>1. /\ cs \in DownWorking /\ cs' \in DownWorking /\ port' = port
        /\ UNCHANGED <<ports, running, grp, rx, tx, open>>
    BY <1>12 DEF DownHash, DownStop, DownWorking, port
  <2> QED
    BY <1>s, <2>1
\* bring_port_down is over: no group runs the port.
<1>d. ASSUME DownReturn, cs \in DownWorking \cup {"down"}, UNCHANGED running,
             \A g \in Groups : port \notin running[g], open \ {port} \subseteq open'
      PROVE  RunInv'
  <2>1. cs' = "free"
    BY <1>d DEF DownReturn, Release
  <2>2. ports' = ports \/ ports' = Without(RxGroups, port) \/ ports' = Without(TxGroups, port)
    BY <1>d, DownReturnEffect
  <2>3. \A g \in Groups : ports[g] \ {port} \subseteq ports'[g]
    BY <2>2 DEF Without
  <2>4. \A g \in Groups : running'[g] \subseteq ports'[g] \cap open'
    BY <1>d, <1>r, <2>3
  <2> QED
    BY <1>f, <2>1, <2>4
<1>13. CASE DownNotFound
  <2>1. cs = "down" /\ DownReturn /\ UNCHANGED <<running, open>> /\ Contains(running) = {}
    BY <1>13 DEF DownNotFound
  <2>2. \A g \in Groups : port \notin running[g]
    <3>1. \A g \in Groups : g >= grp => port \notin running[g]
      BY <2>1 DEF Contains
    <3>2. \A g \in Groups : g < grp \/ g >= grp
      BY <1>t, GroupIds, GroupAssumption DEF TypeOK
    <3> QED
      BY <1>r, <2>1, <3>1, <3>2
  <2> QED
    BY <1>d, <2>1, <2>2
<1>14. CASE DownErase
  <2> DEFINE g == Min(Contains(running))
  <2>1. /\ g \in Contains(running) /\ \A h \in Contains(running) : g <= h
    <3>1. Contains(running) \subseteq Groups /\ Contains(running) # {}
      BY <1>14 DEF DownErase, Contains
    <3> QED
      BY <3>1, FirstGroup
  <2>2. /\ cs = "down" /\ grp' = g /\ cs' = "down_hash" /\ UNCHANGED <<ports, rx, tx, open>> /\ port' = port
        /\ running' = [running EXCEPT ![g] = @ \ {port}]
    BY <1>14 DEF DownErase, port
  <2> HIDE DEF g
  <2>3. g \in Groups /\ port \in running[g]
    BY <2>1 DEF Contains
  <2>4. \A h \in Groups : running'[h] = IF h = g THEN running[h] \ {port} ELSE running[h]
    BY <1>t, <2>2, <2>3 DEF TypeOK
  <2>5. \A h \in Groups : h < g => port \notin running[h]
    <3> SUFFICES ASSUME NEW h \in Groups, h < g, port \in running[h] PROVE FALSE
      OBVIOUS
    <3>1. h >= grp
      BY <1>r, <1>t, <2>2, GroupIds, GroupAssumption DEF TypeOK
    <3>2. g <= h
      BY <2>1, <3>1 DEF Contains
    <3> QED
      BY <2>3, <3>2, GroupIds
  <2>6. \A h \in Groups : running'[h] \subseteq ports'[h] \cap open'
    BY <1>r, <2>2, <2>4
  <2>7. port \in ports[g] \cap open /\ port \notin running'[g]
    BY <1>r, <2>3, <2>4
  <2>8. /\ \A h \in Groups : h < g => port \notin running'[h]
        /\ rx => \A h \in RxGroups : port \notin running'[h]
        /\ tx => \A h \in TxGroups : port \notin running'[h]
    BY <1>r, <2>2, <2>4, <2>5 DEF Groups
  <2>9. cs' \notin UpWorking \cup {"up"}
    BY <2>2 DEF UpWorking
  <2> QED
    BY <2>2, <2>6, <2>7, <2>8, <2>9 DEF RunInv
<1>15. CASE DownJoin \/ DownWait
  <2>1. cs \in DownWorking /\ DownGroupDone /\ UNCHANGED running
    BY <1>15 DEF DownJoin, DownWait, DownWorking
  <2>2. /\ rx \/ grp \in RxGroups => \A g \in RxGroups : port \notin running[g]
        /\ tx \/ grp \in TxGroups => \A g \in TxGroups : port \notin running[g]
    BY <2>1, BothDone
  <2>3. CASE Both
    <3>1. \A g \in Groups : port \notin running[g]
      BY <2>2, <2>3 DEF Both, Groups
    <3>2. DownReturn /\ open' = open \ {port}
      BY <2>1, <2>3 DEF DownGroupDone
    <3> QED
      BY <1>d, <2>1, <3>1, <3>2
  <2>4. CASE ~Both
    <3>1. NextGroup("down") /\ UNCHANGED <<open, ports>>
      BY <2>1, <2>4 DEF DownGroupDone
    <3>2. /\ cs' = "down" /\ port' = port /\ grp' = grp + 1
          /\ rx' = (rx \/ grp \in RxGroups) /\ tx' = (tx \/ grp \in TxGroups)
      BY <3>1 DEF NextGroup, port
    <3>3. \A g \in Groups : g < grp + 1 => port \notin running[g]
      <4>1. \A g \in Groups : g < grp + 1 => g < grp \/ g = grp
        BY <1>t, GroupIds, GroupAssumption DEF TypeOK
      <4> QED
        BY <1>r, <2>1, <4>1
    <3>4. cs' \notin DownWorking /\ cs' \notin UpWorking \cup {"up"}
      BY <3>2 DEF UpWorking, DownWorking
    <3> QED
      BY <1>r, <2>1, <2>2, <3>1, <3>2, <3>3, <3>4 DEF RunInv
  <2> QED
    BY <2>3, <2>4
<1>16. ASSUME NEW g \in Groups, ThreadStep(g) \/ ProcessPortTxError(g) PROVE RunInv'
  <2>1. UNCHANGED <<ports, running, open, arg, holder, cs, grp, rx, tx>>
    BY <1>16 DEF ThreadStep, UpdateSize, UpdatePorts, UpdateHash, signal_as_synchronized,
       keep_on_working, EpollWait, ProcessPort, CheckHash, ProcessPortTxError
  <2>2. port' = port
    BY <2>1 DEF port
  <2> QED
    BY <1>s, <2>1, <2>2
<1> QED
  BY <1>1, <1>2, <1>3, <1>4, <1>5, <1>6, <1>7, <1>8, <1>9, <1>10, <1>11, <1>12, <1>13, <1>14,
     <1>15, <1>16 DEF Next, Call, CallerStep

\* At the start no port is running.
LEMMA RunInvInit == Init => RunInv
BY DEF Init, RunInv, UpWorking, DownWorking

-----------------------------------------------------------------------------
(* The I/O threads *)

\* Nothing of group g and its thread changes.
SameGroup(g) ==
    /\ running'[g] = running[g] /\ hash'[g] = hash[g] /\ sem'[g] = sem[g] /\ keep_on'[g] = keep_on[g]
    /\ tpc'[g] = tpc[g] /\ tports'[g] = tports[g] /\ thash'[g] = thash[g] /\ tio'[g] = tio[g]

\* The owner of the mutex does not go on.
SameStep == UNCHANGED <<cs, grp>> /\ (cs # "free" => port' = port)

\* A group stays in step while neither it nor the owner of the mutex goes on.
LEMMA StaysInStep ==
    ASSUME NEW g \in Groups, InStep(g), SameGroup(g), SameStep
    PROVE  InStep(g)'
<1>1. tio'[g] \subseteq tports'[g] /\ (tpc'[g] # "io" => tio'[g] = {})
  BY DEF InStep, SameGroup
<1>2. CASE Working /\ g = grp
  <2>1. Changing(g) /\ port' = port /\ Working' /\ g = grp'
    BY <1>2 DEF InStep, SameStep, Working, UpWorking, DownWorking
  <2>2. Changing(g)'
    BY <2>1 DEF SameGroup, SameStep, Changing, Adopting, Looping
  <2> QED
    BY <1>1, <2>1, <2>2 DEF InStep
<1>3. CASE ~(Working /\ g = grp)
  <2>1. Settled(g) /\ ~(Working' /\ g = grp')
    BY <1>3 DEF InStep, SameStep, Working
  <2>2. Settled(g)'
    BY <2>1 DEF SameGroup, Settled, Looping
  <2> QED
    BY <1>1, <2>1, <2>2 DEF InStep
<1> QED
  BY <1>2, <1>3

\* A group the owner of the mutex does not change stays settled.
LEMMA StaysSettled ==
    ASSUME NEW g \in Groups, InStep(g), SameGroup(g), ~(Working /\ g = grp), ~(Working' /\ g = grp')
    PROVE  InStep(g)'
<1>1. tio'[g] \subseteq tports'[g] /\ (tpc'[g] # "io" => tio'[g] = {})
  BY DEF InStep, SameGroup
<1>2. Settled(g)
  BY DEF InStep
<1>3. Settled(g)'
  BY <1>2 DEF SameGroup, Settled, Looping
<1> QED
  BY <1>1, <1>3 DEF InStep

\* A step of a thread keeps its group in step.
LEMMA ThreadInStep ==
    ASSUME CallInv, SyncInv, NEW g \in Groups, ThreadStep(g)
    PROVE  SyncInv'
<1>t. TypeOK /\ InStep(g)
  BY DEF CallInv, SyncInv
<1> USE DEF groupState, sched, portState, call, section, threadState
<1>s. /\ UNCHANGED <<running, hash, keep_on, cs, grp, holder, arg>>
  BY DEF ThreadStep, UpdateSize, UpdatePorts, UpdateHash, signal_as_synchronized,
     keep_on_working, EpollWait, ProcessPort, CheckHash
<1>p. SameStep /\ port' = port /\ Working' = Working
  BY <1>s DEF SameStep, port, Working
<1>o. ASSUME NEW h \in Groups, h # g PROVE InStep(h)'
  <2>1. SameGroup(h)
    <3>1. sem'[h] = sem[h] /\ tports'[h] = tports[h] /\ thash'[h] = thash[h]
      BY <1>o, <1>t DEF ThreadStep, UpdateSize, UpdatePorts, UpdateHash, signal_as_synchronized,
         keep_on_working, EpollWait, ProcessPort, CheckHash, TypeOK
    <3>2. tpc'[h] = tpc[h]
      BY <1>o, <1>t DEF ThreadStep, UpdateSize, UpdatePorts, UpdateHash, signal_as_synchronized,
         keep_on_working, EpollWait, ProcessPort, CheckHash, TypeOK, Goto
    <3>3. tio'[h] = tio[h]
      BY <1>o, <1>t DEF ThreadStep, UpdateSize, UpdatePorts, UpdateHash, signal_as_synchronized,
         keep_on_working, EpollWait, ProcessPort, CheckHash, TypeOK
    <3> QED
      BY <1>s, <3>1, <3>2, <3>3 DEF SameGroup
  <2> QED
    BY <1>p, <2>1, StaysInStep DEF SyncInv
<1> SUFFICES InStep(g)'
  BY <1>o DEF SyncInv
\* What the thread may find, by its step.
<1>i. tio[g] \subseteq tports[g] /\ (tpc[g] # "io" => tio[g] = {})
  BY <1>t DEF InStep
<1>c. Working /\ g = grp => Changing(g)
  BY <1>t DEF InStep
<1>d. ~(Working /\ g = grp) => Settled(g)
  BY <1>t DEF InStep
<1>w. Working => cs \in {"up_hash", "up_wait", "down_hash", "down_stop", "down_join", "down_wait"}
  BY DEF Working, UpWorking, DownWorking
\* What is to be shown of the thread's own group.
<1>q. ASSUME tio'[g] \subseteq tports'[g], tpc'[g] # "io" => tio'[g] = {},
             Working /\ g = grp => Changing(g)', ~(Working /\ g = grp) => Settled(g)'
      PROVE  InStep(g)'
  BY <1>q, <1>p, <1>s DEF InStep
<1>1. CASE UpdateSize(g)
  <2>1. /\ tpc[g] = "size" /\ tpc'[g] = (IF running[g] = {} THEN "loop" ELSE "snap")
        /\ UNCHANGED <<sem, tports, thash, tio>>
    BY <1>1, <1>t DEF UpdateSize, Goto, TypeOK
  <2>2. Working /\ g = grp
    BY <1>d, <2>1 DEF Settled, Looping
  <2>3. Changing(g)'
    BY <1>c, <1>p, <1>s, <1>w, <2>1, <2>2 DEF Changing, Adopting, Looping
  <2> QED
    BY <1>i, <1>q, <2>1, <2>2, <2>3
<1>2. CASE UpdatePorts(g)
  <2>1. /\ tpc[g] = "snap" /\ tpc'[g] = "hash" /\ tports'[g] = running[g]
        /\ UNCHANGED <<sem, thash, tio>>
    BY <1>2, <1>t DEF UpdatePorts, Goto, TypeOK
  <2>2. Working /\ g = grp
    BY <1>d, <2>1 DEF Settled, Looping
  <2>3. Changing(g)'
    BY <1>c, <1>p, <1>s, <1>w, <2>1, <2>2 DEF Changing, Adopting, Looping
  <2> QED
    BY <1>i, <1>q, <2>1, <2>2, <2>3
<1>3. CASE UpdateHash(g)
  <2>1. /\ tpc[g] = "hash" /\ tpc'[g] = "post" /\ thash'[g] = hash[g]
        /\ UNCHANGED <<sem, tports, tio>>
    BY <1>3, <1>t DEF UpdateHash, Goto, TypeOK
  <2>2. Working /\ g = grp
    BY <1>d, <2>1 DEF Settled, Looping
  <2>3. Changing(g)'
    BY <1>c, <1>p, <1>s, <1>w, <2>1, <2>2 DEF Changing, Adopting, Looping
  <2> QED
    BY <1>i, <1>q, <2>1, <2>2, <2>3
<1>4. CASE signal_as_synchronized(g)
  <2>1. /\ tpc[g] = "post" /\ tpc'[g] = "loop" /\ sem'[g] = sem[g] + 1
        /\ UNCHANGED <<tports, thash, tio>>
    BY <1>4, <1>t DEF signal_as_synchronized, Goto, TypeOK
  <2>2. Working /\ g = grp
    BY <1>d, <2>1 DEF Settled, Looping
  <2>3. Changing(g)'
    BY <1>c, <1>p, <1>s, <1>w, <2>1, <2>2 DEF Changing, Adopting, Looping
  <2> QED
    BY <1>i, <1>q, <2>1, <2>2, <2>3
<1>5. CASE keep_on_working(g)
  <2>1. /\ tpc[g] = "loop" /\ tpc'[g] = (IF keep_on[g] THEN "poll" ELSE "none")
        /\ tports'[g] = (IF keep_on[g] THEN tports[g] ELSE {})
        /\ UNCHANGED <<sem, thash, tio>>
    BY <1>5, <1>t DEF keep_on_working, Goto, TypeOK
  <2>2. tio[g] = {}
    BY <1>i, <2>1
  <2>3. Working /\ g = grp => Changing(g)'
    BY <1>c, <1>p, <1>s, <1>w, <2>1 DEF Changing, Adopting, Looping
  <2>4. ~(Working /\ g = grp) => Settled(g)'
    BY <1>d, <1>s, <2>1 DEF Settled, Looping
  <2>5. tio'[g] = {}
    BY <2>1, <2>2
  <2> QED
    BY <1>q, <2>3, <2>4, <2>5
<1>6. CASE EpollWait(g) \/ ProcessPort(g)
  <2>1. /\ Looping(g) /\ tpc'[g] = "io" /\ tio'[g] \subseteq tports[g]
        /\ UNCHANGED <<sem, tports, thash>>
    <3>1. CASE EpollWait(g)
      BY <1>t, <3>1 DEF EpollWait, Goto, TypeOK, Looping
    <3>2. CASE ProcessPort(g)
      BY <1>t, <1>i, <3>2 DEF ProcessPort, TypeOK, Looping
    <3> QED
      BY <1>6, <3>1, <3>2
  <2>2. Looping(g)'
    BY <2>1 DEF Looping
  <2>3. Working /\ g = grp => Changing(g)'
    BY <1>c, <1>p, <1>s, <1>w, <2>1 DEF Changing, Adopting, Looping
  <2>4. ~(Working /\ g = grp) => Settled(g)'
    BY <1>d, <1>s, <2>1 DEF Settled, Looping
  <2> QED
    BY <1>q, <2>1, <2>3, <2>4
<1>7. CASE CheckHash(g)
  <2>1. /\ tpc[g] = "io" /\ tio[g] = {} /\ tpc'[g] = (IF hash[g] # thash[g] THEN "size" ELSE "loop")
        /\ UNCHANGED <<sem, tports, thash, tio>>
    BY <1>7, <1>t DEF CheckHash, Goto, TypeOK
  <2>3. Working /\ g = grp => Changing(g)'
    BY <1>c, <1>p, <1>s, <1>w, <2>1 DEF Changing, Adopting, Looping
  <2>4. ~(Working /\ g = grp) => Settled(g)'
    BY <1>d, <1>s, <2>1 DEF Settled, Looping
  <2> QED
    BY <1>i, <1>q, <2>1, <2>3, <2>4
<1> QED
  BY <1>1, <1>2, <1>3, <1>4, <1>5, <1>6, <1>7 DEF ThreadStep

\* Every step keeps the threads in step, but for a failed send.
LEMMA SyncInvNext ==
    CallInv /\ PlaceInv /\ RunInv /\ SyncInv /\ [Next]_vars /\ errs' = 0 => SyncInv'
<1> SUFFICES ASSUME CallInv, PlaceInv, RunInv, SyncInv, [Next]_vars, errs' = 0 PROVE SyncInv'
  OBVIOUS
<1>t. TypeOK /\ SectionInv
  BY DEF CallInv
<1> USE DEF groupState, sched, portState, call, section, threadState
\* The groups and their threads, but for the semaphore, are left alone.
<1>a. ASSUME UNCHANGED <<running, hash, sem, keep_on, tpc, tports, thash, tio>>
      PROVE  \A g \in Groups : SameGroup(g)
  BY <1>a DEF SameGroup
\* The owner of the mutex does not go on.
<1>s. ASSUME UNCHANGED <<running, hash, sem, keep_on, tpc, tports, thash, tio>>, SameStep PROVE SyncInv'
  BY <1>a, <1>s, StaysInStep DEF SyncInv
\* The owner of the mutex is at no group.
<1>n. ASSUME UNCHANGED <<running, hash, sem, keep_on, tpc, tports, thash, tio>>, ~Working, ~Working'
      PROVE  SyncInv'
  BY <1>a, <1>n, StaysSettled DEF SyncInv
\* The owner of the mutex changes group n, and no other.
<1>g. ASSUME NEW n \in Groups, InStep(n)', Working => n = grp, Working' => n = grp',
             \A g \in Groups \ {n} : SameGroup(g)
      PROVE  SyncInv'
  <2>1. ASSUME NEW g \in Groups, g # n PROVE InStep(g)'
    BY <1>g, <2>1, StaysSettled DEF SyncInv
  <2> QED
    BY <1>g, <2>1 DEF SyncInv
<1>1. CASE UNCHANGED vars
  <2>1. UNCHANGED <<running, hash, sem, keep_on, tpc, tports, thash, tio>> /\ SameStep
    BY <1>1 DEF vars, SameStep, port
  <2> QED
    BY <1>s, <2>1
<1>2. ASSUME NEW q \in Ports, Attach(q) \/ Detach(q) \/ BringPort(q) PROVE SyncInv'
  <2>1. /\ op[Manager] = "idle" /\ UNCHANGED <<running, hash, sem, keep_on, tpc, tports, thash, tio, cs, grp>>
        /\ \/ Begin(Manager, "add_rx", q) \/ Begin(Manager, "remove_rx", q)
           \/ Begin(Manager, "up", q) \/ Begin(Manager, "down", q)
    BY <1>2 DEF Attach, Detach, BringPort, remove_port, Idle, Begin
  <2>2. cs # "free" => port' = port
    BY <2>1, BeginElsewhere DEF Callers
  <2> QED
    BY <1>s, <2>1, <2>2 DEF SameStep
<1>3. ASSUME NEW c \in Others, NEW q \in Ports, update_port_status(c, q) PROVE SyncInv'
  <2>1. /\ op[c] = "idle" /\ UNCHANGED <<running, hash, sem, keep_on, tpc, tports, thash, tio, cs, grp>>
        /\ Begin(c, "up", q) \/ Begin(c, "down", q)
    BY <1>3 DEF update_port_status, Idle, Begin
  <2>2. cs # "free" => port' = port
    BY <2>1, BeginElsewhere DEF Callers
  <2> QED
    BY <1>s, <2>1, <2>2 DEF SameStep
<1>4. ASSUME NEW q \in Ports, BringUnattachedUp(q) \/ BringUnattachedDown(q) PROVE SyncInv'
  <2>1. UNCHANGED <<running, hash, sem, keep_on, tpc, tports, thash, tio, cs, grp>> /\ port' = port
    BY <1>4 DEF BringUnattachedUp, BringUnattachedDown, port
  <2> QED
    BY <1>s, <2>1 DEF SameStep
<1>5. CASE AddRx \/ AddTx \/ UpNotFound \/ UpAlready \/ (\E c \in Callers : Lock(c))
  <2>1. UNCHANGED <<running, hash, sem, keep_on, tpc, tports, thash, tio>>
    BY <1>5 DEF AddRx, AddTx, UpNotFound, UpAlready, Lock
  <2>2. cs \in {"free", "up"} /\ cs' \in {"free", "up", "down"}
    BY <1>5, <1>t DEF AddRx, AddTx, UpNotFound, UpAlready, Lock, Release, SectionInv
  <2>3. ~Working /\ ~Working'
    BY <2>2 DEF Working, UpWorking, DownWorking
  <2> QED
    BY <1>n, <2>1, <2>3
<1>6. CASE DownNotFound
  <2>1. cs = "down" /\ cs' = "free" /\ UNCHANGED <<running, hash, sem, keep_on, tpc, tports, thash, tio>>
    BY <1>6 DEF DownNotFound, DownReturn, Release
  <2>2. ~Working /\ ~Working'
    BY <2>1 DEF Working, UpWorking, DownWorking
  <2> QED
    BY <1>n, <2>1, <2>2
\* The scan picks group n: its thread is settled.
<1>p. ASSUME NEW n \in Groups, cs \in {"up", "down"}
      PROVE  ~Working /\ Settled(n) /\ tio[n] \subseteq tports[n] /\ (tpc[n] # "io" => tio[n] = {})
  <2>1. ~Working
    BY <1>p DEF Working, UpWorking, DownWorking
  <2> QED
    BY <2>1 DEF SyncInv, InStep
<1>7. CASE UpStartThread
  <2>1. PICK n \in Groups : n = Min(Contains(ports)) /\ port \in ports[n]
    BY <1>7, FirstGroup DEF UpStartThread, Contains
  <2>2. /\ cs = "up" /\ cs' = "up_wait" /\ grp' = n /\ port' = port /\ running[n] = {}
        /\ running' = [running EXCEPT ![n] = {port}] /\ keep_on' = [keep_on EXCEPT ![n] = TRUE]
        /\ tpc' = [tpc EXCEPT ![n] = "size"] /\ tports' = [tports EXCEPT ![n] = {}]
        /\ thash' = [thash EXCEPT ![n] = 0] /\ UNCHANGED <<hash, sem, tio>>
    BY <1>7, <2>1 DEF UpStartThread, port
  <2>3. \A g \in Groups \ {n} : SameGroup(g)
    BY <1>t, <2>1, <2>2 DEF TypeOK, SameGroup
  <2>4. /\ ~Working /\ sem[n] = 0 /\ tpc[n] = "none" /\ tports[n] = {} /\ tio[n] = {}
    BY <1>p, <2>1, <2>2 DEF Settled
  <2>5. /\ running'[n] = {port} /\ keep_on'[n] /\ tpc'[n] = "size" /\ tports'[n] = {}
        /\ sem'[n] = 0 /\ tio'[n] = {}
    BY <1>t, <2>1, <2>2, <2>4 DEF TypeOK
  <2>6. Adopting(n)'
    BY <2>5 DEF Adopting, Looping
  <2>7. Working' /\ Changing(n)'
    BY <2>2, <2>6 DEF Changing, Working, UpWorking
  <2>8. InStep(n)'
    BY <2>2, <2>5, <2>7 DEF InStep
  <2> QED
    BY <1>g, <2>1, <2>2, <2>3, <2>4, <2>8
<1>8. CASE UpAddRunning
  <2>1. PICK n \in Groups : n = Min(Contains(ports)) /\ port \in ports[n]
    BY <1>8, FirstGroup DEF UpAddRunning, Contains
  <2>2. /\ cs = "up" /\ cs' = "up_hash" /\ grp' = n /\ port' = port /\ running[n] # {}
        /\ running' = [running EXCEPT ![n] = @ \cup {port}]
        /\ UNCHANGED <<hash, sem, keep_on, tpc, tports, thash, tio>>
    BY <1>8, <2>1 DEF UpAddRunning, port
  <2>3. \A g \in Groups \ {n} : SameGroup(g)
    BY <1>t, <2>1, <2>2 DEF TypeOK, SameGroup
  <2>4. running'[n] = running[n] \cup {port}
    BY <1>t, <2>1, <2>2 DEF TypeOK
  <2>5. ~Working /\ Settled(n) /\ tio[n] \subseteq tports[n] /\ (tpc[n] # "io" => tio[n] = {})
    BY <1>p, <2>1, <2>2
  <2>6. Working' /\ Changing(n)'
    BY <2>2, <2>4, <2>5 DEF Settled, Looping, Changing, Working, UpWorking
  <2>7. InStep(n)'
    BY <2>2, <2>5, <2>6 DEF InStep
  <2> QED
    BY <1>g, <2>1, <2>2, <2>3, <2>5, <2>7
<1>9. CASE DownErase
  <2>1. PICK n \in Groups : n = Min(Contains(running)) /\ port \in running[n]
    BY <1>9, FirstGroup DEF DownErase, Contains
  <2>2. /\ cs = "down" /\ cs' = "down_hash" /\ grp' = n /\ port' = port
        /\ running' = [running EXCEPT ![n] = @ \ {port}]
        /\ UNCHANGED <<hash, sem, keep_on, tpc, tports, thash, tio>>
    BY <1>9, <2>1 DEF DownErase, port
  <2>3. \A g \in Groups \ {n} : SameGroup(g)
    BY <1>t, <2>1, <2>2 DEF TypeOK, SameGroup
  <2>4. running'[n] = running[n] \ {port}
    BY <1>t, <2>1, <2>2 DEF TypeOK
  <2>5. ~Working /\ Settled(n) /\ tio[n] \subseteq tports[n] /\ (tpc[n] # "io" => tio[n] = {})
    BY <1>p, <2>1, <2>2
  <2>6. Working' /\ Changing(n)'
    BY <2>1, <2>2, <2>4, <2>5 DEF Settled, Looping, Changing, Working, DownWorking
  <2>7. InStep(n)'
    BY <2>2, <2>5, <2>6 DEF InStep
  <2> QED
    BY <1>g, <2>1, <2>2, <2>3, <2>5, <2>7
\* The group that is being changed.
<1>w. ASSUME Working
      PROVE  /\ grp \in Groups /\ Changing(grp)
             /\ tio[grp] \subseteq tports[grp] /\ (tpc[grp] # "io" => tio[grp] = {})
             /\ hash[grp] \in 0..(HashSize - 1)
  <2>1. grp \in Groups
    BY <1>t, <1>w DEF SectionInv
  <2>2. InStep(grp) /\ hash[grp] \in 0..(HashSize - 1)
    BY <1>t, <2>1 DEF SyncInv, TypeOK
  <2> QED
    BY <1>w, <2>1, <2>2 DEF InStep
<1>10. CASE UpHash \/ DownHash
  <2>1. /\ cs \in {"up_hash", "down_hash"} /\ grp' = grp /\ port' = port
        /\ hash' = [hash EXCEPT ![grp] = Bump(@)]
        /\ UNCHANGED <<running, sem, keep_on, tpc, tports, thash, tio>>
    BY <1>10 DEF UpHash, DownHash, port
  <2>2. Working
    BY <2>1 DEF Working, UpWorking, DownWorking
  <2>3. /\ grp \in Groups /\ Changing(grp) /\ tio[grp] \subseteq tports[grp]
        /\ tpc[grp] # "io" => tio[grp] = {}
    BY <1>w, <2>2
  <2>4. \A g \in Groups \ {grp} : SameGroup(g)
    BY <1>t, <2>1, <2>3 DEF TypeOK, SameGroup
  <2>5. hash'[grp] # hash[grp]
    <3>1. hash'[grp] = Bump(hash[grp])
      BY <1>t, <2>1, <2>3 DEF TypeOK
    <3> QED
      BY <1>w, <2>2, <3>1, BumpChanges
  <2>6. /\ Looping(grp) /\ sem[grp] = 0 /\ thash[grp] = hash[grp] /\ keep_on[grp]
        /\ tports[grp] \subseteq running[grp] \cup {port}
        /\ cs = "up_hash" => running[grp] # {}
    BY <2>1, <2>3 DEF Changing
  <2>7. running[grp] # {} => Adopting(grp)'
    BY <2>1, <2>5, <2>6 DEF Adopting, Looping
  <2>8. cs' = (IF cs = "up_hash" THEN "up_wait" ELSE IF running[grp] = {} THEN "down_stop" ELSE "down_wait")
    BY <1>10 DEF UpHash, DownHash
  <2>9. Working' /\ Changing(grp)'
    <3>1. CASE running[grp] # {}
      <4>1. cs' \in {"up_wait", "down_wait"}
        BY <2>8, <3>1
      <4> QED
        BY <2>1, <2>7, <3>1, <4>1 DEF Changing, Working, UpWorking, DownWorking
    <3>2. CASE running[grp] = {}
      <4>1. cs' = "down_stop"
        BY <2>6, <2>8, <3>2
      <4> QED
        BY <2>1, <2>6, <3>2, <4>1 DEF Changing, Looping, Working, DownWorking
    <3> QED
      BY <3>1, <3>2
  <2>10. InStep(grp)'
    BY <2>1, <2>3, <2>9 DEF InStep
  <2> QED
    BY <1>g, <2>1, <2>3, <2>4, <2>10
<1>11. CASE DownStop
  <2>1. /\ cs = "down_stop" /\ cs' = "down_join" /\ grp' = grp /\ port' = port
        /\ keep_on' = [keep_on EXCEPT ![grp] = FALSE]
        /\ UNCHANGED <<running, hash, sem, tpc, tports, thash, tio>>
    BY <1>11 DEF DownStop, port
  <2>2. Working
    BY <2>1 DEF Working, UpWorking, DownWorking
  <2>3. /\ grp \in Groups /\ Changing(grp) /\ tio[grp] \subseteq tports[grp]
        /\ tpc[grp] # "io" => tio[grp] = {}
    BY <1>w, <2>2
  <2>4. \A g \in Groups \ {grp} : SameGroup(g)
    BY <1>t, <2>1, <2>3 DEF TypeOK, SameGroup
  <2>5. keep_on'[grp] = FALSE
    BY <1>t, <2>1, <2>3 DEF TypeOK
  <2>6. Working' /\ Changing(grp)'
    BY <2>1, <2>3, <2>5 DEF Changing, Looping, Working, DownWorking
  <2>7. InStep(grp)'
    BY <2>1, <2>3, <2>6 DEF InStep
  <2> QED
    BY <1>g, <2>1, <2>3, <2>4, <2>7
\* The wait for the group is over: its thread is settled.
<1>d. ASSUME NEW n \in Groups, n = grp, Working, ~Working', Settled(n)', UNCHANGED <<tpc, tports, tio>>,
             \A g \in Groups \ {n} : SameGroup(g)
      PROVE  SyncInv'
  <2>1. tio[n] \subseteq tports[n] /\ (tpc[n] # "io" => tio[n] = {})
    BY <1>d, <1>w
  <2>2. InStep(n)'
    BY <1>d, <2>1 DEF InStep
  <2> QED
    BY <1>d, <1>g, <2>2
<1>12. CASE UpWait \/ DownWait
  <2>1. /\ cs \in {"up_wait", "down_wait"} /\ sem[grp] > 0 /\ sem' = [sem EXCEPT ![grp] = @ - 1]
        /\ UNCHANGED <<running, hash, keep_on, tpc, tports, thash, tio>>
    BY <1>12 DEF UpWait, DownWait
  <2>2. cs' \in {"free", "up", "down"}
    BY <1>12 DEF UpWait, DownWait, DownGroupDone, DownReturn, Release, NextGroup
  <2>3. Working /\ ~Working'
    BY <2>1, <2>2 DEF Working, UpWorking, DownWorking
  <2>4. grp \in Groups /\ Adopting(grp)
    BY <1>w, <2>1, <2>3 DEF Changing
  <2>5. \A g \in Groups \ {grp} : SameGroup(g)
    BY <1>t, <2>1, <2>4 DEF TypeOK, SameGroup
  <2>6. ASSUME NEW n \in Groups, n = grp PROVE Settled(n)'
    <3>1. /\ sem[n] = 1 /\ running[n] # {} /\ keep_on[n] /\ Looping(n)
          /\ tports[n] = running[n] /\ thash[n] = hash[n]
      BY <2>1, <2>4, <2>6 DEF Adopting
    <3>2. sem'[n] = 0
      BY <1>t, <2>1, <2>6, <3>1 DEF TypeOK
    <3> QED
      BY <2>1, <3>1, <3>2 DEF Settled, Looping
  <2> QED
    BY <1>d, <2>1, <2>3, <2>4, <2>5, <2>6
<1>13. CASE DownJoin
  <2>1. cs = "down_join" /\ tpc[grp] = "none" /\ UNCHANGED <<running, hash, sem, keep_on, tpc, tports, thash, tio>>
    BY <1>13 DEF DownJoin
  <2>2. cs' \in {"free", "up", "down"}
    BY <1>13 DEF DownJoin, DownGroupDone, DownReturn, Release, NextGroup
  <2>3. Working /\ ~Working'
    BY <2>1, <2>2 DEF Working, UpWorking, DownWorking
  <2>4. grp \in Groups /\ Changing(grp)
    BY <1>w, <2>3
  <2>5. \A g \in Groups : SameGroup(g)
    BY <1>a, <2>1
  <2>6. ASSUME NEW n \in Groups, n = grp PROVE Settled(n)'
    <3>1. running[n] = {} /\ sem[n] = 0 /\ tports[n] = {} /\ tpc[n] = "none"
      BY <2>1, <2>4, <2>6 DEF Changing, Looping
    <3> QED
      BY <2>1, <3>1 DEF Settled
  <2> QED
    BY <1>d, <2>1, <2>3, <2>4, <2>5, <2>6
<1>14. ASSUME NEW g \in Groups, ThreadStep(g) PROVE SyncInv'
  BY <1>14, ThreadInStep
<1>15. ASSUME NEW g \in Groups, ProcessPortTxError(g) PROVE FALSE
  BY <1>15, <1>t, HashAssumption DEF ProcessPortTxError, TypeOK
<1> QED
  BY <1>1, <1>2, <1>3, <1>4, <1>5, <1>6, <1>7, <1>8, <1>9, <1>10, <1>11, <1>12, <1>13, <1>14,
     <1>15 DEF Next, Call, CallerStep

\* At the start there are no threads.
LEMMA SyncInvInit == Init => SyncInv
<1> SUFFICES ASSUME Init, NEW g \in Groups PROVE InStep(g)
  BY DEF SyncInv
<1>1. ~Working
  BY DEF Init, Working, UpWorking, DownWorking
<1> QED
  BY <1>1 DEF Init, InStep, Settled

\* The threads only touch open ports.
LEMMA InStepIsOpen ==
    ASSUME CallInv, RunInv, SyncInv
    PROVE  Synchronized /\ NoIoOnClosedPort
<1>1. Synchronized
  <2> SUFFICES ASSUME holder = None, NEW g \in Groups PROVE Settled(g)
    BY DEF Settled, Looping, Synchronized
  <2>1. ~Working
    BY DEF CallInv, SectionInv, Working, UpWorking, DownWorking
  <2> QED
    BY <2>1 DEF SyncInv, InStep
<1>2. ASSUME NEW g \in Groups PROVE tio[g] \cup tports[g] \subseteq open
  <2>1. tio[g] \subseteq tports[g] /\ running[g] \subseteq open
    BY DEF SyncInv, InStep, RunInv
  <2>2. CASE Working /\ g = grp
    <3>1. Changing(g)
      BY <2>2 DEF SyncInv, InStep
    <3>2. port \in open
      BY <2>1, <2>2 DEF RunInv, Working
    <3>3. tports[g] \subseteq running[g] \cup {port}
      BY <2>2, <3>1 DEF Changing, Adopting, Working, UpWorking, DownWorking
    <3> QED
      BY <2>1, <3>2, <3>3
  <2>3. CASE ~(Working /\ g = grp)
    <3>1. Settled(g)
      BY <2>3 DEF SyncInv, InStep
    <3>2. tports[g] \subseteq running[g]
      BY <3>1 DEF Settled
    <3> QED
      BY <2>1, <3>2
  <2> QED
    BY <2>2, <2>3
<1> QED
  BY <1>1, <1>2 DEF NoIoOnClosedPort

\* The number of failed sends only grows.
LEMMA ErrorsGrow ==
    ASSUME CallInv, [Next]_vars, errs' = 0
    PROVE  errs = 0
<1> USE DEF groupState, sched, portState, call, section, threadState
<1>1. ASSUME NEW g \in Groups, ProcessPortTxError(g) PROVE errs' # 0
  BY <1>1, HashAssumption DEF ProcessPortTxError, CallInv, TypeOK
<1>2. ASSUME NEW g \in Groups, ThreadStep(g) PROVE errs' = errs
  BY <1>2 DEF ThreadStep, UpdateSize, UpdatePorts, UpdateHash, signal_as_synchronized,
     keep_on_working, EpollWait, ProcessPort, CheckHash
<1>3. CASE CallerStep
  BY <1>3 DEF CallerStep, AddRx, AddTx, UpNotFound, UpAlready, UpStartThread, UpAddRunning,
     UpHash, UpWait, DownNotFound, DownErase, DownHash, DownStop, DownJoin, DownWait
<1>4. CASE Call \/ (\E c \in Callers : Lock(c)) \/ UNCHANGED vars
  BY <1>4 DEF Call, Attach, Detach, BringPort, remove_port, BringUnattachedUp,
     BringUnattachedDown, update_port_status, Begin, Lock, vars
<1> QED
  BY <1>1, <1>2, <1>3, <1>4 DEF Next

\* As long as no send has failed, a thread touches open ports only, and whoever
\* gets iomanager::mutex finds every thread serving what its group runs.
THEOREM InStepUntilError == Spec => [](errs = 0 => Synchronized /\ NoIoOnClosedPort)
<1> DEFINE Inv == CallInv /\ PlaceInv /\ RunInv /\ (errs = 0 => SyncInv)
<1>1. Init => Inv
  BY CallInvInit, PlaceInvInit, RunInvInit, SyncInvInit
<1>2. Inv /\ [Next]_vars => Inv'
  BY CallInvNext, PlaceInvNext, RunInvNext, SyncInvNext, ErrorsGrow
<1>3. Inv => (errs = 0 => Synchronized /\ NoIoOnClosedPort)
  BY InStepIsOpen
<1> QED
  BY <1>1, <1>2, <1>3, PTL DEF Spec

\* When sending never fails: "Now that no more packets are feeded, bring it
\* really down" is true, no I/O thread ever touches a closed port.
THEOREM NeverIoOnClosedPort == ASSUME TxErrors = 0 PROVE Spec => []NoIoOnClosedPort
<1>1. TypeOK => errs = 0
  BY DEF TypeOK
<1> QED
  BY <1>1, TypeCorrect, InStepUntilError, PTL

\* When sending never fails: between two callers every thread serves exactly
\* the running ports and no signal is left over.
THEOREM AlwaysSynchronized == ASSUME TxErrors = 0 PROVE Spec => []Synchronized
<1>1. TypeOK => errs = 0
  BY DEF TypeOK
<1> QED
  BY <1>1, TypeCorrect, InStepUntilError, PTL

-----------------------------------------------------------------------------
(* RX and TX together, when the manager is the only caller *)

RunRx(q) == \E g \in RxGroups : q \in running[g]
RunTx(q) == \E g \in TxGroups : q \in running[g]

\* The scan does the RX group of the port first and its TX group second; the
\* other ports run in both or in neither.
BothInv ==
    /\ \A q \in Ports : cs = "free" \/ q # port => (RunRx(q) <=> RunTx(q))
    /\ cs # "free" => ~tx
    /\ cs \in {"up", "down"} => IF rx THEN grp <= NumRx
                                ELSE grp = 0 /\ (RunRx(port) <=> RunTx(port))
    /\ Working => (rx <=> grp \in TxGroups)
    /\ cs \in UpWorking \cup {"up"} /\ rx => \E g \in RxGroups : g < grp /\ port \in running[g]

\* What the scan of bring_port_up meets next: the RX group, then the TX group.
LEMMA UpMeets ==
    ASSUME Others = {}, CallInv, PlaceInv, RunInv, BothInv, cs = "up"
    PROVE  /\ Contains(ports) # {}
           /\ Min(Contains(ports)) \in Groups /\ Min(Contains(ports)) >= grp
           /\ rx <=> Min(Contains(ports)) \in TxGroups
<1>1. holder = Manager /\ op[Manager] = "up" /\ port = arg[Manager] /\ port \in Ports
  BY HolderCalls DEF Callers, CallInv, SectionInv, port
<1>2. InRx(port) /\ InTx(port) /\ OnePerType
  BY <1>1 DEF PlaceInv
<1>3. PICK a \in RxGroups, b \in TxGroups : port \in ports[a] /\ port \in ports[b]
  BY <1>2 DEF InRx, InTx
<1>i. grp \in Nat /\ NumRx \in Nat /\ Groups \subseteq Nat
  BY GroupIds, GroupAssumption DEF CallInv, TypeOK
<1>4. b >= NumRx /\ b \in Groups /\ a \in Groups /\ a >= 0
  BY GroupAssumption DEF TxGroups, Groups, RxGroups
<1>5. b \in Contains(ports)
  BY <1>3, <1>4, <1>i DEF BothInv, Contains
<1> DEFINE n == Min(Contains(ports))
<1>6. n \in Contains(ports) /\ \A g \in Contains(ports) : n <= g
  BY <1>5, FirstGroup DEF Contains
<1> HIDE DEF n
<1>7. n \in Groups /\ n >= grp /\ port \in ports[n]
  BY <1>6 DEF Contains
<1>8. CASE rx
  <2>1. PICK g \in RxGroups : g < grp /\ port \in running[g]
    BY <1>8 DEF BothInv
  <2>2. port \in ports[g]
    BY <2>1 DEF RunInv, Groups
  <2>3. g # n
    BY <1>7, <1>i, <2>1 DEF Groups
  <2>4. n \notin RxGroups
    BY <1>2, <1>7, <2>2, <2>3 DEF OnePerType
  <2> QED
    BY <1>5, <1>7, <1>8, <2>4 DEF Groups, n
<1>9. CASE ~rx
  <2>1. grp = 0
    BY <1>9 DEF BothInv
  <2>2. a \in Contains(ports)
    BY <1>3, <1>4, <2>1 DEF Contains
  <2>3. n <= a
    BY <1>6, <2>2
  <2>4. n \notin TxGroups
    BY <1>7, <1>i, <2>3, GroupIds DEF Groups
  <2> QED
    BY <1>5, <1>7, <1>9, <2>4 DEF n
<1> QED
  BY <1>8, <1>9

\* What the scan of bring_port_down meets next.
LEMMA DownMeets ==
    ASSUME CallInv, RunInv, BothInv, cs = "down", Contains(running) # {}
    PROVE  /\ Min(Contains(running)) \in Groups
           /\ rx <=> Min(Contains(running)) \in TxGroups
<1> DEFINE n == Min(Contains(running))
<1>1. n \in Contains(running) /\ \A g \in Contains(running) : n <= g
  <2>1. Contains(running) \subseteq Groups
    BY DEF Contains
  <2> QED
    BY <2>1, FirstGroup
<1> HIDE DEF n
<1>2. n \in Groups /\ port \in running[n]
  BY <1>1 DEF Contains
<1>3. CASE rx
  <2>1. n \notin RxGroups
    BY <1>2, <1>3 DEF RunInv
  <2> QED
    BY <1>2, <1>3, <2>1 DEF Groups, n
<1>4. CASE ~rx
  <2>1. grp = 0 /\ (RunRx(port) <=> RunTx(port))
    BY <1>4 DEF BothInv
  <2>2. RunRx(port)
    BY <1>2, <2>1 DEF RunRx, RunTx, Groups
  <2>3. PICK a \in RxGroups : port \in running[a]
    BY <2>2 DEF RunRx
  <2>4. a \in Contains(running)
    BY <2>1, <2>3, GroupIds DEF Contains, Groups
  <2>5. n <= a
    BY <1>1, <2>4
  <2>6. n \notin TxGroups
    BY <1>2, <2>5, GroupIds DEF Groups
  <2> QED
    BY <1>2, <1>4, <2>6 DEF n
<1> QED
  BY <1>3, <1>4

\* Every step keeps BothInv.
LEMMA BothInvNext ==
    ASSUME Others = {}, CallInv, PlaceInv, RunInv, BothInv, [Next]_vars
    PROVE  BothInv'
<1>t. TypeOK /\ SectionInv /\ grp \in Nat /\ NumRx \in Nat /\ Groups \subseteq Nat
  BY GroupIds, GroupAssumption DEF CallInv, TypeOK
<1>b. /\ \A q \in Ports : cs = "free" \/ q # port => (RunRx(q) <=> RunTx(q))
      /\ cs # "free" => ~tx
      /\ cs \in {"up", "down"} => IF rx THEN grp <= NumRx
                                  ELSE grp = 0 /\ (RunRx(port) <=> RunTx(port))
      /\ Working => (rx <=> grp \in TxGroups)
      /\ cs \in UpWorking \cup {"up"} /\ rx => \E g \in RxGroups : g < grp /\ port \in running[g]
  BY DEF BothInv
<1> USE DEF groupState, sched, portState, call, section, threadState
<1>u. ASSUME running' = running PROVE \A q \in Ports : RunRx(q)' = RunRx(q) /\ RunTx(q)' = RunTx(q)
  BY <1>u DEF RunRx, RunTx
\* The owner of the mutex only goes on to the next step for its group.
<1>s. ASSUME UNCHANGED <<running, grp, rx, tx>>, cs # "free" => port' = port,
             \/ cs' = cs
             \/ Working /\ Working' /\ (cs' \in UpWorking <=> cs \in UpWorking)
      PROVE  BothInv'
  <2>1. CASE cs' = "free"
    <3>1. cs = "free"
      BY <1>s, <2>1 DEF Working, UpWorking, DownWorking
    <3> QED
      BY <1>b, <1>s, <1>u, <2>1, <3>1 DEF BothInv, Working, UpWorking, DownWorking
  <2>2. CASE cs' # "free"
    <3>1. /\ cs # "free" /\ port' = port
          /\ cs' \in UpWorking \cup {"up"} <=> cs \in UpWorking \cup {"up"}
          /\ cs' \in {"up", "down"} <=> cs \in {"up", "down"}
          /\ Working' <=> Working
      BY <1>s, <2>2 DEF Working, UpWorking, DownWorking
    <3>2. /\ (\E g \in RxGroups : g < grp /\ port \in running[g])' <=> \E g \in RxGroups : g < grp /\ port \in running[g]
          /\ RunRx(port)' <=> RunRx(port)
          /\ RunTx(port)' <=> RunTx(port)
      BY <1>s, <3>1 DEF RunRx, RunTx
    <3>3. \A q \in Ports : cs' = "free" \/ q # port' => (RunRx(q)' <=> RunTx(q)')
      BY <1>b, <1>u, <1>s, <2>2, <3>1
    <3>4. cs' \in {"up", "down"} => IF rx' THEN grp' <= NumRx ELSE grp' = 0 /\ (RunRx(port)' <=> RunTx(port)')
      BY <1>b, <1>s, <3>1, <3>2
    <3>5. Working' => (rx' <=> grp' \in TxGroups)
      BY <1>b, <1>s, <3>1
    <3>6. cs' \in UpWorking \cup {"up"} /\ rx' => (\E g \in RxGroups : g < grp /\ port \in running[g])'
      BY <1>b, <1>s, <3>1, <3>2
    <3>7. cs' # "free" => ~tx'
      BY <1>b, <1>s, <3>1
    <3> QED
      BY <3>3, <3>4, <3>5, <3>6, <3>7 DEF BothInv
  <2> QED
    BY <2>1, <2>2
\* The mutex is free after the step.
<1>f. ASSUME cs' = "free", running' = running, cs # "free" => (RunRx(port) <=> RunTx(port)) PROVE BothInv'
  <2>1. cs' \notin UpWorking \cup {"up"} /\ cs' \notin {"up", "down"} /\ ~Working'
    BY <1>f DEF Working, UpWorking, DownWorking
  <2>2. \A q \in Ports : RunRx(q) <=> RunTx(q)
    BY <1>b, <1>f
  <2> QED
    BY <1>f, <1>u, <2>1, <2>2 DEF BothInv
<1>1. CASE UNCHANGED vars
  <2>1. UNCHANGED <<running, grp, rx, tx, cs>> /\ port' = port
    BY <1>1 DEF vars, port
  <2> QED
    BY <1>s, <2>1
<1>2. ASSUME NEW q \in Ports, Attach(q) \/ Detach(q) \/ BringPort(q) PROVE BothInv'
  <2>1. /\ op[Manager] = "idle" /\ UNCHANGED <<running, grp, rx, tx, cs>>
        /\ \/ Begin(Manager, "add_rx", q) \/ Begin(Manager, "remove_rx", q)
           \/ Begin(Manager, "up", q) \/ Begin(Manager, "down", q)
    BY <1>2 DEF Attach, Detach, BringPort, remove_port, Idle, Begin
  <2>2. cs # "free" => port' = port
    BY <2>1, BeginElsewhere DEF Callers
  <2> QED
    BY <1>s, <2>1, <2>2
<1>3. ASSUME NEW q \in Ports, BringUnattachedUp(q) \/ BringUnattachedDown(q) PROVE BothInv'
  <2>1. UNCHANGED <<running, grp, rx, tx, cs>> /\ port' = port
    BY <1>3 DEF BringUnattachedUp, BringUnattachedDown, port
  <2> QED
    BY <1>s, <2>1
<1>4. CASE AddRx \/ AddTx
  <2>1. cs = "free" /\ cs' = "free" /\ running' = running
    BY <1>4, <1>t DEF AddRx, AddTx, SectionInv
  <2> QED
    BY <1>f, <2>1
<1>5. ASSUME NEW c \in Callers, Lock(c) PROVE BothInv'
  <2>1. /\ cs = "free" /\ cs' \in {"up", "down"} /\ grp' = 0 /\ ~rx' /\ ~tx' /\ running' = running
    BY <1>5, <1>t DEF Lock, SectionInv
  <2>2. port' \in Ports
    <3>1. op[c] # "idle"
      BY <1>5 DEF Lock
    <3>2. holder' = c /\ arg' = arg
      BY <1>5 DEF Lock
    <3>3. port' = arg[c]
      BY <3>2 DEF port
    <3> QED
      BY <3>1, <3>3 DEF CallInv, CallsOf
  <2>3. ~Working'
    BY <2>1 DEF Working, UpWorking, DownWorking
  <2>4. \A q \in Ports : RunRx(q)' <=> RunTx(q)'
    BY <1>b, <1>u, <2>1
  <2>5. (RunRx(port) <=> RunTx(port))'
    BY <2>2, <2>4 DEF RunRx, RunTx
  <2> QED
    BY <2>1, <2>3, <2>4, <2>5 DEF BothInv
<1>6. CASE UpNotFound
  BY <1>6, UpMeets DEF UpNotFound
<1>7. CASE UpAlready
  <2> DEFINE n == Min(Contains(ports))
  <2>1. cs = "up" /\ cs' = "free" /\ running' = running /\ port \in running[n]
    BY <1>7 DEF UpAlready, Release
  <2>2. n \in Groups /\ (rx <=> n \in TxGroups)
    BY <2>1, UpMeets
  <2> HIDE DEF n
  <2>3. RunRx(port) <=> RunTx(port)
    <3>1. CASE rx
      BY <1>b, <2>1, <2>2, <3>1 DEF RunRx, RunTx, UpWorking
    <3>2. CASE ~rx
      BY <1>b, <2>1, <3>2
    <3> QED
      BY <3>1, <3>2
  <2> QED
    BY <1>f, <2>1, <2>3
\* The scan picks group n for its port, whose place among the running ports is all that changes.
<1>p. ASSUME NEW n \in Groups, rx <=> n \in TxGroups, cs \in {"up", "down"}, Working',
             cs' \in UpWorking <=> cs = "up", grp' = n, UNCHANGED <<rx, tx>>, port' = port,
             \A g \in Groups : \A q \in Ports \ {port} : q \in running'[g] <=> q \in running[g],
             cs = "up" => n >= grp /\ \A g \in Groups : running[g] \subseteq running'[g]
      PROVE  BothInv'
  <2>1. /\ cs # "free" /\ cs' # "free" /\ cs' \notin {"up", "down"}
        /\ cs' \in UpWorking \cup {"up"} => cs = "up"
    BY <1>p DEF Working, UpWorking, DownWorking
  <2>2. \A q \in Ports \ {port} : (RunRx(q)' <=> RunRx(q)) /\ (RunTx(q)' <=> RunTx(q))
    BY <1>p DEF RunRx, RunTx, Groups
  <2>3. ASSUME cs = "up", rx PROVE \E g \in RxGroups : g < n /\ port \in running'[g]
    <3>1. PICK g \in RxGroups : g < grp /\ port \in running[g]
      BY <1>b, <2>3
    <3>2. g < n /\ port \in running'[g]
      BY <1>p, <1>t, <2>3, <3>1 DEF Groups
    <3> QED
      BY <3>2
  <2> QED
    BY <1>b, <1>p, <2>1, <2>2, <2>3 DEF BothInv
<1>8. CASE UpStartThread \/ UpAddRunning
  <2>1. cs = "up" /\ grp' = Min(Contains(ports)) /\ cs' \in UpWorking /\ UNCHANGED <<rx, tx>> /\ port' = port
    BY <1>8 DEF UpStartThread, UpAddRunning, UpWorking, port
  <2>2. PICK n \in Groups : n = Min(Contains(ports)) /\ n >= grp /\ (rx <=> n \in TxGroups)
    BY <2>1, UpMeets
  <2>3. \/ running' = [running EXCEPT ![n] = {port}] /\ running[n] = {}
        \/ running' = [running EXCEPT ![n] = @ \cup {port}]
    BY <1>8, <2>2 DEF UpStartThread, UpAddRunning
  <2>4. \A g \in Groups : /\ running[g] \subseteq running'[g]
                          /\ \A q \in Ports \ {port} : q \in running'[g] <=> q \in running[g]
    BY <1>t, <2>3 DEF TypeOK
  <2>5. Working' /\ (cs' \in UpWorking <=> cs = "up") /\ cs \in {"up", "down"}
    BY <2>1 DEF Working
  <2> QED
    BY <1>p, <2>1, <2>2, <2>4, <2>5
<1>9. CASE DownErase
  <2>1. /\ cs = "down" /\ grp' = Min(Contains(running)) /\ cs' = "down_hash" /\ UNCHANGED <<rx, tx>>
        /\ port' = port /\ Contains(running) # {}
    BY <1>9 DEF DownErase, port
  <2>2. PICK n \in Groups : n = Min(Contains(running)) /\ (rx <=> n \in TxGroups)
    BY <2>1, DownMeets
  <2>3. running' = [running EXCEPT ![n] = @ \ {port}]
    BY <1>9, <2>2 DEF DownErase
  <2>4. \A g \in Groups : \A q \in Ports \ {port} : q \in running'[g] <=> q \in running[g]
    BY <1>t, <2>3 DEF TypeOK
  <2>5. Working' /\ (cs' \in UpWorking <=> cs = "up") /\ cs \in {"up", "down"} /\ cs # "up"
    BY <2>1 DEF Working, UpWorking, DownWorking
  <2> QED
    BY <1>p, <2>1, <2>2, <2>4, <2>5
<1>10. CASE UpHash \/ DownHash \/ DownStop
  <2>1. /\ UNCHANGED <<running, grp, rx, tx>> /\ port' = port
        /\ Working /\ Working' /\ (cs' \in UpWorking <=> cs \in UpWorking)
    BY <1>10 DEF UpHash, DownHash, DownStop, port, Working, UpWorking, DownWorking
  <2> QED
    BY <1>s, <2>1
<1>w. Working => grp \in Groups /\ ~tx /\ (rx <=> grp \in TxGroups) /\ (grp \in RxGroups => ~rx)
  BY <1>b, <1>t, GroupIds DEF SectionInv, Working, UpWorking, DownWorking
\* The RX group is done: the scan goes on.
<1>n. ASSUME NEW step \in {"up", "down"}, NextGroup(step), Working, running' = running, ~Both,
             step = "up" => cs \in UpWorking
      PROVE  BothInv'
  <2>1. grp \in RxGroups
    BY <1>n, <1>w DEF Both, Groups
  <2>2. /\ rx' = TRUE /\ tx' = FALSE /\ grp' = grp + 1 /\ cs' = step /\ port' = port
    BY <1>n, <1>w, <2>1, GroupIds DEF NextGroup, port
  <2>3. grp' <= NumRx /\ grp < grp'
    BY <1>t, <2>1, <2>2, GroupAssumption DEF RxGroups
  <2>4. cs # "free" /\ cs' # "free" /\ ~Working' /\ (cs' \in UpWorking \cup {"up"} => step = "up")
    BY <1>n, <2>2 DEF Working, UpWorking, DownWorking
  <2>5. step = "up" => port \in running'[grp]
    BY <1>n DEF RunInv
  <2> QED
    BY <1>b, <1>n, <1>u, <2>1, <2>2, <2>3, <2>4, <2>5 DEF BothInv
<1>11. CASE UpWait
  <2>1. cs \in UpWorking /\ Working /\ running' = running
    BY <1>11 DEF UpWait, UpWorking, Working
  <2>2. CASE ~Both
    BY <1>11, <1>n, <2>1, <2>2 DEF UpWait
  <2>3. CASE Both
    <3>1. cs' = "free"
      BY <1>11, <2>3 DEF UpWait, Release
    <3>2. grp \in TxGroups /\ rx
      BY <1>w, <2>1, <2>3 DEF Both, Groups
    <3>3. RunRx(port) /\ RunTx(port)
      BY <1>b, <2>1, <3>2 DEF RunInv, RunRx, RunTx
    <3> QED
      BY <1>f, <2>1, <3>1, <3>3
  <2> QED
    BY <2>2, <2>3
<1>12. CASE DownNotFound
  <2>1. cs = "down" /\ cs' = "free" /\ running' = running /\ Contains(running) = {}
    BY <1>12 DEF DownNotFound, DownReturn, Release
  <2>2. \A g \in Groups : g < grp \/ g >= grp
    BY <1>t
  <2>3. \A g \in Groups : port \notin running[g]
    BY <2>1, <2>2 DEF RunInv, Contains
  <2>4. ~RunRx(port) /\ ~RunTx(port)
    BY <2>3 DEF RunRx, RunTx, Groups
  <2> QED
    BY <1>f, <2>1, <2>4
<1>13. CASE DownJoin \/ DownWait
  <2>1. cs \in DownWorking /\ Working /\ running' = running /\ DownGroupDone
    BY <1>13 DEF DownJoin, DownWait, DownWorking, Working
  <2>2. CASE ~Both
    BY <1>n, <2>1, <2>2 DEF DownGroupDone
  <2>3. CASE Both
    <3>1. cs' = "free"
      BY <2>1, <2>3 DEF DownGroupDone, DownReturn, Release
    <3>2. ~RunRx(port) /\ ~RunTx(port)
      BY <2>1, <2>3, BothDone DEF Both, RunRx, RunTx
    <3> QED
      BY <1>f, <2>1, <3>1, <3>2
  <2> QED
    BY <2>2, <2>3
<1>14. ASSUME NEW g \in Groups, ThreadStep(g) \/ ProcessPortTxError(g) PROVE BothInv'
  <2>1. UNCHANGED <<running, arg, holder, cs, grp, rx, tx>>
    BY <1>14 DEF ThreadStep, UpdateSize, UpdatePorts, UpdateHash, signal_as_synchronized,
       keep_on_working, EpollWait, ProcessPort, CheckHash, ProcessPortTxError
  <2>2. port' = port
    BY <2>1 DEF port
  <2> QED
    BY <1>s, <2>1, <2>2
<1> QED
  BY <1>1, <1>2, <1>3, <1>4, <1>5, <1>6, <1>7, <1>8, <1>9, <1>10, <1>11, <1>12, <1>13, <1>14
  DEF Next, Call, CallerStep

\* At the start no port is running.
LEMMA BothInvInit == Init => BothInv
BY DEF Init, BothInv, RunRx, RunTx, Groups, Working, UpWorking, DownWorking

\* When nobody but the manager brings ports up and down, a port is scheduled
\* for both RX and TX or for neither, failed sends or not.
THEOREM AlwaysScheduledBothWays == ASSUME Others = {} PROVE Spec => []ScheduledBothWays
<1> DEFINE Inv == CallInv /\ PlaceInv /\ RunInv /\ BothInv
<1>1. Init => Inv
  BY CallInvInit, PlaceInvInit, RunInvInit, BothInvInit
<1>2. Inv /\ [Next]_vars => Inv'
  BY CallInvNext, PlaceInvNext, RunInvNext, BothInvNext
<1>3. Inv => ScheduledBothWays
  <2> SUFFICES ASSUME Inv, \A c \in Callers : op[c] = "idle", NEW q \in Ports PROVE RunRx(q) <=> RunTx(q)
    BY DEF ScheduledBothWays, RunRx, RunTx
  <2>1. cs = "free"
    BY HolderCalls
  <2> QED
    BY <2>1 DEF BothInv
<1> QED
  BY <1>1, <1>2, <1>3, PTL DEF Spec

=============================================================================
