------------------------- MODULE ClassifierProofs --------------------------
(***************************************************************************)
(* Proofs about a packet in the pipeline, for every set of complete frames  *)
(* that may arrive, every headroom, pool and number of ports, and any        *)
(* number of actions in any order.                                           *)
(*                                                                         *)
(* None of the six invariants is inductive.  What they rest on is that the   *)
(* type is a description of the frame (Sound): the frame is a stack of       *)
(* headers each of which announces the next (Complete), and the headers of   *)
(* the type are a prefix of that stack (Matches), so that the offsets of the *)
(* tables lead to the headers; and that a stale checksum in the frame is     *)
(* one that a flag or `missed' tells of (Ledger).                            *)
(*                                                                         *)
(* The proof says first what pushes and pops leave of a frame and when a     *)
(* type matches it, then that each action keeps the invariant, and last what *)
(* the invariant says of the getters.  FrameProofs has what it rests on.     *)
(***************************************************************************)
EXTENDS FrameProofs

-----------------------------------------------------------------------------
(* What pushes leave *)

\* The frame f with the pieces p behind its first one, or in front of it.
In(f, p) == Announce(SubSeq(f, 1, 1), p[1].h) \o p \o SubSeq(f, 1 + 1, Len(f))
On(f, p) == p \o SubSeq(f, 0 + 1, Len(f))

\* The pieces of a frame with others behind its first one.
LEMMA InFacts ==
    ASSUME NEW f, Complete(f), NEW p \in Frames, Len(p) > 0
    PROVE  /\ Spliced(In(f, p), 1 + Len(p), f, 2) /\ Len(In(f, p)) = Len(f) + Len(p)
           /\ In(f, p)[1] = [f[1] EXCEPT !.next = p[1].h]
           /\ In(f, p)[2] = p[1]
           /\ \A j \in 1..Len(p) : In(f, p)[j + 1] = p[j]
           /\ p[1].h \in Names /\ 2 \in 2..Len(f) /\ 1 + Len(p) \in Nat \ {0} /\ Len(f) \in Nat /\ Len(p) \in Nat
<1>1. f \in Frames /\ Len(f) \in Nat /\ Len(f) > 1 /\ Len(p) \in Nat
  BY CompleteFacts, FrameFacts
<1>2. p[1].h \in Names
  <2>1. 1 \in 1..Len(p)
    BY <1>1
  <2>2. p[1] \in Pieces
    BY <2>1, FrameFacts
  <2> QED
    BY <2>2 DEF Pieces
<1> DEFINE c == p[1].h
<1>2a. c \in Names /\ Len(f) > 0
  BY <1>1, <1>2
<1> HIDE DEF c
<1> DEFINE g == Announce(SubSeq(f, 1, 1), c) \o p \o SubSeq(f, 1 + 1, Len(f))
<1>3. /\ Spliced(g, 1 + Len(p), f, 2)
      /\ g[1] = [f[1] EXCEPT !.next = c] /\ \A j \in 1..Len(p) : g[j + 1] = p[j]
  BY <1>1, <1>2a, Inserted
<1>4. g = In(f, p)
  BY DEF In, c
<1> HIDE DEF g
<1>5. Len(g) = 1 + Len(p) + (Len(f) - 2 + 1)
  BY <1>3 DEF Spliced
<1>6. Len(g) = Len(f) + Len(p)
  BY <1>1, <1>5
<1>7. g[2] = p[1]
  <2>1. 1 \in 1..Len(p) /\ 1 + 1 = 2
    BY <1>1
  <2> QED
    BY <1>3, <2>1
<1> QED
  BY <1>1, <1>2, <1>3, <1>4, <1>6, <1>7 DEF c

\* Pieces pushed behind the first one, each as it should be, leave the frame complete.
LEMMA InComplete ==
    ASSUME NEW f, Complete(f), NEW p \in Frames, Len(p) > 0,
           \A j \in 2..(1 + Len(p)) : PieceOk(In(f, p), j)
    PROVE  /\ Complete(In(f, p)) /\ SameTail(f, 2, In(f, p), 1 + Len(p) + 1)
           /\ In(f, p)[1].h = f[1].h /\ In(f, p)[1].next = p[1].h
<1> DEFINE g == In(f, p)
<1> DEFINE a == 1 + Len(p)
<1> DEFINE c == p[1].h
<1>1. /\ Spliced(g, a, f, 2) /\ g[1] = [f[1] EXCEPT !.next = c] /\ g[2] = p[1]
      /\ c \in Names /\ 2 \in 2..Len(f) /\ a \in Nat \ {0}
  BY InFacts
<1>2. c \in Ethertypes => g[2].h = c
  BY <1>1
<1>3. \A j \in 2..a : PieceOk(g, j)
  OBVIOUS
<1> HIDE DEF g, a, c
<1>4. /\ Complete(g) /\ SameTail(f, 2, g, a + 1) /\ g[1].h = f[1].h /\ g[1].next = c
  BY <1>1, <1>2, <1>3, InsideComplete
<1> QED
  BY <1>4 DEF g, a, c

\* Pieces pushed behind the first one bring their own stale checksums only.
LEMMA InStale ==
    ASSUME NEW f, Complete(f), NEW p \in Frames, Len(p) > 0, NEW S, StaleIn(f, S),
           \A j \in 1..Len(p) : p[j].stale => p[j].h \in S
    PROVE  StaleIn(In(f, p), S)
<1> DEFINE g == In(f, p)
<1>1. /\ Spliced(g, 1 + Len(p), f, 2) /\ g[1] = [f[1] EXCEPT !.next = p[1].h]
      /\ \A j \in 1..Len(p) : g[j + 1] = p[j]
      /\ Len(p) \in Nat /\ p[1].h \in Names /\ 2 \in 2..Len(f) /\ Len(f) \in Nat
  BY InFacts
<1>2. f \in Frames /\ f[1] \in Pieces /\ 1 \in DOMAIN f
  <2>1. f \in Frames /\ 1 \in 1..Len(f)
    BY <1>1, CompleteFacts
  <2> QED
    BY <2>1, FrameFacts
<1> HIDE DEF g
<1>3. g[1].stale => g[1].h \in S
  <2> DEFINE q == f[1]
  <2> HIDE DEF q
  <2>1. q \in Pieces
    BY <1>2 DEF q
  <2>2. [q EXCEPT !.next = p[1].h].h = q.h /\ [q EXCEPT !.next = p[1].h].stale = q.stale
    BY <2>1 DEF Pieces
  <2>3. q.stale => q.h \in S
    BY <1>2 DEF StaleIn, q
  <2>4. g[1] = [q EXCEPT !.next = p[1].h]
    BY <1>1 DEF q
  <2> QED
    BY <2>2, <2>3, <2>4
<1>4. \A j \in 1..(1 + Len(p)) : g[j].stale => g[j].h \in S
  <2> TAKE j \in 1..(1 + Len(p))
  <2>1. CASE j = 1
    BY <1>3, <2>1
  <2>2. CASE j # 1
    <3>1. j - 1 \in 1..Len(p) /\ (j - 1) + 1 = j
      BY <1>1, <2>2
    <3>2. g[j] = p[j - 1]
      BY <1>1, <3>1
    <3> QED
      BY <3>1, <3>2
  <2> QED
    BY <2>1, <2>2
<1>5. StaleIn(g, S)
  BY <1>1, <1>2, <1>4, SpliceStale
<1> QED
  BY <1>5 DEF g

\* The pieces of a frame with others in front of it.
LEMMA OnFacts ==
    ASSUME NEW f, Complete(f), NEW p \in Frames, Len(p) > 0
    PROVE  /\ Spliced(On(f, p), Len(p), f, 1) /\ Len(On(f, p)) = Len(f) + Len(p)
           /\ \A j \in 1..Len(p) : On(f, p)[j] = p[j]
           /\ On(f, p)[Len(p) + 1] = f[1]
           /\ Len(f) \in Nat /\ Len(f) > 1 /\ f[1].h \in Link /\ Len(p) \in Nat
<1>1. f \in Frames /\ Len(f) \in Nat /\ Len(f) > 1 /\ Len(p) \in Nat /\ f[1].h \in Link
  BY CompleteFacts, FrameFacts
<1>2. Spliced(On(f, p), Len(p), f, 1) /\ \A j \in 1..Len(p) : On(f, p)[j] = p[j]
  BY <1>1, Prepended DEF On
<1> DEFINE g == On(f, p)
<1> HIDE DEF g
<1>3. Len(g) = Len(p) + (Len(f) - 1 + 1) /\ \A d \in 0..(Len(f) - 1) : g[Len(p) + 1 + d] = f[1 + d]
  BY <1>2 DEF Spliced, g
<1>4. Len(g) = Len(f) + Len(p)
  BY <1>1, <1>3
<1>5. g[Len(p) + 1] = f[1]
  <2>1. 0 \in 0..(Len(f) - 1) /\ Len(p) + 1 + 0 = Len(p) + 1 /\ 1 + 0 = 1
    BY <1>1
  <2> QED
    BY <1>3, <2>1
<1> QED
  BY <1>1, <1>2, <1>4, <1>5 DEF g

\* Pieces pushed in front, each as it should be, leave the frame complete.
LEMMA OnComplete ==
    ASSUME NEW f, Complete(f), NEW p \in Frames, Len(p) > 0, p[1].h \in Link,
           \A j \in 1..Len(p) : PieceOk(On(f, p), j)
    PROVE  Complete(On(f, p))
<1>1. Spliced(On(f, p), Len(p), f, 1) /\ 1 \in 1..Len(f) /\ Len(p) \in Nat /\ On(f, p)[1].h = p[1].h
  <2>1. 1 \in 1..Len(p)
    BY FrameFacts
  <2> QED
    BY <2>1, OnFacts
<1> QED
  BY <1>1, OutsideComplete

\* Pieces pushed in front bring their own stale checksums only.
LEMMA OnStale ==
    ASSUME NEW f, Complete(f), NEW p \in Frames, Len(p) > 0, NEW S, StaleIn(f, S),
           \A j \in 1..Len(p) : p[j].stale => p[j].h \in S
    PROVE  StaleIn(On(f, p), S)
<1>1. Spliced(On(f, p), Len(p), f, 1) /\ f \in Frames /\ \A j \in 1..Len(p) : On(f, p)[j] = p[j]
  BY OnFacts, CompleteFacts
<1> QED
  BY <1>1, SpliceStale

\* What pops leave: the frame f without its pieces from the second one, or from the first, up to k.
Out(f, k, c) == Announce(SubSeq(f, 1, 2 - 1) \o SubSeq(f, k, Len(f)), c)
Off(f, k) == SubSeq(f, 1, 1 - 1) \o SubSeq(f, k, Len(f))

\* A frame without the pieces behind its first one is complete when the ethertype fits.
LEMMA OutComplete ==
    ASSUME NEW f, Complete(f), NEW k \in 2..Len(f), NEW c \in Names, c \in Ethertypes => f[k].h = c
    PROVE  /\ Complete(Out(f, k, c)) /\ SameTail(f, k, Out(f, k, c), 2)
           /\ Out(f, k, c)[1].h = f[1].h /\ Out(f, k, c)[1].next = c
           /\ \A S : StaleIn(f, S) => StaleIn(Out(f, k, c), S)
<1> DEFINE g == Out(f, k, c)
<1>1. f \in Frames /\ Len(f) \in Nat /\ Len(f) > 1
  BY CompleteFacts
<1>2. Spliced(g, 1, f, k) /\ g[1] = [f[1] EXCEPT !.next = c]
  <2>1. k \in 2..(Len(f) + 1)
    BY <1>1
  <2> QED
    BY <1>1, <2>1, Removed DEF Out
<1> HIDE DEF g
<1>3. g[2] = f[k]
  <2>1. 0 \in 0..(Len(f) - k) /\ 1 + 1 + 0 = 2 /\ k + 0 = k
    BY <1>1
  <2>2. \A d \in 0..(Len(f) - k) : g[1 + 1 + d] = f[k + d]
    BY <1>2 DEF Spliced
  <2> QED
    BY <2>1, <2>2
<1>4. /\ Complete(g) /\ SameTail(f, k, g, 1 + 1)
      /\ g[1].h = f[1].h /\ g[1].next = c
  <2>1. \A j \in 2..1 : PieceOk(g, j)
    OBVIOUS
  <2>2. 1 \in Nat \ {0}
    OBVIOUS
  <2>3. c \in Ethertypes => g[2].h = c
    BY <1>3
  <2> DEFINE a == 1
  <2>4. Spliced(g, a, f, k) /\ a \in Nat \ {0} /\ \A j \in 2..a : PieceOk(g, j)
    BY <1>2, <2>1, <2>2
  <2> HIDE DEF a
  <2>5. Complete(g) /\ SameTail(f, k, g, a + 1) /\ g[1].h = f[1].h /\ g[1].next = c
    BY <1>2, <2>3, <2>4, InsideComplete
  <2> QED
    BY <2>5 DEF a
<1>5. \A S : StaleIn(f, S) => StaleIn(g, S)
  <2> SUFFICES ASSUME NEW S, StaleIn(f, S)  PROVE StaleIn(g, S)
    OBVIOUS
  <2>1. 1 \in DOMAIN f
    BY <1>1, FrameFacts
  <2>2. f[1] \in Pieces
    BY <1>1, <2>1, FrameFacts
  <2> DEFINE q == f[1]
  <2> HIDE DEF q
  <2>3. [q EXCEPT !.next = c].h = q.h /\ [q EXCEPT !.next = c].stale = q.stale
    BY <2>2 DEF Pieces, q
  <2>4. q.stale => q.h \in S
    BY <2>1 DEF StaleIn, q
  <2>5. g[1] = [q EXCEPT !.next = c]
    BY <1>2 DEF q
  <2>7. g[1].stale => g[1].h \in S
    BY <2>3, <2>4, <2>5
  <2>6. \A j \in 1..1 : g[j].stale => g[j].h \in S
    BY <2>7
  <2> QED
    BY <1>1, <1>2, <2>6, SpliceStale
<1>6. 1 + 1 = 2
  OBVIOUS
<1> QED
  BY <1>4, <1>5, <1>6 DEF g

\* What is left of a frame without its first pieces is complete when it begins with layer 2.
LEMMA OffComplete ==
    ASSUME NEW f, Complete(f), NEW k \in 1..Len(f), f[k].h \in Link
    PROVE  Complete(Off(f, k)) /\ \A S : StaleIn(f, S) => StaleIn(Off(f, k), S)
<1> DEFINE g == Off(f, k)
<1>1. f \in Frames /\ Len(f) \in Nat /\ k \in 1..(Len(f) + 1)
  BY CompleteFacts
<1>2. Spliced(g, 0, f, k)
  BY <1>1, Dropped DEF Off
<1> HIDE DEF g
<1>3. g[1] = f[k]
  <2>1. 0 \in 0..(Len(f) - k) /\ 0 + 1 + 0 = 1 /\ k + 0 = k
    BY <1>1
  <2>2. \A d \in 0..(Len(f) - k) : g[0 + 1 + d] = f[k + d]
    BY <1>2 DEF Spliced
  <2> QED
    BY <2>1, <2>2
<1>4. Complete(g)
  <2>1. \A j \in 1..0 : PieceOk(g, j)
    OBVIOUS
  <2> QED
    BY <1>2, <1>3, <2>1, OutsideComplete
<1>5. \A S : StaleIn(f, S) => StaleIn(g, S)
  <2>1. \A S, j \in 1..0 : g[j].stale => g[j].h \in S
    OBVIOUS
  <2> QED
    BY <1>1, <1>2, <2>1, SpliceStale
<1> QED
  BY <1>4, <1>5 DEF g

-----------------------------------------------------------------------------
(* Types that match a frame *)

\* The fields of a type.
LEMMA TypeFields ==
    \A l2, up, n : Type(l2, up, n).l2 = l2 /\ Type(l2, up, n).up = up /\ Type(l2, up, n).n = n
BY DEF Type

\* One more tag on a stack of layer 2 headers that has room for it.
LEMMA TagAppended ==
    ASSUME NEW l2 \in {<<"ETHERNET">>, <<"8023">>, <<"ETHERNET", "VLAN">>, <<"8023", "VLAN">>}
    PROVE  /\ l2 \in L2 /\ ~HasIsid(l2) /\ Len(l2) \in 1..2 /\ (Len(l2) = 2 => l2[2] = "VLAN")
           /\ Append(l2, "VLAN") \in L2 /\ ~HasIsid(Append(l2, "VLAN"))
           /\ Len(Append(l2, "VLAN")) = Len(l2) + 1
           /\ Append(l2, "VLAN")[1] = l2[1] /\ Append(l2, "VLAN")[2] = "VLAN"
           /\ Len(l2) = 2 => Append(l2, "VLAN")[3] = "VLAN"
<1>1. l2 \in L2 /\ ~HasIsid(l2) /\ Len(l2) \in 1..2 /\ (Len(l2) = 2 => l2[2] = "VLAN")
  BY DEF L2, HasIsid
<1> DEFINE x == Append(l2, "VLAN")
<1>2. /\ l2 = <<"ETHERNET">> => x = <<"ETHERNET", "VLAN">>
      /\ l2 = <<"8023">> => x = <<"8023", "VLAN">>
      /\ l2 = <<"ETHERNET", "VLAN">> => x = <<"ETHERNET", "VLAN", "VLAN">>
      /\ l2 = <<"8023", "VLAN">> => x = <<"8023", "VLAN", "VLAN">>
  BY Appended
<1> HIDE DEF x
<1>3. \/ l2 = <<"ETHERNET">> /\ x = <<"ETHERNET", "VLAN">>
      \/ l2 = <<"8023">> /\ x = <<"8023", "VLAN">>
      \/ l2 = <<"ETHERNET", "VLAN">> /\ x = <<"ETHERNET", "VLAN", "VLAN">>
      \/ l2 = <<"8023", "VLAN">> /\ x = <<"8023", "VLAN", "VLAN">>
  BY <1>2
<1>4. x \in L2 /\ ~HasIsid(x)
  BY <1>3 DEF L2, HasIsid
<1>5. Len(x) = Len(l2) + 1 /\ x[1] = l2[1] /\ x[2] = "VLAN" /\ (Len(l2) = 2 => x[3] = "VLAN")
  <2>1. CASE l2 = <<"ETHERNET">>
    <3>1. x = <<"ETHERNET", "VLAN">>
      BY <1>2, <2>1
    <3>2. Len(l2) = 1 /\ l2[1] = "ETHERNET"
      BY <2>1
    <3>3. Len(x) = 2 /\ x[1] = "ETHERNET" /\ x[2] = "VLAN"
      BY <3>1
    <3> QED
      BY <3>2, <3>3
  <2>2. CASE l2 = <<"8023">>
    <3>1. x = <<"8023", "VLAN">>
      BY <1>2, <2>2
    <3>2. Len(l2) = 1 /\ l2[1] = "8023"
      BY <2>2
    <3>3. Len(x) = 2 /\ x[1] = "8023" /\ x[2] = "VLAN"
      BY <3>1
    <3> QED
      BY <3>2, <3>3
  <2>3. CASE l2 = <<"ETHERNET", "VLAN">>
    <3>1. x = <<"ETHERNET", "VLAN", "VLAN">>
      BY <1>2, <2>3
    <3>2. Len(l2) = 2 /\ l2[1] = "ETHERNET"
      BY <2>3
    <3>3. Len(x) = 3 /\ x[1] = "ETHERNET" /\ x[2] = "VLAN" /\ x[3] = "VLAN"
      BY <3>1
    <3> QED
      BY <3>2, <3>3
  <2>4. CASE l2 = <<"8023", "VLAN">>
    <3>1. x = <<"8023", "VLAN", "VLAN">>
      BY <1>2, <2>4
    <3>2. Len(l2) = 2 /\ l2[1] = "8023"
      BY <2>4
    <3>3. Len(x) = 3 /\ x[1] = "8023" /\ x[2] = "VLAN" /\ x[3] = "VLAN"
      BY <3>1
    <3> QED
      BY <3>2, <3>3
  <2> QED
    BY <2>1, <2>2, <2>3, <2>4
<1> QED
  BY <1>1, <1>4, <1>5 DEF x

\* A type that the classifier can have found.
LEMMA SeenFacts ==
    ASSUME NEW t, Seen(t)
    PROVE  TypeFacts(t, t.l2, t.up, t.n) /\ t.l2 \in L2 /\ Found(t.up, t.n) /\ t = Type(t.l2, t.up, t.n)
BY DEF Seen, TypeFacts

\* The pieces behind the layer 2 headers are found again where they have moved to.
LEMMA UpMoved ==
    ASSUME NEW f \in Frames, NEW g \in Frames, NEW i \in 1..Len(f), NEW j \in 1..Len(g), SameTail(f, i, g, j),
           NEW b \in Nat, NEW c \in Nat, b + 1 >= i, b - i = c - j, NEW up, NEW n,
           Len(up) \in Nat, up # <<>> => Len(up) > 0, UpMatches(f, b, up, n),
           f[b].next = g[c].next
    PROVE  UpMatches(g, c, up, n)
<1>1. Len(f) \in Nat /\ Len(g) \in Nat /\ Len(f) - i = Len(g) - j /\ \A d \in 0..(Len(f) - i) : Alike(f[i + d], g[j + d])
  BY FrameFacts DEF SameTail
<1>2. /\ b + Len(up) <= Len(f) /\ (\A x \in 1..Len(up) : f[b + x].h = Raw(up[x]))
      /\ (up # <<>> => f[b].next = up[1]) /\ (up # <<>> /\ up[1] = "IPV4" => f[b + 1].n = n)
  BY DEF UpMatches
<1>3. ASSUME NEW x \in 1..Len(up)  PROVE Alike(f[b + x], g[c + x])
  <2> DEFINE d == b + x - i
  <2>1. d \in 0..(Len(f) - i) /\ i + d = b + x /\ j + d = c + x
    BY <1>1, <1>2
  <2> HIDE DEF d
  <2> QED
    BY <1>1, <2>1
<1>4. c + Len(up) <= Len(g)
  BY <1>1, <1>2
<1>5. \A x \in 1..Len(up) : g[c + x].h = Raw(up[x])
  BY <1>2, <1>3 DEF Alike
<1>6. up # <<>> => g[c].next = up[1]
  BY <1>2
<1>7. up # <<>> /\ up[1] = "IPV4" => g[c + 1].n = n
  <2> SUFFICES ASSUME up # <<>>, up[1] = "IPV4"  PROVE g[c + 1].n = n
    OBVIOUS
  <2>1. 1 \in 1..Len(up)
    OBVIOUS
  <2> QED
    BY <1>2, <1>3, <2>1 DEF Alike
<1> QED
  BY <1>4, <1>5, <1>6, <1>7 DEF UpMatches

\* Stacks of headers are finite.
LEMMA FoundUp ==
    ASSUME NEW up, NEW n, Found(up, n)
    PROVE  Len(up) \in Nat /\ (up # <<>> => Len(up) > 0)
<1>1. Len(up) \in 0..4
  BY UpElements
<1>2. up # <<>> => Len(up) > 0
  <2>1. up \in {<<>>, <<"PPPOE">>, <<"PPPOE", "PPP">>, <<"ARPV4">>, <<"MPLS">>} => (up # <<>> => Len(up) > 0)
    OBVIOUS
  <2>2. up \in Ipv4Stacks => (up # <<>> => Len(up) > 0)
    BY DEF Ipv4Stacks
  <2>3. up \in Ipv6Stacks => (up # <<>> => Len(up) > 0)
    BY DEF Ipv6Stacks
  <2>4. up \in NeighbourStacks => (up # <<>> => Len(up) > 0)
    BY DEF NeighbourStacks
  <2> QED
    BY <2>1, <2>2, <2>3, <2>4 DEF Found
<1> QED
  BY <1>1, <1>2

\* What a type says of the frame it matches.
LEMMA MatchesFacts ==
    ASSUME NEW f, Complete(f), NEW t, Matches(f, t)
    PROVE  /\ TypeFacts(t, t.l2, t.up, t.n) /\ t.l2 \in L2 /\ Found(t.up, t.n) /\ t = Type(t.l2, t.up, t.n)
           /\ L2Matches(f, t.l2) /\ UpMatches(f, Len(t.l2), t.up, t.n)
           /\ f[1].h = t.l2[1] /\ Len(t.l2) \in 1..3 /\ Len(t.l2) < Len(f)
           /\ (Backbone(t) => t.up = <<>>) /\ (Backbone(t) <=> HasIsid(t.l2))
<1>1. Seen(t) /\ L2Matches(f, t.l2) /\ UpMatches(f, Len(t.l2), t.up, t.n)
  BY DEF Matches
<1>2. TypeFacts(t, t.l2, t.up, t.n) /\ t.l2 \in L2 /\ Found(t.up, t.n) /\ t = Type(t.l2, t.up, t.n)
  BY <1>1, SeenFacts
<1>3. Len(t.l2) \in 1..3
  BY <1>2, L2Shape
<1>4. f[1].h = t.l2[1] /\ Len(t.l2) < Len(f)
  BY <1>1, <1>3 DEF L2Matches
<1>5. Backbone(t) => t.up = <<>>
  BY <1>1 DEF Seen
<1>6. Backbone(t) <=> HasIsid(t.l2)
  <2> DEFINE l2 == t.l2
  <2> DEFINE up == t.up
  <2> DEFINE n == t.n
  <2>1. t = Type(l2, up, n) /\ l2 \in L2
    BY <1>2
  <2> HIDE DEF l2, up, n
  <2>2. Backbone(Type(l2, up, n)) <=> HasIsid(l2)
    BY <2>1, Prefix DEF HasIsid
  <2>3. Backbone(t) <=> HasIsid(l2)
    BY <2>1, <2>2
  <2> QED
    BY <2>3 DEF l2
<1> QED
  BY <1>1, <1>2, <1>3, <1>4, <1>5, <1>6

\* When a type matches a frame.
LEMMA MatchesIf ==
    ASSUME NEW f, NEW l2 \in L2, NEW up, NEW n, Found(up, n), ~HasIsid(l2) \/ up = <<>>,
           L2Matches(f, l2), UpMatches(f, Len(l2), up, n)
    PROVE  Matches(f, Type(l2, up, n))
<1> DEFINE t == Type(l2, up, n)
<1>1. t.l2 = l2 /\ t.up = up /\ t.n = n
  BY TypeFields
<1>2. Backbone(t) => t.up = <<>>
  <2>1. Backbone(Type(l2, up, n)) <=> HasIsid(l2)
    BY Prefix DEF HasIsid
  <2> QED
    BY <1>1, <2>1
<1> HIDE DEF t
<1>3. t = Type(t.l2, t.up, t.n)
  BY <1>1 DEF t
<1>4. Seen(t)
  BY <1>1, <1>2, <1>3 DEF Seen
<1>5. Matches(f, t)
  BY <1>1, <1>4 DEF Matches
<1> QED
  BY <1>5 DEF t

\* A tag is pushed: the table puts it at byte 14, unless the frame is an 802.3 frame.
LEMMA VlanPlace ==
    ASSUME NEW f, Complete(f), NEW t, Matches(f, t), push_transitions(t, "VLAN") # Invalid
    PROVE  protocol_offsets_bt(push_transitions(t, "VLAN"), "VLAN") = (IF f[1].h = "ETHERNET" THEN 14 ELSE 22)
<1> DEFINE l2 == t.l2
<1> DEFINE up == t.up
<1> DEFINE n == t.n
<1>1. TypeFacts(t, l2, up, n) /\ Found(up, n) /\ f[1].h = l2[1] /\ l2 \in L2
  BY MatchesFacts
<1> HIDE DEF l2, up, n
<1>2. /\ l2 \in {<<"ETHERNET">>, <<"8023">>, <<"ETHERNET", "VLAN">>, <<"8023", "VLAN">>}
      /\ push_transitions(t, "VLAN") = Type(Append(l2, "VLAN"), up, n)
  BY <1>1, PushVlan
<1> DEFINE x == Append(l2, "VLAN")
<1>3. x \in L2 /\ Len(x) = Len(l2) + 1 /\ x[1] = l2[1] /\ x[2] = "VLAN" /\ Len(l2) \in 1..2
  BY <1>2, TagAppended
<1> HIDE DEF x
<1>4. protocol_offsets_bt(Type(x, up, n), x[2]) = L2Len(<<x[1]>>)
  <2>1. Len(x) > 1
    BY <1>3
  <2> QED
    BY <1>1, <1>3, <2>1, OffsetsL2
<1>5. L2Len(<<x[1]>>) = (IF f[1].h = "ETHERNET" THEN 14 ELSE 22)
  <2>1. x[1] \in {"ETHERNET", "8023"}
    BY <1>3, L2Shape DEF Link
  <2> DEFINE a == x[1]
  <2> HIDE DEF a
  <2>2. L2Len(<<a>>) = (IF a = "ETHERNET" THEN 14 ELSE 22)
    BY <2>1, Lengths DEF a
  <2> QED
    BY <1>1, <1>3, <2>2 DEF a
<1> QED
  BY <1>2, <1>3, <1>4, <1>5 DEF x

\* A tag that is pushed behind the Ethernet header is the one the new type has first.
LEMMA VlanPushed ==
    ASSUME NEW f, Complete(f), NEW t, Matches(f, t), push_transitions(t, "VLAN") # Invalid, f[1].h = "ETHERNET"
    PROVE  LET g == In(f, <<Piece("VLAN", 0, f[1].next)>>)
               new == push_transitions(t, "VLAN")
           IN  /\ Complete(g) /\ Matches(g, new)
               /\ t = parse_ethernet(f) => new = parse_ethernet(g)
               /\ \A S : StaleIn(f, S) => StaleIn(g, S)
<1> DEFINE tag == Piece("VLAN", 0, f[1].next)
<1> DEFINE p == <<tag>>
<1> DEFINE g == In(f, p)
<1>1. f \in Frames /\ Len(f) \in Nat /\ Len(f) > 1 /\ f[1].next \in Names /\ (f[1].next \in Ethertypes => f[2].h = f[1].next)
  <2>1. f \in Frames /\ Len(f) \in Nat /\ Len(f) > 1 /\ f[1].h \in Link
    BY CompleteFacts
  <2>2. 1 \in 1..Len(f) /\ 1 + 1 = 2
    BY <2>1
  <2>3. f[1].next \in Carries(f[1].h) => f[1 + 1].h = f[1].next
    BY <2>2, CompleteFacts
  <2>4. f[1] \in Pieces
    BY <2>1, <2>2, FrameFacts
  <2> QED
    BY <2>1, <2>2, <2>3, <2>4, CarriesFacts DEF Pieces
<1>2. tag \in Pieces /\ tag.h = "VLAN" /\ tag.n = 0 /\ tag.next = f[1].next /\ ~tag.stale
  <2> DEFINE next == f[1].next
  <2>1. next \in Names /\ "VLAN" \in Names /\ 0 \in Nat
    BY <1>1, KnownNames
  <2> HIDE DEF next
  <2>2. Piece("VLAN", 0, next) \in Pieces
    BY <2>1, PieceIs
  <2>3. Piece("VLAN", 0, next).h = "VLAN" /\ Piece("VLAN", 0, next).n = 0 /\ Piece("VLAN", 0, next).next = next
        /\ ~Piece("VLAN", 0, next).stale
    BY <2>1, PieceIs
  <2> QED
    BY <2>2, <2>3 DEF next
<1> HIDE DEF tag
<1>3. p \in Frames /\ Len(p) = 1 /\ p[1] = tag
  BY <1>2, Spelled
<1> HIDE DEF p
<1>4. Spliced(g, 1 + Len(p), f, 2) /\ Len(g) = Len(f) + Len(p) /\ g[2] = tag
  <2>1. Len(p) > 0
    BY <1>3
  <2>2. Spliced(g, 1 + Len(p), f, 2) /\ Len(g) = Len(f) + Len(p) /\ g[2] = p[1]
    BY <1>3, <2>1, InFacts
  <2> QED
    BY <1>3, <2>2
<1>5. g[3] = f[2]
  <2>1. \A d \in 0..(Len(f) - 2) : g[1 + Len(p) + 1 + d] = f[2 + d]
    BY <1>4 DEF Spliced
  <2>2. 0 \in 0..(Len(f) - 2) /\ 1 + 1 + 1 + 0 = 3 /\ 2 + 0 = 2
    BY <1>1
  <2> QED
    BY <1>3, <2>1, <2>2
<1>6. \A j \in 2..(1 + Len(p)) : PieceOk(g, j)
  <2> SUFFICES PieceOk(g, 2)
    BY <1>3
  <2>1. Len(g) = Len(f) + 1 /\ 2 \in 1..(Len(g) - 1) /\ Len(g) \in Nat /\ 2 + 1 = 3
    BY <1>1, <1>3, <1>4
  <2> HIDE DEF g
  <2>2. g[2].next \in Ethertypes => g[2 + 1].h = g[2].next
    BY <1>1, <1>2, <1>4, <1>5, <2>1
  <2> QED
    BY <1>2, <1>4, <2>1, <2>2, TagOk
<1>7. Complete(g) /\ SameTail(f, 2, g, 3) /\ g[1].h = "ETHERNET" /\ g[1].next = "VLAN"
  <2>1. Len(p) > 0 /\ 1 + Len(p) + 1 = 3
    BY <1>3
  <2>2. Complete(g) /\ SameTail(f, 2, g, 1 + Len(p) + 1) /\ g[1].h = f[1].h /\ g[1].next = p[1].h
    BY <1>3, <1>6, <2>1, InComplete
  <2> QED
    BY <1>2, <1>3, <2>1, <2>2
<1>8. \A S : StaleIn(f, S) => StaleIn(g, S)
  <2> SUFFICES ASSUME NEW S, StaleIn(f, S)  PROVE StaleIn(g, S)
    OBVIOUS
  <2>1. \A j \in 1..Len(p) : p[j].stale => p[j].h \in S
    BY <1>2, <1>3
  <2> QED
    BY <1>3, <2>1, InStale
<1> HIDE DEF g
<1> DEFINE l2 == t.l2
<1> DEFINE up == t.up
<1> DEFINE n == t.n
<1>9. /\ TypeFacts(t, l2, up, n) /\ Found(up, n) /\ f[1].h = l2[1] /\ l2 \in L2 /\ t = Type(l2, up, n)
      /\ L2Matches(f, l2) /\ UpMatches(f, Len(l2), up, n)
  BY MatchesFacts
<1> HIDE DEF l2, up, n
<1>10. /\ l2 \in {<<"ETHERNET">>, <<"8023">>, <<"ETHERNET", "VLAN">>, <<"8023", "VLAN">>}
       /\ push_transitions(t, "VLAN") = Type(Append(l2, "VLAN"), up, n)
  BY <1>9, PushVlan
<1> DEFINE x == Append(l2, "VLAN")
<1>11. /\ x \in L2 /\ Len(x) = Len(l2) + 1 /\ x[1] = l2[1] /\ x[2] = "VLAN" /\ Len(l2) \in 1..2 /\ ~HasIsid(x)
       /\ (Len(l2) = 2 => l2[2] = "VLAN" /\ x[3] = "VLAN") /\ ~HasIsid(l2)
  BY <1>10, TagAppended
<1> HIDE DEF x
<1> DEFINE m == Len(l2)
<1>11b. m \in 1..2 /\ Len(x) = m + 1
  BY <1>11
<1>11c. \A i \in 1..2 : i < 3
  OBVIOUS
<1>11a. m \in 1..2 /\ Len(x) = m + 1 /\ m < 3
  BY <1>11b, <1>11c
<1> HIDE DEF m
<1>12. L2Matches(g, x)
  <2>1. Len(x) < Len(g)
    BY <1>1, <1>3, <1>4, <1>9, <1>11 DEF L2Matches
  <2>2. Len(l2) = 2 => f[1].next = "VLAN" /\ f[2].h = "VLAN"
    BY <1>9, <1>11 DEF L2Matches
  <2>3. \A i \in 1..Len(x) : i = 1 \/ i = 2 \/ (i = 3 /\ m = 2)
    BY <1>11a
  <2>4. \A i \in 1..Len(x) : g[i].h = x[i]
    BY <1>2, <1>4, <1>5, <1>7, <1>9, <1>11, <2>2, <2>3 DEF m
  <2>5. \A i \in 1..(Len(x) - 1) : i = 1 \/ (i = 2 /\ m = 2)
    BY <1>11a
  <2>6. 1 + 1 = 2 /\ 2 + 1 = 3
    OBVIOUS
  <2>7. \A i \in 1..(Len(x) - 1) : g[i].next = x[i + 1]
    BY <1>2, <1>4, <1>7, <1>11, <2>2, <2>5, <2>6 DEF m
  <2> QED
    BY <2>1, <2>4, <2>7 DEF L2Matches
<1>13. UpMatches(g, Len(x), up, n)
  <2>1. g \in Frames /\ Len(up) \in Nat /\ (up # <<>> => Len(up) > 0)
    BY <1>7, <1>9, CompleteFacts, FoundUp
  <2>2. 2 \in 1..Len(f) /\ 3 \in 1..Len(g) /\ Len(l2) \in Nat /\ Len(x) \in Nat /\ Len(l2) + 1 >= 2 /\ Len(l2) - 2 = Len(x) - 3
    BY <1>1, <1>3, <1>4, <1>11
  <2>3. f[Len(l2)].next = g[Len(x)].next
    <3>1. CASE Len(l2) = 1
      BY <1>2, <1>4, <1>11, <3>1
    <3>2. CASE Len(l2) = 2
      BY <1>5, <1>11, <3>2
    <3> QED
      BY <1>11, <3>1, <3>2
  <2> QED
    BY <1>1, <1>7, <1>9, <2>1, <2>2, <2>3, UpMoved
<1>14. Matches(g, Type(x, up, n))
  BY <1>9, <1>11, <1>12, <1>13, MatchesIf
<1>15. t = parse_ethernet(f) => Type(x, up, n) = parse_ethernet(g)
  <2> SUFFICES ASSUME t = parse_ethernet(f)  PROVE Type(x, up, n) = parse_ethernet(g)
    OBVIOUS
  <2>1. parse_ethernet(f) = Type(l2, up, n) /\ Len(l2) < 3 /\ g[2].h = "VLAN" /\ g[2].next = f[1].next
    BY <1>2, <1>4, <1>9, <1>11a DEF m
  <2>2. parse_ethernet(g) = Type(Append(l2, "VLAN"), up, n)
    BY <1>7, <1>11, <2>1, ParsePushedVlan
  <2> QED
    BY <2>2 DEF x
<1>16. push_transitions(t, "VLAN") = Type(x, up, n)
  BY <1>10 DEF x
<1> QED
  BY <1>7, <1>8, <1>14, <1>15, <1>16 DEF g, p, tag

\* The type behind a popped tag.
LEMMA TagTaken ==
    ASSUME NEW t, NEW l2 \in L2, NEW up, NEW n, TypeFacts(t, l2, up, n), pop_transitions(t, "VLAN") # Invalid
    PROVE  \E y \in L2 :
             /\ pop_transitions(t, "VLAN") = Type(y, up, n) /\ ~HasIsid(y)
             /\ Len(y) \in 1..2 /\ Len(l2) = Len(y) + 1 /\ y[1] = l2[1] /\ l2[2] = "VLAN"
             /\ Len(y) = 2 => y[2] = "VLAN" /\ l2[3] = "VLAN"
<1>1. PICK a \in Link : \/ l2 = <<a, "VLAN">> /\ pop_transitions(t, "VLAN") = Type(<<a>>, up, n)
                        \/ l2 = <<a, "VLAN", "VLAN">> /\ pop_transitions(t, "VLAN") = Type(<<a, "VLAN">>, up, n)
  BY PopVlan
<1>2. CASE l2 = <<a, "VLAN">> /\ pop_transitions(t, "VLAN") = Type(<<a>>, up, n)
  <2> DEFINE y == <<a>>
  <2>1. y \in L2 /\ ~HasIsid(y)
    BY DEF L2, Link, HasIsid
  <2>2. Len(y) = 1 /\ y[1] = a
    OBVIOUS
  <2>3. Len(l2) = 2 /\ l2[1] = a /\ l2[2] = "VLAN"
    BY <1>2
  <2>4. pop_transitions(t, "VLAN") = Type(y, up, n)
    BY <1>2
  <2> HIDE DEF y
  <2>5. Len(y) \in 1..2 /\ Len(l2) = Len(y) + 1 /\ Len(y) # 2
    BY <2>2, <2>3
  <2> QED
    BY <2>1, <2>2, <2>3, <2>4, <2>5
<1>3. CASE l2 = <<a, "VLAN", "VLAN">> /\ pop_transitions(t, "VLAN") = Type(<<a, "VLAN">>, up, n)
  <2> DEFINE y == <<a, "VLAN">>
  <2>1. y \in L2 /\ ~HasIsid(y)
    BY DEF L2, Link, HasIsid
  <2>2. Len(y) = 2 /\ y[1] = a /\ y[2] = "VLAN"
    OBVIOUS
  <2>3. Len(l2) = 3 /\ l2[1] = a /\ l2[2] = "VLAN" /\ l2[3] = "VLAN"
    BY <1>3
  <2>4. pop_transitions(t, "VLAN") = Type(y, up, n)
    BY <1>3
  <2> HIDE DEF y
  <2> QED
    BY <2>1, <2>2, <2>3, <2>4
<1> QED
  BY <1>1, <1>2, <1>3

\* Without its outer tag the frame matches the type without a tag.
LEMMA VlanPopped ==
    ASSUME NEW f, Complete(f), NEW t, Matches(f, t), pop_transitions(t, "VLAN") # Invalid
    PROVE  LET g == Out(f, 3, f[2].next)
               new == pop_transitions(t, "VLAN")
           IN  /\ f[2].h = "VLAN" /\ f[1].h = t.l2[1] /\ f[1].h \in Link /\ 2 \in 1..Len(f)
               /\ Start(f, 2) = (IF f[1].h = "ETHERNET" THEN 14 ELSE 22) /\ Start(f, 3) = Start(f, 2) + 4
               /\ Complete(g) /\ Matches(g, new)
               /\ \A S : StaleIn(f, S) => StaleIn(g, S)
<1> DEFINE l2 == t.l2
<1> DEFINE up == t.up
<1> DEFINE n == t.n
<1> DEFINE new == pop_transitions(t, "VLAN")
<1>1. /\ TypeFacts(t, l2, up, n) /\ Found(up, n) /\ f[1].h = l2[1] /\ l2 \in L2
      /\ L2Matches(f, l2) /\ UpMatches(f, Len(l2), up, n)
  BY MatchesFacts
<1>1a. f[1].h = t.l2[1]
  BY <1>1
<1> HIDE DEF l2, up, n
<1>2. PICK y \in L2 :
        /\ new = Type(y, up, n) /\ ~HasIsid(y)
        /\ Len(y) \in 1..2 /\ Len(l2) = Len(y) + 1 /\ y[1] = l2[1] /\ l2[2] = "VLAN"
        /\ Len(y) = 2 => y[2] = "VLAN" /\ l2[3] = "VLAN"
  BY <1>1, TagTaken
<1> DEFINE m == Len(y)
<1>3. m \in 1..2 /\ Len(l2) = m + 1
  BY <1>2
<1> HIDE DEF m
<1>4. f \in Frames /\ Len(f) \in Nat /\ Len(f) > m + 1 /\ Len(f) > 2 /\ f[1].h \in Link
  BY <1>1, <1>3, CompleteFacts DEF L2Matches
<1>5. f[2].h = "VLAN" /\ (m = 2 => f[3].h = "VLAN" /\ f[2].next = "VLAN")
  <2>1. (\A i \in 1..Len(l2) : f[i].h = l2[i]) /\ (\A i \in 1..(Len(l2) - 1) : f[i].next = l2[i + 1])
    BY <1>1 DEF L2Matches
  <2>2. 2 \in 1..Len(l2) /\ (m = 2 => 3 \in 1..Len(l2) /\ 2 \in 1..(Len(l2) - 1) /\ 2 + 1 = 3)
    BY <1>3
  <2> QED
    BY <1>2, <2>1, <2>2 DEF m
<1>6. Start(f, 2) = (IF f[1].h = "ETHERNET" THEN 14 ELSE 22) /\ Start(f, 3) = Start(f, 2) + 4
  <2>1. Start(f, 2) = L2Len(<<l2[1]>>) /\ Start(f, 3) = L2Len(<<l2[1]>>) + 4
    BY <1>1, <1>3, LinkStarts
  <2>2. L2Len(<<l2[1]>>) = (IF f[1].h = "ETHERNET" THEN 14 ELSE 22)
    <3> DEFINE a == f[1].h
    <3> HIDE DEF a
    <3>1. a \in {"ETHERNET", "8023"}
      BY <1>4 DEF Link, a
    <3>2. L2Len(<<a>>) = (IF a = "ETHERNET" THEN 14 ELSE 22)
      BY <3>1, Lengths
    <3> QED
      BY <1>1, <3>2 DEF a
  <2> QED
    BY <2>1, <2>2
<1> DEFINE c == f[2].next
<1> DEFINE g == Out(f, 3, c)
<1>7. c \in Names /\ (c \in Ethertypes => f[3].h = c)
  <2>1. 2 \in 1..Len(f) /\ 2 + 1 = 3
    BY <1>4
  <2>2. f[2] \in Pieces /\ (f[2].next \in Carries(f[2].h) => f[2 + 1].h = f[2].next)
    BY <2>1, CompleteFacts
  <2> QED
    BY <1>5, <2>1, <2>2, CarriesFacts DEF Pieces
<1>8. /\ Complete(g) /\ SameTail(f, 3, g, 2) /\ g[1].h = f[1].h /\ g[1].next = c
      /\ \A S : StaleIn(f, S) => StaleIn(g, S)
  <2>1. 3 \in 2..Len(f)
    BY <1>4
  <2> HIDE DEF c
  <2> QED
    BY <1>7, <2>1, OutComplete DEF c
<1> HIDE DEF g
<1>9. g \in Frames /\ Len(g) \in Nat /\ Len(f) - 3 = Len(g) - 2
  BY <1>8, CompleteFacts DEF SameTail
<1>10. m = 2 => Alike(f[3], g[2])
  <2>1. 3 \in 1..Len(f) /\ 2 \in 1..Len(g)
    BY <1>4, <1>9
  <2> QED
    BY <1>4, <1>8, <1>9, <2>1, SameHead
<1>11. L2Matches(g, y)
  <2>1. Len(y) < Len(g)
    BY <1>3, <1>4, <1>9 DEF m
  <2>2. \A i \in 1..m : i = 1 \/ (i = 2 /\ m = 2)
    BY <1>3
  <2>3. \A i \in 1..m : g[i].h = y[i]
    BY <1>1, <1>2, <1>5, <1>8, <1>10, <2>2 DEF m, Alike
  <2>4. \A i \in 1..(m - 1) : i = 1 /\ m = 2
    BY <1>3
  <2>5. \A i \in 1..(m - 1) : g[i].next = y[i + 1]
    <3>1. 1 + 1 = 2
      OBVIOUS
    <3> QED
      BY <1>2, <1>5, <1>8, <2>4, <3>1 DEF m
  <2> QED
    BY <2>1, <2>3, <2>5 DEF L2Matches, m
<1>12. UpMatches(g, Len(y), up, n)
  <2>1. Len(up) \in Nat /\ (up # <<>> => Len(up) > 0)
    BY <1>1, FoundUp
  <2>2. /\ 3 \in 1..Len(f) /\ 2 \in 1..Len(g) /\ Len(l2) \in Nat /\ m \in Nat /\ Len(l2) + 1 >= 3
        /\ Len(l2) - 3 = m - 2
    BY <1>3, <1>4, <1>9
  <2>3. f[Len(l2)].next = g[m].next
    <3>1. CASE m = 1
      BY <1>3, <1>8, <3>1
    <3>2. CASE m = 2
      BY <1>3, <1>10, <3>2 DEF Alike
    <3> QED
      BY <1>3, <3>1, <3>2
  <2>4. UpMatches(g, m, up, n)
    BY <1>1, <1>4, <1>8, <1>9, <2>1, <2>2, <2>3, UpMoved
  <2> QED
    BY <2>4 DEF m
<1>13. Matches(g, Type(y, up, n))
  BY <1>1, <1>2, <1>11, <1>12, MatchesIf
<1>14. Matches(g, new)
  BY <1>2, <1>13
<1>15. 2 \in 1..Len(f)
  BY <1>4
<1> QED
  BY <1>1a, <1>4, <1>5, <1>6, <1>8, <1>14, <1>15 DEF g, c, new

\* The pushed pieces, one by one.
LEMMA InPiece ==
    ASSUME NEW f, Complete(f), NEW p \in Frames, Len(p) > 0, NEW j \in 1..Len(p)
    PROVE  In(f, p)[j + 1] = p[j]
<1>1. f \in Frames /\ Len(f) > 0
  BY CompleteFacts
<1> DEFINE c == p[1].h
<1>2. c \in Names
  BY InFacts
<1> HIDE DEF c
<1> DEFINE g == Announce(SubSeq(f, 1, 1), c) \o p \o SubSeq(f, 1 + 1, Len(f))
<1>3. \A i \in 1..Len(p) : g[i + 1] = p[i]
  BY <1>1, <1>2, Inserted
<1>4. g = In(f, p)
  BY DEF In, c
<1> HIDE DEF g
<1> QED
  BY <1>3, <1>4

\* One, two or three pieces behind the first one.
LEMMA InOne ==
    ASSUME NEW f, Complete(f), NEW q \in Pieces
    PROVE  LET g == In(f, <<q>>) IN
           /\ Len(g) = Len(f) + 1 /\ g[2] = q /\ g[3] = f[2] /\ g[1].h = f[1].h
           /\ PieceOk(g, 2) => Complete(g) /\ SameTail(f, 2, g, 3) /\ g[1].next = q.h
           /\ \A S : StaleIn(f, S) /\ (q.stale => q.h \in S) => StaleIn(g, S)
<1> DEFINE p == <<q>>
<1> DEFINE g == In(f, p)
<1>1. p \in Frames /\ Len(p) = 1 /\ p[1] = q
  BY Spelled
<1> HIDE DEF p
<1>2. Len(p) > 0 /\ 1 + Len(p) = 2 /\ 1 + Len(p) + 1 = 3
  BY <1>1
<1>3. Spliced(g, 1 + Len(p), f, 2) /\ Len(g) = Len(f) + Len(p) /\ g[2] = p[1]
  BY <1>1, <1>2, InFacts
<1>4. f \in Frames /\ Len(f) \in Nat /\ Len(f) > 1 /\ f[1].h \in Link /\ f[1] \in Pieces
  <2>1. f \in Frames /\ Len(f) \in Nat /\ Len(f) > 1 /\ f[1].h \in Link
    BY CompleteFacts
  <2> QED
    BY <2>1, FrameFacts
<1>5. g[3] = f[2]
  <2>1. \A d \in 0..(Len(f) - 2) : g[1 + Len(p) + 1 + d] = f[2 + d]
    BY <1>3 DEF Spliced
  <2>2. 0 \in 0..(Len(f) - 2) /\ 3 + 0 = 3 /\ 2 + 0 = 2
    BY <1>4
  <2> QED
    BY <1>2, <2>1, <2>2
<1>6. g[1].h = f[1].h
  <2> DEFINE r == f[1]
  <2> DEFINE c == p[1].h
  <2>1. g[1] = [r EXCEPT !.next = c]
    BY <1>1, <1>2, InFacts
  <2>2. r \in Pieces
    BY <1>4
  <2> HIDE DEF r, c, g
  <2>3. g[1].h = r.h
    BY <2>1, <2>2 DEF Pieces
  <2> QED
    BY <2>3 DEF r
<1>7. ASSUME PieceOk(g, 2)  PROVE Complete(g) /\ SameTail(f, 2, g, 3) /\ g[1].next = q.h
  <2>1. \A j \in 2..(1 + Len(p)) : PieceOk(g, j)
    BY <1>2, <1>7
  <2>2. Complete(g) /\ SameTail(f, 2, g, 1 + Len(p) + 1) /\ g[1].next = p[1].h
    BY <1>1, <1>2, <2>1, InComplete
  <2> QED
    BY <1>1, <1>2, <2>2
<1>8. ASSUME NEW S, StaleIn(f, S), q.stale => q.h \in S  PROVE StaleIn(g, S)
  <2>1. \A j \in 1..Len(p) : p[j].stale => p[j].h \in S
    BY <1>1, <1>8
  <2> QED
    BY <1>1, <1>2, <1>8, <2>1, InStale
<1>9. Len(g) = Len(f) + 1 /\ g[2] = q
  BY <1>1, <1>3
<1> HIDE DEF g
<1>10. \A S : StaleIn(f, S) /\ (q.stale => q.h \in S) => StaleIn(g, S)
  BY <1>8
<1> QED
  BY <1>5, <1>6, <1>7, <1>9, <1>10 DEF g, p

\* Two pieces pushed behind the first one.
LEMMA InTwo ==
    ASSUME NEW f, Complete(f), NEW q \in Pieces, NEW r \in Pieces
    PROVE  LET g == In(f, <<q, r>>) IN
           /\ Len(g) = Len(f) + 2 /\ g[2] = q /\ g[3] = r /\ g[4] = f[2] /\ g[1].h = f[1].h
           /\ PieceOk(g, 2) /\ PieceOk(g, 3) => Complete(g) /\ SameTail(f, 2, g, 4) /\ g[1].next = q.h
           /\ \A S : StaleIn(f, S) /\ (q.stale => q.h \in S) /\ (r.stale => r.h \in S) => StaleIn(g, S)
<1> DEFINE p == <<q, r>>
<1> DEFINE g == In(f, p)
<1>1. p \in Frames /\ Len(p) = 2 /\ p[1] = q /\ p[2] = r
  BY Spelled
<1> HIDE DEF p
<1>2. Len(p) > 0 /\ 1 + Len(p) = 3 /\ 1 + Len(p) + 1 = 4 /\ 2 + 1 = 3 /\ 2 \in 1..Len(p)
  BY <1>1
<1>3. Spliced(g, 1 + Len(p), f, 2) /\ Len(g) = Len(f) + Len(p) /\ g[2] = p[1]
  BY <1>1, <1>2, InFacts
<1>3a. \A j \in 1..Len(p) : g[j + 1] = p[j]
  <2> TAKE j \in 1..Len(p)
  <2>1. p \in Frames /\ Len(p) > 0
    BY <1>1, <1>2
  <2> QED
    BY <2>1, InPiece
<1>4. f \in Frames /\ Len(f) \in Nat /\ Len(f) > 1 /\ f[1].h \in Link /\ f[1] \in Pieces
  <2>1. f \in Frames /\ Len(f) \in Nat /\ Len(f) > 1 /\ f[1].h \in Link
    BY CompleteFacts
  <2> QED
    BY <2>1, FrameFacts
<1>5. g[4] = f[2]
  <2>1. \A d \in 0..(Len(f) - 2) : g[1 + Len(p) + 1 + d] = f[2 + d]
    BY <1>3 DEF Spliced
  <2>2. 0 \in 0..(Len(f) - 2) /\ 4 + 0 = 4 /\ 2 + 0 = 2
    BY <1>4
  <2> QED
    BY <1>2, <2>1, <2>2
<1>6. g[1].h = f[1].h
  <2> DEFINE x == f[1]
  <2> DEFINE c == p[1].h
  <2>1. g[1] = [x EXCEPT !.next = c]
    BY <1>1, <1>2, InFacts
  <2>2. x \in Pieces
    BY <1>4
  <2> HIDE DEF x, c, g
  <2>3. g[1].h = x.h
    BY <2>1, <2>2 DEF Pieces
  <2> QED
    BY <2>3 DEF x
<1>7. ASSUME PieceOk(g, 2), PieceOk(g, 3)  PROVE Complete(g) /\ SameTail(f, 2, g, 4) /\ g[1].next = q.h
  <2>1. \A j \in 2..(1 + Len(p)) : PieceOk(g, j)
    BY <1>2, <1>7
  <2>2. Complete(g) /\ SameTail(f, 2, g, 1 + Len(p) + 1) /\ g[1].next = p[1].h
    BY <1>1, <1>2, <2>1, InComplete
  <2> QED
    BY <1>1, <1>2, <2>2
<1>8. ASSUME NEW S, StaleIn(f, S), q.stale => q.h \in S, r.stale => r.h \in S  PROVE StaleIn(g, S)
  <2>1. \A j \in 1..Len(p) : p[j].stale => p[j].h \in S
    BY <1>1, <1>8
  <2> QED
    BY <1>1, <1>2, <1>8, <2>1, InStale
<1>9. Len(g) = Len(f) + 2 /\ g[2] = q /\ g[3] = r
  BY <1>1, <1>2, <1>3, <1>3a
<1> HIDE DEF g
<1>10. \A S : StaleIn(f, S) /\ (q.stale => q.h \in S) /\ (r.stale => r.h \in S) => StaleIn(g, S)
  BY <1>8
<1> QED
  BY <1>5, <1>6, <1>7, <1>9, <1>10 DEF g, p

\* Three pieces pushed behind the first one.
LEMMA InThree ==
    ASSUME NEW f, Complete(f), NEW q \in Pieces, NEW r \in Pieces, NEW s \in Pieces
    PROVE  LET g == In(f, <<q, r, s>>) IN
           /\ Len(g) = Len(f) + 3 /\ g[2] = q /\ g[3] = r /\ g[4] = s /\ g[5] = f[2] /\ g[1].h = f[1].h
           /\ PieceOk(g, 2) /\ PieceOk(g, 3) /\ PieceOk(g, 4) =>
                Complete(g) /\ SameTail(f, 2, g, 5) /\ g[1].next = q.h
           /\ \A S : StaleIn(f, S) /\ (q.stale => q.h \in S) /\ (r.stale => r.h \in S) /\ (s.stale => s.h \in S)
                       => StaleIn(g, S)
<1> DEFINE p == <<q, r, s>>
<1> DEFINE g == In(f, p)
<1>1. p \in Frames /\ Len(p) = 3 /\ p[1] = q /\ p[2] = r /\ p[3] = s
  BY Spelled
<1> HIDE DEF p
<1>2. Len(p) > 0 /\ 1 + Len(p) = 4 /\ 1 + Len(p) + 1 = 5 /\ 2 + 1 = 3 /\ 2 \in 1..Len(p) /\ 3 + 1 = 4 /\ 3 \in 1..Len(p)
  BY <1>1
<1>3. Spliced(g, 1 + Len(p), f, 2) /\ Len(g) = Len(f) + Len(p) /\ g[2] = p[1]
  BY <1>1, <1>2, InFacts
<1>3a. \A j \in 1..Len(p) : g[j + 1] = p[j]
  <2> TAKE j \in 1..Len(p)
  <2>1. p \in Frames /\ Len(p) > 0
    BY <1>1, <1>2
  <2> QED
    BY <2>1, InPiece
<1>4. f \in Frames /\ Len(f) \in Nat /\ Len(f) > 1 /\ f[1].h \in Link /\ f[1] \in Pieces
  <2>1. f \in Frames /\ Len(f) \in Nat /\ Len(f) > 1 /\ f[1].h \in Link
    BY CompleteFacts
  <2> QED
    BY <2>1, FrameFacts
<1>5. g[5] = f[2]
  <2>1. \A d \in 0..(Len(f) - 2) : g[1 + Len(p) + 1 + d] = f[2 + d]
    BY <1>3 DEF Spliced
  <2>2. 0 \in 0..(Len(f) - 2) /\ 5 + 0 = 5 /\ 2 + 0 = 2
    BY <1>4
  <2> QED
    BY <1>2, <2>1, <2>2
<1>6. g[1].h = f[1].h
  <2> DEFINE x == f[1]
  <2> DEFINE c == p[1].h
  <2>1. g[1] = [x EXCEPT !.next = c]
    BY <1>1, <1>2, InFacts
  <2>2. x \in Pieces
    BY <1>4
  <2> HIDE DEF x, c, g
  <2>3. g[1].h = x.h
    BY <2>1, <2>2 DEF Pieces
  <2> QED
    BY <2>3 DEF x
<1>7. ASSUME PieceOk(g, 2), PieceOk(g, 3), PieceOk(g, 4)
      PROVE  Complete(g) /\ SameTail(f, 2, g, 5) /\ g[1].next = q.h
  <2>1. \A j \in 2..(1 + Len(p)) : PieceOk(g, j)
    BY <1>2, <1>7
  <2>2. Complete(g) /\ SameTail(f, 2, g, 1 + Len(p) + 1) /\ g[1].next = p[1].h
    BY <1>1, <1>2, <2>1, InComplete
  <2> QED
    BY <1>1, <1>2, <2>2
<1>8. ASSUME NEW S, StaleIn(f, S), q.stale => q.h \in S, r.stale => r.h \in S, s.stale => s.h \in S
      PROVE  StaleIn(g, S)
  <2>1. \A j \in 1..Len(p) : p[j].stale => p[j].h \in S
    BY <1>1, <1>8
  <2> QED
    BY <1>1, <1>2, <1>8, <2>1, InStale
<1>9. Len(g) = Len(f) + 3 /\ g[2] = q /\ g[3] = r /\ g[4] = s
  BY <1>1, <1>2, <1>3, <1>3a
<1> HIDE DEF g
<1>10. \A S : StaleIn(f, S) /\ (q.stale => q.h \in S) /\ (r.stale => r.h \in S) /\ (s.stale => s.h \in S)
                => StaleIn(g, S)
  BY <1>8
<1> QED
  BY <1>5, <1>6, <1>7, <1>9, <1>10 DEF g, p

\* Two or three pieces in front of a frame.
LEMMA OnTwo ==
    ASSUME NEW f, Complete(f), NEW q \in Pieces, NEW r \in Pieces, q.h \in Link
    PROVE  LET g == On(f, <<q, r>>) IN
           /\ Len(g) = Len(f) + 2 /\ g[1] = q /\ g[2] = r /\ g[3] = f[1]
           /\ PieceOk(g, 1) /\ PieceOk(g, 2) => Complete(g)
           /\ \A S : StaleIn(f, S) /\ (q.stale => q.h \in S) /\ (r.stale => r.h \in S) => StaleIn(g, S)
<1> DEFINE p == <<q, r>>
<1> DEFINE g == On(f, p)
<1>1. p \in Frames /\ Len(p) = 2 /\ p[1] = q /\ p[2] = r
  BY Spelled
<1> HIDE DEF p
<1>2. Len(p) > 0 /\ Len(p) + 1 = 3 /\ 1 \in 1..Len(p) /\ 2 \in 1..Len(p)
  BY <1>1
<1>3. Len(g) = Len(f) + Len(p) /\ g[Len(p) + 1] = f[1]
  BY <1>1, <1>2, OnFacts
<1>4. \A j \in 1..Len(p) : g[j] = p[j]
  BY <1>1, <1>2, OnFacts
<1>5. Len(g) = Len(f) + 2 /\ g[1] = q /\ g[2] = r /\ g[3] = f[1]
  BY <1>1, <1>2, <1>3, <1>4
<1>6. ASSUME PieceOk(g, 1), PieceOk(g, 2)  PROVE Complete(g)
  <2>1. \A j \in 1..Len(p) : PieceOk(g, j)
    BY <1>1, <1>6
  <2>2. p[1].h \in Link
    BY <1>1
  <2> QED
    BY <1>1, <1>2, <2>1, <2>2, OnComplete
<1>7. ASSUME NEW S, StaleIn(f, S), q.stale => q.h \in S, r.stale => r.h \in S  PROVE StaleIn(g, S)
  <2>1. \A j \in 1..Len(p) : p[j].stale => p[j].h \in S
    BY <1>1, <1>7
  <2> QED
    BY <1>1, <1>2, <1>7, <2>1, OnStale
<1> HIDE DEF g
<1>8. \A S : StaleIn(f, S) /\ (q.stale => q.h \in S) /\ (r.stale => r.h \in S) => StaleIn(g, S)
  BY <1>7
<1> QED
  BY <1>5, <1>6, <1>8 DEF g, p

\* Three pieces pushed in front.
LEMMA OnThree ==
    ASSUME NEW f, Complete(f), NEW q \in Pieces, NEW r \in Pieces, NEW s \in Pieces, q.h \in Link
    PROVE  LET g == On(f, <<q, r, s>>) IN
           /\ Len(g) = Len(f) + 3 /\ g[1] = q /\ g[2] = r /\ g[3] = s /\ g[4] = f[1]
           /\ PieceOk(g, 1) /\ PieceOk(g, 2) /\ PieceOk(g, 3) => Complete(g)
           /\ \A S : StaleIn(f, S) /\ (q.stale => q.h \in S) /\ (r.stale => r.h \in S) /\ (s.stale => s.h \in S)
                       => StaleIn(g, S)
<1> DEFINE p == <<q, r, s>>
<1> DEFINE g == On(f, p)
<1>1. p \in Frames /\ Len(p) = 3 /\ p[1] = q /\ p[2] = r /\ p[3] = s
  BY Spelled
<1> HIDE DEF p
<1>2. Len(p) > 0 /\ Len(p) + 1 = 4 /\ 1 \in 1..Len(p) /\ 2 \in 1..Len(p) /\ 3 \in 1..Len(p)
  BY <1>1
<1>3. Len(g) = Len(f) + Len(p) /\ g[Len(p) + 1] = f[1]
  BY <1>1, <1>2, OnFacts
<1>4. \A j \in 1..Len(p) : g[j] = p[j]
  BY <1>1, <1>2, OnFacts
<1>5. Len(g) = Len(f) + 3 /\ g[1] = q /\ g[2] = r /\ g[3] = s /\ g[4] = f[1]
  BY <1>1, <1>2, <1>3, <1>4
<1>6. ASSUME PieceOk(g, 1), PieceOk(g, 2), PieceOk(g, 3)  PROVE Complete(g)
  <2>1. \A j \in 1..Len(p) : PieceOk(g, j)
    BY <1>1, <1>6
  <2>2. p[1].h \in Link
    BY <1>1
  <2> QED
    BY <1>1, <1>2, <2>1, <2>2, OnComplete
<1>7. ASSUME NEW S, StaleIn(f, S), q.stale => q.h \in S, r.stale => r.h \in S, s.stale => s.h \in S
      PROVE  StaleIn(g, S)
  <2>1. \A j \in 1..Len(p) : p[j].stale => p[j].h \in S
    BY <1>1, <1>7
  <2> QED
    BY <1>1, <1>2, <1>7, <2>1, OnStale
<1> HIDE DEF g
<1>8. \A S : StaleIn(f, S) /\ (q.stale => q.h \in S) /\ (r.stale => r.h \in S) /\ (s.stale => s.h \in S)
               => StaleIn(g, S)
  BY <1>7
<1> QED
  BY <1>5, <1>6, <1>8 DEF g, p

\* A piece as an action makes it: of a known protocol, announcing a known one.
Made(q, h, n, next) == q \in Pieces /\ q.h = h /\ q.n = n /\ q.next = next

\* Pushed pieces are pieces.
LEMMA PiecesMade ==
    ASSUME NEW h \in {"ETHERNET", "VLAN", "ISID", "MPLS", "PPPOE", "PPP", "IPV4", "IPV6", "UDP", "GRE", "GTPU"},
           NEW n \in Nat,
           NEW next \in {"ETHERNET", "VLAN", "ISID", "MPLS", "PPPOE", "PPP", "IPV4", "IPV6", "UDP", "GRE", "GTPU",
                         "BOTTOM", "OTHER"}
    PROVE  /\ Made(Piece(h, n, next), h, n, next) /\ ~Piece(h, n, next).stale
           /\ Made(Unset(h, n, next), h, n, next) /\ (Unset(h, n, next).stale => h # "IPV6")
<1>1. h \in Names /\ next \in Names
  BY KnownNames
<1> QED
  BY <1>1, PieceIs DEF Made

\* The headers above layer 2 that a type has.
LEMMA Shown ==
    ASSUME NEW l2 \in L2, NEW up, NEW n, Found(up, n)
    PROVE  LET hs == HeadersOf(Type(l2, up, n)) IN
           /\ "MPLS" \in hs <=> up = <<"MPLS">>
           /\ "PPPOE" \in hs <=> up \in {<<"PPPOE">>, <<"PPPOE", "PPP">>}
           /\ "IPV4" \in hs <=> up \in Ipv4Stacks
           /\ "IPV6" \in hs <=> up \in Ipv6Stacks \cup NeighbourStacks
           /\ "GTPU4" \in hs <=> up = <<"IPV4", "UDP", "GTPU4">>
           /\ "GTPU6" \in hs <=> up = <<"IPV6", "UDP", "GTPU6">>
           /\ "GRE4" \in hs <=> up = <<"IPV4", "GRE4">>
           /\ "GRE6" \in hs <=> up = <<"IPV6", "GRE6">>
<1> DEFINE us == {up[i] : i \in DOMAIN up}
<1>1. \A h : h \notin L2Names => (h \in HeadersOf(Type(l2, up, n)) <=> h \in us)
  <2>1. HeadersOf(Type(l2, up, n)) = {l2[i] : i \in DOMAIN l2} \cup us
    BY DEF HeadersOf, Type
  <2>2. {l2[i] : i \in DOMAIN l2} \subseteq L2Names
    BY L2Elements
  <2> HIDE DEF us
  <2> QED
    BY <2>1, <2>2
<1>2. /\ "MPLS" \in us <=> up = <<"MPLS">>
      /\ "PPPOE" \in us <=> up \in {<<"PPPOE">>, <<"PPPOE", "PPP">>}
      /\ "IPV4" \in us <=> up \in Ipv4Stacks
      /\ "IPV6" \in us <=> up \in Ipv6Stacks \cup NeighbourStacks
      /\ "GTPU4" \in us <=> up = <<"IPV4", "UDP", "GTPU4">>
      /\ "GTPU6" \in us <=> up = <<"IPV6", "UDP", "GTPU6">>
      /\ "GRE4" \in us <=> up = <<"IPV4", "GRE4">>
      /\ "GRE6" \in us <=> up = <<"IPV6", "GRE6">>
  <2>1. CASE up \in {<<>>, <<"PPPOE">>, <<"PPPOE", "PPP">>, <<"ARPV4">>, <<"MPLS">>}
    BY <2>1, Neighbours DEF Ipv4Stacks, Ipv6Stacks, NeighbourStacks
  <2>2. CASE up \in Ipv4Stacks
    BY <2>2, Neighbours DEF Ipv4Stacks, Ipv6Stacks, NeighbourStacks
  <2>3. CASE up \in Ipv6Stacks
    BY <2>3, Neighbours DEF Ipv4Stacks, Ipv6Stacks, NeighbourStacks
  <2>4. CASE up \in NeighbourStacks
    BY <2>4, Neighbours DEF Ipv4Stacks, Ipv6Stacks, NeighbourStacks
  <2> QED
    BY <2>1, <2>2, <2>3, <2>4 DEF Found
<1> HIDE DEF us
<1> QED
  BY <1>1, <1>2 DEF L2Names

\* What an action that follows the packet leaves: a complete frame, a type that matches it,
\* and the type that classifying it would give when that was so before.
Followed(f, t, g, new) ==
    Complete(g) /\ Matches(g, new) /\ (t = parse_ethernet(f) => new = parse_ethernet(g))

\* A frame that is classified again is followed.
LEMMA FollowedIf ==
    ASSUME NEW f, NEW t, NEW g, Complete(g)
    PROVE  Followed(f, t, g, parse_ethernet(g))
BY ParseMatches DEF Followed

\* A frame whose first piece is an untagged Ethernet header.
LEMMA ParseFirst ==
    ASSUME NEW g, Complete(g), g[1].h = "ETHERNET", NEW x, g[1].next = x, x \notin {"VLAN", "ISID"}
    PROVE  parse_ethernet(g) = Type(<<"ETHERNET">>, UpperUp(g, 2, x), UpperN(g, 2, x))
BY ParseUntagged

\* A type with labels has at most as many as the tables know.
LEMMA LabelCounts ==
    ASSUME NEW n, Found(<<"MPLS">>, n)
    PROVE  n \in 1..MaxLabels
BY DEF Found, Ipv4Stacks, Ipv6Stacks, NeighbourStacks

\* A pushed label is looked for behind layer 2.
LEMMA MplsPlace ==
    ASSUME NEW f, Complete(f), NEW t, Matches(f, t), push_transitions(t, "MPLS") # Invalid
    PROVE  /\ protocol_offsets_bt(push_transitions(t, "MPLS"), "MPLS") = L2Len(t.l2)
           /\ \E m \in 1..MaxLabels :
                /\ push_transitions(t, "MPLS") = Type(t.l2, <<"MPLS">>, m) /\ Found(<<"MPLS">>, m)
                /\ IF t.up = <<"MPLS">> THEN m = t.n + 1 /\ t.n \in 1..30 ELSE m = 1
<1> DEFINE l2 == t.l2
<1> DEFINE up == t.up
<1> DEFINE n == t.n
<1> DEFINE mpls == <<"MPLS">>
<1> DEFINE m == IF up = mpls THEN n + 1 ELSE 1
<1>1. TypeFacts(t, l2, up, n) /\ Found(up, n) /\ l2 \in L2
  BY MatchesFacts
<1> HIDE DEF l2, up, n
<1>2. /\ up = mpls => n <= 30 /\ push_transitions(t, "MPLS") = Type(l2, mpls, n + 1)
      /\ up # mpls => push_transitions(t, "MPLS") = Type(l2, mpls, 1)
  BY <1>1, PushMpls
<1>3. up = mpls => n \in 1..MaxLabels
  BY <1>1, LabelCounts
<1> HIDE DEF mpls
<1>4. push_transitions(t, "MPLS") = Type(l2, mpls, m)
  BY <1>2
<1>5. m \in 1..MaxLabels /\ IF up = mpls THEN m = n + 1 /\ n \in 1..30 ELSE m = 1
  BY <1>2, <1>3 DEF MaxLabels
<1> HIDE DEF m
<1>6. Found(mpls, m)
  BY <1>5 DEF Found, mpls
<1>7. protocol_offsets_bt(Type(l2, mpls, m), "MPLS") = L2Len(l2)
  BY <1>1, <1>6, OffsetsPlain DEF mpls
<1> QED
  BY <1>4, <1>5, <1>6, <1>7 DEF l2, up, n, mpls

\* A label pushed behind an Ethernet header is followed: the bottom bit says what the type
\* says.
LEMMA MplsPushed ==
    ASSUME NEW f, Complete(f), NEW t, Matches(f, t), push_transitions(t, "MPLS") # Invalid,
           protocol_offsets_bt(push_transitions(t, "MPLS"), "MPLS") = 14,
           NEW below, below = (IF "MPLS" \in HeadersOf(t) THEN "MPLS" ELSE "BOTTOM")
    PROVE  /\ f[1].h = "ETHERNET"
           /\ Followed(f, t, In(f, <<Piece("MPLS", 0, below)>>), push_transitions(t, "MPLS"))
           /\ \A S : StaleIn(f, S) => StaleIn(In(f, <<Piece("MPLS", 0, below)>>), S)
<1> DEFINE l2 == t.l2
<1> DEFINE up == t.up
<1> DEFINE n == t.n
<1> DEFINE mpls == <<"MPLS">>
<1> DEFINE eth == <<"ETHERNET">>
<1> DEFINE q == Piece("MPLS", 0, below)
<1> DEFINE g == In(f, <<q>>)
<1>1. /\ TypeFacts(t, l2, up, n) /\ Found(up, n) /\ l2 \in L2 /\ f[1].h = l2[1] /\ t = Type(l2, up, n)
      /\ UpMatches(f, Len(l2), up, n)
  BY MatchesFacts
<1>2. PICK m \in 1..MaxLabels :
        /\ push_transitions(t, "MPLS") = Type(l2, mpls, m) /\ Found(mpls, m)
        /\ IF up = mpls THEN m = n + 1 /\ n \in 1..30 ELSE m = 1
  BY MplsPlace
<1>3. l2 = eth
  BY <1>1, MplsPlace, L2Shape
<1>4. "MPLS" \in HeadersOf(t) <=> up = mpls
  <2> HIDE DEF l2, up, n
  <2> QED
    BY <1>1, Shown
<1>5. Len(eth) = 1 /\ eth[1] = "ETHERNET" /\ eth \in L2 /\ ~HasIsid(eth)
  BY DEF L2, HasIsid
<1> HIDE DEF l2, up, n, mpls, eth
<1>6. below = (IF up = mpls THEN "MPLS" ELSE "BOTTOM")
  BY <1>4
<1>7. Made(q, "MPLS", 0, below) /\ ~q.stale
  <2>1. below \in {"ETHERNET", "VLAN", "ISID", "MPLS", "PPPOE", "PPP", "IPV4", "IPV6", "UDP", "GRE", "GTPU", "BOTTOM", "OTHER"}
    BY <1>6
  <2> QED
    BY <2>1, PiecesMade
<1> HIDE DEF q
<1>8. f[1].h = "ETHERNET" /\ UpMatches(f, 1, up, n)
  BY <1>1, <1>3, <1>5
<1>9. up = mpls => f[2].h = "MPLS" /\ f[1].next = "MPLS"
  <2> SUFFICES ASSUME up = mpls  PROVE f[2].h = "MPLS" /\ f[1].next = "MPLS"
    OBVIOUS
  <2>1. up # <<>> /\ 1 \in 1..Len(up) /\ up[1] = "MPLS" /\ Raw(up[1]) = "MPLS" /\ 1 + 1 = 2
    BY DEF mpls, Raw
  <2> QED
    BY <1>8, <2>1 DEF UpMatches
<1>10. f \in Frames /\ Len(f) \in Nat /\ Len(f) > 1
  BY CompleteFacts
<1>11. /\ Len(g) = Len(f) + 1 /\ g[2] = q /\ g[3] = f[2] /\ g[1].h = f[1].h
       /\ PieceOk(g, 2) => Complete(g) /\ SameTail(f, 2, g, 3) /\ g[1].next = q.h
       /\ \A S : StaleIn(f, S) /\ (q.stale => q.h \in S) => StaleIn(g, S)
  BY <1>7, InOne DEF Made
<1> HIDE DEF g
<1>12. PieceOk(g, 2)
  <2>1. Len(g) \in Nat /\ 2 \in 1..(Len(g) - 1) /\ 2 + 1 = 3
    BY <1>10, <1>11
  <2>2. g[2].h = "MPLS" /\ g[2].n = 0 /\ (g[2].next = "MPLS" => g[2 + 1].h = "MPLS")
    BY <1>6, <1>7, <1>9, <1>11, <2>1 DEF Made
  <2> QED
    BY <2>1, <2>2, OthersOk
<1>13. Complete(g) /\ SameTail(f, 2, g, 3) /\ g[1].next = "MPLS" /\ g[1].h = "ETHERNET" /\ g[2].h = "MPLS" /\ g[2].next = below
  BY <1>7, <1>8, <1>11, <1>12 DEF Made
<1>14. Matches(g, Type(eth, mpls, m))
  <2>1. L2Matches(g, eth)
    <3>1. Len(g) > 1
      BY <1>10, <1>11
    <3>2. \A i \in 1..1 : i = 1
      OBVIOUS
    <3>3. \A i \in 1..(1 - 1) : FALSE
      OBVIOUS
    <3> QED
      BY <1>5, <1>13, <3>1, <3>2, <3>3 DEF L2Matches
  <2>2. UpMatches(g, 1, mpls, m)
    <3> DEFINE b == 1
    <3> DEFINE x == "MPLS"
    <3>1. g \in Frames /\ b \in Nat /\ b + 1 \in 1..Len(g) /\ g[b].next = x /\ g[b + 1].h = x /\ x = Raw(x) /\ x # "IPV4"
      BY <1>10, <1>11, <1>13 DEF Raw, Complete, Frames
    <3> HIDE DEF b, x
    <3>2. UpMatches(g, b, <<x>>, m)
      BY <3>1, Up1
    <3> QED
      BY <3>2 DEF b, x, mpls
  <2> QED
    BY <1>2, <1>5, <2>1, <2>2, MatchesIf
<1>15. parse_ethernet(g) = Type(eth, mpls, Labels(g, 2))
  <2>1. parse_ethernet(g) = Type(eth, UpperUp(g, 2, "MPLS"), UpperN(g, 2, "MPLS"))
    <3> DEFINE x == "MPLS"
    <3>1. g[1].next = x /\ x \notin {"VLAN", "ISID"}
      BY <1>13
    <3> HIDE DEF x
    <3>2. parse_ethernet(g) = Type(eth, UpperUp(g, 2, x), UpperN(g, 2, x))
      BY <1>13, <3>1, ParseFirst DEF eth
    <3> QED
      BY <3>2 DEF x
  <2>2. UpperUp(g, 2, "MPLS") = mpls /\ UpperN(g, 2, "MPLS") = Labels(g, 2)
    BY DEF UpperUp, UpperN, mpls
  <2> QED
    BY <2>1, <2>2
<1>16. ASSUME t = parse_ethernet(f)  PROVE Labels(g, 2) = m
  <2>1. CASE up # mpls
    <3>1. LabelRun(g, 2, 1)
      <4>1. 2 + 1 - 1 = 2 /\ \A j \in 2..(2 + 1 - 2) : FALSE
        OBVIOUS
      <4>2. g[2].next # "MPLS"
        BY <1>6, <1>13, <2>1
      <4> QED
        BY <4>1, <4>2 DEF LabelRun
    <3>2. 1 \in 1..MaxLabels /\ 2 \in Nat
      BY DEF MaxLabels
    <3>3. Labels(g, 2) = 1
      BY <3>1, <3>2, LabelsUnique
    <3> QED
      BY <1>2, <2>1, <3>3
  <2>2. CASE up = mpls
    <3>1. parse_ethernet(f) = Type(eth, mpls, Labels(f, 2))
      <4> DEFINE x == "MPLS"
      <4>1. f[1].next = x /\ x \notin {"VLAN", "ISID"}
        BY <1>9, <2>2
      <4> HIDE DEF x
      <4>2. parse_ethernet(f) = Type(eth, UpperUp(f, 2, x), UpperN(f, 2, x))
        BY <1>8, <4>1, ParseFirst DEF eth
      <4>3. UpperUp(f, 2, "MPLS") = mpls /\ UpperN(f, 2, "MPLS") = Labels(f, 2)
        BY DEF UpperUp, UpperN, mpls
      <4> QED
        BY <4>2, <4>3 DEF x
    <3>2. n = Labels(f, 2)
      <4>1. Type(eth, mpls, Labels(f, 2)) = Type(l2, up, n)
        BY <1>1, <1>16, <3>1
      <4> QED
        BY <4>1 DEF Type
    <3>3. Labels(f, 2) < MaxLabels
      BY <1>2, <2>2, <3>2 DEF MaxLabels
    <3>4. Labels(g, 2) = Labels(f, 2) + 1
      BY <1>6, <1>9, <1>13, <2>2, <3>3, LabelsPushed
    <3> QED
      BY <1>2, <2>2, <3>2, <3>4
  <2> QED
    BY <2>1, <2>2
<1>17. Followed(f, t, g, push_transitions(t, "MPLS"))
  BY <1>2, <1>3, <1>13, <1>14, <1>15, <1>16 DEF Followed
<1> QED
  BY <1>7, <1>8, <1>11, <1>17 DEF g, q

\* PPPoE is looked for behind layer 2.
LEMMA PppoePlace ==
    ASSUME NEW f, Complete(f), NEW t, Matches(f, t), push_transitions(t, "PPPOE") # Invalid
    PROVE  /\ push_transitions(t, "PPPOE") = Type(t.l2, <<"PPPOE">>, 0)
           /\ push_transitions(Type(t.l2, <<"PPPOE">>, 0), "PPP") = Type(t.l2, <<"PPPOE", "PPP">>, 0)
           /\ \A up \in {<<"PPPOE">>, <<"PPPOE", "PPP">>} :
                protocol_offsets_bt(Type(t.l2, up, 0), "PPPOE") = L2Len(t.l2)
<1> DEFINE l2 == t.l2
<1> DEFINE up == t.up
<1> DEFINE n == t.n
<1>1. TypeFacts(t, l2, up, n) /\ l2 \in L2
  BY MatchesFacts
<1> HIDE DEF l2, up, n
<1>2. /\ push_transitions(t, "PPPOE") = Type(l2, <<"PPPOE">>, 0)
      /\ push_transitions(Type(l2, <<"PPPOE">>, 0), "PPP") = Type(l2, <<"PPPOE", "PPP">>, 0)
  BY <1>1, PushPppoe
<1> DEFINE a == <<"PPPOE">>
<1> DEFINE b == <<"PPPOE", "PPP">>
<1>3. Found(a, 0) /\ Found(b, 0)
  BY DEF Found
<1>4. protocol_offsets_bt(Type(l2, a, 0), "PPPOE") = L2Len(l2)
  BY <1>1, <1>3, OffsetsPlain
<1>5. protocol_offsets_bt(Type(l2, b, 0), "PPPOE") = L2Len(l2)
  BY <1>1, <1>3, OffsetsPlain
<1> HIDE DEF a, b
<1>6. \A u \in {a, b} : protocol_offsets_bt(Type(l2, u, 0), "PPPOE") = L2Len(l2)
  BY <1>4, <1>5
<1> QED
  BY <1>2, <1>6 DEF l2, a, b

\* A PPPoE session header pushed behind an Ethernet header is followed.
LEMMA SessionPushed ==
    ASSUME NEW f, Complete(f), NEW t, Matches(f, t), push_transitions(t, "PPPOE") # Invalid,
           L2Len(t.l2) = 14
    PROVE  /\ Followed(f, t, In(f, <<Piece("PPPOE", 0, "PPP"), Piece("PPP", 0, "OTHER")>>),
                       Type(t.l2, <<"PPPOE", "PPP">>, 0))
           /\ \A S : StaleIn(f, S) => StaleIn(In(f, <<Piece("PPPOE", 0, "PPP"), Piece("PPP", 0, "OTHER")>>), S)
<1> DEFINE l2 == t.l2
<1> DEFINE q == Piece("PPPOE", 0, "PPP")
<1> DEFINE r == Piece("PPP", 0, "OTHER")
<1> DEFINE g == In(f, <<q, r>>)
<1>1. l2 = <<"ETHERNET">> /\ f[1].h = "ETHERNET"
  BY MatchesFacts, L2Shape
<1> HIDE DEF l2
<1>2. Made(q, "PPPOE", 0, "PPP") /\ ~q.stale /\ Made(r, "PPP", 0, "OTHER") /\ ~r.stale
  <2>1. 0 \in Nat
    OBVIOUS
  <2> QED
    BY <2>1, PiecesMade
<1> HIDE DEF q, r
<1>3. f \in Frames /\ Len(f) \in Nat /\ Len(f) > 1
  BY CompleteFacts
<1>4. /\ Len(g) = Len(f) + 2 /\ g[2] = q /\ g[3] = r /\ g[4] = f[2] /\ g[1].h = f[1].h
      /\ PieceOk(g, 2) /\ PieceOk(g, 3) => Complete(g) /\ SameTail(f, 2, g, 4) /\ g[1].next = q.h
      /\ \A S : StaleIn(f, S) /\ (q.stale => q.h \in S) /\ (r.stale => r.h \in S) => StaleIn(g, S)
  BY <1>2, InTwo DEF Made
<1> HIDE DEF g
<1>5. PieceOk(g, 2) /\ PieceOk(g, 3)
  <2>1. Len(g) \in Nat /\ 2 \in 1..(Len(g) - 1) /\ 2 + 1 = 3 /\ 3 \in 1..(Len(g) - 1)
    BY <1>3, <1>4
  <2>2. g[2].h = "PPPOE" /\ g[2].n = 0 /\ (g[2].next = "PPP" => g[2 + 1].h = "PPP")
    BY <1>2, <1>4, <2>1 DEF Made
  <2>3. g[3].h \in {"PPP", "GTPU"} /\ g[3].n = 0
    BY <1>2, <1>4 DEF Made
  <2>4. PieceOk(g, 2)
    BY <2>1, <2>2, OthersOk
  <2>5. PieceOk(g, 3)
    BY <2>1, <2>3, OthersOk
  <2> QED
    BY <2>4, <2>5
<1>6. Complete(g) /\ g[1].next = "PPPOE" /\ g[1].h = "ETHERNET" /\ g[2].next = "PPP"
  BY <1>1, <1>2, <1>4, <1>5 DEF Made
<1>7. parse_ethernet(g) = Type(<<"ETHERNET">>, <<"PPPOE", "PPP">>, 0)
  <2> DEFINE x == "PPPOE"
  <2>1. g[1].next = x /\ x \notin {"VLAN", "ISID"}
    BY <1>6
  <2> HIDE DEF x
  <2>2. parse_ethernet(g) = Type(<<"ETHERNET">>, UpperUp(g, 2, x), UpperN(g, 2, x))
    BY <1>6, <2>1, ParseFirst
  <2>3. UpperUp(g, 2, x) = PppoeUp(g, 2) /\ UpperN(g, 2, x) = 0
    BY DEF UpperUp, UpperN, x
  <2>4. PppoeUp(g, 2) = <<"PPPOE", "PPP">>
    BY <1>6 DEF PppoeUp
  <2> QED
    BY <2>2, <2>3, <2>4
<1>8. Followed(f, t, g, Type(l2, <<"PPPOE", "PPP">>, 0))
  BY <1>1, <1>6, <1>7, FollowedIf
<1> QED
  BY <1>2, <1>4, <1>8 DEF g, q, r, l2

\* A PPPoE discovery header pushed behind an Ethernet header is followed.
LEMMA PppoePushed ==
    ASSUME NEW f, Complete(f), NEW t, Matches(f, t), push_transitions(t, "PPPOE") # Invalid,
           L2Len(t.l2) = 14
    PROVE  /\ Followed(f, t, In(f, <<Piece("PPPOE", 0, "OTHER")>>), Type(t.l2, <<"PPPOE">>, 0))
           /\ \A S : StaleIn(f, S) => StaleIn(In(f, <<Piece("PPPOE", 0, "OTHER")>>), S)
<1> DEFINE l2 == t.l2
<1> DEFINE q == Piece("PPPOE", 0, "OTHER")
<1> DEFINE g == In(f, <<q>>)
<1>1. l2 = <<"ETHERNET">> /\ f[1].h = "ETHERNET"
  BY MatchesFacts, L2Shape
<1> HIDE DEF l2
<1>2. Made(q, "PPPOE", 0, "OTHER") /\ ~q.stale
  <2>1. 0 \in Nat
    OBVIOUS
  <2> QED
    BY <2>1, PiecesMade
<1> HIDE DEF q
<1>3. f \in Frames /\ Len(f) \in Nat /\ Len(f) > 1
  BY CompleteFacts
<1>4. /\ Len(g) = Len(f) + 1 /\ g[2] = q /\ g[3] = f[2] /\ g[1].h = f[1].h
      /\ PieceOk(g, 2) => Complete(g) /\ SameTail(f, 2, g, 3) /\ g[1].next = q.h
      /\ \A S : StaleIn(f, S) /\ (q.stale => q.h \in S) => StaleIn(g, S)
  BY <1>2, InOne DEF Made
<1> HIDE DEF g
<1>5. PieceOk(g, 2)
  <2>1. Len(g) \in Nat /\ 2 \in 1..(Len(g) - 1)
    BY <1>3, <1>4
  <2>2. g[2].h = "PPPOE" /\ g[2].n = 0 /\ (g[2].next = "PPP" => g[2 + 1].h = "PPP")
    BY <1>2, <1>4 DEF Made
  <2> QED
    BY <2>1, <2>2, OthersOk
<1>6. Complete(g) /\ g[1].next = "PPPOE" /\ g[1].h = "ETHERNET" /\ g[2].next = "OTHER"
  BY <1>1, <1>2, <1>4, <1>5 DEF Made
<1>7. parse_ethernet(g) = Type(<<"ETHERNET">>, <<"PPPOE">>, 0)
  <2> DEFINE x == "PPPOE"
  <2>1. g[1].next = x /\ x \notin {"VLAN", "ISID"}
    BY <1>6
  <2> HIDE DEF x
  <2>2. parse_ethernet(g) = Type(<<"ETHERNET">>, UpperUp(g, 2, x), UpperN(g, 2, x))
    BY <1>6, <2>1, ParseFirst
  <2>3. UpperUp(g, 2, x) = PppoeUp(g, 2) /\ UpperN(g, 2, x) = 0
    BY DEF UpperUp, UpperN, x
  <2>4. PppoeUp(g, 2) = <<"PPPOE">>
    BY <1>6 DEF PppoeUp
  <2> QED
    BY <2>2, <2>3, <2>4
<1>8. Followed(f, t, g, Type(l2, <<"PPPOE">>, 0))
  BY <1>1, <1>6, <1>7, FollowedIf
<1> QED
  BY <1>2, <1>4, <1>8 DEF g, q, l2

\* The IP header behind an Ethernet header that announces one.
LEMMA IpThere ==
    ASSUME NEW f, Complete(f), f[1].next \in {"IPV4", "IPV6"}
    PROVE  f[2].h = f[1].next /\ f[2] \in Pieces /\ PieceLen(f[2]) >= 20 /\ 2 \in 1..Len(f)
<1>1. f \in Frames /\ Len(f) \in Nat /\ Len(f) > 1 /\ f[1].h \in Link
  BY CompleteFacts
<1>2. 1 \in 1..Len(f) /\ 2 \in 1..Len(f) /\ 1 + 1 = 2
  BY <1>1
<1>3. f[1].next \in Carries(f[1].h)
  BY <1>1, CarriesFacts DEF Ethertypes
<1>4. f[2].h = f[1].next /\ f[2] \in Pieces
  BY <1>1, <1>2, <1>3, CompleteFacts
<1>5. PieceLen(f[2]) = (IF f[2].h = "IPV6" THEN 40 ELSE 20 + 4 * f[2].n)
  BY <1>2, <1>4, HeaderLengths
<1>6. f[2].n \in Nat
  BY <1>4 DEF Pieces
<1> QED
  BY <1>2, <1>4, <1>5, <1>6

\* A GTP header with an IP header behind it is long enough for the classifier.
LEMMA TunnelSeen ==
    ASSUME NEW g, Complete(g), 5 \in 1..Len(g), g[3].next = "GTPU", g[4].h = "GTPU", PieceLen(g[5]) >= 20
    PROVE  Tunnelled(g, 3)
<1>1. g \in Frames /\ Len(g) \in Nat /\ 4 \in 1..Len(g) /\ 3 + 1 = 4 /\ 4 + 1 = 5 /\ 5 + 1 = 6
  BY CompleteFacts
<1>2. PieceLen(g[4]) \in Nat /\ PieceLen(g[4]) > 0 /\ PieceLen(g[5]) \in Nat
  BY <1>1, HeaderLengths
<1>3. Start(g, 5) = Start(g, 4) + PieceLen(g[4]) /\ Start(g, 4) \in Nat
  BY <1>1, StartFacts
<1>4. Start(g, 6) = Start(g, 5) + PieceLen(g[5])
  BY <1>1, StartFacts
<1>5. Start(g, Len(g) + 1) >= Start(g, 6) /\ Start(g, Len(g) + 1) \in Nat /\ Start(g, 6) \in Nat
  <2>1. 6 \in 1..(Len(g) + 1) /\ Len(g) + 1 \in 1..(Len(g) + 1)
    BY <1>1
  <2>2. Start(g, Len(g) + 1) \in Nat /\ Start(g, 6) \in Nat
    BY <1>1, <2>1, StartFacts
  <2>3. CASE 6 = Len(g) + 1
    BY <2>2, <2>3
  <2>4. CASE 6 < Len(g) + 1
    BY <1>1, <2>1, <2>2, <2>4, StartIncreases
  <2> QED
    BY <1>1, <2>1, <2>2, <2>3, <2>4
<1>6. Bytes(g) - Start(g, 4) >= 12
  BY <1>2, <1>3, <1>4, <1>5 DEF Bytes
<1>7. ~(Bytes(g) - Start(g, 3 + 1) < 12)
  BY <1>1, <1>3, <1>5, <1>6 DEF Bytes
<1> QED
  BY <1>7 DEF Tunnelled

Gtp(ip) == IF ip = "IPV4" THEN "GTPU4" ELSE "GTPU6"
TunnelUp(ip) == IF ip = "IPV4" THEN <<"IPV4", "UDP", "GTPU4">> ELSE <<"IPV6", "UDP", "GTPU6">>
Tunnel(ip) == <<Unset(ip, 0, "UDP"), Unset("UDP", 0, "GTPU"), Piece("GTPU", 0, "OTHER")>>

\* The outer IP header of a GTP tunnel is looked for behind layer 2.
LEMMA TunnelPlace ==
    ASSUME NEW f, Complete(f), NEW t, Matches(f, t), NEW ip \in {"IPV4", "IPV6"},
           push_transitions(t, Gtp(ip)) # Invalid
    PROVE  /\ push_transitions(t, Gtp(ip)) = Type(t.l2, TunnelUp(ip), 0)
           /\ protocol_offsets_bt(push_transitions(t, Gtp(ip)), ip) = L2Len(t.l2)
<1> DEFINE l2 == t.l2
<1> DEFINE up == t.up
<1> DEFINE n == t.n
<1>1. TypeFacts(t, l2, up, n) /\ l2 \in L2
  BY MatchesFacts
<1> HIDE DEF l2, up, n
<1> DEFINE g == Gtp(ip)
<1>2. g \in {"GTPU4", "GTPU6"} /\ (g = "GTPU4" <=> ip = "IPV4")
  BY DEF Gtp
<1>3. push_transitions(t, g) # Invalid
  OBVIOUS
<1> HIDE DEF g
<1>4. push_transitions(t, g) = Type(l2, IF g = "GTPU4" THEN <<"IPV4", "UDP", g>> ELSE <<"IPV6", "UDP", g>>, 0)
  BY <1>1, <1>2, <1>3, PushTunnel
<1>5. push_transitions(t, g) = Type(l2, TunnelUp(ip), 0)
  <2>1. CASE ip = "IPV4"
    <3>1. g = "GTPU4"
      BY <1>2, <2>1
    <3> QED
      BY <1>4, <2>1, <3>1 DEF TunnelUp
  <2>2. CASE ip = "IPV6"
    <3>1. g = "GTPU6"
      BY <1>2, <2>2
    <3> QED
      BY <1>4, <2>2, <3>1 DEF TunnelUp
  <2> QED
    BY <2>1, <2>2
<1>6. protocol_offsets_bt(Type(l2, TunnelUp(ip), 0), ip) = L2Len(l2)
  <2> DEFINE x == TunnelUp(ip)
  <2>1. CASE ip = "IPV4"
    <3>1. x \in Ipv4Stacks /\ 0 \in 0..MaxOptions
      BY <2>1 DEF TunnelUp, Ipv4Stacks, MaxOptions
    <3> HIDE DEF x
    <3>2. protocol_offsets_bt(Type(l2, x, 0), "IPV4") = L2Len(l2)
      BY <1>1, <3>1, OffsetsIpv4
    <3> QED
      BY <2>1, <3>2 DEF x
  <2>2. CASE ip = "IPV6"
    <3>1. x \in Ipv6Stacks \cup NeighbourStacks
      BY <2>2 DEF TunnelUp, Ipv6Stacks
    <3> HIDE DEF x
    <3>2. protocol_offsets_bt(Type(l2, x, 0), "IPV6") = L2Len(l2)
      BY <1>1, <3>1, OffsetsIpv6
    <3> QED
      BY <2>2, <3>2 DEF x
  <2> QED
    BY <2>1, <2>2
<1> QED
  BY <1>5, <1>6 DEF l2, g

\* A GTP tunnel pushed between an Ethernet and an IP header is followed.
LEMMA TunnelPushed ==
    ASSUME NEW f, Complete(f), NEW t, Matches(f, t), NEW ip \in {"IPV4", "IPV6"},
           f[1].next \in {"IPV4", "IPV6"}, L2Len(t.l2) = 14
    PROVE  /\ Followed(f, t, In(f, Tunnel(ip)), Type(t.l2, TunnelUp(ip), 0))
           /\ \A S : StaleIn(f, S) => StaleIn(In(f, Tunnel(ip)), S \cup {"UDP"} \cup ({ip} \cap {"IPV4"}))
<1> DEFINE l2 == t.l2
<1> DEFINE q == Unset(ip, 0, "UDP")
<1> DEFINE r == Unset("UDP", 0, "GTPU")
<1> DEFINE s == Piece("GTPU", 0, "OTHER")
<1> DEFINE g == In(f, <<q, r, s>>)
<1>0. g = In(f, Tunnel(ip))
  BY DEF Tunnel
<1>1. l2 = <<"ETHERNET">> /\ f[1].h = "ETHERNET"
  BY MatchesFacts, L2Shape
<1> HIDE DEF l2
<1>2. /\ Made(q, ip, 0, "UDP") /\ (q.stale => ip # "IPV6") /\ Made(r, "UDP", 0, "GTPU")
      /\ Made(s, "GTPU", 0, "OTHER") /\ ~s.stale
  <2>1. 0 \in Nat
    OBVIOUS
  <2> QED
    BY <2>1, PiecesMade
<1> HIDE DEF q, r, s
<1>3. f \in Frames /\ Len(f) \in Nat /\ Len(f) > 1
  BY CompleteFacts
<1>4. /\ Len(g) = Len(f) + 3 /\ g[2] = q /\ g[3] = r /\ g[4] = s /\ g[5] = f[2] /\ g[1].h = f[1].h
      /\ PieceOk(g, 2) /\ PieceOk(g, 3) /\ PieceOk(g, 4) => Complete(g) /\ SameTail(f, 2, g, 5) /\ g[1].next = q.h
      /\ \A S : StaleIn(f, S) /\ (q.stale => q.h \in S) /\ (r.stale => r.h \in S) /\ (s.stale => s.h \in S)
                  => StaleIn(g, S)
  BY <1>2, InThree DEF Made
<1> HIDE DEF g
<1>5. PieceOk(g, 2) /\ PieceOk(g, 3) /\ PieceOk(g, 4)
  <2>1. /\ Len(g) \in Nat /\ 2 \in 1..(Len(g) - 1) /\ 2 + 1 = 3 /\ 3 \in 1..(Len(g) - 1) /\ 3 + 1 = 4
        /\ 4 \in 1..(Len(g) - 1)
    BY <1>3, <1>4
  <2>2. g[2].h \in {"IPV4", "IPV6"} /\ g[2].n = 0 /\ g[2].next \in {"UDP", "GRE"} /\ g[2 + 1].h = g[2].next
    BY <1>2, <1>4, <2>1 DEF Made
  <2>3. g[3].h = "UDP" /\ g[3].n = 0 /\ g[3 + 1].h = "GTPU"
    BY <1>2, <1>4, <2>1 DEF Made
  <2>4. g[4].h \in {"PPP", "GTPU"} /\ g[4].n = 0
    BY <1>2, <1>4 DEF Made
  <2>5. PieceOk(g, 2)
    BY <2>1, <2>2, OthersOk
  <2>6. PieceOk(g, 3)
    BY <2>1, <2>3, OthersOk
  <2>7. PieceOk(g, 4)
    BY <2>1, <2>4, OthersOk
  <2> QED
    BY <2>5, <2>6, <2>7
<1>6. /\ Complete(g) /\ g[1].next = ip /\ g[1].h = "ETHERNET" /\ g[2].next = "UDP" /\ g[2].n = 0
      /\ g[3].next = "GTPU" /\ g[4].h = "GTPU" /\ g[5] = f[2] /\ 5 \in 1..Len(g)
  BY <1>1, <1>2, <1>3, <1>4, <1>5 DEF Made
<1>7. Tunnelled(g, 3)
  <2>1. PieceLen(g[5]) >= 20
    BY <1>6, IpThere
  <2> QED
    BY <1>6, <2>1, TunnelSeen
<1>8. parse_ethernet(g) = Type(<<"ETHERNET">>, TunnelUp(ip), 0)
  <2>1. ip \notin {"VLAN", "ISID"}
    OBVIOUS
  <2>2. parse_ethernet(g) = Type(<<"ETHERNET">>, UpperUp(g, 2, ip), UpperN(g, 2, ip))
    BY <1>6, <2>1, ParseFirst
  <2>3. UpperN(g, 2, ip) = 0
    BY <1>6 DEF UpperN
  <2>4. UpperUp(g, 2, ip) = TunnelUp(ip)
    <3>1. 2 + 1 = 3
      OBVIOUS
    <3>2. Tunnelled(g, 2 + 1)
      BY <1>7, <3>1
    <3>3. Ipv4Up(g, 2) = <<"IPV4", "UDP", "GTPU4">>
      BY <1>6, <3>2 DEF Ipv4Up
    <3>4. Ipv6Up(g, 2) = <<"IPV6", "UDP", "GTPU6">>
      BY <1>6, <3>2 DEF Ipv6Up
    <3>5. UpperUp(g, 2, ip) = IF ip = "IPV4" THEN Ipv4Up(g, 2) ELSE Ipv6Up(g, 2)
      BY DEF UpperUp
    <3>6. CASE ip = "IPV4"
      BY <3>3, <3>5, <3>6 DEF TunnelUp
    <3>7. CASE ip = "IPV6"
      BY <3>4, <3>5, <3>7 DEF TunnelUp
    <3> QED
      BY <3>6, <3>7
  <2> QED
    BY <2>2, <2>3, <2>4
<1>9. Followed(f, t, g, Type(l2, TunnelUp(ip), 0))
  BY <1>1, <1>6, <1>8, FollowedIf
<1>10. ASSUME NEW S, StaleIn(f, S)  PROVE StaleIn(g, S \cup {"UDP"} \cup ({ip} \cap {"IPV4"}))
  <2> DEFINE X == S \cup {"UDP"} \cup ({ip} \cap {"IPV4"})
  <2>1. StaleIn(f, X)
    BY <1>10 DEF StaleIn
  <2>2. "UDP" \in X /\ (ip # "IPV6" => ip \in X)
    OBVIOUS
  <2> HIDE DEF X
  <2>3. (q.stale => q.h \in X) /\ (r.stale => r.h \in X) /\ (s.stale => s.h \in X)
    BY <1>2, <2>2 DEF Made
  <2>4. StaleIn(g, X)
    BY <1>4, <2>1, <2>3
  <2> QED
    BY <2>4 DEF X
<1> QED
  BY <1>0, <1>9, <1>10 DEF l2

\* An Ethernet header is always found at the first byte.
LEMMA EthernetPlace ==
    ASSUME NEW l2 \in L2, l2[1] = "ETHERNET", NEW up, NEW n, Found(up, n)
    PROVE  protocol_offsets_bt(Type(l2, up, n), "ETHERNET") = 0
BY OffsetsL2

Backboned == <<Piece("ETHERNET", 0, "ISID"), Piece("ISID", 0, "ETHERNET")>>

\* A backbone header pushed in front is followed.
LEMMA BackbonePushed ==
    ASSUME NEW f, Complete(f), NEW t, Matches(f, t), push_transitions(t, "ISID") # Invalid
    PROVE  /\ protocol_offsets_bt(push_transitions(t, "ISID"), "ETHERNET") = 0
           /\ Followed(f, t, On(f, Backboned), push_transitions(t, "ISID"))
           /\ \A S : StaleIn(f, S) => StaleIn(On(f, Backboned), S)
<1> DEFINE l2 == t.l2
<1> DEFINE up == t.up
<1> DEFINE n == t.n
<1> DEFINE b == <<"ETHERNET", "ISID">>
<1> DEFINE none == <<>>
<1> DEFINE q == Piece("ETHERNET", 0, "ISID")
<1> DEFINE r == Piece("ISID", 0, "ETHERNET")
<1> DEFINE g == On(f, <<q, r>>)
<1>0. g = On(f, Backboned)
  BY DEF Backboned
<1>1. TypeFacts(t, l2, up, n)
  BY MatchesFacts
<1> HIDE DEF l2, up, n
<1>2. push_transitions(t, "ISID") = Type(b, none, 0)
  BY <1>1, PushFrame
<1>3. protocol_offsets_bt(Type(b, none, 0), "ETHERNET") = 0
  <2>1. b \in L2 /\ b[1] = "ETHERNET" /\ Found(none, 0)
    BY DEF L2, Found
  <2> HIDE DEF b, none
  <2> QED
    BY <2>1, EthernetPlace
<1>4. Made(q, "ETHERNET", 0, "ISID") /\ ~q.stale /\ Made(r, "ISID", 0, "ETHERNET") /\ ~r.stale
  <2>1. 0 \in Nat
    OBVIOUS
  <2> QED
    BY <2>1, PiecesMade
<1> HIDE DEF q, r
<1>5. f \in Frames /\ Len(f) \in Nat /\ Len(f) > 1 /\ f[1].h \in Link
  BY CompleteFacts
<1>6. /\ Len(g) = Len(f) + 2 /\ g[1] = q /\ g[2] = r /\ g[3] = f[1]
      /\ PieceOk(g, 1) /\ PieceOk(g, 2) => Complete(g)
      /\ \A S : StaleIn(f, S) /\ (q.stale => q.h \in S) /\ (r.stale => r.h \in S) => StaleIn(g, S)
  <2>1. q \in Pieces /\ r \in Pieces /\ q.h \in Link
    BY <1>4 DEF Made, Link
  <2> QED
    BY <2>1, OnTwo
<1> HIDE DEF g
<1>7. Complete(g)
  <2>1. Len(g) \in Nat /\ Len(g) > 1 /\ 2 \in 1..(Len(g) - 1) /\ 2 + 1 = 3
    BY <1>5, <1>6
  <2>2. g[1].h \in Link /\ g[1].n = 0 /\ (g[1].next \in Ethertypes => g[2].h = g[1].next)
    BY <1>4, <1>6 DEF Made, Link
  <2>3. g[2].h = "ISID" /\ g[2].n = 0 /\ g[2 + 1].h \in Link
    BY <1>4, <1>5, <1>6, <2>1 DEF Made
  <2>4. PieceOk(g, 1)
    BY <2>1, <2>2, LinkOk
  <2>5. PieceOk(g, 2)
    BY <2>1, <2>3, OthersOk
  <2> QED
    BY <1>6, <2>4, <2>5
<1>8. parse_ethernet(g) = Type(b, none, 0)
  <2>1. g[1].h = "ETHERNET" /\ g[1].next = "ISID"
    BY <1>4, <1>6 DEF Made
  <2> QED
    BY <1>7, <2>1, ParseBackbone
<1> HIDE DEF b, none
<1>9. Followed(f, t, g, push_transitions(t, "ISID"))
  BY <1>2, <1>7, <1>8, FollowedIf
<1> QED
  BY <1>0, <1>2, <1>3, <1>4, <1>6, <1>9

Gre(ip) == IF ip = "IPV4" THEN "GRE4" ELSE "GRE6"
GreUp(ip) == IF ip = "IPV4" THEN <<"IPV4", "GRE4">> ELSE <<"IPV6", "GRE6">>
Encapsulated(ip) == <<Piece("ETHERNET", 0, ip), Unset(ip, 0, "GRE"), Unset("GRE", 2, "ETHERNET")>>

\* The Ethernet header of a GRE tunnel is looked for at the first byte.
LEMMA GrePlace ==
    ASSUME NEW f, Complete(f), NEW t, Matches(f, t), NEW ip \in {"IPV4", "IPV6"},
           push_transitions(t, Gre(ip)) # Invalid
    PROVE  /\ push_transitions(t, Gre(ip)) = Type(<<"ETHERNET">>, GreUp(ip), 0)
           /\ protocol_offsets_bt(push_transitions(t, Gre(ip)), "ETHERNET") = 0
<1> DEFINE l2 == t.l2
<1> DEFINE up == t.up
<1> DEFINE n == t.n
<1> DEFINE eth == <<"ETHERNET">>
<1> DEFINE u == GreUp(ip)
<1>1. TypeFacts(t, l2, up, n)
  BY MatchesFacts
<1> HIDE DEF l2, up, n
<1>2. push_transitions(t, Gre(ip)) = Type(eth, u, 0)
  <2>1. CASE ip = "IPV4"
    BY <1>1, <2>1, PushFrame DEF Gre, GreUp
  <2>2. CASE ip = "IPV6"
    BY <1>1, <2>2, PushFrame DEF Gre, GreUp
  <2> QED
    BY <2>1, <2>2
<1>3. eth \in L2 /\ eth[1] = "ETHERNET"
  BY DEF L2
<1>4. Found(u, 0)
  <2>1. CASE ip = "IPV4"
    <3>1. u \in Ipv4Stacks /\ 0 \in 0..MaxOptions
      BY <2>1 DEF GreUp, Ipv4Stacks, MaxOptions
    <3> HIDE DEF u
    <3> QED
      BY <3>1 DEF Found
  <2>2. CASE ip = "IPV6"
    <3>1. u \in Ipv6Stacks
      BY <2>2 DEF GreUp, Ipv6Stacks
    <3> HIDE DEF u
    <3> QED
      BY <3>1 DEF Found
  <2> QED
    BY <2>1, <2>2
<1> HIDE DEF eth, u
<1>5. protocol_offsets_bt(Type(eth, u, 0), "ETHERNET") = 0
  BY <1>3, <1>4, EthernetPlace
<1> QED
  BY <1>2, <1>5 DEF eth, u

\* A GRE tunnel pushed in front is followed.
LEMMA GrePushed ==
    ASSUME NEW f, Complete(f), NEW t, NEW ip \in {"IPV4", "IPV6"}
    PROVE  /\ Followed(f, t, On(f, Encapsulated(ip)), Type(<<"ETHERNET">>, GreUp(ip), 0))
           /\ \A S : StaleIn(f, S) => StaleIn(On(f, Encapsulated(ip)), S \cup {"GRE"} \cup ({ip} \cap {"IPV4"}))
<1> DEFINE q == Piece("ETHERNET", 0, ip)
<1> DEFINE r == Unset(ip, 0, "GRE")
<1> DEFINE s == Unset("GRE", 2, "ETHERNET")
<1> DEFINE g == On(f, <<q, r, s>>)
<1>0. g = On(f, Encapsulated(ip))
  BY DEF Encapsulated
<1>2. /\ Made(q, "ETHERNET", 0, ip) /\ ~q.stale /\ Made(r, ip, 0, "GRE") /\ (r.stale => ip # "IPV6")
      /\ Made(s, "GRE", 2, "ETHERNET")
  <2>1. 0 \in Nat /\ 2 \in Nat
    OBVIOUS
  <2> QED
    BY <2>1, PiecesMade
<1> HIDE DEF q, r, s
<1>3. f \in Frames /\ Len(f) \in Nat /\ Len(f) > 1 /\ f[1].h \in Link
  BY CompleteFacts
<1>4. /\ Len(g) = Len(f) + 3 /\ g[1] = q /\ g[2] = r /\ g[3] = s /\ g[4] = f[1]
      /\ PieceOk(g, 1) /\ PieceOk(g, 2) /\ PieceOk(g, 3) => Complete(g)
      /\ \A S : StaleIn(f, S) /\ (q.stale => q.h \in S) /\ (r.stale => r.h \in S) /\ (s.stale => s.h \in S)
                  => StaleIn(g, S)
  <2>1. q \in Pieces /\ r \in Pieces /\ s \in Pieces /\ q.h \in Link
    BY <1>2 DEF Made, Link
  <2> QED
    BY <2>1, OnThree
<1> HIDE DEF g
<1>5. Complete(g)
  <2>1. /\ Len(g) \in Nat /\ Len(g) > 1 /\ 2 \in 1..(Len(g) - 1) /\ 2 + 1 = 3 /\ 3 \in 1..(Len(g) - 1) /\ 3 + 1 = 4
    BY <1>3, <1>4
  <2>2. g[1].h \in Link /\ g[1].n = 0 /\ (g[1].next \in Ethertypes => g[2].h = g[1].next)
    BY <1>2, <1>4 DEF Made, Link
  <2>3. g[2].h \in {"IPV4", "IPV6"} /\ g[2].n = 0 /\ g[2].next \in {"UDP", "GRE"} /\ g[2 + 1].h = g[2].next
    BY <1>2, <1>4, <2>1 DEF Made
  <2>4. g[3].h = "GRE" /\ g[3 + 1].h \in Link
    BY <1>2, <1>3, <1>4, <2>1 DEF Made
  <2>5. PieceOk(g, 1)
    BY <2>1, <2>2, LinkOk
  <2>6. PieceOk(g, 2)
    BY <2>1, <2>3, OthersOk
  <2>7. PieceOk(g, 3)
    BY <2>1, <2>4, GreOk
  <2> QED
    BY <1>4, <2>5, <2>6, <2>7
<1>6. g[1].next = ip /\ g[1].h = "ETHERNET" /\ g[2].next = "GRE" /\ g[2].n = 0
  BY <1>2, <1>4 DEF Made
<1>7. parse_ethernet(g) = Type(<<"ETHERNET">>, GreUp(ip), 0)
  <2>1. ip \notin {"VLAN", "ISID"}
    OBVIOUS
  <2>2. parse_ethernet(g) = Type(<<"ETHERNET">>, UpperUp(g, 2, ip), UpperN(g, 2, ip))
    BY <1>5, <1>6, <2>1, ParseFirst
  <2>3. UpperN(g, 2, ip) = 0
    BY <1>6 DEF UpperN
  <2>4. UpperUp(g, 2, ip) = GreUp(ip)
    <3>1. Ipv4Up(g, 2) = <<"IPV4", "GRE4">>
      BY <1>6 DEF Ipv4Up
    <3>2. Ipv6Up(g, 2) = <<"IPV6", "GRE6">>
      BY <1>6 DEF Ipv6Up
    <3>3. UpperUp(g, 2, ip) = IF ip = "IPV4" THEN Ipv4Up(g, 2) ELSE Ipv6Up(g, 2)
      BY DEF UpperUp
    <3>4. CASE ip = "IPV4"
      BY <3>1, <3>3, <3>4 DEF GreUp
    <3>5. CASE ip = "IPV6"
      BY <3>2, <3>3, <3>5 DEF GreUp
    <3> QED
      BY <3>4, <3>5
  <2> QED
    BY <2>2, <2>3, <2>4
<1>8. Followed(f, t, g, Type(<<"ETHERNET">>, GreUp(ip), 0))
  BY <1>5, <1>7, FollowedIf
<1>9. ASSUME NEW S, StaleIn(f, S)  PROVE StaleIn(g, S \cup {"GRE"} \cup ({ip} \cap {"IPV4"}))
  <2> DEFINE X == S \cup {"GRE"} \cup ({ip} \cap {"IPV4"})
  <2>1. StaleIn(f, X)
    BY <1>9 DEF StaleIn
  <2>2. "GRE" \in X /\ (ip # "IPV6" => ip \in X)
    OBVIOUS
  <2> HIDE DEF X
  <2>3. (q.stale => q.h \in X) /\ (r.stale => r.h \in X) /\ (s.stale => s.h \in X)
    BY <1>2, <2>2 DEF Made
  <2>4. StaleIn(g, X)
    BY <1>4, <2>1, <2>3
  <2> QED
    BY <2>4 DEF X
<1> QED
  BY <1>0, <1>8, <1>9

-----------------------------------------------------------------------------
(* What pops find and leave *)

\* A frame that is followed.
Sound == Complete(frame) /\ Matches(frame, type)

\* The first piece of a protocol.
LEMMA FirstIs ==
    ASSUME Complete(frame), NEW i \in 1..Len(frame), NEW h, frame[i].h = h, \A j \in 1..(i - 1) : frame[j].h # h
    PROVE  First(h) = i
<1>1. Len(frame) \in Nat /\ DOMAIN frame = 1..Len(frame)
  BY CompleteFacts, FrameFacts
<1> DEFINE Is(k) == frame[k].h = h /\ \A j \in 1..(k - 1) : frame[j].h # h
<1>2. Is(i) /\ i \in DOMAIN frame
  BY <1>1
<1>3. \A k \in DOMAIN frame : Is(k) => k = i
  <2> TAKE k \in DOMAIN frame
  <2> HAVE Is(k)
  <2>1. k \in 1..Len(frame)
    BY <1>1
  <2>2. ~(k < i)
    <3>1. k < i => k \in 1..(i - 1)
      BY <2>1
    <3> QED
      BY <3>1
  <2>3. ~(i < k)
    <3>1. i < k => i \in 1..(k - 1)
      BY <2>1
    <3> QED
      BY <3>1
  <2> QED
    BY <2>1, <2>2, <2>3
<1>4. First(h) = CHOOSE k \in DOMAIN frame : Is(k)
  BY DEF First
<1> HIDE DEF Is
<1> QED
  BY <1>2, <1>3, <1>4

\* The first header of a kind is where the type has it.
LEMMA UpperIndex ==
    ASSUME Sound, NEW k \in 1..Len(type.up), NEW h, h = Raw(type.up[k]), h \notin L2Names,
           \A j \in 1..(k - 1) : Raw(type.up[j]) # h
    PROVE  /\ Len(type.l2) \in 1..3 /\ Len(type.l2) + k \in 1..Len(frame)
           /\ First(h) = Len(type.l2) + k /\ frame[Len(type.l2) + k].h = h
<1> DEFINE l2 == type.l2
<1> DEFINE up == type.up
<1> DEFINE m == Len(l2)
<1>1. /\ l2 \in L2 /\ Found(up, type.n) /\ L2Matches(frame, l2) /\ UpMatches(frame, m, up, type.n) /\ m \in 1..3
      /\ Complete(frame)
  BY MatchesFacts DEF Sound
<1>2. /\ \A i \in 1..m : frame[i].h = l2[i]
      /\ \A i \in 1..Len(up) : frame[m + i].h = Raw(up[i])
      /\ m + Len(up) <= Len(frame)
  BY <1>1 DEF L2Matches, UpMatches
<1>3. \A i \in 1..m : l2[i] \in L2Names
  BY <1>1, L2Elements
<1>4. Len(up) \in Nat
  BY <1>1, FoundUp
<1>5. k \in 1..Len(up) /\ h = Raw(up[k]) /\ \A j \in 1..(k - 1) : Raw(up[j]) # h
  OBVIOUS
<1>6. Len(frame) \in Nat
  BY <1>1, CompleteFacts
<1> HIDE DEF l2, up, m
<1>7. m + k \in 1..Len(frame) /\ frame[m + k].h = h
  BY <1>1, <1>2, <1>4, <1>5, <1>6
<1>8. \A j \in 1..(m + k - 1) : frame[j].h # h
  <2> TAKE j \in 1..(m + k - 1)
  <2>1. CASE j <= m
    <3>1. j \in 1..m
      BY <1>1, <2>1
    <3> QED
      BY <1>2, <1>3, <3>1
  <2>2. CASE j > m
    <3> DEFINE i == j - m
    <3>1. i \in 1..(k - 1) /\ i \in 1..Len(up) /\ m + i = j
      BY <1>1, <1>4, <1>5, <2>2
    <3> HIDE DEF i
    <3>2. frame[m + i].h = Raw(up[i]) /\ Raw(up[i]) # h
      BY <1>2, <1>5, <3>1
    <3> QED
      BY <3>1, <3>2
  <2> QED
    BY <1>1, <2>1, <2>2
<1>9. First(h) = m + k
  BY <1>1, <1>7, <1>8, FirstIs
<1> QED
  BY <1>1, <1>7, <1>9 DEF l2, m

\* Bytes that are cut out behind an Ethernet header.
LEMMA CutBehind ==
    ASSUME Sound, NEW first \in 1..Len(frame), NEW last \in 1..(Len(frame) - 1), NEW n, Cuts(14, n, first, last)
    PROVE  /\ Complete(Announce(Without(first, last), frame[last + 1].h))
           /\ first <= last =>
                \A S : StaleIn(frame, S) => StaleIn(Announce(Without(first, last), frame[last + 1].h), S)
<1>1. frame \in Frames /\ Len(frame) \in Nat /\ Complete(frame)
  BY CompleteFacts DEF Sound
<1>2. first = 2
  <2>1. Start(frame, first) = 14 /\ first \in 1..(Len(frame) + 1)
    BY <1>1 DEF Cuts
  <2> QED
    BY <1>1, <2>1, ByteFourteen
<1> DEFINE k == last + 1
<1> DEFINE c == frame[k].h
<1>3. k \in 2..Len(frame) /\ c \in Names
  <2>1. k \in 2..Len(frame) /\ k \in 1..Len(frame)
    BY <1>1
  <2>2. frame[k] \in Pieces
    BY <1>1, <2>1, FrameFacts
  <2> QED
    BY <2>1, <2>2 DEF Pieces
<1>4. Announce(Without(first, last), c) = Out(frame, k, c)
  BY <1>2 DEF Without, Out
<1>5. c \in Ethertypes => frame[k].h = c
  OBVIOUS
<1> HIDE DEF k, c
<1>6. Complete(Out(frame, k, c)) /\ \A S : StaleIn(frame, S) => StaleIn(Out(frame, k, c), S)
  BY <1>1, <1>3, <1>5, OutComplete
<1> QED
  BY <1>4, <1>6 DEF k, c

\* A frame that is cut down to one it carries is complete.
LEMMA CutFront ==
    ASSUME Sound, NEW last \in 1..(Len(frame) - 1), frame[last + 1].h \in Link
    PROVE  Complete(Without(1, last)) /\ \A S : StaleIn(frame, S) => StaleIn(Without(1, last), S)
<1>1. frame \in Frames /\ Len(frame) \in Nat /\ Complete(frame)
  BY CompleteFacts DEF Sound
<1> DEFINE k == last + 1
<1>2. k \in 1..Len(frame) /\ frame[k].h \in Link
  BY <1>1
<1>3. Without(1, last) = Off(frame, k)
  BY DEF Without, Off
<1> HIDE DEF k
<1> QED
  BY <1>1, <1>2, <1>3, OffComplete

\* Where the header behind layer 2 starts.
LEMMA UpperStart ==
    ASSUME Sound
    PROVE  /\ Start(frame, Len(type.l2) + 1) = L2Len(type.l2)
           /\ L2Len(type.l2) = 14 <=> type.l2 = <<"ETHERNET">>
           /\ Len(type.l2) \in 1..3 /\ frame[1].h = type.l2[1] /\ type.l2[1] \in Link
           /\ L2Len(type.l2) \in Nat
           /\ type.l2 = <<"ETHERNET">> => Len(type.l2) = 1
<1> DEFINE l2 == type.l2
<1>1. Complete(frame) /\ l2 \in L2 /\ L2Matches(frame, l2) /\ frame[1].h = l2[1]
  BY MatchesFacts DEF Sound
<1>2. l2 = <<"ETHERNET">> => Len(l2) = 1
  OBVIOUS
<1> HIDE DEF l2
<1>3. Start(frame, Len(l2) + 1) = L2Len(l2)
  BY <1>1, LinkStarts
<1>4. L2Len(l2) = 14 <=> l2 = <<"ETHERNET">>
  BY <1>1, L2Shape
<1>5. Len(l2) \in 1..3 /\ l2[1] \in Link
  BY <1>1, L2Shape
<1>6. L2Len(l2) \in Nat
  BY <1>1, L2Shape
<1> QED
  BY <1>1, <1>2, <1>3, <1>4, <1>5, <1>6 DEF l2

\* pop_mpls means the outermost label, and takes it when it is at byte 14.
LEMMA MplsFound ==
    ASSUME Sound, pop_transitions(type, "MPLS") # Invalid
    PROVE  LET i == First("MPLS") IN
           /\ i \in 1..(Len(frame) - 1) /\ After(i) = frame[i + 1].h
           /\ type.l2 = <<"ETHERNET">> => Cuts(14, 4, i, i)
<1> DEFINE up == type.up
<1> DEFINE l2 == type.l2
<1> DEFINE i == Len(l2) + 1
<1>1. Complete(frame) /\ TypeFacts(type, l2, up, type.n)
  BY MatchesFacts DEF Sound
<1>2. up = <<"MPLS">>
  <2> HIDE DEF up, l2
  <2> QED
    BY <1>1, PopOthers
<1>3. 1 \in 1..Len(up) /\ "MPLS" = Raw(up[1]) /\ "MPLS" \notin L2Names /\ \A j \in 1..(1 - 1) : FALSE
  BY <1>2 DEF Raw, L2Names
<1>4. First("MPLS") = i /\ frame[i].h = "MPLS" /\ i \in 1..Len(frame)
  <2> DEFINE k == 1
  <2> DEFINE h == "MPLS"
  <2>1. k \in 1..Len(type.up) /\ h = Raw(type.up[k]) /\ h \notin L2Names /\ \A j \in 1..(k - 1) : Raw(type.up[j]) # h
    BY <1>3
  <2> HIDE DEF k, h
  <2>2. First(h) = Len(type.l2) + k /\ frame[Len(type.l2) + k].h = h /\ Len(type.l2) + k \in 1..Len(frame)
    BY <2>1, UpperIndex
  <2> QED
    BY <2>2 DEF k, h
<1>5. Len(frame) \in Nat /\ frame \in Frames
  BY <1>1, CompleteFacts
<1>6. i + 1 \in 1..Len(frame) /\ (frame[i].next = "MPLS" => frame[i + 1].h = "MPLS") /\ PieceLen(frame[i]) = 4
  <2>1. frame[i].h \in Carriers
    BY <1>4 DEF Carriers
  <2>2. Carries(frame[i].h) = {"MPLS"}
    BY <1>4, CarriesFacts
  <2> HIDE DEF i
  <2>3. i + 1 \in 1..Len(frame)
    BY <1>1, <1>4, <2>1, CompleteFacts
  <2>4. frame[i].next = "MPLS" => frame[i + 1].h = "MPLS"
    BY <1>1, <1>4, <2>2, CompleteFacts
  <2>5. PieceLen(frame[i]) = 4
    BY <1>1, <1>4, HeaderLengths
  <2> QED
    BY <2>3, <2>4, <2>5
<1>7. After(i) = frame[i + 1].h
  BY <1>6 DEF After
<1>8. ASSUME l2 = <<"ETHERNET">>  PROVE Cuts(14, 4, i, i)
  <2>1. Start(frame, i) = 14
    BY <1>8, UpperStart
  <2> HIDE DEF i
  <2>2. Start(frame, i + 1) = Start(frame, i) + PieceLen(frame[i])
    BY <1>4, <1>5, StartFacts
  <2> QED
    BY <1>6, <2>1, <2>2 DEF Cuts
<1>9. i \in 1..(Len(frame) - 1)
  BY <1>4, <1>5, <1>6
<1> HIDE DEF i
<1> QED
  BY <1>4, <1>7, <1>8, <1>9

\* pop_pppoe means the PPPoE header with what belongs to it, and takes it when it is at byte
\* 14.
LEMMA PppoeFound ==
    ASSUME Sound, Shows("PPPOE")
    PROVE  LET i == First("PPPOE")
               last == IF frame[i].next = "PPP" THEN i + 1 ELSE i
               n == IF frame[i].next = "PPP" THEN 8 ELSE 6
           IN  /\ i \in 1..Len(frame) /\ last \in 1..(Len(frame) - 1) /\ After(last) = frame[last + 1].h
               /\ type.l2 = <<"ETHERNET">> => frame[1].next = "PPPOE" /\ Cuts(14, n, i, last)
<1> DEFINE up == type.up
<1> DEFINE l2 == type.l2
<1> DEFINE i == Len(l2) + 1
<1> DEFINE last == IF frame[i].next = "PPP" THEN i + 1 ELSE i
<1> DEFINE n == IF frame[i].next = "PPP" THEN 8 ELSE 6
<1>1. /\ Complete(frame) /\ l2 \in L2 /\ Found(up, type.n) /\ type = Type(l2, up, type.n)
      /\ UpMatches(frame, Len(l2), up, type.n)
  BY MatchesFacts DEF Sound
<1>2. "PPPOE" \in HeadersOf(type)
  BY DEF Shows, Named
<1>3. up \in {<<"PPPOE">>, <<"PPPOE", "PPP">>}
  <2> HIDE DEF up, l2
  <2> QED
    BY <1>1, <1>2, Shown
<1>4. up # <<>> /\ up[1] = "PPPOE" /\ 1 \in 1..Len(up) /\ "PPPOE" = Raw(up[1]) /\ "PPPOE" \notin L2Names
  BY <1>3 DEF Raw, L2Names
<1>5. First("PPPOE") = i /\ frame[i].h = "PPPOE" /\ i \in 1..Len(frame)
  <2> DEFINE k == 1
  <2> DEFINE h == "PPPOE"
  <2>0. \A j \in 1..(1 - 1) : FALSE
    OBVIOUS
  <2>1. k \in 1..Len(type.up) /\ h = Raw(type.up[k]) /\ h \notin L2Names /\ \A j \in 1..(k - 1) : Raw(type.up[j]) # h
    BY <1>4, <2>0
  <2> HIDE DEF k, h
  <2>2. First(h) = Len(type.l2) + k /\ frame[Len(type.l2) + k].h = h /\ Len(type.l2) + k \in 1..Len(frame)
    BY <2>1, UpperIndex
  <2> QED
    BY <2>2 DEF k, h
<1>6. Len(frame) \in Nat /\ frame \in Frames
  BY <1>1, CompleteFacts
<1>7. frame[Len(l2)].next = "PPPOE"
  BY <1>1, <1>4 DEF UpMatches
<1> HIDE DEF i
<1>8. i + 1 \in 1..Len(frame) /\ (frame[i].next = "PPP" => frame[i + 1].h = "PPP") /\ PieceLen(frame[i]) = 6
  <2>1. frame[i].h \in Carriers
    BY <1>5 DEF Carriers
  <2>2. Carries(frame[i].h) = {"PPP"}
    BY <1>5, CarriesFacts
  <2>3. i + 1 \in 1..Len(frame)
    BY <1>1, <1>5, <2>1, CompleteFacts
  <2>4. frame[i].next = "PPP" => frame[i + 1].h = "PPP"
    BY <1>1, <1>5, <2>2, CompleteFacts
  <2>5. PieceLen(frame[i]) = 6
    BY <1>1, <1>5, HeaderLengths
  <2> QED
    BY <2>3, <2>4, <2>5
<1>9. frame[i].next = "PPP" => i + 1 + 1 \in 1..Len(frame) /\ PieceLen(frame[i + 1]) = 2
  <2> SUFFICES ASSUME frame[i].next = "PPP"  PROVE i + 1 + 1 \in 1..Len(frame) /\ PieceLen(frame[i + 1]) = 2
    OBVIOUS
  <2> DEFINE j == i + 1
  <2>1. j \in 1..Len(frame) /\ frame[j].h = "PPP" /\ frame[j].h \in Carriers
    BY <1>8 DEF Carriers
  <2> HIDE DEF j
  <2>2. j + 1 \in 1..Len(frame) /\ PieceLen(frame[j]) = 2
    BY <1>1, <2>1, CompleteFacts, HeaderLengths
  <2> QED
    BY <2>2 DEF j
<1>10. last \in 1..(Len(frame) - 1) /\ frame[last].h # "MPLS"
  BY <1>5, <1>6, <1>8, <1>9
<1>11. After(last) = frame[last + 1].h
  BY <1>10 DEF After
<1>12. ASSUME l2 = <<"ETHERNET">>  PROVE frame[1].next = "PPPOE" /\ Cuts(14, n, i, last)
  <2>1. Start(frame, i) = 14 /\ Len(l2) = 1
    BY <1>12, UpperStart DEF i
  <2>2. Start(frame, i + 1) = 14 + 6
    BY <1>5, <1>6, <1>8, <2>1, StartFacts
  <2>3. frame[i].next = "PPP" => Start(frame, i + 1 + 1) = 14 + 8
    <3> DEFINE j == i + 1
    <3>1. j \in 1..Len(frame)
      BY <1>8
    <3> HIDE DEF j
    <3>2. Start(frame, j + 1) = Start(frame, j) + PieceLen(frame[j])
      BY <1>6, <3>1, StartFacts
    <3> QED
      BY <1>9, <2>2, <3>2 DEF j
  <2> QED
    BY <1>7, <2>1, <2>2, <2>3 DEF Cuts
<1> HIDE DEF last, n
<1> QED
  BY <1>5, <1>10, <1>11, <1>12 DEF last, n

\* pop_pbb takes the Ethernet header and the I-SID, always.
LEMMA BackboneFound ==
    ASSUME Sound, pop_transitions(type, "ISID") # Invalid
    PROVE  Cuts(0, 18, 1, 2) /\ 2 \in 1..(Len(frame) - 1) /\ frame[2 + 1].h \in Link
<1> DEFINE l2 == type.l2
<1> DEFINE up == type.up
<1>1. Complete(frame) /\ TypeFacts(type, l2, up, type.n) /\ l2 \in L2 /\ L2Matches(frame, l2)
  BY MatchesFacts DEF Sound
<1>2. l2 = <<"ETHERNET", "ISID">>
  <2> HIDE DEF up, l2
  <2> QED
    BY <1>1, PopOthers
<1>3. Len(l2) = 2 /\ l2[1] = "ETHERNET" /\ l2[2] = "ISID"
  BY <1>2
<1> HIDE DEF l2
<1>4. frame[2].h = "ISID" /\ Len(frame) \in Nat /\ Len(frame) > 2
  <2>1. (\A i \in 1..Len(l2) : frame[i].h = l2[i]) /\ Len(l2) < Len(frame)
    BY <1>1 DEF L2Matches
  <2>2. 2 \in 1..Len(l2)
    BY <1>3
  <2> QED
    BY <1>1, <1>3, <2>1, <2>2, CompleteFacts
<1>5. frame[2 + 1].h \in Link
  <2>1. 2 \in 1..Len(frame) /\ BringsFrame(frame[2])
    BY <1>4 DEF BringsFrame
  <2> QED
    BY <1>1, <2>1, CompleteFacts
<1>6. Start(frame, 1) = 0 /\ Start(frame, 3) = 18
  <2>1. Start(frame, 1) = 0
    BY <1>1, LinkStarts
  <2>2. Len(l2) > 1
    BY <1>3
  <2>3. Start(frame, 3) = L2Len(<<l2[1]>>) + 4
    BY <1>1, <2>2, LinkStarts
  <2>4. L2Len(<<l2[1]>>) = 14
    BY <1>3, Lengths
  <2> QED
    BY <2>1, <2>3, <2>4
<1> QED
  BY <1>4, <1>5, <1>6 DEF Cuts

\* pop_gtp means the three outer headers, and takes them when there are no tags and no options.
LEMMA TunnelFound ==
    ASSUME Sound, Shows("GTPU")
    PROVE  LET i == First("GTPU")
               ip == frame[1].next
               n == IF ip = "IPV4" THEN 36 ELSE 56
           IN  /\ i \in 1..(Len(frame) - 1) /\ i - 2 \in 1..Len(frame) /\ 4 \in 1..Len(frame) /\ After(i) = frame[i + 1].h
               /\ type.l2 = <<"ETHERNET">> /\ frame[2].n = 0 /\ frame[4].n = 0 =>
                    Cuts(14, n, i - 2, i)
               /\ type.l2 = <<"ETHERNET">> => ip \in {"IPV4", "IPV6"}
<1> DEFINE up == type.up
<1> DEFINE l2 == type.l2
<1> DEFINE i == Len(l2) + 3
<1> DEFINE ip == frame[1].next
<1> DEFINE n == IF ip = "IPV4" THEN 36 ELSE 56
<1>1. /\ Complete(frame) /\ l2 \in L2 /\ Found(up, type.n) /\ type = Type(l2, up, type.n)
      /\ UpMatches(frame, Len(l2), up, type.n)
  BY MatchesFacts DEF Sound
<1>2. "GTPU4" \in HeadersOf(type) \/ "GTPU6" \in HeadersOf(type)
  BY DEF Shows, Named
<1>3. up = <<"IPV4", "UDP", "GTPU4">> \/ up = <<"IPV6", "UDP", "GTPU6">>
  <2> HIDE DEF up, l2
  <2> QED
    BY <1>1, <1>2, Shown
<1>4. /\ up # <<>> /\ up[1] \in {"IPV4", "IPV6"} /\ Len(up) = 3 /\ Raw(up[1]) = up[1] /\ Raw(up[2]) = "UDP"
      /\ Raw(up[3]) = "GTPU" /\ "GTPU" \notin L2Names
  <2>1. up # <<>> /\ Len(up) = 3 /\ up[1] \in {"IPV4", "IPV6"} /\ up[2] = "UDP" /\ up[3] \in {"GTPU4", "GTPU6"}
    <3>1. CASE up = <<"IPV4", "UDP", "GTPU4">>
      BY <3>1
    <3>2. CASE up = <<"IPV6", "UDP", "GTPU6">>
      BY <3>2
    <3> QED
      BY <1>3, <3>1, <3>2
  <2> HIDE DEF up
  <2>2. Raw(up[1]) = up[1] /\ Raw(up[2]) = "UDP" /\ Raw(up[3]) = "GTPU"
    BY <2>1 DEF Raw
  <2> QED
    BY <2>1, <2>2 DEF L2Names
<1>5. First("GTPU") = i /\ frame[i].h = "GTPU" /\ i \in 1..Len(frame) /\ Len(l2) \in 1..3
  <2> DEFINE k == 3
  <2> DEFINE h == "GTPU"
  <2>1. k \in 1..Len(type.up) /\ h = Raw(type.up[k]) /\ h \notin L2Names
    BY <1>4
  <2>2. \A j \in 1..(k - 1) : Raw(type.up[j]) # h
    <3>1. \A j \in 1..(3 - 1) : j = 1 \/ j = 2
      OBVIOUS
    <3> QED
      BY <1>4, <3>1
  <2> HIDE DEF k, h
  <2>3. /\ First(h) = Len(type.l2) + k /\ frame[Len(type.l2) + k].h = h /\ Len(type.l2) + k \in 1..Len(frame)
        /\ Len(type.l2) \in 1..3
    BY <2>1, <2>2, UpperIndex
  <2> QED
    BY <2>3 DEF k, h
<1>6. Len(frame) \in Nat /\ frame \in Frames
  BY <1>1, CompleteFacts
<1>7. /\ frame[Len(l2)].next = up[1] /\ frame[Len(l2) + 1].h = up[1] /\ frame[Len(l2) + 2].h = "UDP"
  <2>1. 1 \in 1..Len(up) /\ 2 \in 1..Len(up)
    BY <1>4
  <2> QED
    BY <1>1, <1>4, <2>1 DEF UpMatches
<1> HIDE DEF up
<1>8. i + 1 \in 1..Len(frame)
  <2>1. frame[i].h \in Carriers
    BY <1>5 DEF Carriers
  <2> HIDE DEF i
  <2> QED
    BY <1>1, <1>5, <2>1, CompleteFacts
<1>9. After(i) = frame[i + 1].h
  BY <1>5 DEF After
<1>10. i \in 1..(Len(frame) - 1) /\ i - 2 \in 1..Len(frame) /\ 4 \in 1..Len(frame)
  BY <1>5, <1>6, <1>8
<1>11. ASSUME l2 = <<"ETHERNET">>  PROVE ip \in {"IPV4", "IPV6"} /\ Len(l2) = 1 /\ frame[2].h = ip
  <2>1. Len(l2) = 1
    BY <1>11
  <2> QED
    BY <1>4, <1>7, <2>1
<1>12. ASSUME l2 = <<"ETHERNET">>, frame[2].n = 0, frame[4].n = 0  PROVE Cuts(14, n, i - 2, i)
  <2>1. i = 4 /\ frame[2].h = ip /\ frame[3].h = "UDP" /\ frame[4].h = "GTPU" /\ ip \in {"IPV4", "IPV6"}
    BY <1>5, <1>7, <1>11, <1>12
  <2>2. Start(frame, 2) = 14
    BY <1>11, <1>12, UpperStart
  <2> HIDE DEF ip, i
  <2>3. 2 \in 1..Len(frame) /\ 3 \in 1..Len(frame) /\ 4 \in 1..Len(frame)
    BY <1>5, <1>6, <2>1
  <2>4. PieceLen(frame[2]) = (IF ip = "IPV4" THEN 20 ELSE 40)
    <3>1. ip = "IPV4" => PieceLen(frame[2]) = 20 + 4 * frame[2].n
      BY <1>1, <2>1, <2>3, HeaderLengths
    <3>2. ip = "IPV6" => PieceLen(frame[2]) = 40
      BY <1>1, <2>1, <2>3, HeaderLengths
    <3> QED
      BY <1>12, <2>1, <3>1, <3>2
  <2>5. PieceLen(frame[3]) = 8
    BY <1>1, <2>1, <2>3, HeaderLengths
  <2>6. PieceLen(frame[4]) = 8
    <3>1. PieceLen(frame[4]) = 8 + 4 * frame[4].n
      BY <1>1, <2>1, <2>3, HeaderLengths
    <3> QED
      BY <1>12, <3>1
  <2>7. Start(frame, 2 + 1) = Start(frame, 2) + PieceLen(frame[2])
    BY <1>6, <2>3, StartFacts
  <2>8. Start(frame, 3 + 1) = Start(frame, 3) + PieceLen(frame[3])
    BY <1>6, <2>3, StartFacts
  <2>9. Start(frame, 4 + 1) = Start(frame, 4) + PieceLen(frame[4])
    BY <1>6, <2>3, StartFacts
  <2>10. Start(frame, 5) = 14 + (IF ip = "IPV4" THEN 36 ELSE 56)
    BY <2>1, <2>2, <2>4, <2>5, <2>6, <2>7, <2>8, <2>9
  <2> QED
    BY <2>1, <2>2, <2>10 DEF Cuts
<1> HIDE DEF i, n, ip
<1> QED
  BY <1>5, <1>9, <1>10, <1>11, <1>12 DEF n, ip

\* pop_gre means the outer headers, and takes them when the Ethernet header has 14 bytes and
\* the IP header no options.
LEMMA GreFound ==
    ASSUME Sound, Shows("GRE")
    PROVE  LET i == First("GRE")
               ip == frame[1].next
               n == 14 + (IF ip = "IPV4" THEN 20 ELSE 40) + 4 + 4 * frame[i].n
           IN  /\ i \in 1..Len(frame)
               /\ frame[i].next = "ETHERNET" => i \in 1..(Len(frame) - 1) /\ frame[i + 1].h \in Link
               /\ pop_transitions(type, Named("GRE", type)) # Invalid /\ type.l2[1] # "8023" /\ frame[2].n = 0 =>
                    Cuts(0, n, 1, i)
<1> DEFINE up == type.up
<1> DEFINE l2 == type.l2
<1> DEFINE i == Len(l2) + 2
<1> DEFINE ip == frame[1].next
<1> DEFINE n == 14 + (IF ip = "IPV4" THEN 20 ELSE 40) + 4 + 4 * frame[i].n
<1>1. /\ Complete(frame) /\ l2 \in L2 /\ Found(up, type.n) /\ type = Type(l2, up, type.n)
      /\ UpMatches(frame, Len(l2), up, type.n) /\ TypeFacts(type, l2, up, type.n)
  BY MatchesFacts DEF Sound
<1>2. Named("GRE", type) \in HeadersOf(type) /\ Named("GRE", type) \in {"GRE4", "GRE6"}
  BY DEF Shows, Named
<1>3. (Named("GRE", type) = "GRE4" /\ up = <<"IPV4", "GRE4">>) \/ (Named("GRE", type) = "GRE6" /\ up = <<"IPV6", "GRE6">>)
  <2> DEFINE h == Named("GRE", type)
  <2> HIDE DEF up, l2, h
  <2>1. ("GRE4" \in HeadersOf(type) => up = <<"IPV4", "GRE4">>) /\ ("GRE6" \in HeadersOf(type) => up = <<"IPV6", "GRE6">>)
    BY <1>1, Shown
  <2>2. h \in HeadersOf(type) /\ h \in {"GRE4", "GRE6"}
    BY <1>2 DEF h
  <2>3. (h = "GRE4" /\ up = <<"IPV4", "GRE4">>) \/ (h = "GRE6" /\ up = <<"IPV6", "GRE6">>)
    BY <2>1, <2>2
  <2> QED
    BY <2>3 DEF h
<1>4. /\ up # <<>> /\ up[1] \in {"IPV4", "IPV6"} /\ Len(up) = 2 /\ Raw(up[1]) = up[1]
      /\ Raw(up[2]) = "GRE" /\ "GRE" \notin L2Names
  <2>1. up # <<>> /\ Len(up) = 2 /\ up[1] \in {"IPV4", "IPV6"} /\ up[2] \in {"GRE4", "GRE6"}
    <3> DEFINE h == Named("GRE", type)
    <3> HIDE DEF h
    <3>1. (h = "GRE4" /\ up = <<"IPV4", "GRE4">>) \/ (h = "GRE6" /\ up = <<"IPV6", "GRE6">>)
      BY <1>3 DEF h
    <3>2. CASE up = <<"IPV4", "GRE4">>
      BY <3>2
    <3>3. CASE up = <<"IPV6", "GRE6">>
      BY <3>3
    <3> QED
      BY <3>1, <3>2, <3>3
  <2> HIDE DEF up
  <2>2. Raw(up[1]) = up[1] /\ Raw(up[2]) = "GRE"
    BY <2>1 DEF Raw
  <2> QED
    BY <2>1, <2>2 DEF L2Names
<1>5. First("GRE") = i /\ frame[i].h = "GRE" /\ i \in 1..Len(frame) /\ Len(l2) \in 1..3
  <2> DEFINE k == 2
  <2> DEFINE h == "GRE"
  <2>1. k \in 1..Len(type.up) /\ h = Raw(type.up[k]) /\ h \notin L2Names
    BY <1>4
  <2>2. \A j \in 1..(k - 1) : Raw(type.up[j]) # h
    <3>1. \A j \in 1..(2 - 1) : j = 1
      OBVIOUS
    <3> QED
      BY <1>4, <3>1
  <2> HIDE DEF k, h
  <2>3. /\ First(h) = Len(type.l2) + k /\ frame[Len(type.l2) + k].h = h /\ Len(type.l2) + k \in 1..Len(frame)
        /\ Len(type.l2) \in 1..3
    BY <2>1, <2>2, UpperIndex
  <2> QED
    BY <2>3 DEF k, h
<1>6. Len(frame) \in Nat /\ frame \in Frames
  BY <1>1, CompleteFacts
<1>7. frame[Len(l2)].next = up[1] /\ frame[Len(l2) + 1].h = up[1]
  <2>1. 1 \in 1..Len(up)
    BY <1>4
  <2> QED
    BY <1>1, <1>4, <2>1 DEF UpMatches
<1>8. ASSUME frame[i].next = "ETHERNET"  PROVE i \in 1..(Len(frame) - 1) /\ frame[i + 1].h \in Link
  <2>1. BringsFrame(frame[i])
    BY <1>5, <1>8 DEF BringsFrame
  <2>2. i \in 1..Len(frame)
    BY <1>5
  <2> HIDE DEF i
  <2>3. i + 1 \in 1..Len(frame) /\ frame[i + 1].h \in Link
    BY <1>1, <2>1, <2>2, CompleteFacts
  <2> QED
    BY <1>6, <2>2, <2>3
<1>9. ASSUME pop_transitions(type, Named("GRE", type)) # Invalid, l2[1] # "8023", frame[2].n = 0
      PROVE  Cuts(0, n, 1, i)
  <2>1. l2 \in {<<"ETHERNET">>, <<"8023">>}
    <3> DEFINE h == Named("GRE", type)
    <3>1. /\ h \in {"GTPU4", "GTPU6", "GRE4", "GRE6"} /\ pop_transitions(type, h) # Invalid
          /\ up \in {<<"IPV4", "UDP", h>>, <<"IPV6", "UDP", h>>, <<"IPV4", h>>, <<"IPV6", h>>}
      <4>1. CASE h = "GRE4" /\ up = <<"IPV4", "GRE4">>
        <5>1. up = <<"IPV4", h>>
          BY <4>1
        <5> HIDE DEF up, h
        <5> QED
          BY <1>9, <4>1, <5>1 DEF h
      <4>2. CASE h = "GRE6" /\ up = <<"IPV6", "GRE6">>
        <5>1. up = <<"IPV6", h>>
          BY <4>2
        <5> HIDE DEF up, h
        <5> QED
          BY <1>9, <4>2, <5>1 DEF h
      <4> QED
        BY <1>3, <4>1, <4>2
    <3> HIDE DEF h, up, l2
    <3> QED
      BY <1>1, <3>1, PopTunnel
  <2>2. l2 = <<"ETHERNET">> /\ Len(l2) = 1
    BY <1>9, <2>1
  <2>3. i = 3 /\ frame[2].h = ip /\ frame[3].h = "GRE" /\ ip \in {"IPV4", "IPV6"}
    BY <1>4, <1>5, <1>7, <2>2
  <2>4. Start(frame, 2) = 14
    BY <2>2, UpperStart
  <2> HIDE DEF ip, i, l2, up
  <2>5. 2 \in 1..Len(frame) /\ 3 \in 1..Len(frame)
    BY <1>5, <1>6, <2>3
  <2>6. PieceLen(frame[2]) = (IF ip = "IPV4" THEN 20 ELSE 40)
    <3>1. ip = "IPV4" => PieceLen(frame[2]) = 20 + 4 * frame[2].n
      BY <1>1, <2>3, <2>5, HeaderLengths
    <3>2. ip = "IPV6" => PieceLen(frame[2]) = 40
      BY <1>1, <2>3, <2>5, HeaderLengths
    <3> QED
      BY <1>9, <2>3, <3>1, <3>2
  <2>7. PieceLen(frame[3]) = 4 + 4 * frame[3].n
    BY <1>1, <2>3, <2>5, HeaderLengths
  <2>8. Start(frame, 2 + 1) = Start(frame, 2) + PieceLen(frame[2])
    BY <1>6, <2>5, StartFacts
  <2>9. Start(frame, 3 + 1) = Start(frame, 3) + PieceLen(frame[3])
    BY <1>6, <2>5, StartFacts
  <2>10. Start(frame, 1) = 0
    BY <1>6, StartFacts
  <2>11. frame[3].n \in Nat
    <3>1. frame[3] \in Pieces
      BY <1>6, <2>5, FrameFacts
    <3> QED
      BY <3>1 DEF Pieces
  <2>12. n = 14 + (IF ip = "IPV4" THEN 20 ELSE 40) + 4 + 4 * frame[3].n
    BY <2>3
  <2>13. Start(frame, 4) = 0 + n
    <3> HIDE DEF n
    <3> QED
      BY <2>4, <2>6, <2>7, <2>8, <2>9, <2>11, <2>12
  <2> HIDE DEF n
  <2> QED
    BY <2>3, <2>10, <2>13 DEF Cuts
<1> HIDE DEF i, n, ip, l2, up
<1> QED
  BY <1>5, <1>8, <1>9 DEF n, ip, l2

-----------------------------------------------------------------------------
(* Edits and checksums leave the headers where they are *)

\* Two frames that differ in stale checksums only.
Same(f, g) == g \in Frames /\ Len(g) = Len(f) /\ \A i \in 1..Len(f) : Alike(f[i], g[i])

\* Checksums do not make a frame incomplete.
LEMMA SameComplete ==
    ASSUME NEW f, Complete(f), NEW g, Same(f, g)
    PROVE  Complete(g) /\ SameTail(f, 1, g, 1)
<1>1. f \in Frames /\ Len(f) \in Nat /\ Len(f) > 1 /\ f[1].h \in Link /\ 1 \in 1..Len(f)
  BY CompleteFacts
<1>2. g \in Frames /\ Len(g) = Len(f) /\ \A i \in 1..Len(f) : Alike(f[i], g[i])
  BY DEF Same
<1>3. SameTail(f, 1, g, 1)
  <2> SUFFICES ASSUME NEW d \in 0..(Len(f) - 1)  PROVE Alike(f[1 + d], g[1 + d])
    BY <1>2 DEF SameTail
  <2>1. 1 + d \in 1..Len(f)
    BY <1>1
  <2> QED
    BY <1>2, <2>1
<1>4. \A i \in 1..Len(f) : PieceOk(f, i)
  BY <1>1, CompletePieces
<1>5. \A i \in 1..Len(g) : PieceOk(g, i)
  <2> TAKE i \in 1..Len(g)
  <2>1. i \in 1..Len(f) /\ PieceOk(f, i) /\ f[i].h = g[i].h /\ f[i].n = g[i].n /\ f[i].next = g[i].next
    BY <1>2, <1>4 DEF Alike
  <2>2. i < Len(f) => f[i + 1].h = g[i + 1].h
    <3>1. i < Len(f) => i + 1 \in 1..Len(f)
      BY <1>1, <2>1
    <3> QED
      BY <1>2, <3>1 DEF Alike
  <2> QED
    BY <1>2, <2>1, <2>2 DEF PieceOk, BringsFrame
<1>6. g[1].h \in Link /\ Len(g) > 0
  BY <1>1, <1>2 DEF Alike
<1> QED
  BY <1>2, <1>3, <1>5, <1>6, CompletePieces

\* Checksums do not change what a type says of a frame.
LEMMA SameMatches ==
    ASSUME NEW f, Complete(f), NEW g, Same(f, g), NEW t, Matches(f, t)
    PROVE  Matches(g, t)
<1> DEFINE l2 == t.l2
<1> DEFINE up == t.up
<1> DEFINE n == t.n
<1> DEFINE m == Len(l2)
<1>1. Seen(t) /\ L2Matches(f, l2) /\ UpMatches(f, m, up, n) /\ m \in 1..3 /\ Found(up, n) /\ m < Len(f)
  BY MatchesFacts DEF Matches
<1>2. Len(up) \in Nat /\ (up # <<>> => Len(up) > 0)
  BY <1>1, FoundUp
<1>3. Len(f) \in Nat
  BY CompleteFacts
<1>4. Len(g) = Len(f) /\ \A i \in 1..Len(f) : f[i].h = g[i].h /\ f[i].n = g[i].n /\ f[i].next = g[i].next
  BY DEF Same, Alike
<1> HIDE DEF l2, up, n
<1>5. L2Matches(g, l2)
  <2>1. (\A i \in 1..m : f[i].h = l2[i]) /\ (\A i \in 1..(m - 1) : f[i].next = l2[i + 1])
    BY <1>1 DEF L2Matches
  <2>2. \A i \in 1..m : i \in 1..Len(f)
    BY <1>1, <1>3
  <2>3. \A i \in 1..(m - 1) : i \in 1..Len(f)
    BY <1>1, <1>3
  <2>4. \A i \in 1..m : g[i].h = l2[i]
    BY <1>4, <2>1, <2>2
  <2>5. \A i \in 1..(m - 1) : g[i].next = l2[i + 1]
    BY <1>4, <2>1, <2>3
  <2> QED
    BY <1>1, <1>4, <2>4, <2>5 DEF L2Matches
<1> HIDE DEF m
<1>6. UpMatches(g, m, up, n)
  <2>1. /\ m + Len(up) <= Len(f)
        /\ \A i \in 1..Len(up) : f[m + i].h = Raw(up[i])
        /\ up # <<>> => f[m].next = up[1]
        /\ up # <<>> /\ up[1] = "IPV4" => f[m + 1].n = n
    BY <1>1 DEF UpMatches
  <2>2. \A i \in 1..Len(up) : m + i \in 1..Len(f)
    BY <1>1, <1>2, <1>3, <2>1
  <2>3. \A i \in 1..Len(up) : g[m + i].h = Raw(up[i])
    BY <1>4, <2>1, <2>2
  <2>4. m \in 1..Len(f) /\ m + 1 \in 1..Len(f)
    BY <1>1, <1>3
  <2>5. up # <<>> => g[m].next = up[1]
    BY <1>4, <2>1, <2>4
  <2>6. up # <<>> /\ up[1] = "IPV4" => g[m + 1].n = n
    BY <1>4, <2>1, <2>4
  <2> QED
    BY <1>4, <2>1, <2>3, <2>5, <2>6 DEF UpMatches
<1> QED
  BY <1>1, <1>5, <1>6 DEF Matches, l2, up, n, m

\* Checksums do not change which headers the switch sees.
LEMMA SameVisible ==
    ASSUME NEW f, Complete(f), NEW g, Same(f, g), NEW t
    PROVE  Visible(f, t) = Visible(g, t)
<1>1. f \in Frames /\ g \in Frames /\ SameTail(f, 1, g, 1) /\ Len(f) \in Nat
  BY CompleteFacts, SameComplete DEF Same
<1>2. DOMAIN f = 1..Len(f) /\ DOMAIN g = 1..Len(f)
  BY <1>1, FrameFacts DEF Same
<1>3. \A i \in 1..Len(f) : Start(f, i) = Start(g, i) /\ f[i].h = g[i].h
  <2>1. \A i \in 1..(Len(f) + 1) : Start(f, i) = Start(g, i)
    BY <1>1, SameStarts
  <2>2. \A i \in 1..Len(f) : i \in 1..(Len(f) + 1)
    BY <1>1
  <2> QED
    BY <2>1, <2>2 DEF Same, Alike
<1> QED
  BY <1>2, <1>3 DEF Visible

\* What an edit makes of a frame.
LEMMA Edited ==
    ASSUME NEW f \in Frames, NEW hs, NEW at
    PROVE  LET g == Stale(f, hs, at) IN
           /\ Same(f, g)
           /\ \A i \in DOMAIN g : g[i].stale => f[i].stale \/ (i \in at /\ g[i].h \in hs)
<1> DEFINE g == Stale(f, hs, at)
<1>1. Len(f) \in Nat /\ DOMAIN f = 1..Len(f) /\ \A i \in 1..Len(f) : f[i] \in Pieces
  BY FrameFacts
<1>2. /\ DOMAIN g = 1..Len(f)
      /\ \A i \in 1..Len(f) : g[i] = IF i \in at /\ f[i].h \in hs THEN [f[i] EXCEPT !.stale = TRUE] ELSE f[i]
  BY <1>1 DEF Stale
<1>3. \A q \in Pieces : [q EXCEPT !.stale = TRUE] \in Pieces /\ Alike(q, [q EXCEPT !.stale = TRUE])
  <2> TAKE q \in Pieces
  <2> DEFINE r == [q EXCEPT !.stale = TRUE]
  <2>1. r \in Pieces
    BY DEF Pieces
  <2>2. r.h = q.h /\ r.n = q.n /\ r.next = q.next
    BY DEF Pieces
  <2> HIDE DEF r
  <2>3. Alike(q, r)
    BY <2>2 DEF Alike
  <2> QED
    BY <2>1, <2>3 DEF r
<1> HIDE DEF g
<1>4. \A i \in 1..Len(f) : g[i] \in Pieces /\ Alike(f[i], g[i]) /\ (g[i].stale => f[i].stale \/ (i \in at /\ g[i].h \in hs))
  <2> TAKE i \in 1..Len(f)
  <2> DEFINE q == f[i]
  <2> DEFINE r == [q EXCEPT !.stale = TRUE]
  <2>1. q \in Pieces /\ g[i] = IF i \in at /\ q.h \in hs THEN r ELSE q
    BY <1>1, <1>2
  <2>2. r \in Pieces /\ Alike(q, r)
    BY <1>3, <2>1
  <2>3. Alike(q, q)
    BY DEF Alike
  <2> HIDE DEF r
  <2>4. g[i] \in Pieces /\ Alike(q, g[i]) /\ (g[i].stale => q.stale \/ (i \in at /\ q.h \in hs))
    BY <2>1, <2>2, <2>3
  <2> QED
    BY <2>4 DEF Alike
<1>5. g \in Frames /\ Len(g) = Len(f)
  <2>0. \A i \in 1..Len(f) : g[i] \in Pieces
    BY <1>4
  <2>1. g = [i \in 1..Len(f) |-> g[i]]
    <3>1. g = [i \in DOMAIN g |-> g[i]]
      BY DEF g, Stale
    <3> QED
      BY <1>2, <3>1
  <2>2. g \in Seq(Pieces)
    BY <1>1, <2>0, <2>1, IsASeq
  <2>3. Len(g) = Len(f)
    BY <1>1, <1>2, <2>2
  <2> QED
    BY <2>2, <2>3 DEF Frames
<1>6. Same(f, g) /\ \A i \in DOMAIN g : g[i].stale => f[i].stale \/ (i \in at /\ g[i].h \in hs)
  BY <1>2, <1>4, <1>5 DEF Same
<1> QED
  BY <1>6 DEF g

\* A packet without a checksum to calculate has an empty body.
LEMMA BodiesAreBodies ==
    Bodies \cup {NoBody} \subseteq Body
<1>1. NoBody \in Body
  <2>1. <<>> \in Seq(0..(ByteSize - 1))
    OBVIOUS
  <2> QED
    BY <2>1 DEF NoBody, Body
<1> QED
  BY <1>1, BodiesAssumption

\* A checksum function that is not right is wrong in a known way.
LEMMA RightOrKnown ==
    ASSUME NEW h \in Checksummed, NEW b \in Bodies \cup {NoBody}, NEW v \in BOOLEAN, <<h, b, v>> \notin Good
    PROVE  <<h, b>> \in Bad
<1>1. b \in Body
  BY BodiesAreBodies
<1>2. Right(h, b, v) \/ KnownWrong(h, b)
  BY <1>1, ChecksumsVerify
<1>3. ~Right(h, b, v)
  <2>1. <<h, b, v>> \in Checksummed \X (Bodies \cup {NoBody}) \X BOOLEAN
    OBVIOUS
  <2>2. <<h, b, v>>[1] = h /\ <<h, b, v>>[2] = b /\ <<h, b, v>>[3] = v
    OBVIOUS
  <2> QED
    BY <2>1, <2>2 DEF Good
<1>4. <<h, b>> \in Checksummed \X (Bodies \cup {NoBody}) /\ <<h, b>>[1] = h /\ <<h, b>>[2] = b
  OBVIOUS
<1> QED
  BY <1>2, <1>3, <1>4 DEF Bad

\* Recalculating touches the flagged checksums of visible headers only.
LEMMA RecalculatedIs ==
    ASSUME NEW f \in Frames, NEW hs, NEW b
    PROVE  LET g == Recalculated(f, hs, b) IN
           /\ Same(f, g)
           /\ \A i \in 1..Len(f) :
                IF i \in Visible(f, type) /\ f[i].h \in hs
                THEN g[i].stale => (f[i].h = "IPV4" /\ f[i].n > 0) \/ <<f[i].h, b, Shows("IPV6")>> \notin Good
                ELSE g[i] = f[i]
<1> DEFINE g == Recalculated(f, hs, b)
<1> DEFINE at == {i \in Visible(f, type) : f[i].h \in hs}
<1> DEFINE Wrong(i) == (f[i].h = "IPV4" /\ f[i].n > 0) \/ <<f[i].h, b, Shows("IPV6")>> \notin Good
<1>1. Len(f) \in Nat /\ DOMAIN f = 1..Len(f) /\ \A i \in 1..Len(f) : f[i] \in Pieces
  BY FrameFacts
<1>2. g = [i \in DOMAIN f |-> IF i \notin at THEN f[i] ELSE [f[i] EXCEPT !.stale = Wrong(i)]]
  BY DEF Recalculated
<1>3. \A i : Wrong(i) \in BOOLEAN
  OBVIOUS
<1>4. \A q \in Pieces, w \in BOOLEAN :
        [q EXCEPT !.stale = w] \in Pieces /\ Alike(q, [q EXCEPT !.stale = w]) /\ [q EXCEPT !.stale = w].stale = w
  <2> TAKE q \in Pieces, w \in BOOLEAN
  <2> DEFINE r == [q EXCEPT !.stale = w]
  <2>1. r \in Pieces /\ r.stale = w
    BY DEF Pieces
  <2>2. r.h = q.h /\ r.n = q.n /\ r.next = q.next
    BY DEF Pieces
  <2> HIDE DEF r
  <2>3. Alike(q, r)
    BY <2>2 DEF Alike
  <2> QED
    BY <2>1, <2>3 DEF r
<1> HIDE DEF g, at, Wrong
<1>5. DOMAIN g = 1..Len(f) /\ g = [i \in 1..Len(f) |-> g[i]]
  <2>1. DOMAIN g = 1..Len(f)
    BY <1>1, <1>2
  <2>2. g = [i \in DOMAIN g |-> g[i]]
    BY <1>2
  <2> QED
    BY <2>1, <2>2
<1>6. \A i \in 1..Len(f) : g[i] = IF i \notin at THEN f[i] ELSE [f[i] EXCEPT !.stale = Wrong(i)]
  BY <1>1, <1>2
<1>7. \A i \in 1..Len(f) : /\ g[i] \in Pieces /\ Alike(f[i], g[i])
                           /\ IF i \in at THEN g[i].stale => Wrong(i) ELSE g[i] = f[i]
  <2> TAKE i \in 1..Len(f)
  <2> DEFINE q == f[i]
  <2> DEFINE w == Wrong(i)
  <2> DEFINE r == [q EXCEPT !.stale = w]
  <2>1. q \in Pieces /\ w \in BOOLEAN /\ g[i] = IF i \notin at THEN q ELSE r
    BY <1>1, <1>3, <1>6
  <2>2. r \in Pieces /\ Alike(q, r) /\ r.stale = w
    BY <1>4, <2>1
  <2>3. Alike(q, q)
    BY DEF Alike
  <2> HIDE DEF r
  <2> QED
    BY <2>1, <2>2, <2>3
<1>8. Same(f, g)
  <2>1. g \in Seq(Pieces)
    BY <1>1, <1>5, <1>7, IsASeq
  <2>2. Len(g) = Len(f)
    BY <1>1, <1>5, <2>1
  <2> QED
    BY <1>7, <2>1, <2>2 DEF Same, Frames
<1> QED
  BY <1>7, <1>8 DEF g, at, Wrong

\* What leaves the switch after the checksums were calculated in software.
LEMMA Calculated ==
    ASSUME Complete(frame), flags \subseteq Checksummed, StaleIn(frame, flags \cup missed),
           NEW b, flags # {} => b \in Bodies \cup {NoBody}
    PROVE  LET g == calculate_checksums_in_software(frame, b) IN
           /\ Same(frame, g)
           /\ \A i \in Visible(frame, type) :
                g[i].stale => \/ g[i].h \in missed
                              \/ g[i].h = "IPV4" /\ g[i].n > 0
                              \/ g[i].h \in flags /\ <<g[i].h, b>> \in Bad
<1>1. frame \in Frames /\ Len(frame) \in Nat /\ DOMAIN frame = 1..Len(frame)
  BY CompleteFacts, FrameFacts
<1>2. Visible(frame, type) \subseteq 1..Len(frame)
  BY <1>1 DEF Visible
<1> DEFINE g == calculate_checksums_in_software(frame, b)
<1>3. CASE flags = {}
  <2>1. g = frame
    BY <1>3 DEF calculate_checksums_in_software
  <2>2. Same(frame, frame)
    BY <1>1 DEF Same, Alike
  <2>3. \A i \in Visible(frame, type) : frame[i].stale => frame[i].h \in missed
    BY <1>1, <1>2, <1>3 DEF StaleIn
  <2> HIDE DEF g
  <2> QED
    BY <2>1, <2>2, <2>3 DEF g
<1>4. CASE flags # {}
  <2>1. g = Recalculated(frame, flags, b)
    BY <1>4 DEF calculate_checksums_in_software
  <2>2. /\ Same(frame, g)
        /\ \A i \in 1..Len(frame) :
             IF i \in Visible(frame, type) /\ frame[i].h \in flags
             THEN g[i].stale => (frame[i].h = "IPV4" /\ frame[i].n > 0) \/ <<frame[i].h, b, Shows("IPV6")>> \notin Good
             ELSE g[i] = frame[i]
    BY <1>1, <2>1, RecalculatedIs
  <2> HIDE DEF g
  <2>3. ASSUME NEW i \in Visible(frame, type), g[i].stale
        PROVE  \/ g[i].h \in missed
               \/ g[i].h = "IPV4" /\ g[i].n > 0
               \/ g[i].h \in flags /\ <<g[i].h, b>> \in Bad
    <3>1. i \in 1..Len(frame) /\ g[i].h = frame[i].h /\ g[i].n = frame[i].n
      BY <1>2, <2>2 DEF Same, Alike
    <3>2. CASE frame[i].h \notin flags
      <4>1. g[i] = frame[i]
        BY <2>2, <3>1, <3>2
      <4>2. frame[i].stale
        BY <2>3, <4>1
      <4> QED
        BY <1>1, <3>1, <3>2, <4>2 DEF StaleIn
    <3>3. CASE frame[i].h \in flags
      <4> DEFINE h == frame[i].h
      <4> DEFINE v == Shows("IPV6")
      <4>1. (h = "IPV4" /\ frame[i].n > 0) \/ <<h, b, v>> \notin Good
        BY <2>2, <2>3, <3>1, <3>3
      <4>2. h \in Checksummed /\ b \in Bodies \cup {NoBody} /\ v \in BOOLEAN
        BY <1>4, <3>3 DEF Shows
      <4> HIDE DEF h, v
      <4>3. <<h, b, v>> \notin Good => <<h, b>> \in Bad
        BY <4>2, RightOrKnown
      <4> QED
        BY <3>1, <3>3, <4>1, <4>3 DEF h
    <3> QED
      BY <3>2, <3>3
  <2> QED
    BY <2>2, <2>3 DEF g
<1> QED
  BY <1>3, <1>4

-----------------------------------------------------------------------------
(* The inductive invariant and the steps that keep it *)

\* A checksum that is stale in the pipeline will be recalculated, or nobody will and it is in
\* the ledger.
Ledger == fate = "pipeline" => StaleIn(frame, flags \cup missed)

\* What the variables range over.
Ranges ==
    /\ flags \subseteq Checksummed
    /\ body \in Bodies \cup {NoBody}
    /\ room \in Nat /\ free \in 0..Free /\ ops \in 0..MaxOps
    /\ fate \in {"pipeline", "queued", "released", "lost", "crashed"}
    /\ replicas \in 0..Free /\ uncovered \in BOOLEAN

\* The inductive invariant.
IInv == Ranges /\ Sound /\ Ledger /\ TypeIsParse /\ SpoiledOnlyWhere /\ ChecksumsRight /\ FateAccounted

\* An action is applied to a followed packet in the pipeline.
LEMMA Applied ==
    ASSUME IInv, Apply
    PROVE  /\ fate = "pipeline" /\ spoiled = "" /\ Sound /\ StaleIn(frame, flags \cup missed)
           /\ flags \subseteq Checksummed /\ room \in Nat /\ uncovered \in BOOLEAN
           /\ ops' \in 0..MaxOps /\ free' \in 0..Free /\ replicas' \in 0..Free /\ body' \in Bodies \cup {NoBody}
           /\ ~uncovered => type = parse_ethernet(frame)
<1>1. fate = "pipeline" /\ spoiled = "" /\ Sound /\ StaleIn(frame, flags \cup missed)
  BY DEF IInv, Apply, Ledger
<1>2. flags \subseteq Checksummed /\ room \in Nat /\ uncovered \in BOOLEAN
  BY DEF IInv, Ranges
<1>3. ops' \in 0..MaxOps
  <2>1. ops \in 0..MaxOps
    BY DEF IInv, Ranges
  <2>2. ops' = ops + 1 /\ ops < MaxOps
    BY DEF Apply
  <2>. QED  BY <2>1, <2>2, BoundsAssumption
<1>4. free' \in 0..Free /\ replicas' \in 0..Free /\ body' \in Bodies \cup {NoBody}
  BY DEF IInv, Ranges, Apply
<1>5. ~uncovered => type = parse_ethernet(frame)
  BY <1>1 DEF IInv, TypeIsParse
<1>. QED  BY <1>1, <1>2, <1>3, <1>4, <1>5

\* An action that leaves a complete frame, a type that matches it and no stale checksum without
\* a flag or an entry in the ledger keeps the invariant.
LEMMA EditStep ==
    ASSUME IInv, Apply, fate' = fate, spoiled' = spoiled, Complete(frame'), Matches(frame', type'),
           StaleIn(frame', flags' \cup missed'), flags' \subseteq Checksummed, room' \in Nat, uncovered' \in BOOLEAN,
           ~uncovered' => type' = parse_ethernet(frame')
    PROVE  IInv'
<1>1. fate' = "pipeline" /\ spoiled' = ""
  BY Applied
<1>2. Ranges'
  BY Applied, <1>1 DEF Ranges
<1>3. Sound' /\ Ledger' /\ TypeIsParse'
  BY DEF Sound, Ledger, TypeIsParse
<1>4. SpoiledOnlyWhere'
  BY <1>1 DEF SpoiledOnlyWhere
<1>5. ChecksumsRight' /\ FateAccounted'
  BY <1>1 DEF ChecksumsRight, FateAccounted
<1>. QED  BY <1>2, <1>3, <1>4, <1>5 DEF IInv

\* An action that does nothing keeps the invariant.
LEMMA Idle ==
    ASSUME IInv, Apply, Nothing
    PROVE  IInv'
<1>1. fate' = fate /\ spoiled' = spoiled /\ frame' = frame /\ type' = type /\ flags' = flags /\ missed' = missed
      /\ room' = room /\ uncovered' = uncovered
  BY DEF Nothing
<1>2. Complete(frame) /\ Matches(frame, type)
  BY Applied DEF Sound
<1>3. Complete(frame') /\ Matches(frame', type')
  BY <1>1, <1>2
<1>4. StaleIn(frame', flags' \cup missed')
  BY <1>1, Applied
<1>5. flags' \subseteq Checksummed /\ room' \in Nat /\ uncovered' \in BOOLEAN
  BY <1>1, Applied
<1>6. ~uncovered' => type' = parse_ethernet(frame')
  BY <1>1, Applied
<1>. QED  BY <1>1, <1>3, <1>4, <1>5, <1>6, EditStep

\* An action on the wrong bytes keeps the invariant when it happens where it may.
LEMMA SpoiledStep ==
    ASSUME IInv, Apply, NEW op, Spoil(op), SpoiledOnlyWhere', op # ""
    PROVE  IInv'
<1>1. fate' = fate /\ spoiled' = op /\ frame' = frame /\ type' = type /\ flags' = flags /\ missed' = missed
      /\ room' = room /\ uncovered' = uncovered
  BY DEF Spoil
<1>2. Ranges'
  BY <1>1, Applied DEF Ranges
<1>3. Sound' /\ Ledger'
  BY <1>1, Applied DEF Sound, Ledger
<1>4. TypeIsParse'
  BY <1>1 DEF TypeIsParse
<1>5. ChecksumsRight' /\ FateAccounted'
  BY <1>1, Applied DEF ChecksumsRight, FateAccounted
<1>. QED  BY <1>2, <1>3, <1>4, <1>5 DEF IInv

-----------------------------------------------------------------------------
(* Pushes *)

\* A push that fits leaves headroom.
LEMMA RoomLeft ==
    ASSUME NEW p \in Frames, room \in Nat, ~(Bytes(p) > room)
    PROVE  room - Bytes(p) \in Nat
<1>1. Len(p) \in Nat
  BY FrameFacts
<1>2. Bytes(p) \in Nat
  BY <1>1, StartFacts DEF Bytes
<1>. QED  BY <1>2

\* Flags cover stale checksums as missed edits do.
LEMMA Wider ==
    ASSUME NEW g, NEW set, StaleIn(g, (flags \cup missed) \cup set)
    PROVE  StaleIn(g, (flags \cup set) \cup missed)
BY DEF StaleIn

\* A push at byte 14 that is followed.
LEMMA PushInside ==
    ASSUME IInv, Apply, frame[1].h = "ETHERNET", NEW op, NEW p \in Frames, NEW new, NEW h, NEW set \in SUBSET Checksummed,
           protocol_offsets_bt(new, h) = 14, Push(op, 14, p, new, h, set),
           Followed(frame, type, In(frame, p), new), StaleIn(In(frame, p), (flags \cup missed) \cup set)
    PROVE  IInv'
<1>1. CASE Bytes(p) > room
  <2>1. Nothing
    BY <1>1 DEF Push
  <2>. QED  BY <2>1, Idle
<1>2. CASE ~(Bytes(p) > room)
  <2>1. (CHOOSE j \in 0..Len(frame) : Start(frame, j + 1) = 14) = 1
    BY Applied, PushPlaces DEF Sound
  <2>2. frame' = In(frame, p)
    <3>. DEFINE i == CHOOSE j \in 0..Len(frame) : Start(frame, j + 1) = 14
    <3>1. frame' = IF i = 0 THEN p \o SubSeq(frame, i + 1, Len(frame))
                   ELSE Announce(SubSeq(frame, 1, i), p[1].h) \o p \o SubSeq(frame, i + 1, Len(frame))
      BY <1>2 DEF Push
    <3>2. i = 1
      BY <2>1
    <3>. HIDE DEF i
    <3>. QED  BY <3>1, <3>2 DEF In
  <2>3. /\ type' = new /\ room' = room - Bytes(p) /\ flags' = flags \cup set
        /\ fate' = fate /\ spoiled' = spoiled /\ missed' = missed /\ uncovered' = uncovered
    BY <1>2 DEF Push
  <2>4. Complete(frame') /\ Matches(frame', type')
    BY <2>2, <2>3 DEF Followed
  <2>5. StaleIn(frame', flags' \cup missed')
    BY <2>2, <2>3, Wider
  <2>6. flags' \subseteq Checksummed
    BY <2>3, Applied
  <2>7. room' \in Nat
    BY <2>3, <1>2, RoomLeft, Applied
  <2>8. uncovered' \in BOOLEAN
    BY <2>3, Applied
  <2>9. ~uncovered' => type' = parse_ethernet(frame')
    BY <2>2, <2>3, Applied DEF Followed
  <2>. QED  BY <2>3, <2>4, <2>5, <2>6, <2>7, <2>8, <2>9, EditStep
<1>. QED  BY <1>1, <1>2

\* A push at the first byte that is followed.
LEMMA PushOnTop ==
    ASSUME IInv, Apply, NEW op, NEW p \in Frames, NEW new, NEW h, NEW set \in SUBSET Checksummed,
           protocol_offsets_bt(new, h) = 0, Push(op, 0, p, new, h, set),
           Followed(frame, type, On(frame, p), new), StaleIn(On(frame, p), (flags \cup missed) \cup set)
    PROVE  IInv'
<1>1. CASE Bytes(p) > room
  <2>1. Nothing
    BY <1>1 DEF Push
  <2>. QED  BY <2>1, Idle
<1>2. CASE ~(Bytes(p) > room)
  <2>1. (CHOOSE j \in 0..Len(frame) : Start(frame, j + 1) = 0) = 0
    BY Applied, PushPlaces DEF Sound
  <2>2. frame' = On(frame, p)
    BY <1>2, <2>1 DEF Push, On
  <2>3. /\ type' = new /\ room' = room - Bytes(p) /\ flags' = flags \cup set
        /\ fate' = fate /\ spoiled' = spoiled /\ missed' = missed /\ uncovered' = uncovered
    BY <1>2 DEF Push
  <2>4. Complete(frame') /\ Matches(frame', type')
    BY <2>2, <2>3 DEF Followed
  <2>5. StaleIn(frame', flags' \cup missed')
    BY <2>2, <2>3, Wider
  <2>6. flags' \subseteq Checksummed
    BY <2>3, Applied
  <2>7. room' \in Nat
    BY <2>3, <1>2, RoomLeft, Applied
  <2>8. uncovered' \in BOOLEAN
    BY <2>3, Applied
  <2>9. ~uncovered' => type' = parse_ethernet(frame')
    BY <2>2, <2>3, Applied DEF Followed
  <2>. QED  BY <2>3, <2>4, <2>5, <2>6, <2>7, <2>8, <2>9, EditStep
<1>. QED  BY <1>1, <1>2

\* A push at bytes that the tables do not mean.
LEMMA PushMisplaced ==
    ASSUME IInv, Apply, NEW op, op # "", NEW at, NEW p, NEW new, NEW h, NEW set,
           protocol_offsets_bt(new, h) # at, Push(op, at, p, new, h, set),
           Spoil(op) => SpoiledOnlyWhere'
    PROVE  IInv'
<1>1. CASE Bytes(p) > room
  <2>1. Nothing
    BY <1>1 DEF Push
  <2>. QED  BY <2>1, Idle
<1>2. CASE ~(Bytes(p) > room)
  <2>1. Spoil(op)
    BY <1>2 DEF Push
  <2>. QED  BY <2>1, SpoiledStep
<1>. QED  BY <1>1, <1>2

\* Where the actions may spoil a frame.
LEMMA Misplaced ==
    ASSUME IInv, Apply, NEW op, Spoil(op)
    PROVE  /\ op \in {"push_vlan", "pop_vlan"} /\ type.l2[1] = "8023" => SpoiledOnlyWhere'
           /\ op \in {"push_mpls", "pop_mpls", "push_pppoe", "pop_pppoe", "push_gtp"} /\ type.l2 # <<"ETHERNET">>
                => SpoiledOnlyWhere'
           /\ op = "pop_gtp" /\ (type.l2 # <<"ETHERNET">> \/ frame[2].n > 0 \/ frame[4].n > 0) => SpoiledOnlyWhere'
           /\ op = "pop_gre" /\ (type.l2[1] = "8023" \/ frame[2].n > 0) => SpoiledOnlyWhere'
<1>1. spoiled' = op /\ type' = type /\ frame' = frame
  BY DEF Spoil
<1>2. ASSUME op \in {"push_vlan", "pop_vlan"}, type.l2[1] = "8023" PROVE SpoiledOnlyWhere'
  BY <1>1, <1>2 DEF SpoiledOnlyWhere
<1>3. ASSUME op \in {"push_mpls", "pop_mpls", "push_pppoe", "pop_pppoe", "push_gtp"}, type.l2 # <<"ETHERNET">>
      PROVE SpoiledOnlyWhere'
  BY <1>1, <1>3 DEF SpoiledOnlyWhere
<1>4. ASSUME op = "pop_gtp", type.l2 # <<"ETHERNET">> \/ frame[2].n > 0 \/ frame[4].n > 0 PROVE SpoiledOnlyWhere'
  BY <1>1, <1>4 DEF SpoiledOnlyWhere
<1>5. ASSUME op = "pop_gre", type.l2[1] = "8023" \/ frame[2].n > 0 PROVE SpoiledOnlyWhere'
  BY <1>1, <1>5 DEF SpoiledOnlyWhere
<1>. QED  BY <1>2, <1>3, <1>4, <1>5

\* push_vlan: right behind an Ethernet header, wrong behind an 802.3 one.
LEMMA StepPushVlan ==
    ASSUME IInv, push_vlan
    PROVE  IInv'
<1>. DEFINE new == push_transitions(type, "VLAN")
            q == Piece("VLAN", 0, frame[1].next)
            p == <<q>>
            h == "VLAN"
            op == "push_vlan"
            none == {}
<1>1. Apply /\ IF new = Invalid THEN Nothing ELSE Push(op, 14, p, new, h, none)
  BY DEF push_vlan
<1>2. Complete(frame) /\ Matches(frame, type)
  BY <1>1, Applied DEF Sound
<1>3. frame[1].h = type.l2[1] /\ frame[1].h \in Link /\ frame[1] \in Pieces
  <2>1. frame[1].h = type.l2[1]
    BY <1>2, MatchesFacts
  <2>2. 1 \in 1..Len(frame) /\ frame[1].h \in Link
    BY <1>2, CompleteFacts
  <2>3. frame[1] \in Pieces
    BY <1>2, <2>2, CompleteFacts
  <2>. QED  BY <2>1, <2>2, <2>3
<1>4. CASE new = Invalid
  BY <1>1, <1>4, Idle
<1>5. CASE new # Invalid
  <2>1. protocol_offsets_bt(new, h) = (IF frame[1].h = "ETHERNET" THEN 14 ELSE 22)
    BY <1>2, <1>5, VlanPlace
  <2>2. Push(op, 14, p, new, h, none)
    BY <1>1, <1>5
  <2>3. op # ""
    OBVIOUS
  <2>4. CASE frame[1].h = "ETHERNET"
    <3>1. q \in Pieces
      <4>1. frame[1].next \in Names
        BY <1>3 DEF Pieces
      <4>. QED  BY <4>1, KnownNames, PieceIs
    <3>2. p \in Frames
      BY <3>1, Spelled
    <3>3. Followed(frame, type, In(frame, p), new)
      BY <1>2, <1>5, <2>4, VlanPushed DEF Followed
    <3>4. StaleIn(In(frame, p), flags \cup missed)
      BY <1>1, <1>2, <1>5, <2>4, VlanPushed, Applied
    <3>5. none \in SUBSET Checksummed /\ (flags \cup missed) = (flags \cup missed) \cup none
      OBVIOUS
    <3>6. protocol_offsets_bt(new, h) = 14
      BY <2>1, <2>4
    <3>7. Apply
      BY <1>1
    <3>. HIDE DEF new, p, q, h, op, none
    <3>8. StaleIn(In(frame, p), (flags \cup missed) \cup none)
      BY <3>4, <3>5
    <3>. QED  BY <3>7, <2>4, <3>2, <3>5, <3>6, <2>2, <3>3, <3>8, PushInside
  <2>5. CASE frame[1].h # "ETHERNET"
    <3>1. protocol_offsets_bt(new, h) # 14
      BY <2>1, <2>5
    <3>2. type.l2[1] = "8023"
      BY <1>3, <2>5 DEF Link
    <3>3. Spoil(op) => SpoiledOnlyWhere'
      BY <1>1, <3>2, Misplaced
    <3>4. Apply
      BY <1>1
    <3>. HIDE DEF new, p, q, h, op, none
    <3>. QED  BY <3>4, <3>1, <3>3, <2>2, <2>3, PushMisplaced
  <2>. QED  BY <2>4, <2>5
<1>. QED  BY <1>4, <1>5

\* push_mpls: right on a frame without tags.
LEMMA StepPushMpls ==
    ASSUME IInv, push_mpls
    PROVE  IInv'
<1>. DEFINE new == push_transitions(type, "MPLS")
            below == IF Shows("MPLS") THEN "MPLS" ELSE "BOTTOM"
            q == Piece("MPLS", 0, below)
            p == <<q>>
            h == "MPLS"
            op == "push_mpls"
            none == {}
<1>1. Apply /\ IF new = Invalid THEN Nothing ELSE Push(op, 14, p, new, h, none)
  BY DEF push_mpls
<1>2. Complete(frame) /\ Matches(frame, type)
  BY <1>1, Applied DEF Sound
<1>4. CASE new = Invalid
  BY <1>1, <1>4, Idle
<1>5. CASE new # Invalid
  <2>1. protocol_offsets_bt(new, h) = L2Len(type.l2)
    BY <1>2, <1>5, MplsPlace
  <2>2. Push(op, 14, p, new, h, none)
    BY <1>1, <1>5
  <2>3. op # "" /\ Apply
    BY <1>1
  <2>4. CASE protocol_offsets_bt(new, h) = 14
    <3>0. below = (IF "MPLS" \in HeadersOf(type) THEN "MPLS" ELSE "BOTTOM")
      BY DEF Shows, Named
    <3>1. q \in Pieces
      BY KnownNames, PieceIs
    <3>2. p \in Frames
      BY <3>1, Spelled
    <3>3. /\ frame[1].h = "ETHERNET"
          /\ Followed(frame, type, In(frame, p), new)
          /\ \A S : StaleIn(frame, S) => StaleIn(In(frame, p), S)
      <4>. HIDE DEF below
      <4>. QED  BY <1>2, <1>5, <2>4, <3>0, MplsPushed
    <3>4. StaleIn(In(frame, p), flags \cup missed)
      BY <3>3, <2>3, Applied
    <3>5. none \in SUBSET Checksummed /\ (flags \cup missed) = (flags \cup missed) \cup none
      OBVIOUS
    <3>. HIDE DEF new, p, q, h, op, none
    <3>8. StaleIn(In(frame, p), (flags \cup missed) \cup none)
      BY <3>4, <3>5
    <3>. QED  BY <2>3, <2>4, <3>2, <3>5, <2>2, <3>3, <3>8, PushInside
  <2>5. CASE protocol_offsets_bt(new, h) # 14
    <3>2. type.l2 # <<"ETHERNET">>
      BY <2>1, <2>5, <2>3, Applied, UpperStart
    <3>3. Spoil(op) => SpoiledOnlyWhere'
      BY <2>3, <3>2, Misplaced
    <3>. HIDE DEF new, p, q, h, op, none
    <3>. QED  BY <2>3, <2>5, <3>3, <2>2, PushMisplaced
  <2>. QED  BY <2>4, <2>5
<1>. QED  BY <1>4, <1>5

\* push_pbb: always right.
LEMMA StepPushPbb ==
    ASSUME IInv, push_pbb
    PROVE  IInv'
<1>. DEFINE new == push_transitions(type, "ISID")
            p == Backboned
            h == "ETHERNET"
            op == "push_pbb"
            none == {}
<1>1. Apply /\ IF new = Invalid THEN Nothing ELSE Push(op, 0, p, new, h, none)
  BY DEF push_pbb, Backboned
<1>2. Complete(frame) /\ Matches(frame, type)
  BY <1>1, Applied DEF Sound
<1>4. CASE new = Invalid
  BY <1>1, <1>4, Idle
<1>5. CASE new # Invalid
  <2>1. protocol_offsets_bt(new, h) = 0
    BY <1>2, <1>5, BackbonePushed
  <2>2. Push(op, 0, p, new, h, none) /\ Apply
    BY <1>1, <1>5
  <2>3. p \in Frames
    <3>1. Piece("ETHERNET", 0, "ISID") \in Pieces /\ Piece("ISID", 0, "ETHERNET") \in Pieces
      BY KnownNames, PieceIs
    <3>. QED  BY <3>1, Spelled DEF Backboned
  <2>4. Followed(frame, type, On(frame, p), new) /\ (\A S : StaleIn(frame, S) => StaleIn(On(frame, p), S))
    BY <1>2, <1>5, BackbonePushed
  <2>5. StaleIn(On(frame, p), flags \cup missed)
    BY <2>4, <2>2, Applied
  <2>6. none \in SUBSET Checksummed /\ (flags \cup missed) = (flags \cup missed) \cup none
    OBVIOUS
  <2>. HIDE DEF new, p, h, op, none
  <2>7. StaleIn(On(frame, p), (flags \cup missed) \cup none)
    BY <2>5, <2>6
  <2>. QED  BY <2>1, <2>2, <2>3, <2>4, <2>6, <2>7, PushOnTop
<1>. QED  BY <1>4, <1>5

\* push_gre: always right.
LEMMA StepPushGre ==
    ASSUME IInv, NEW ip \in {"IPV4", "IPV6"}, push_gre(ip)
    PROVE  IInv'
<1>. DEFINE new == push_transitions(type, Gre(ip))
            p == Encapsulated(ip)
            h == "ETHERNET"
            op == "push_gre"
            set == {"GRE"} \cup ({ip} \cap {"IPV4"})
<1>1. Apply /\ IF new = Invalid THEN Nothing ELSE Push(op, 0, p, new, h, set)
  BY DEF push_gre, Encapsulated, Gre
<1>2. Complete(frame) /\ Matches(frame, type)
  BY <1>1, Applied DEF Sound
<1>4. CASE new = Invalid
  BY <1>1, <1>4, Idle
<1>5. CASE new # Invalid
  <2>1. protocol_offsets_bt(new, h) = 0 /\ new = Type(<<"ETHERNET">>, GreUp(ip), 0)
    BY <1>2, <1>5, GrePlace
  <2>2. Push(op, 0, p, new, h, set) /\ Apply
    BY <1>1, <1>5
  <2>3. p \in Frames
    <3>1. ip \in Names /\ 2 \in Nat /\ 0 \in Nat
      BY KnownNames
    <3>2. Piece("ETHERNET", 0, ip) \in Pieces /\ Unset(ip, 0, "GRE") \in Pieces
      BY <3>1, KnownNames, PieceIs
    <3>3. Unset("GRE", 2, "ETHERNET") \in Pieces
      BY <3>1, KnownNames, PieceIs
    <3>. QED  BY <3>2, <3>3, Spelled DEF Encapsulated
  <2>4. Followed(frame, type, On(frame, p), new)
    BY <1>2, <2>1, GrePushed
  <2>5. \A S : StaleIn(frame, S) => StaleIn(On(frame, p), S \cup {"GRE"} \cup ({ip} \cap {"IPV4"}))
    BY <1>2, GrePushed
  <2>6. StaleIn(On(frame, p), (flags \cup missed) \cup {"GRE"} \cup ({ip} \cap {"IPV4"}))
    BY <2>5, <2>2, Applied
  <2>7. StaleIn(On(frame, p), (flags \cup missed) \cup set)
    BY <2>6 DEF StaleIn
  <2>8. set \in SUBSET Checksummed
    BY DEF Checksummed
  <2>. HIDE DEF new, p, h, op, set
  <2>. QED  BY <2>1, <2>2, <2>3, <2>4, <2>7, <2>8, PushOnTop
<1>. QED  BY <1>4, <1>5

\* push_pppoe: right on a frame without tags.
LEMMA StepPushPppoe ==
    ASSUME IInv, NEW session \in BOOLEAN, push_pppoe(session)
    PROVE  IInv'
<1>. DEFINE new == push_transitions(type, "PPPOE")
            two == <<Piece("PPPOE", 0, "PPP"), Piece("PPP", 0, "OTHER")>>
            one == <<Piece("PPPOE", 0, "OTHER")>>
            p == IF session THEN two ELSE one
            last == IF session THEN push_transitions(new, "PPP") ELSE new
            up == IF session THEN <<"PPPOE", "PPP">> ELSE <<"PPPOE">>
            h == "PPPOE"
            op == "push_pppoe"
            none == {}
<1>1. Apply /\ IF new = Invalid THEN Nothing ELSE Push(op, 14, p, last, h, none)
  BY DEF push_pppoe
<1>2. Complete(frame) /\ Matches(frame, type)
  BY <1>1, Applied DEF Sound
<1>4. CASE new = Invalid
  BY <1>1, <1>4, Idle
<1>5. CASE new # Invalid
  <2>0. /\ new = Type(type.l2, <<"PPPOE">>, 0)
        /\ push_transitions(Type(type.l2, <<"PPPOE">>, 0), "PPP") = Type(type.l2, <<"PPPOE", "PPP">>, 0)
        /\ protocol_offsets_bt(Type(type.l2, <<"PPPOE">>, 0), "PPPOE") = L2Len(type.l2)
        /\ protocol_offsets_bt(Type(type.l2, <<"PPPOE", "PPP">>, 0), "PPPOE") = L2Len(type.l2)
    BY <1>2, <1>5, PppoePlace
  <2>1. last = Type(type.l2, up, 0) /\ protocol_offsets_bt(last, h) = L2Len(type.l2)
    BY <2>0
  <2>2. Push(op, 14, p, last, h, none) /\ Apply /\ op # ""
    BY <1>1, <1>5
  <2>4. CASE L2Len(type.l2) = 14
    <3>1. /\ Followed(frame, type, In(frame, two), Type(type.l2, <<"PPPOE", "PPP">>, 0))
          /\ \A S : StaleIn(frame, S) => StaleIn(In(frame, two), S)
      BY <1>2, <1>5, <2>4, SessionPushed
    <3>2. /\ Followed(frame, type, In(frame, one), Type(type.l2, <<"PPPOE">>, 0))
          /\ \A S : StaleIn(frame, S) => StaleIn(In(frame, one), S)
      BY <1>2, <1>5, <2>4, PppoePushed
    <3>3. two \in Frames /\ one \in Frames
      <4>1. Piece("PPPOE", 0, "PPP") \in Pieces /\ Piece("PPP", 0, "OTHER") \in Pieces /\ Piece("PPPOE", 0, "OTHER") \in Pieces
        BY KnownNames, PieceIs
      <4>. QED  BY <4>1, Spelled
    <3>4. frame[1].h = "ETHERNET"
      <4>1. type.l2 = <<"ETHERNET">> /\ frame[1].h = type.l2[1]
        BY <2>4, <2>2, Applied, UpperStart
      <4>. QED  BY <4>1
    <3>. HIDE DEF one, two
    <3>5. Followed(frame, type, In(frame, p), last) /\ p \in Frames
      BY <3>1, <3>2, <3>3, <2>0
    <3>6. \A S : StaleIn(frame, S) => StaleIn(In(frame, p), S)
      BY <3>1, <3>2
    <3>7. StaleIn(In(frame, p), flags \cup missed)
      BY <3>6, <2>2, Applied
    <3>8. none \in SUBSET Checksummed /\ (flags \cup missed) = (flags \cup missed) \cup none
      OBVIOUS
    <3>9. protocol_offsets_bt(last, h) = 14
      BY <2>1, <2>4
    <3>. HIDE DEF last, p, h, op, none
    <3>10. StaleIn(In(frame, p), (flags \cup missed) \cup none)
      BY <3>7, <3>8
    <3>. QED  BY <2>2, <3>4, <3>5, <3>8, <3>9, <3>10, PushInside
  <2>5. CASE L2Len(type.l2) # 14
    <3>1. protocol_offsets_bt(last, h) # 14
      BY <2>1, <2>5
    <3>2. type.l2 # <<"ETHERNET">>
      BY <2>5, <2>2, Applied, UpperStart
    <3>3. Spoil(op) => SpoiledOnlyWhere'
      BY <2>2, <3>2, Misplaced
    <3>. HIDE DEF last, p, h, op, none
    <3>. QED  BY <2>2, <3>1, <3>3, PushMisplaced
  <2>. QED  BY <2>4, <2>5
<1>. QED  BY <1>4, <1>5

\* push_gtp: sets the flags, pushes on a frame without tags, or crashes.
LEMMA StepPushGtp ==
    ASSUME IInv, NEW ip \in {"IPV4", "IPV6"}, push_gtp(ip)
    PROVE  IInv'
<1>. DEFINE new == push_transitions(type, Gtp(ip))
            p == Tunnel(ip)
            fits == frame[1].next \in {"IPV4", "IPV6"} /\ Shows(frame[1].next)
            op == "push_gtp"
            set == {"UDP"} \cup ({ip} \cap {"IPV4"})
            OnlyFlags == flags' = flags \cup set /\ UNCHANGED <<frame, type, room, fate, spoiled, missed, uncovered>>
            Crash == fate' = "crashed" /\ UNCHANGED <<frame, type, flags, room, spoiled, missed, uncovered>>
<1>1. /\ Apply
      /\ IF ~fits THEN OnlyFlags
         ELSE IF ip = "IPV4" /\ ~Shows("IPV4") THEN Crash
         ELSE IF new = Invalid \/ Bytes(p) > room THEN OnlyFlags
         ELSE Push(op, 14, p, new, ip, set)
  BY DEF push_gtp, Gtp, Tunnel
<1>2. Complete(frame) /\ Matches(frame, type) /\ Apply
  BY <1>1, Applied DEF Sound
<1>3. set \in SUBSET Checksummed
  BY DEF Checksummed
<1>4. CASE OnlyFlags
  <2>1. /\ flags' = flags \cup set
        /\ frame' = frame /\ type' = type /\ room' = room /\ fate' = fate /\ spoiled' = spoiled
        /\ missed' = missed /\ uncovered' = uncovered
    BY <1>4
  <2>2. Complete(frame') /\ Matches(frame', type')
    BY <2>1, <1>2
  <2>3. StaleIn(frame', flags' \cup missed')
    BY <2>1, <1>2, Applied DEF StaleIn
  <2>4. flags' \subseteq Checksummed /\ room' \in Nat /\ uncovered' \in BOOLEAN
    BY <2>1, <1>2, <1>3, Applied
  <2>5. ~uncovered' => type' = parse_ethernet(frame')
    BY <2>1, <1>2, Applied
  <2>. QED  BY <1>2, <2>1, <2>2, <2>3, <2>4, <2>5, EditStep
<1>5. CASE fits /\ ip = "IPV4" /\ ~Shows("IPV4") /\ Crash
  <2>1. /\ fate' = "crashed" /\ frame' = frame /\ type' = type /\ flags' = flags /\ room' = room
        /\ spoiled' = spoiled /\ missed' = missed /\ uncovered' = uncovered
    BY <1>5
  <2>2. Ranges'
    BY <2>1, <1>2, Applied DEF Ranges
  <2>3. Sound' /\ Ledger'
    BY <2>1, <1>2 DEF Sound, Ledger
  <2>4. TypeIsParse' /\ SpoiledOnlyWhere'
    BY <2>1, <1>2, Applied DEF TypeIsParse, SpoiledOnlyWhere
  <2>5. ChecksumsRight'
    BY <2>1 DEF ChecksumsRight
  <2>6. ~Shows("IPV4")' /\ frame'[1].next = "IPV6"
    BY <2>1, <1>5 DEF Shows, Named
  <2>7. FateAccounted'
    BY <2>1, <2>6 DEF FateAccounted
  <2>. QED  BY <2>2, <2>3, <2>4, <2>5, <2>7 DEF IInv
<1>6. CASE fits /\ new # Invalid /\ Push(op, 14, p, new, ip, set)
  <2>0. new = Type(type.l2, TunnelUp(ip), 0) /\ protocol_offsets_bt(new, ip) = L2Len(type.l2)
    BY <1>2, <1>6, TunnelPlace
  <2>2. Push(op, 14, p, new, ip, set) /\ op # ""
    BY <1>6
  <2>4. CASE L2Len(type.l2) = 14
    <3>0. frame[1].next \in {"IPV4", "IPV6"}
      BY <1>6
    <3>1. Followed(frame, type, In(frame, p), new)
      BY <1>2, <2>0, <2>4, <3>0, TunnelPushed
    <3>2. \A S : StaleIn(frame, S) => StaleIn(In(frame, p), S \cup {"UDP"} \cup ({ip} \cap {"IPV4"}))
      BY <1>2, <2>4, <3>0, TunnelPushed
    <3>3. StaleIn(In(frame, p), (flags \cup missed) \cup {"UDP"} \cup ({ip} \cap {"IPV4"}))
      BY <3>2, <1>2, Applied
    <3>4. StaleIn(In(frame, p), (flags \cup missed) \cup set)
      BY <3>3 DEF StaleIn
    <3>5. p \in Frames
      <4>1. ip \in Names /\ 0 \in Nat
        BY KnownNames
      <4>2. Unset(ip, 0, "UDP") \in Pieces
        BY <4>1, KnownNames, PieceIs
      <4>3. Unset("UDP", 0, "GTPU") \in Pieces
        BY <4>1, KnownNames, PieceIs
      <4>4. Piece("GTPU", 0, "OTHER") \in Pieces
        BY <4>1, KnownNames, PieceIs
      <4>. QED  BY <4>2, <4>3, <4>4, Spelled DEF Tunnel
    <3>6. frame[1].h = "ETHERNET"
      <4>1. type.l2 = <<"ETHERNET">> /\ frame[1].h = type.l2[1]
        BY <2>4, <1>2, Applied, UpperStart
      <4>. QED  BY <4>1
    <3>7. protocol_offsets_bt(new, ip) = 14
      BY <2>0, <2>4
    <3>. HIDE DEF new, p, op, set
    <3>. QED  BY <1>2, <1>3, <2>2, <3>1, <3>4, <3>5, <3>6, <3>7, PushInside
  <2>5. CASE L2Len(type.l2) # 14
    <3>1. protocol_offsets_bt(new, ip) # 14
      BY <2>0, <2>5
    <3>2. type.l2 # <<"ETHERNET">>
      BY <2>5, <1>2, Applied, UpperStart
    <3>3. Spoil(op) => SpoiledOnlyWhere'
      BY <1>2, <3>2, Misplaced
    <3>. HIDE DEF new, p, op, set
    <3>. QED  BY <1>2, <2>2, <3>1, <3>3, PushMisplaced
  <2>. QED  BY <2>4, <2>5
<1>. QED  BY <1>1, <1>4, <1>5, <1>6

-----------------------------------------------------------------------------
(* Pops *)

\* A pop that classifies what is left.
LEMMA PopSteps ==
    ASSUME IInv, Apply, NEW op, NEW at, NEW n \in Nat, NEW first, NEW last, NEW next, Cuts(at, n, first, last),
           Pop(op, at, n, first, last, next),
           LET g == IF first = 1 THEN Without(first, last) ELSE Announce(Without(first, last), next) IN
             Complete(g) /\ \A S : StaleIn(frame, S) => StaleIn(g, S)
    PROVE  IInv'
<1>. DEFINE g == IF first = 1 THEN Without(first, last) ELSE Announce(Without(first, last), next)
<1>1. /\ frame' = g /\ type' = parse_ethernet(frame') /\ room' = room + n /\ uncovered' = FALSE
      /\ flags' = flags /\ fate' = fate /\ spoiled' = spoiled /\ missed' = missed
  BY DEF Pop
<1>2. Complete(g) /\ \A S : StaleIn(frame, S) => StaleIn(g, S)
  OBVIOUS
<1>. HIDE DEF g
<1>3. Complete(frame') /\ Matches(frame', type')
  BY <1>1, <1>2, ParseMatches
<1>4. StaleIn(frame', flags' \cup missed')
  BY <1>1, <1>2, Applied
<1>5. flags' \subseteq Checksummed /\ room' \in Nat /\ uncovered' \in BOOLEAN
  <2>1. flags \subseteq Checksummed /\ room \in Nat
    BY Applied
  <2>2. room + n \in Nat
    BY <2>1
  <2>3. uncovered' \in BOOLEAN
    BY <1>1
  <2>. QED  BY <1>1, <2>1, <2>2, <2>3
<1>. QED  BY <1>1, <1>3, <1>4, <1>5, EditStep

\* A pop at byte 14 of whole pieces.
LEMMA PopBehind ==
    ASSUME IInv, Apply, NEW op, NEW n \in Nat, NEW first \in 1..Len(frame), NEW last \in 1..(Len(frame) - 1),
           first <= last, Cuts(14, n, first, last), Pop(op, 14, n, first, last, frame[last + 1].h)
    PROVE  IInv'
<1>1. Sound
  BY Applied
<1>2. first # 1
  <2>1. Start(frame, 1) = 0
    BY <1>1, CompleteFacts, StartFacts DEF Sound
  <2>. QED  BY <2>1 DEF Cuts
<1>3. Complete(Announce(Without(first, last), frame[last + 1].h))
  BY <1>1, CutBehind
<1>4. \A S : StaleIn(frame, S) => StaleIn(Announce(Without(first, last), frame[last + 1].h), S)
  BY <1>1, CutBehind
<1>. DEFINE at == 14
            next == frame[last + 1].h
<1>5. LET g == IF first = 1 THEN Without(first, last) ELSE Announce(Without(first, last), next) IN
      Complete(g) /\ \A S : StaleIn(frame, S) => StaleIn(g, S)
  BY <1>2, <1>3, <1>4
<1>6. Cuts(at, n, first, last) /\ Pop(op, at, n, first, last, next)
  OBVIOUS
<1>. HIDE DEF at, next
<1>. QED  BY <1>5, <1>6, PopSteps

\* A pop at the first byte of whole pieces in front of a frame.
LEMMA PopFront ==
    ASSUME IInv, Apply, NEW op, NEW n \in Nat, NEW last \in 1..(Len(frame) - 1), frame[last + 1].h \in Link,
           NEW next, Cuts(0, n, 1, last), Pop(op, 0, n, 1, last, next)
    PROVE  IInv'
<1>1. Sound
  BY Applied
<1>2. Complete(Without(1, last)) /\ \A S : StaleIn(frame, S) => StaleIn(Without(1, last), S)
  BY <1>1, CutFront
<1>. DEFINE at == 0
            first == 1
<1>3. LET g == IF first = 1 THEN Without(first, last) ELSE Announce(Without(first, last), next) IN
      Complete(g) /\ \A S : StaleIn(frame, S) => StaleIn(g, S)
  BY <1>2
<1>4. Cuts(at, n, first, last) /\ Pop(op, at, n, first, last, next)
  OBVIOUS
<1>. HIDE DEF at, first
<1>. QED  BY <1>3, <1>4, PopSteps

\* A pop that would cut a piece in two.
LEMMA PopMisplaced ==
    ASSUME IInv, Apply, NEW op, op # "", NEW at, NEW n, NEW first, NEW last, NEW next, ~Cuts(at, n, first, last),
           Pop(op, at, n, first, last, next), Spoil(op) => SpoiledOnlyWhere'
    PROVE  IInv'
<1>1. Spoil(op)
  BY DEF Pop
<1>. QED  BY <1>1, SpoiledStep

\* pop_vlan: wrong behind an 802.3 header.
LEMMA StepPopVlan ==
    ASSUME IInv, pop_vlan
    PROVE  IInv'
<1>. DEFINE new == pop_transitions(type, "VLAN")
            i == First("VLAN")
            op == "pop_vlan"
            g == Announce(Without(i, i), frame[i].next)
<1>1. /\ Apply
      /\ IF new = Invalid THEN Nothing
         ELSE IF ~Cuts(14, 4, i, i) THEN Spoil(op)
         ELSE /\ frame' = g /\ type' = new /\ room' = room + 4
              /\ uncovered' = (uncovered \/ new # parse_ethernet(frame'))
              /\ flags' = flags /\ fate' = fate /\ spoiled' = spoiled /\ missed' = missed
  BY DEF pop_vlan
<1>2. Complete(frame) /\ Matches(frame, type)
  BY <1>1, Applied DEF Sound
<1>3. CASE new = Invalid
  BY <1>1, <1>3, Idle
<1>4. CASE new # Invalid
  <2>1. /\ frame[2].h = "VLAN" /\ frame[1].h = type.l2[1] /\ frame[1].h \in Link /\ 2 \in 1..Len(frame)
        /\ Start(frame, 2) = (IF frame[1].h = "ETHERNET" THEN 14 ELSE 22) /\ Start(frame, 3) = Start(frame, 2) + 4
        /\ Complete(Out(frame, 3, frame[2].next)) /\ Matches(Out(frame, 3, frame[2].next), new)
        /\ \A S : StaleIn(frame, S) => StaleIn(Out(frame, 3, frame[2].next), S)
    BY <1>2, <1>4, VlanPopped
  <2>2. i = 2
    <3>. DEFINE k == 2
                h == "VLAN"
    <3>1. k \in 1..Len(frame) /\ frame[k].h = h
      BY <2>1
    <3>2. \A j \in 1..(k - 1) : frame[j].h # h
      <4>1. \A j \in 1..(2 - 1) : j = 1
        OBVIOUS
      <4>. QED  BY <2>1, <4>1 DEF Link
    <3>. HIDE DEF k, h
    <3>3. First(h) = k
      BY <1>2, <3>1, <3>2, FirstIs
    <3>. QED  BY <3>3 DEF k, h
  <2>3. CASE ~Cuts(14, 4, i, i)
    <3>1. frame[1].h # "ETHERNET"
      <4>1. Cuts(14, 4, 2, 2) <=> Start(frame, 2) = 14 /\ Start(frame, 3) = 18
        BY DEF Cuts
      <4>. HIDE DEF i
      <4>. QED  BY <2>1, <2>2, <2>3, <4>1
    <3>2. type.l2[1] = "8023"
      BY <2>1, <3>1 DEF Link
    <3>3. Spoil(op) /\ Apply /\ op # ""
      BY <1>1, <1>4, <2>3
    <3>4. SpoiledOnlyWhere'
      BY <3>2, <3>3, Misplaced
    <3>. HIDE DEF op
    <3>. QED  BY <3>3, <3>4, SpoiledStep
  <2>4. CASE Cuts(14, 4, i, i)
    <3>1. /\ frame' = g /\ type' = new /\ room' = room + 4
          /\ uncovered' = (uncovered \/ new # parse_ethernet(frame'))
          /\ flags' = flags /\ fate' = fate /\ spoiled' = spoiled /\ missed' = missed /\ Apply
      BY <1>1, <1>4, <2>4
    <3>2. g = Out(frame, 3, frame[2].next)
      <4>. HIDE DEF i
      <4>1. g = Announce(Without(2, 2), frame[2].next)
        BY <2>2
      <4>2. Without(2, 2) = SubSeq(frame, 1, 2 - 1) \o SubSeq(frame, 3, Len(frame))
        BY DEF Without
      <4>. QED  BY <4>1, <4>2 DEF Out
    <3>. HIDE DEF g, new
    <3>3. Complete(frame') /\ Matches(frame', type')
      BY <2>1, <3>1, <3>2
    <3>4. StaleIn(frame', flags' \cup missed')
      BY <2>1, <3>1, <3>2, Applied
    <3>5. flags' \subseteq Checksummed /\ uncovered' \in BOOLEAN
      BY <3>1, Applied
    <3>6. room' \in Nat
      <4>1. room \in Nat
        BY <3>1, Applied
      <4>. QED  BY <3>1, <4>1
    <3>7. ~uncovered' => type' = parse_ethernet(frame')
      BY <3>1
    <3>. QED  BY <3>1, <3>3, <3>4, <3>5, <3>6, <3>7, EditStep
  <2>. QED  BY <2>3, <2>4
<1>. QED  BY <1>3, <1>4

\* pop_mpls: right on a frame without tags.
LEMMA StepPopMpls ==
    ASSUME IInv, pop_mpls
    PROVE  IInv'
<1>. DEFINE i == First("MPLS")
            op == "pop_mpls"
<1>1. Apply /\ IF pop_transitions(type, "MPLS") = Invalid THEN Nothing ELSE Pop(op, 14, 4, i, i, After(i))
  BY DEF pop_mpls
<1>2. CASE pop_transitions(type, "MPLS") = Invalid
  BY <1>1, <1>2, Idle
<1>3. CASE pop_transitions(type, "MPLS") # Invalid
  <2>1. Sound
    BY <1>1, Applied
  <2>2. /\ i \in 1..(Len(frame) - 1) /\ After(i) = frame[i + 1].h
        /\ type.l2 = <<"ETHERNET">> => Cuts(14, 4, i, i)
    BY <1>3, <2>1, MplsFound
  <2>3. Pop(op, 14, 4, i, i, After(i)) /\ Apply /\ op # ""
    BY <1>1, <1>3
  <2>4. CASE Cuts(14, 4, i, i)
    <3>1. i \in 1..Len(frame) /\ i <= i
      <4>1. Len(frame) \in Nat
        BY <2>1, CompleteFacts DEF Sound
      <4>. HIDE DEF i
      <4>. QED  BY <2>2, <4>1
    <3>. DEFINE n == 4
    <3>2. n \in Nat
      OBVIOUS
    <3>3. Cuts(14, n, i, i) /\ Pop(op, 14, n, i, i, frame[i + 1].h)
      BY <2>2, <2>3, <2>4
    <3>. HIDE DEF i, op, n
    <3>. QED  BY <2>2, <2>3, <3>1, <3>2, <3>3, PopBehind
  <2>5. CASE ~Cuts(14, 4, i, i)
    <3>1. Spoil(op) => SpoiledOnlyWhere'
      BY <2>2, <2>3, <2>5, Misplaced
    <3>. DEFINE n == 4
                at == 14
    <3>2. ~Cuts(at, n, i, i) /\ Pop(op, at, n, i, i, After(i))
      BY <2>3, <2>5
    <3>. HIDE DEF i, op, n, at
    <3>. QED  BY <2>3, <3>1, <3>2, PopMisplaced
  <2>. QED  BY <2>4, <2>5
<1>. QED  BY <1>2, <1>3

\* pop_pbb: always right.
LEMMA StepPopPbb ==
    ASSUME IInv, pop_pbb
    PROVE  IInv'
<1>. DEFINE op == "pop_pbb"
            n == 18
            last == 2
            next == ""
<1>1. Apply /\ IF pop_transitions(type, "ISID") = Invalid THEN Nothing ELSE Pop(op, 0, n, 1, last, next)
  BY DEF pop_pbb
<1>2. CASE pop_transitions(type, "ISID") = Invalid
  BY <1>1, <1>2, Idle
<1>3. CASE pop_transitions(type, "ISID") # Invalid
  <2>1. Sound
    BY <1>1, Applied
  <2>2. Cuts(0, n, 1, last) /\ last \in 1..(Len(frame) - 1) /\ frame[last + 1].h \in Link
    BY <1>3, <2>1, BackboneFound
  <2>3. Pop(op, 0, n, 1, last, next) /\ Apply /\ n \in Nat
    BY <1>1, <1>3
  <2>. HIDE DEF op, n, last, next
  <2>. QED  BY <2>2, <2>3, PopFront
<1>. QED  BY <1>2, <1>3

\* The protocols of all stale checksums.
LEMMA AllDirty ==
    ASSUME NEW g
    PROVE  \A S : StaleIn(g, S \cup Dirty(g, DOMAIN g))
BY DEF StaleIn, Dirty

\* pop_pppoe: right on a frame without tags; every flag that it forgets is missed.
LEMMA StepPopPppoe ==
    ASSUME IInv, pop_pppoe
    PROVE  IInv'
<1>. DEFINE i == First("PPPOE")
            last == IF frame[i].next = "PPP" THEN i + 1 ELSE i
            n == IF frame[i].next = "PPP" THEN 8 ELSE 6
            op == "pop_pppoe"
            g == Announce(Without(i, last), After(last))
<1>1. /\ Apply /\ Shows("PPPOE")
      /\ IF frame[1].next # "PPPOE" \/ ~Cuts(14, n, i, last) THEN Spoil(op)
         ELSE /\ frame' = g /\ type' = parse_ethernet(frame') /\ flags' = {} /\ room' = room + n
              /\ missed' = missed \cup Dirty(frame', DOMAIN frame') /\ uncovered' = FALSE
              /\ fate' = fate /\ spoiled' = spoiled
  BY DEF pop_pppoe
<1>2. Sound
  BY <1>1, Applied
<1>3. /\ i \in 1..Len(frame) /\ last \in 1..(Len(frame) - 1) /\ After(last) = frame[last + 1].h
      /\ type.l2 = <<"ETHERNET">> => frame[1].next = "PPPOE" /\ Cuts(14, n, i, last)
  BY <1>1, <1>2, PppoeFound
<1>4. n \in Nat
  OBVIOUS
<1>5. CASE frame[1].next # "PPPOE" \/ ~Cuts(14, n, i, last)
  <2>1. Spoil(op) /\ Apply /\ op # "" /\ type.l2 # <<"ETHERNET">>
    BY <1>1, <1>3, <1>5
  <2>2. SpoiledOnlyWhere'
    BY <2>1, Misplaced
  <2>. HIDE DEF op
  <2>. QED  BY <2>1, <2>2, SpoiledStep
<1>6. CASE ~(frame[1].next # "PPPOE" \/ ~Cuts(14, n, i, last))
  <2>1. /\ frame' = g /\ type' = parse_ethernet(frame') /\ flags' = {} /\ room' = room + n
        /\ missed' = missed \cup Dirty(frame', DOMAIN frame') /\ uncovered' = FALSE
        /\ fate' = fate /\ spoiled' = spoiled /\ Apply /\ Cuts(14, n, i, last)
    BY <1>1, <1>6
  <2>2. Complete(g)
    <3>. HIDE DEF i, last, n, g
    <3>1. Complete(Announce(Without(i, last), frame[last + 1].h))
      BY <1>2, <1>3, <2>1, CutBehind
    <3>. QED  BY <1>3, <3>1 DEF g
  <2>. HIDE DEF g, n
  <2>3. Complete(frame') /\ Matches(frame', type')
    BY <2>1, <2>2, ParseMatches
  <2>4. StaleIn(frame', flags' \cup missed')
    <3>1. StaleIn(frame', missed \cup Dirty(frame', DOMAIN frame'))
      BY AllDirty
    <3>2. flags' \cup missed' = missed \cup Dirty(frame', DOMAIN frame')
      BY <2>1
    <3>. QED  BY <3>1, <3>2
  <2>5. flags' \subseteq Checksummed /\ uncovered' \in BOOLEAN
    BY <2>1
  <2>6. room' \in Nat
    <3>1. room \in Nat
      BY <2>1, Applied
    <3>. QED  BY <1>4, <2>1, <3>1
  <2>. QED  BY <2>1, <2>3, <2>4, <2>5, <2>6, EditStep
<1>. QED  BY <1>5, <1>6

\* pop_gtp: right on a frame without tags whose tunnel has no options.
LEMMA StepPopGtp ==
    ASSUME IInv, pop_gtp
    PROVE  IInv'
<1>. DEFINE i == First("GTPU")
            ip == frame[1].next
            n == IF ip = "IPV4" THEN 36 ELSE 56
            op == "pop_gtp"
<1>1. /\ Apply
      /\ IF ~Shows("GTPU") THEN Nothing
         ELSE IF ip \notin {"IPV4", "IPV6"} THEN Spoil(op)
         ELSE IF pop_transitions(type, Named("GTPU", type)) = Invalid THEN Nothing
         ELSE Pop(op, 14, n, i - 2, i, After(i))
  BY DEF pop_gtp
<1>2. Sound /\ Apply /\ op # ""
  BY <1>1, Applied
<1>3. CASE Nothing
  BY <1>2, <1>3, Idle
<1>4. CASE Shows("GTPU")
  <2>1. /\ i \in 1..(Len(frame) - 1) /\ i - 2 \in 1..Len(frame) /\ 4 \in 1..Len(frame) /\ After(i) = frame[i + 1].h
        /\ type.l2 = <<"ETHERNET">> /\ frame[2].n = 0 /\ frame[4].n = 0 => Cuts(14, n, i - 2, i)
        /\ type.l2 = <<"ETHERNET">> => ip \in {"IPV4", "IPV6"}
    BY <1>2, <1>4, TunnelFound
  <2>2. n \in Nat
    OBVIOUS
  <2>3. CASE Spoil(op) /\ ip \notin {"IPV4", "IPV6"}
    <3>1. SpoiledOnlyWhere'
      BY <1>2, <2>1, <2>3, Misplaced
    <3>. HIDE DEF op
    <3>. QED  BY <1>2, <2>3, <3>1, SpoiledStep
  <2>4. CASE Pop(op, 14, n, i - 2, i, After(i)) /\ Cuts(14, n, i - 2, i)
    <3>. HIDE DEF n, op, i
    <3>. DEFINE first == i - 2
    <3>1. first \in 1..Len(frame) /\ first <= i
      BY <2>1
    <3>2. Cuts(14, n, first, i) /\ Pop(op, 14, n, first, i, frame[i + 1].h)
      BY <2>1, <2>4
    <3>. HIDE DEF first
    <3>. QED  BY <1>2, <2>1, <2>2, <3>1, <3>2, PopBehind
  <2>5. CASE Pop(op, 14, n, i - 2, i, After(i)) /\ ~Cuts(14, n, i - 2, i)
    <3>1. frame[2].n \in Nat /\ frame[4].n \in Nat
      <4>1. frame[2] \in Pieces /\ frame[4] \in Pieces
        <5>1. Len(frame) \in Nat /\ frame \in Frames
          BY <1>2, CompleteFacts DEF Sound
        <5>2. 2 \in 1..Len(frame) /\ 4 \in 1..Len(frame)
          BY <2>1, <5>1
        <5>. QED  BY <5>1, <5>2, FrameFacts
      <4>. QED  BY <4>1 DEF Pieces
    <3>2. type.l2 # <<"ETHERNET">> \/ frame[2].n > 0 \/ frame[4].n > 0
      <4>. HIDE DEF n, i
      <4>. QED  BY <2>1, <2>5, <3>1
    <3>3. Spoil(op) => SpoiledOnlyWhere'
      BY <1>2, <3>2, Misplaced
    <3>. DEFINE at == 14
                first == i - 2
    <3>4. ~Cuts(at, n, first, i) /\ Pop(op, at, n, first, i, After(i))
      BY <2>5
    <3>. HIDE DEF i, op, n, at, first
    <3>. QED  BY <1>2, <3>3, <3>4, PopMisplaced
  <2>. HIDE DEF i, ip, n, op
  <2>. QED  BY <1>1, <1>3, <1>4, <2>3, <2>4, <2>5
<1>. QED  BY <1>1, <1>3, <1>4

\* pop_gre: right behind an Ethernet header, without IP options.
LEMMA StepPopGre ==
    ASSUME IInv, pop_gre
    PROVE  IInv'
<1>. DEFINE i == First("GRE")
            ip == frame[1].next
            n == 14 + (IF ip = "IPV4" THEN 20 ELSE 40) + 4 + 4 * frame[i].n
            op == "pop_gre"
            next == ""
<1>1. /\ Apply
      /\ IF ~Shows("GRE") THEN Nothing
         ELSE IF frame[i].next # "ETHERNET" \/ ip \notin {"IPV4", "IPV6"} THEN Nothing
         ELSE IF pop_transitions(type, Named("GRE", type)) = Invalid THEN Nothing
         ELSE Pop(op, 0, n, 1, i, next)
  BY DEF pop_gre
<1>2. Sound /\ Apply /\ op # ""
  BY <1>1, Applied
<1>3. CASE Nothing
  BY <1>2, <1>3, Idle
<1>4. CASE /\ Shows("GRE") /\ frame[i].next = "ETHERNET" /\ pop_transitions(type, Named("GRE", type)) # Invalid
           /\ Pop(op, 0, n, 1, i, next)
  <2>1. /\ i \in 1..Len(frame) /\ i \in 1..(Len(frame) - 1) /\ frame[i + 1].h \in Link
        /\ type.l2[1] # "8023" /\ frame[2].n = 0 => Cuts(0, n, 1, i)
    BY <1>2, <1>4, GreFound
  <2>2. Len(frame) \in Nat /\ Len(frame) > 1 /\ frame \in Frames
    BY <1>2, CompleteFacts DEF Sound
  <2>3. n \in Nat
    <3>1. frame[i] \in Pieces
      BY <2>1, <2>2, FrameFacts
    <3>2. frame[i].n \in Nat
      BY <3>1 DEF Pieces
    <3>. HIDE DEF i, ip
    <3>. QED  BY <3>2
  <2>4. CASE Cuts(0, n, 1, i)
    <3>. HIDE DEF i, n, op, next
    <3>. QED  BY <1>2, <1>4, <2>1, <2>3, <2>4, PopFront
  <2>5. CASE ~Cuts(0, n, 1, i)
    <3>1. frame[2].n \in Nat
      <4>1. frame[2] \in Pieces
        BY <2>2, FrameFacts
      <4>. QED  BY <4>1 DEF Pieces
    <3>2. type.l2[1] = "8023" \/ frame[2].n > 0
      <4>. HIDE DEF i, n
      <4>. QED  BY <2>1, <2>5, <3>1
    <3>3. Spoil(op) => SpoiledOnlyWhere'
      BY <1>2, <3>2, Misplaced
    <3>. DEFINE at == 0
                first == 1
    <3>4. ~Cuts(at, n, first, i) /\ Pop(op, at, n, first, i, next)
      BY <1>4, <2>5
    <3>. HIDE DEF i, op, n, at, first, next
    <3>. QED  BY <1>2, <3>3, <3>4, PopMisplaced
  <2>. QED  BY <2>4, <2>5
<1>. HIDE DEF i, ip, n, op, next
<1>. QED  BY <1>1, <1>3, <1>4

-----------------------------------------------------------------------------
(* Fields *)

\* The flags that fields set are of headers with a checksum.
LEMMA FieldFlags ==
    ASSUME NEW fld \in Fields
    PROVE  fld.set \subseteq Checksummed
<1>1. \A h, set, covered : Field(h, set, covered).set = set
  BY DEF Field
<1>2. {} \subseteq Checksummed /\ {"IPV4"} \subseteq Checksummed /\ {"IPV4"} \cup L4 \subseteq Checksummed
      /\ L4 \subseteq Checksummed /\ {"ICMPV6"} \subseteq Checksummed /\ {"TCP"} \subseteq Checksummed
      /\ {"UDP"} \subseteq Checksummed /\ {"SCTP"} \subseteq Checksummed /\ {"ICMPV4"} \subseteq Checksummed
  BY DEF Checksummed, L4
<1>3. CASE fld \in eth_fields \cup vlan_fields \cup arp_fields \cup mpls_fields \cup pbb_fields \cup pppoe_fields
                   \cup gtp_fields \cup gre_fields
  <2>1. \E h, covered : fld = Field(h, {}, covered)
    BY <1>3 DEF eth_fields, vlan_fields, arp_fields, mpls_fields, pbb_fields, pppoe_fields, gtp_fields, gre_fields
  <2>. QED  BY <1>1, <1>2, <2>1
<1>4. CASE fld \in ip_fields \cup nw_ttl
  <2>1. \E h, covered : fld = Field(h, {}, covered) \/ fld = Field(h, {"IPV4"}, covered)
    BY <1>4 DEF ip_fields, nw_ttl
  <2>. QED  BY <1>1, <1>2, <2>1
<1>5. CASE fld \in ipv4_fields \cup ipv6_fields
  <2>1. \E h, covered : fld = Field(h, {"IPV4"} \cup L4, covered) \/ fld = Field(h, L4, covered)
    BY <1>5 DEF ipv4_fields, ipv6_fields
  <2>. QED  BY <1>1, <1>2, <2>1
<1>6. CASE fld \in nd_fields \cup icmpv6_fields
  <2>1. \E h, covered : fld = Field(h, {"ICMPV6"}, covered)
    BY <1>6 DEF nd_fields, icmpv6_fields
  <2>. QED  BY <1>1, <1>2, <2>1
<1>7. CASE fld \in tcp_fields \cup udp_fields
  <2>1. \E h, covered : fld = Field(h, {"TCP"}, covered) \/ fld = Field(h, {"UDP"}, covered)
    BY <1>7 DEF tcp_fields, udp_fields
  <2>. QED  BY <1>1, <1>2, <2>1
<1>8. CASE fld \in sctp_fields \cup icmpv4_fields
  <2>1. \E h, covered : fld = Field(h, {"SCTP"}, covered) \/ fld = Field(h, {"ICMPV4"}, covered)
    BY <1>8 DEF sctp_fields, icmpv4_fields
  <2>. QED  BY <1>1, <1>2, <2>1
<1>. QED  BY <1>3, <1>4, <1>5, <1>6, <1>7, <1>8 DEF Fields

\* Checksums that become stale with a flag or an entry in the ledger keep the invariant.
LEMMA MarkStep ==
    ASSUME IInv, Apply, NEW hs, NEW at, frame' = Stale(frame, hs, at), type' = type, room' = room, fate' = fate,
           spoiled' = spoiled, uncovered' = uncovered, flags \subseteq flags', missed \subseteq missed',
           flags' \subseteq Checksummed,
           \A i \in 1..Len(frame) : i \in at /\ frame'[i].stale /\ frame'[i].h \in hs => frame'[i].h \in flags' \cup missed'
    PROVE  IInv'
<1>1. Complete(frame) /\ Matches(frame, type) /\ frame \in Frames /\ Len(frame) \in Nat
  BY Applied, CompleteFacts DEF Sound
<1>2. /\ Same(frame, frame')
      /\ \A i \in DOMAIN frame' : frame'[i].stale => frame[i].stale \/ (i \in at /\ frame'[i].h \in hs)
  BY <1>1, Edited
<1>3. Complete(frame') /\ SameTail(frame, 1, frame', 1)
  BY <1>1, <1>2, SameComplete
<1>4. Matches(frame', type')
  BY <1>1, <1>2, SameMatches
<1>5. parse_ethernet(frame) = parse_ethernet(frame')
  BY <1>1, <1>3, ParseSame
<1>6. StaleIn(frame', flags' \cup missed')
  <2>1. DOMAIN frame' = 1..Len(frame) /\ DOMAIN frame = 1..Len(frame)
    BY <1>1, <1>2, FrameFacts DEF Same
  <2>2. \A i \in 1..Len(frame) : frame'[i].h = frame[i].h
    BY <1>2 DEF Same, Alike
  <2>3. \A i \in 1..Len(frame) : frame[i].stale => frame[i].h \in flags \cup missed
    BY <2>1, Applied DEF StaleIn
  <2>4. ASSUME NEW i \in 1..Len(frame), frame'[i].stale PROVE frame'[i].h \in flags' \cup missed'
    BY <1>2, <2>1, <2>2, <2>3, <2>4
  <2>. QED  BY <2>1, <2>4 DEF StaleIn
<1>7. room' \in Nat /\ uncovered' \in BOOLEAN
  BY Applied
<1>8. ~uncovered' => type' = parse_ethernet(frame')
  BY <1>5, Applied
<1>. QED  BY <1>3, <1>4, <1>6, <1>7, <1>8, EditStep

\* A field that is set without a flag is missed.
LEMMA StepSetField ==
    ASSUME IInv, NEW fld \in Fields, set_field(fld)
    PROVE  IInv'
<1>. DEFINE hs == fld.covered
            at == Visible(frame, type)
<1>1. /\ Apply /\ frame' = Stale(frame, hs, at) /\ flags' = flags \cup fld.set
      /\ missed' = missed \cup (Dirty(frame', at) \ flags')
      /\ type' = type /\ room' = room /\ fate' = fate /\ spoiled' = spoiled /\ uncovered' = uncovered
  BY DEF set_field
<1>. HIDE DEF hs, at
<1>2. flags' \subseteq Checksummed
  BY <1>1, FieldFlags, Applied
<1>3. \A i \in 1..Len(frame) : i \in at /\ frame'[i].stale /\ frame'[i].h \in hs => frame'[i].h \in flags' \cup missed'
  <2>1. \A i \in at : frame'[i].stale => frame'[i].h \in Dirty(frame', at)
    BY DEF Dirty
  <2>. QED  BY <1>1, <2>1
<1>4. flags \subseteq flags' /\ missed \subseteq missed'
  BY <1>1
<1>. QED  BY <1>1, <1>2, <1>3, <1>4, MarkStep

\* copy_ttl_in sets no flag at all.
LEMMA StepCopyTtl ==
    ASSUME IInv, copy_ttl_in \/ copy_ttl_out
    PROVE  IInv'
<1>1. CASE copy_ttl_out
  BY <1>1, Idle DEF copy_ttl_out
<1>2. CASE copy_ttl_in
  <2>. DEFINE i == First("MPLS")
              at == {i + 1}
              hs == {"IPV4"}
  <2>1. /\ Apply
        /\ \/ Nothing
           \/ /\ frame' = Stale(frame, hs, at) /\ missed' = missed \cup (hs \ flags)
              /\ type' = type /\ flags' = flags /\ room' = room /\ fate' = fate /\ spoiled' = spoiled
              /\ uncovered' = uncovered
    BY <1>2 DEF copy_ttl_in
  <2>. HIDE DEF at, hs
  <2>2. CASE Nothing
    BY <2>1, <2>2, Idle
  <2>3. CASE ~Nothing
    <3>1. /\ frame' = Stale(frame, hs, at) /\ missed' = missed \cup (hs \ flags)
          /\ type' = type /\ flags' = flags /\ room' = room /\ fate' = fate /\ spoiled' = spoiled
          /\ uncovered' = uncovered
      BY <2>1, <2>3
    <3>2. flags' \subseteq Checksummed /\ flags \subseteq flags' /\ missed \subseteq missed'
      BY <2>1, <3>1, Applied
    <3>3. \A j \in 1..Len(frame) : j \in at /\ frame'[j].stale /\ frame'[j].h \in hs => frame'[j].h \in flags' \cup missed'
      BY <3>1
    <3>. QED  BY <2>1, <3>1, <3>2, <3>3, MarkStep
  <2>. QED  BY <2>2, <2>3
<1>. QED  BY <1>1, <1>2

-----------------------------------------------------------------------------
(* The ways out *)

\* Leaving with checksums keeps the invariant: the flagged ones are right or known to be wrong.
LEMMA LeaveStep ==
    ASSUME IInv, LeaveWithChecksums({"queued", "released", "lost", "crashed"}),
           free' \in 0..Free, replicas' \in 0..Free, FateAccounted'
    PROVE  IInv'
<1>1. /\ fate = "pipeline" /\ spoiled = "" /\ type' = type /\ flags' = flags /\ room' = room /\ spoiled' = spoiled
      /\ missed' = missed /\ uncovered' = uncovered /\ ops' = ops
      /\ fate' \in {"queued", "released", "lost", "crashed"}
      /\ body' \in (IF flags = {} \/ fate' # "queued" THEN {body} ELSE Bodies)
      /\ frame' = calculate_checksums_in_software(frame, body')
  BY DEF LeaveWithChecksums, Leave
<1>2. /\ Complete(frame) /\ Matches(frame, type) /\ flags \subseteq Checksummed /\ StaleIn(frame, flags \cup missed)
      /\ body \in Bodies \cup {NoBody}
  BY <1>1 DEF IInv, Sound, Ledger, Ranges
<1>3. body' \in Bodies \cup {NoBody}
  BY <1>1, <1>2
<1>4. /\ Same(frame, frame')
      /\ \A i \in Visible(frame, type) :
           frame'[i].stale => \/ frame'[i].h \in missed
                              \/ frame'[i].h = "IPV4" /\ frame'[i].n > 0
                              \/ frame'[i].h \in flags /\ <<frame'[i].h, body'>> \in Bad
  <2>. DEFINE b == body'
              g == calculate_checksums_in_software(frame, b)
  <2>1. b \in Bodies \cup {NoBody} /\ frame' = g
    BY <1>1, <1>3
  <2>. HIDE DEF b
  <2>2. /\ Same(frame, g)
        /\ \A i \in Visible(frame, type) :
             g[i].stale => \/ g[i].h \in missed
                           \/ g[i].h = "IPV4" /\ g[i].n > 0
                           \/ g[i].h \in flags /\ <<g[i].h, b>> \in Bad
    BY <1>2, <2>1, Calculated
  <2>. HIDE DEF g
  <2>. QED  BY <2>1, <2>2 DEF b
<1>5. Complete(frame') /\ SameTail(frame, 1, frame', 1)
  BY <1>2, <1>4, SameComplete
<1>6. Matches(frame', type)
  BY <1>2, <1>4, SameMatches
<1>7. Visible(frame', type) = Visible(frame, type)
  BY <1>2, <1>4, SameVisible
<1>8. parse_ethernet(frame') = parse_ethernet(frame)
  BY <1>2, <1>5, ParseSame
<1>9. Sound'
  BY <1>1, <1>5, <1>6 DEF Sound
<1>10. Ranges'
  BY <1>1, <1>3 DEF IInv, Ranges
<1>11. Ledger' /\ SpoiledOnlyWhere'
  BY <1>1 DEF Ledger, SpoiledOnlyWhere
<1>12. TypeIsParse'
  BY <1>1, <1>8 DEF IInv, TypeIsParse
<1>13. ChecksumsRight'
  BY <1>1, <1>4, <1>7 DEF ChecksumsRight
<1>. QED  BY <1>9, <1>10, <1>11, <1>12, <1>13 DEF IInv

\* Every way out is one of four.
LEMMA Widened ==
    ASSUME NEW ends, LeaveWithChecksums(ends), ends \subseteq {"queued", "released", "lost", "crashed"}
    PROVE  /\ LeaveWithChecksums({"queued", "released", "lost", "crashed"}) /\ fate' \in ends
           /\ fate = "pipeline" /\ type' = type /\ inPort' = inPort
BY DEF LeaveWithChecksums, Leave

\* Output to a port, to all ports and to the input port.
LEMMA StepOutput ==
    ASSUME IInv, output_single_packet \/ output_flood \/ output_in_port
    PROVE  IInv'
<1>0. free \in 0..Free /\ replicas \in 0..Free /\ Cardinality(Ports) \in Nat /\ Free \in Nat
  BY PortsAssumption, FS_CardinalityType, BoundsAssumption DEF IInv, Ranges
<1>1. CASE output_single_packet
  <2>1. LeaveWithChecksums({"queued", "released"}) /\ free' = free /\ replicas' = replicas
    BY <1>1 DEF output_single_packet
  <2>2. LeaveWithChecksums({"queued", "released", "lost", "crashed"}) /\ fate' \in {"queued", "released"}
    BY <2>1, Widened
  <2>3. FateAccounted'
    BY <2>2 DEF FateAccounted
  <2>. QED  BY <1>0, <2>1, <2>2, <2>3, LeaveStep
<1>2. CASE output_flood
  <2>. DEFINE n == Cardinality(Ports)
  <2>1. LeaveWithChecksums({IF n > free THEN "crashed" ELSE "released"})
    BY <1>2 DEF output_flood
  <2>2. IF n > free THEN free' = free /\ replicas' = replicas ELSE free' = free - n /\ replicas' = n
    BY <1>2 DEF output_flood
  <2>3. LeaveWithChecksums({"queued", "released", "lost", "crashed"}) /\ fate' \in {IF n > free THEN "crashed" ELSE "released"}
    BY <2>1, Widened
  <2>4. free' \in 0..Free /\ replicas' \in 0..Free
    <3>. HIDE DEF n
    <3>1. n \in Nat
      BY <1>0 DEF n
    <3>. QED  BY <1>0, <2>2, <3>1
  <2>5. FateAccounted'
    <3>1. CASE n > free
      <4>1. free' < Cardinality(Ports) /\ fate' = "crashed"
        BY <1>0, <2>2, <2>3, <3>1
      <4>. QED  BY <4>1 DEF FateAccounted
    <3>2. CASE ~(n > free)
      <4>1. fate' = "released"
        BY <2>3, <3>2
      <4>. QED  BY <4>1 DEF FateAccounted
    <3>. QED  BY <3>1, <3>2
  <2>. QED  BY <2>3, <2>4, <2>5, LeaveStep
<1>3. CASE output_in_port
  <2>. DEFINE ends == IF inPort THEN {"queued", "released"} ELSE {"lost"}
  <2>1. LeaveWithChecksums(ends) /\ free' = free /\ replicas' = replicas
    BY <1>3 DEF output_in_port
  <2>2. LeaveWithChecksums({"queued", "released", "lost", "crashed"}) /\ fate' \in ends /\ inPort' = inPort
    <3>1. ends \subseteq {"queued", "released", "lost", "crashed"}
      OBVIOUS
    <3>. HIDE DEF ends
    <3>. QED  BY <2>1, <3>1, Widened
  <2>3. FateAccounted'
    BY <2>2 DEF FateAccounted
  <2>. QED  BY <1>0, <2>1, <2>2, <2>3, LeaveStep
<1>. QED  BY <1>1, <1>2, <1>3

\* Drop, replicate, and a port that is detached.
LEMMA StepOthers ==
    ASSUME IInv, platform_packet_drop \/ platform_packet_replicate \/ detach_input_port
    PROVE  IInv'
<1>1. CASE platform_packet_drop
  <2>1. /\ fate = "pipeline" /\ spoiled = "" /\ type' = type /\ flags' = flags /\ room' = room /\ spoiled' = spoiled
        /\ missed' = missed /\ uncovered' = uncovered /\ ops' = ops /\ fate' = "released" /\ frame' = frame
        /\ free' = free /\ replicas' = replicas /\ body' = body
    BY <1>1 DEF platform_packet_drop, Leave
  <2>2. Ranges' /\ Sound' /\ Ledger'
    BY <2>1 DEF IInv, Ranges, Sound, Ledger
  <2>3. TypeIsParse' /\ SpoiledOnlyWhere'
    BY <2>1 DEF IInv, TypeIsParse, SpoiledOnlyWhere
  <2>4. ChecksumsRight' /\ FateAccounted'
    BY <2>1 DEF ChecksumsRight, FateAccounted
  <2>. QED  BY <2>2, <2>3, <2>4 DEF IInv
<1>2. CASE platform_packet_replicate
  <2>1. /\ fate = "pipeline" /\ spoiled = "" /\ free > 0 /\ ops < MaxOps /\ free' = free - 1 /\ room' = Room
        /\ ops' = ops + 1 /\ frame' = frame /\ type' = type /\ flags' = flags /\ fate' = fate
        /\ replicas' = replicas /\ spoiled' = spoiled /\ missed' = missed /\ uncovered' = uncovered /\ body' = body
    BY <1>2 DEF platform_packet_replicate
  <2>2. Ranges'
    <3>1. free \in 0..Free /\ ops \in 0..MaxOps
      BY DEF IInv, Ranges
    <3>2. free' \in 0..Free /\ ops' \in 0..MaxOps /\ room' \in Nat
      <4>1. Free \in Nat /\ MaxOps \in Nat /\ Room \in Nat
        BY BoundsAssumption
      <4>2. free > 0 /\ ops < MaxOps /\ free' = free - 1 /\ ops' = ops + 1 /\ room' = Room
        BY <2>1
      <4>3. free' \in 0..Free
        BY <3>1, <4>1, <4>2
      <4>4. ops' \in 0..MaxOps
        BY <3>1, <4>1, <4>2
      <4>. QED  BY <4>1, <4>2, <4>3, <4>4
    <3>. QED  BY <2>1, <3>2 DEF IInv, Ranges
  <2>3. Sound' /\ Ledger'
    BY <2>1 DEF IInv, Sound, Ledger
  <2>4. TypeIsParse' /\ SpoiledOnlyWhere'
    BY <2>1 DEF IInv, TypeIsParse, SpoiledOnlyWhere
  <2>5. ChecksumsRight' /\ FateAccounted'
    BY <2>1 DEF ChecksumsRight, FateAccounted
  <2>. QED  BY <2>2, <2>3, <2>4, <2>5 DEF IInv
<1>3. CASE detach_input_port
  <2>1. /\ fate = "pipeline" /\ frame' = frame /\ type' = type /\ flags' = flags /\ fate' = fate /\ room' = room
        /\ replicas' = replicas /\ spoiled' = spoiled /\ missed' = missed /\ uncovered' = uncovered /\ body' = body
        /\ free' = free /\ ops' = ops
    BY <1>3 DEF detach_input_port
  <2>2. Ranges' /\ Sound' /\ Ledger'
    BY <2>1 DEF IInv, Ranges, Sound, Ledger
  <2>3. TypeIsParse' /\ SpoiledOnlyWhere'
    BY <2>1 DEF IInv, TypeIsParse, SpoiledOnlyWhere
  <2>4. ChecksumsRight' /\ FateAccounted'
    BY <2>1 DEF ChecksumsRight, FateAccounted
  <2>. QED  BY <2>2, <2>3, <2>4 DEF IInv
<1>. QED  BY <1>1, <1>2, <1>3

\* Nothing happens.
LEMMA StepStutter ==
    ASSUME IInv, UNCHANGED vars
    PROVE  IInv'
<1>1. /\ fate' = fate /\ frame' = frame /\ type' = type /\ flags' = flags /\ room' = room /\ inPort' = inPort
      /\ replicas' = replicas /\ spoiled' = spoiled /\ missed' = missed /\ uncovered' = uncovered /\ body' = body
      /\ free' = free /\ ops' = ops
  BY DEF vars
<1>2. Ranges' /\ Sound' /\ Ledger'
  BY <1>1 DEF IInv, Ranges, Sound, Ledger
<1>3. TypeIsParse' /\ SpoiledOnlyWhere'
  BY <1>1 DEF IInv, TypeIsParse, SpoiledOnlyWhere
<1>4. ChecksumsRight'
  BY <1>1 DEF IInv, ChecksumsRight
<1>5. FateAccounted'
  <2>1. Shows("IPV4")' <=> Shows("IPV4")
    BY <1>1 DEF Shows, Named
  <2>. QED  BY <1>1, <2>1 DEF IInv, FateAccounted
<1>. QED  BY <1>2, <1>3, <1>4, <1>5 DEF IInv

-----------------------------------------------------------------------------
(* Where the getters read *)

\* The stacks behind an IP header.
LEMMA StackShapes ==
    /\ \A up \in Ipv4Stacks : Len(up) \in 1..3 /\ up[1] = "IPV4" /\ (Len(up) = 3 => up[2] = "UDP")
    /\ \A up \in Ipv6Stacks \cup NeighbourStacks :
         /\ Len(up) \in 1..4 /\ up[1] = "IPV6" /\ (Len(up) = 3 => up[2] \in {"UDP", "ICMPV6"})
         /\ Len(up) = 4 => up[2] = "ICMPV6" /\ up[3] \in NeighbourMsgs
<1>1. ASSUME NEW up \in Ipv4Stacks PROVE Len(up) \in 1..3 /\ up[1] = "IPV4" /\ (Len(up) = 3 => up[2] = "UDP")
  BY DEF Ipv4Stacks
<1>2. ASSUME NEW up \in Ipv6Stacks
      PROVE /\ Len(up) \in 1..4 /\ up[1] = "IPV6" /\ (Len(up) = 3 => up[2] \in {"UDP", "ICMPV6"})
            /\ Len(up) = 4 => up[2] = "ICMPV6" /\ up[3] \in NeighbourMsgs
  BY DEF Ipv6Stacks
<1>3. ASSUME NEW up \in NeighbourStacks
      PROVE /\ Len(up) \in 1..4 /\ up[1] = "IPV6" /\ (Len(up) = 3 => up[2] \in {"UDP", "ICMPV6"})
            /\ Len(up) = 4 => up[2] = "ICMPV6" /\ up[3] \in NeighbourMsgs
  <2>1. CASE \E m \in NeighbourMsgs : up = <<"IPV6", "ICMPV6", m>>
    BY <2>1
  <2>2. CASE \E m \in NeighbourMsgs : up = <<"IPV6", "ICMPV6", m, NeighbourOption[m]>>
    BY <2>2
  <2>. QED  BY <1>3, <2>1, <2>2 DEF NeighbourStacks
<1>. QED  BY <1>1, <1>2, <1>3

\* Only IPv4 has options.
LEMMA StackCounts ==
    ASSUME NEW up, NEW n, Found(up, n)
    PROVE  /\ up \in Ipv4Stacks => n \in 0..MaxOptions
           /\ up \in Ipv6Stacks \cup NeighbourStacks => n = 0
<1>1. 0 \in 0..MaxOptions
  BY DEF MaxOptions
<1>2. up \in Ipv4Stacks => up[1] = "IPV4" /\ up # <<"MPLS">>
  BY StackShapes
<1>3. up \in Ipv6Stacks \cup NeighbourStacks => up[1] = "IPV6" /\ up # <<"MPLS">>
  BY StackShapes
<1>. QED  BY <1>1, <1>2, <1>3 DEF Found

\* The tables know the lengths of the neighbour discovery messages.
LEMMA MessageLengths ==
    ASSUME NEW f, Complete(f), NEW i \in 1..Len(f), f[i].h \in NeighbourMsgs
    PROVE  PieceLen(f[i]) + 4 = MsgLen[f[i].h]
<1>1. f[i] \in Pieces /\ f[i].n = 0
  BY CompleteFacts DEF FixedLength
<1>2. PieceLen(f[i]) = HdrLen(f[i].h)
  <2>1. PieceLen(f[i]) \in Nat /\ PieceLen(f[i]) = HdrLen(f[i].h) + 4 * f[i].n
    BY <1>1, PieceLenFacts
  <2>. QED  BY <1>1, <2>1 DEF PieceLen, HdrLen
<1>. DEFINE h == f[i].h
<1>3. h \in {"ICMPV6_RTR_SOL", "ICMPV6_RTR_ADV", "ICMPV6_NEIGH_SOL", "ICMPV6_NEIGH_ADV"}
  BY Neighbours
<1>. HIDE DEF h
<1>4. HdrLen(h) + 4 = MsgLen[h]
  BY <1>3 DEF HdrLen, MsgLen
<1>. QED  BY <1>2, <1>4 DEF h

\* The tables give the offset of every header above layer 2 of a type that matches.
LEMMA UpperOffset ==
    ASSUME NEW f, Complete(f), NEW t, Matches(f, t), NEW k \in 1..Len(t.up)
    PROVE  /\ Len(t.l2) + k \in 1..Len(f) /\ f[Len(t.l2) + k].h = Raw(t.up[k])
           /\ protocol_offsets_bt(t, t.up[k]) = Start(f, Len(t.l2) + k)
<1>. DEFINE up == t.up
            l2 == t.l2
            n == t.n
            b == Len(l2)
            e == L2Len(l2)
<1>1. /\ l2 \in L2 /\ Found(up, n) /\ t = Type(l2, up, n) /\ L2Matches(f, l2) /\ UpMatches(f, b, up, n)
      /\ b \in 1..3
  BY MatchesFacts
<1>2. Len(f) \in Nat /\ f \in Frames
  BY CompleteFacts
<1>3. Start(f, b + 1) = e /\ e \in Nat
  <2>1. Start(f, b + 1) = e
    BY <1>1, LinkStarts
  <2>2. b + 1 \in 1..(Len(f) + 1)
    BY <1>1, <1>2 DEF L2Matches
  <2>. QED  BY <1>2, <2>1, <2>2, StartFacts
<1>4. Len(up) \in Nat
  BY <1>1, FoundUp
<1>. HIDE DEF up, l2, n, b, e
<1>5. \A j \in 1..Len(up) : b + j \in 1..Len(f) /\ f[b + j].h = Raw(up[j])
  BY <1>1, <1>2, <1>4 DEF UpMatches
<1>6. \A j \in 1..Len(up) : Start(f, (b + j) + 1) = Start(f, b + j) + PieceLen(f[b + j]) /\ PieceLen(f[b + j]) \in Nat
  BY <1>2, <1>5, StartFacts, HeaderLengths
<1>7. protocol_offsets_bt(Type(l2, up, n), up[k]) = Start(f, b + k)
  <2>1. CASE up = <<"MPLS">> \/ up = <<"PPPOE">> \/ up = <<"ARPV4">>
    <3>1. k = 1 /\ Len(up) = 1
      <4>1. k \in 1..Len(up)
        BY DEF up
      <4>2. Len(up) = 1
        BY <2>1
      <4>. QED  BY <4>1, <4>2
    <3>2. protocol_offsets_bt(Type(l2, up, n), up[1]) = e
      <4>1. CASE up = <<"MPLS">>
        BY <1>1, <4>1, OffsetsPlain DEF e
      <4>2. CASE up = <<"PPPOE">>
        BY <1>1, <4>2, OffsetsPlain DEF e
      <4>3. CASE up = <<"ARPV4">>
        BY <1>1, <4>3, OffsetsPlain DEF e
      <4>. QED  BY <2>1, <4>1, <4>2, <4>3
    <3>. QED  BY <1>3, <3>1, <3>2
  <2>2. CASE up = <<"PPPOE", "PPP">>
    <3>1. Len(up) = 2 /\ up[1] = "PPPOE" /\ up[2] = "PPP" /\ k \in 1..Len(up)
      BY <2>2 DEF up
    <3>2. protocol_offsets_bt(Type(l2, up, n), "PPPOE") = e /\ protocol_offsets_bt(Type(l2, up, n), "PPP") = e + 6
      BY <1>1, <2>2, OffsetsPlain DEF e
    <3>3. 1 \in 1..Len(up) /\ f[b + 1].h = "PPPOE" /\ b + 1 \in 1..Len(f)
      BY <1>5, <3>1 DEF Raw
    <3>4. Start(f, (b + 1) + 1) = Start(f, b + 1) + PieceLen(f[b + 1])
      BY <1>6, <3>3
    <3>5. PieceLen(f[b + 1]) = 6
      BY <3>3, HeaderLengths
    <3>6. Start(f, b + 2) = e + 6
      BY <1>1, <1>3, <3>4, <3>5
    <3>. QED  BY <1>3, <3>1, <3>2, <3>6
  <2>3. CASE up \in Ipv4Stacks
    <3>1. Len(up) \in 1..3 /\ up[1] = "IPV4" /\ (Len(up) = 3 => up[2] = "UDP") /\ k \in 1..Len(up)
      BY <2>3, StackShapes DEF up
    <3>2. n \in 0..MaxOptions
      BY <1>1, <2>3, StackCounts
    <3>3. /\ protocol_offsets_bt(Type(l2, up, n), "IPV4") = e
          /\ Len(up) > 1 => protocol_offsets_bt(Type(l2, up, n), up[2]) = e + 20 + 4 * n
          /\ Len(up) > 2 => protocol_offsets_bt(Type(l2, up, n), up[3]) = e + 20 + 4 * n + 8
      BY <1>1, <2>3, <3>2, OffsetsIpv4 DEF e
    <3>4. 1 \in 1..Len(up) /\ f[b + 1].h = "IPV4" /\ b + 1 \in 1..Len(f) /\ f[b + 1].n = n
      <4>1. 1 \in 1..Len(up) /\ up # <<>>
        BY <3>1
      <4>. QED  BY <1>1, <1>5, <3>1, <4>1 DEF Raw, UpMatches
    <3>5. Start(f, (b + 1) + 1) = Start(f, b + 1) + PieceLen(f[b + 1])
      BY <1>6, <3>4
    <3>6. PieceLen(f[b + 1]) = 20 + 4 * n
      BY <3>4, HeaderLengths
    <3>7. Start(f, b + 2) = e + 20 + 4 * n
      BY <1>1, <1>3, <3>2, <3>5, <3>6
    <3>8. ASSUME Len(up) = 3 PROVE Start(f, b + 3) = e + 20 + 4 * n + 8
      <4>1. 2 \in 1..Len(up) /\ f[b + 2].h = "UDP" /\ b + 2 \in 1..Len(f)
        BY <1>5, <3>1, <3>8 DEF Raw
      <4>2. Start(f, (b + 2) + 1) = Start(f, b + 2) + PieceLen(f[b + 2])
        BY <1>6, <4>1
      <4>3. PieceLen(f[b + 2]) = 8
        BY <4>1, HeaderLengths
      <4>. QED  BY <1>1, <1>3, <3>2, <3>7, <4>2, <4>3
    <3>9. k = 1 \/ (k = 2 /\ Len(up) > 1) \/ (k = 3 /\ Len(up) = 3 /\ Len(up) > 2)
      <4>1. \A m \in 1..3 : \A j \in 1..m : j = 1 \/ (j = 2 /\ m > 1) \/ (j = 3 /\ m = 3 /\ m > 2)
        OBVIOUS
      <4>. QED  BY <3>1, <4>1
    <3>. QED  BY <1>3, <3>1, <3>3, <3>7, <3>8, <3>9
  <2>4. CASE up \in Ipv6Stacks \cup NeighbourStacks
    <3>1. /\ Len(up) \in 1..4 /\ up[1] = "IPV6" /\ (Len(up) = 3 => up[2] \in {"UDP", "ICMPV6"}) /\ k \in 1..Len(up)
          /\ Len(up) = 4 => up[2] = "ICMPV6" /\ up[3] \in NeighbourMsgs
      BY <2>4, StackShapes DEF up
    <3>2. n = 0
      BY <1>1, <2>4, StackCounts
    <3>3. /\ protocol_offsets_bt(Type(l2, up, 0), "IPV6") = e
          /\ Len(up) > 1 => protocol_offsets_bt(Type(l2, up, 0), up[2]) = e + 40
          /\ Len(up) > 2 => protocol_offsets_bt(Type(l2, up, 0), up[3]) = e + (IF up[2] = "UDP" THEN 48 ELSE 44)
          /\ Len(up) > 3 => protocol_offsets_bt(Type(l2, up, 0), up[4]) = e + 40 + MsgLen[up[3]]
      BY <1>1, <2>4, OffsetsIpv6 DEF e
    <3>4. 1 \in 1..Len(up) /\ f[b + 1].h = "IPV6" /\ b + 1 \in 1..Len(f)
      BY <1>5, <3>1 DEF Raw
    <3>5. Start(f, (b + 1) + 1) = Start(f, b + 1) + PieceLen(f[b + 1])
      BY <1>6, <3>4
    <3>6. PieceLen(f[b + 1]) = 40
      BY <3>4, HeaderLengths
    <3>7. Start(f, b + 2) = e + 40
      BY <1>1, <1>3, <3>5, <3>6
    <3>8. ASSUME Len(up) > 2 PROVE Start(f, b + 3) = e + (IF up[2] = "UDP" THEN 48 ELSE 44)
      <4>0. up[2] \in {"UDP", "ICMPV6"}
        BY <3>1, <3>8
      <4>1. 2 \in 1..Len(up) /\ f[b + 2].h = up[2] /\ b + 2 \in 1..Len(f)
        BY <1>5, <3>1, <3>8, <4>0 DEF Raw
      <4>2. Start(f, (b + 2) + 1) = Start(f, b + 2) + PieceLen(f[b + 2])
        BY <1>6, <4>1
      <4>3. PieceLen(f[b + 2]) = (IF up[2] = "UDP" THEN 8 ELSE 4)
        <5>1. f[b + 2].h = "UDP" => PieceLen(f[b + 2]) = 8
          BY <4>1, HeaderLengths
        <5>2. f[b + 2].h \in {"VLAN", "ISID", "MPLS", "ICMPV6"} => PieceLen(f[b + 2]) = 4
          BY <4>1, HeaderLengths
        <5>. QED  BY <4>0, <4>1, <5>1, <5>2
      <4>. QED  BY <1>1, <1>3, <3>7, <4>2, <4>3
    <3>9. ASSUME Len(up) > 3 PROVE Start(f, b + 4) = e + 40 + MsgLen[up[3]]
      <4>0. Len(up) = 4 /\ 3 \in 1..Len(up)
        <5>1. \A m \in 1..4 : m > 3 => m = 4 /\ 3 \in 1..m
          OBVIOUS
        <5>. QED  BY <3>1, <3>9, <5>1
      <4>1. Len(up) = 4 /\ up[2] = "ICMPV6" /\ up[3] \in NeighbourMsgs /\ 3 \in 1..Len(up)
        BY <3>1, <4>0
      <4>2. b + 3 \in 1..Len(f) /\ f[b + 3].h = up[3]
        <5>1. Raw(up[3]) = up[3]
          BY <4>1, Neighbours DEF Raw
        <5>. QED  BY <1>5, <4>1, <5>1
      <4>3. PieceLen(f[b + 3]) + 4 = MsgLen[up[3]]
        BY <4>1, <4>2, MessageLengths
      <4>4. Start(f, (b + 3) + 1) = Start(f, b + 3) + PieceLen(f[b + 3]) /\ PieceLen(f[b + 3]) \in Nat
        BY <1>6, <4>1
      <4>5. Start(f, b + 3) = e + 44
        BY <3>8, <3>9, <4>1
      <4>. QED  BY <1>1, <1>3, <4>3, <4>4, <4>5
    <3>10. k = 1 \/ (k = 2 /\ Len(up) > 1) \/ (k = 3 /\ Len(up) > 2) \/ (k = 4 /\ Len(up) > 3)
      <4>1. \A m \in 1..4 : \A j \in 1..m : j = 1 \/ (j = 2 /\ m > 1) \/ (j = 3 /\ m > 2) \/ (j = 4 /\ m > 3)
        OBVIOUS
      <4>. QED  BY <3>1, <4>1
    <3>. QED  BY <1>3, <3>1, <3>2, <3>3, <3>7, <3>8, <3>9, <3>10
  <2>5. CASE up = <<>>
    BY <2>5 DEF up
  <2>6. up \in Ipv4Stacks \/ up \in Ipv6Stacks \cup NeighbourStacks \/ up = <<>> \/ up = <<"PPPOE", "PPP">>
        \/ up = <<"MPLS">> \/ up = <<"PPPOE">> \/ up = <<"ARPV4">>
    BY <1>1, UpIs DEF Ipv4Stacks
  <2>. QED  BY <2>1, <2>2, <2>3, <2>4, <2>5, <2>6
<1>. QED  BY <1>1, <1>5, <1>7 DEF up, l2, b

\* Getters know a tunnel by its IP version.
LEMMA GetterNames ==
    \A h \in Getters : h \notin {"GTPU", "GRE"} /\ Named(Raw(h), type) \in {h, "GTPU4", "GTPU6", "GRE4", "GRE6"}
<1>1. ASSUME NEW h \in Getters PROVE h \notin {"GTPU", "GRE"}
  <2>1. \A m \in NeighbourMsgs : NeighbourOption[m] \notin {"GTPU", "GRE"}
    BY Neighbours
  <2>. QED  BY <2>1 DEF Getters, eth_getters, vlan_getters, arp_getters, ip_getters, ipv4_getters, tcp_getters,
         udp_getters, sctp_getters, icmpv4_getters, ipv6_getters, nd_getters, icmpv6_getters, mpls_getters,
         pbb_getters, pppoe_getters, gtp_getters, capwap_getters, gre_getters, Icmpv6Options
<1>. QED  BY <1>1 DEF Named, Raw

\* A header has one name in a type.
LEMMA UpperNamed ==
    ASSUME Sound, NEW h \in Getters, h \in HeadersOf(type)
    PROVE  Named(Raw(h), type) = h
<1>. DEFINE l2 == type.l2
            up == type.up
            n == type.n
<1>1. l2 \in L2 /\ Found(up, n) /\ type = Type(l2, up, n)
  BY MatchesFacts DEF Sound
<1>. HIDE DEF l2, up, n
<1>2. ~("GTPU4" \in HeadersOf(type) /\ "GTPU6" \in HeadersOf(type))
  <2>1. "GTPU4" \in HeadersOf(type) => up = <<"IPV4", "UDP", "GTPU4">>
    BY <1>1, Shown
  <2>2. "GTPU6" \in HeadersOf(type) => up = <<"IPV6", "UDP", "GTPU6">>
    BY <1>1, Shown
  <2>3. <<"IPV4", "UDP", "GTPU4">> # <<"IPV6", "UDP", "GTPU6">>
    OBVIOUS
  <2>. QED  BY <2>1, <2>2, <2>3
<1>3. ~("GRE4" \in HeadersOf(type) /\ "GRE6" \in HeadersOf(type))
  <2>1. "GRE4" \in HeadersOf(type) => up = <<"IPV4", "GRE4">>
    BY <1>1, Shown
  <2>2. "GRE6" \in HeadersOf(type) => up = <<"IPV6", "GRE6">>
    BY <1>1, Shown
  <2>3. <<"IPV4", "GRE4">> # <<"IPV6", "GRE6">>
    OBVIOUS
  <2>. QED  BY <2>1, <2>2, <2>3
<1>4. h \notin {"GTPU", "GRE"}
  BY GetterNames
<1>. QED  BY <1>2, <1>3, <1>4 DEF Named, Raw

\* A getter reads its header.
LEMMA InPlace ==
    ASSUME Sound, NEW h \in Getters \cap HeadersOf(type)
    PROVE  \E i \in DOMAIN frame :
             Named(frame[i].h, type) = h /\ Start(frame, i) = protocol_offsets_bt(type, h)
<1>. DEFINE l2 == type.l2
            up == type.up
            n == type.n
<1>1. /\ l2 \in L2 /\ Found(up, n) /\ type = Type(l2, up, n) /\ L2Matches(frame, l2)
      /\ Complete(frame) /\ Matches(frame, type)
  BY MatchesFacts DEF Sound
<1>2. Len(frame) \in Nat /\ DOMAIN frame = 1..Len(frame) /\ frame \in Frames
  BY <1>1, CompleteFacts, FrameFacts
<1>3. ASSUME NEW k \in 1..Len(up), h = up[k]
      PROVE \E i \in DOMAIN frame : Named(frame[i].h, type) = h /\ Start(frame, i) = protocol_offsets_bt(type, h)
  <2>1. /\ Len(l2) + k \in 1..Len(frame) /\ frame[Len(l2) + k].h = Raw(h)
        /\ protocol_offsets_bt(type, h) = Start(frame, Len(l2) + k)
    BY <1>1, <1>3, UpperOffset
  <2>2. Named(Raw(h), type) = h
    BY UpperNamed
  <2>. HIDE DEF l2
  <2>. QED  BY <1>2, <2>1, <2>2
<1>4. ASSUME NEW j \in 1..Len(l2), h = l2[j]
      PROVE \E i \in DOMAIN frame : Named(frame[i].h, type) = h /\ Start(frame, i) = protocol_offsets_bt(type, h)
  <2>. HIDE DEF l2, up, n
  <2>1. Len(l2) \in 1..3 /\ Len(l2) < Len(frame) /\ \A i \in 1..Len(l2) : frame[i].h = l2[i]
    BY <1>1, L2Shape DEF L2Matches
  <2>2. h \in L2Names
    BY <1>1, <1>4, L2Elements
  <2>3. Named(h, type) = h
    BY <2>2 DEF L2Names, Named
  <2>4. /\ protocol_offsets_bt(type, l2[1]) = 0
        /\ Len(l2) > 1 => protocol_offsets_bt(type, l2[2]) = L2Len(<<l2[1]>>)
        /\ Len(l2) > 2 /\ l2[3] # l2[2] => protocol_offsets_bt(type, l2[3]) = L2Len(<<l2[1]>>) + 4
    BY <1>1, OffsetsL2
  <2>5. /\ Start(frame, 1) = 0 /\ Start(frame, 2) = L2Len(<<l2[1]>>)
        /\ Len(l2) > 1 => Start(frame, 3) = L2Len(<<l2[1]>>) + 4
    BY <1>1, LinkStarts
  <2>6. j \in 1..Len(frame)
    BY <1>2, <2>1
  <2>7. frame[j].h = h
    BY <1>4, <2>1
  <2>8. \A m \in 1..3 : \A x \in 1..m : x = 1 \/ (x = 2 /\ m > 1) \/ (x = 3 /\ m > 2 /\ m > 1 /\ 2 \in 1..m)
    OBVIOUS
  <2>9. j = 1 \/ (j = 2 /\ Len(l2) > 1) \/ (j = 3 /\ Len(l2) > 2 /\ Len(l2) > 1 /\ 2 \in 1..Len(l2))
    BY <1>4, <2>1, <2>8
  <2>10. CASE j = 1
    BY <1>2, <1>4, <2>3, <2>4, <2>5, <2>6, <2>7, <2>10
  <2>11. CASE j = 2 /\ Len(l2) > 1
    BY <1>2, <1>4, <2>3, <2>4, <2>5, <2>6, <2>7, <2>11
  <2>12. CASE j = 3 /\ Len(l2) > 2 /\ Len(l2) > 1 /\ l2[3] # l2[2]
    BY <1>2, <1>4, <2>3, <2>4, <2>5, <2>6, <2>7, <2>12
  <2>13. CASE j = 3 /\ Len(l2) > 2 /\ Len(l2) > 1 /\ 2 \in 1..Len(l2) /\ l2[3] = l2[2]
    <3>1. frame[2].h = h /\ 2 \in DOMAIN frame /\ Start(frame, 2) = protocol_offsets_bt(type, h)
      BY <1>2, <1>4, <2>1, <2>4, <2>5, <2>13
    <3>. QED  BY <2>3, <3>1
  <2>. QED  BY <2>9, <2>10, <2>11, <2>12, <2>13
<1>5. DOMAIN l2 = 1..Len(l2) /\ DOMAIN up = 1..Len(up)
  BY <1>1, L2Elements, UpElements
<1>6. (\E j \in DOMAIN l2 : h = l2[j]) \/ (\E k \in DOMAIN up : h = up[k])
  BY DEF HeadersOf
<1>. HIDE DEF l2, up
<1>. QED  BY <1>3, <1>4, <1>5, <1>6

\* The ethertype of the last tag, or the one that announces an I-SID.
LEMMA TagPlace ==
    ASSUME Sound
    PROVE  Tags(type) \in DOMAIN frame /\ Start(frame, Tags(type) + 1) = eth_type_offsets(type) + 2
<1>. DEFINE l2 == type.l2
<1>1. l2 \in L2 /\ L2Matches(frame, l2) /\ Complete(frame) /\ (Backbone(type) <=> HasIsid(l2))
  BY MatchesFacts DEF Sound
<1>2. Len(frame) \in Nat /\ DOMAIN frame = 1..Len(frame) /\ frame \in Frames
  BY <1>1, CompleteFacts, FrameFacts
<1>3. /\ Start(frame, 2) = L2Len(<<l2[1]>>)
      /\ Len(l2) > 1 => Start(frame, 3) = L2Len(<<l2[1]>>) + 4
      /\ Start(frame, Len(l2) + 1) = L2Len(l2)
  BY <1>1, LinkStarts
<1>4. Tags(type) = (IF HasIsid(l2) THEN Len(l2) - 1 ELSE Len(l2))
      /\ eth_type_offsets(type) = L2Len(SubSeq(l2, 1, Tags(type))) - 2
  BY <1>1 DEF Tags, eth_type_offsets
<1>. HIDE DEF l2
<1>5. Len(l2) \in 1..3 /\ Len(l2) < Len(frame) /\ L2Len(l2) \in 14..30
  BY <1>1, L2Shape DEF L2Matches
<1>6. CASE ~HasIsid(l2)
  <2>1. Tags(type) = Len(l2)
    BY <1>4, <1>6
  <2>2. SubSeq(l2, 1, Len(l2)) = l2
    <3>1. \A a, b, c : /\ SubSeq(<<a>>, 1, Len(<<a>>)) = <<a>> /\ SubSeq(<<a, b>>, 1, Len(<<a, b>>)) = <<a, b>>
                       /\ SubSeq(<<a, b, c>>, 1, Len(<<a, b, c>>)) = <<a, b, c>>
      BY Prefixes
    <3>2. \E a, b, c : l2 = <<a>> \/ l2 = <<a, b>> \/ l2 = <<a, b, c>>
      BY <1>1 DEF L2
    <3>. QED  BY <3>1, <3>2
  <2>3. eth_type_offsets(type) = L2Len(l2) - 2
    BY <1>4, <2>1, <2>2
  <2>4. Len(l2) \in 1..Len(frame)
    BY <1>2, <1>5
  <2>5. Start(frame, Tags(type) + 1) = L2Len(l2)
    BY <1>3, <2>1
  <2>6. L2Len(l2) = (L2Len(l2) - 2) + 2
    BY <1>5
  <2>7. Start(frame, Tags(type) + 1) = eth_type_offsets(type) + 2
    BY <2>3, <2>5, <2>6
  <2>8. Tags(type) \in DOMAIN frame
    BY <1>2, <2>1, <2>4
  <2>. QED  BY <2>7, <2>8
<1>7. CASE l2 = <<"ETHERNET", "ISID">>
  <2>1. Len(l2) = 2 /\ l2[1] = "ETHERNET" /\ SubSeq(l2, 1, 1) = <<"ETHERNET">>
    BY <1>7, Prefixes
  <2>2. Tags(type) = 1
    BY <1>4, <1>7, <2>1 DEF HasIsid
  <2>3. eth_type_offsets(type) = 14 - 2
    BY <1>4, <2>1, <2>2, Lengths
  <2>4. Start(frame, 2) = 14
    BY <1>3, <2>1, Lengths
  <2>5. 1 \in 1..Len(frame)
    BY <1>2, <1>5
  <2>. QED  BY <1>2, <2>2, <2>3, <2>4, <2>5
<1>8. CASE l2 = <<"ETHERNET", "VLAN", "ISID">>
  <2>1. Len(l2) = 3 /\ l2[1] = "ETHERNET" /\ SubSeq(l2, 1, 2) = <<"ETHERNET", "VLAN">>
    <3>1. Len(l2) = 3 /\ l2[1] = "ETHERNET"
      BY <1>8
    <3>2. \A a, b, c : SubSeq(<<a, b, c>>, 1, 2) = <<a, b>>
      BY Prefixes
    <3>. QED  BY <1>8, <3>1, <3>2
  <2>2. Tags(type) = 2
    BY <1>4, <1>8, <2>1 DEF HasIsid
  <2>3. eth_type_offsets(type) = 18 - 2
    BY <1>4, <2>1, <2>2, Lengths
  <2>4. Start(frame, 3) = 18
    BY <1>3, <2>1, Lengths
  <2>5. 2 \in 1..Len(frame)
    BY <1>2, <1>5, <2>1
  <2>. QED  BY <1>2, <2>2, <2>3, <2>4, <2>5
<1>. QED  BY <1>6, <1>7, <1>8 DEF HasIsid

\* classifier_get_eth_type reads that ethertype.
LEMMA EtherType ==
    ASSUME Sound
    PROVE  classifier_get_eth_type = frame[Tags(type)].next
<1>. DEFINE k == Tags(type)
            Is(j) == Start(frame, j + 1) = eth_type_offsets(type) + 2
<1>1. frame \in Frames /\ DOMAIN frame = 1..Len(frame) /\ Len(frame) \in Nat
  BY CompleteFacts, FrameFacts DEF Sound
<1>2. k \in DOMAIN frame /\ Is(k)
  BY TagPlace
<1>. HIDE DEF k
<1>3. \A j \in DOMAIN frame : Is(j) => j = k
  <2>1. ASSUME NEW j \in DOMAIN frame, Is(j) PROVE j = k
    <3>. DEFINE x == j + 1
                y == k + 1
    <3>1. x \in 1..(Len(frame) + 1) /\ y \in 1..(Len(frame) + 1)
      BY <1>1, <1>2, <2>1
    <3>2. Start(frame, x) = Start(frame, y)
      BY <1>2, <2>1
    <3>. HIDE DEF x, y
    <3>3. x = y
      BY <1>1, <3>1, <3>2, StartInjective
    <3>. QED  BY <1>1, <1>2, <2>1, <3>3 DEF x, y
  <2>. QED  BY <2>1
<1>4. classifier_get_eth_type = frame[CHOOSE j \in DOMAIN frame : Is(j)].next
  BY DEF classifier_get_eth_type
<1>. HIDE DEF Is
<1>5. (CHOOSE j \in DOMAIN frame : Is(j)) = k
  BY <1>2, <1>3
<1>. QED  BY <1>4, <1>5 DEF k

\* All getters read what they mean in a frame that is followed.
LEMMA SoundInPlace ==
    ASSUME Sound
    PROVE  HeadersInPlace
BY InPlace, EtherType DEF HeadersInPlace

-----------------------------------------------------------------------------
(* The theorems *)

\* Every received frame is followed from its classification on.
LEMMA InitHolds ==
    ASSUME Init
    PROVE  IInv
<1>1. Complete(frame) /\ \A i \in DOMAIN frame : ~frame[i].stale
  BY ReceivedAssumption DEF Init
<1>2. /\ type = parse_ethernet(frame) /\ flags = {} /\ body = NoBody /\ room = Room /\ free = Free
      /\ fate = "pipeline" /\ replicas = 0 /\ spoiled = "" /\ missed = {} /\ uncovered = FALSE /\ ops = 0
  BY DEF Init
<1>3. Sound
  BY <1>1, <1>2, ParseMatches DEF Sound
<1>4. Ledger /\ TypeIsParse /\ SpoiledOnlyWhere /\ ChecksumsRight /\ FateAccounted
  BY <1>1, <1>2 DEF Ledger, StaleIn, TypeIsParse, SpoiledOnlyWhere, ChecksumsRight, FateAccounted
<1>5. Ranges
  <2>1. 0 \in 0..MaxOps /\ 0 \in 0..Free /\ Free \in 0..Free /\ Room \in Nat
    BY BoundsAssumption
  <2>. QED  BY <1>2, <2>1 DEF Ranges
<1>. QED  BY <1>3, <1>4, <1>5 DEF IInv

\* Every call of the pipeline keeps the invariant.
LEMMA NextHolds ==
    ASSUME IInv, [Next]_vars
    PROVE  IInv'
<1>1. ASSUME push_vlan \/ pop_vlan \/ push_mpls \/ pop_mpls PROVE IInv'
  BY <1>1, StepPushVlan, StepPopVlan, StepPushMpls, StepPopMpls
<1>2. ASSUME NEW session \in BOOLEAN, push_pppoe(session) PROVE IInv'
  BY <1>2, StepPushPppoe
<1>3. ASSUME pop_pppoe \/ push_pbb \/ pop_pbb PROVE IInv'
  BY <1>3, StepPopPppoe, StepPushPbb, StepPopPbb
<1>4. ASSUME NEW ip \in {"IPV4", "IPV6"}, push_gtp(ip) \/ push_gre(ip) PROVE IInv'
  BY <1>4, StepPushGtp, StepPushGre
<1>5. ASSUME pop_gtp \/ pop_gre PROVE IInv'
  BY <1>5, StepPopGtp, StepPopGre
<1>6. ASSUME NEW fld \in Fields, set_field(fld) PROVE IInv'
  BY <1>6, StepSetField
<1>7. ASSUME copy_ttl_in \/ copy_ttl_out PROVE IInv'
  BY <1>7, StepCopyTtl
<1>8. ASSUME output_single_packet \/ output_flood \/ output_in_port PROVE IInv'
  BY <1>8, StepOutput
<1>9. ASSUME platform_packet_drop \/ platform_packet_replicate \/ detach_input_port PROVE IInv'
  BY <1>9, StepOthers
<1>10. ASSUME UNCHANGED vars PROVE IInv'
  BY <1>10, StepStutter
<1>. QED  BY <1>1, <1>2, <1>3, <1>4, <1>5, <1>6, <1>7, <1>8, <1>9, <1>10 DEF Next

\* The invariant holds in every reachable state, for every set of complete frames that may
\* arrive, any headroom and pool, and every sequence of actions.
THEOREM Always == Spec => []IInv
<1>1. Init => IInv
  BY InitHolds
<1>2. IInv /\ [Next]_vars => IInv'
  BY NextHolds
<1>. QED  BY <1>1, <1>2, PTL DEF Spec

\* What the invariant says of the types and of the places of headers.
LEMMA Consequences ==
    ASSUME IInv
    PROVE  TypeOK /\ HeadersInPlace
<1>1. type \in Types
  BY MatchesFacts, FoundAreTypes DEF IInv, Sound
<1>2. TypeOK
  BY <1>1 DEF IInv, Ranges, TypeOK, Checksummed
<1>3. HeadersInPlace
  BY SoundInPlace DEF IInv
<1>. QED  BY <1>2, <1>3

\* Type correctness: classify_packet gives a received frame a type of the tables in
\* autogen_pkt_types.c, the push and pop functions of pktclassifier.c lead to types of the
\* tables only, and flags, headroom, free buffers and replicas stay in their ranges.
THEOREM TypeCorrect == Spec => []TypeOK
<1>1. IInv => TypeOK
  BY Consequences
<1>. QED  BY <1>1, Always, PTL

\* As long as nothing was pushed in the wrong place, the type that the push and pop functions
\* of pktclassifier.c keep is the type a parser that starts over at the first byte would find:
\* the tables of autogen_pkt_types.h and parse_ethernet agree after any sequence of calls.
THEOREM TypeKept == Spec => []TypeIsParse
<1>1. IInv => TypeIsParse
  BY DEF IInv
<1>. QED  BY <1>1, Always, PTL

\* As long as the packet was not spoiled, every header that get_..._hdr looks for and the type
\* has is in the frame at the offset the tables give, behind the option words of IPv4, and
\* classifier_get_eth_type reads the last tag's ethertype.
THEOREM InPlaceAlways == Spec => []HeadersInPlace
<1>1. IInv => HeadersInPlace
  BY Consequences
<1>. QED  BY <1>1, Always, PTL

\* Bytes are cut out or inserted in the wrong place by pkt_push and pkt_pop only for the
\* reasons SpoiledOnlyWhere names: an 802.3 header, a tag that PPPoE, MPLS or GTP does not
\* expect, a tunnel header with options.
THEOREM SpoiledWhere == Spec => []SpoiledOnlyWhere
<1>1. IInv => SpoiledOnlyWhere
  BY DEF IInv
<1>. QED  BY <1>1, Always, PTL

\* calculate_checksums_in_software leaves a visible header with a stale checksum only where no
\* flag told of it, the IPv4 header has options, or a checksum function is known to be wrong on
\* the bytes it covers.
THEOREM LeavesRight == Spec => []ChecksumsRight
<1>1. IInv => ChecksumsRight
  BY DEF IInv
<1>. QED  BY <1>1, Always, PTL

\* A packet is lost only when the port it came in on was detached, and a null pointer is only
\* followed by output_flood on an empty pool and by push_gtp of IPv4 on an IPv6 packet.
THEOREM AllAccounted == Spec => []FateAccounted
<1>1. IInv => FateAccounted
  BY DEF IInv
<1>. QED  BY <1>1, Always, PTL
=============================================================================
