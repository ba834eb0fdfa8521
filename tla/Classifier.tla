------------------------------ MODULE Classifier ------------------------------
(***************************************************************************)
(* A packet in the GNU/Linux pipeline: the classifier that finds its        *)
(* headers, the actions that push, pop and edit headers, the lazy checksum  *)
(* calculation and the output.                                              *)
(*                                                                         *)
(* The bytes of a frame are a sequence of pieces, outermost first.  A piece *)
(* is a header: its protocol h, the number n of its optional 4-byte words,  *)
(* the protocol `next' it announces (an ethertype, an IP protocol, a port,  *)
(* the bottom-of-stack bit), and whether the checksum it carries is stale.  *)
(* The classifier state keeps a packet type instead, and the code reaches a *)
(* header at the offset that the tables of PktTypes give for the type.  The *)
(* actions insert and remove bytes at offsets of their own, mostly right    *)
(* after a 14-byte Ethernet header.  Where the two disagree the code works  *)
(* on the wrong bytes: the frame is then spoiled and no longer followed.    *)
(***************************************************************************)
EXTENDS PktTypes, Checksum, FiniteSets

CONSTANTS
    Received,    \* the frames that arrive, as sequences of pieces
    Room,        \* PRE_GUARD_BYTES, the headroom of a buffer
    Free,        \* free buffers of the pool
    MaxOps,      \* bound: actions applied to the packet
    Bodies,      \* what a checksum may have to cover
    Ports        \* logical ports that a flood goes to, the input port apart

ASSUME BoundsAssumption == Room \in Nat /\ Free \in Nat /\ MaxOps \in Nat
ASSUME PortsAssumption == IsFiniteSet(Ports)
ASSUME BodiesAssumption == Bodies \subseteq Body

VARIABLES
    frame, type, flags,   \* bytes, clas_state->type, calculate_checksums_in_sw
    room, free,           \* headroom in bytes, buffers in the pool
    inPort,               \* whether the input port is still attached
    fate,                 \* who has the packet
    replicas,             \* copies handed to ports by a flood
    spoiled,              \* the operation that worked on the wrong bytes
    missed,               \* history: headers whose stale checksum no flag tells of
    uncovered,            \* history: a pop uncovered headers and did not look at them
    body,                 \* the bytes the checksums covered when the packet left
    ops

vars == <<frame, type, flags, room, free, inPort, fate, replicas, spoiled, missed, uncovered, body, ops>>

NoBody == [bytes |-> <<>>, pseudo |-> 0, pad |-> 0]

Piece(h, n, next) == [h |-> h, n |-> n, next |-> next, stale |-> FALSE]
\* A header whose checksum, if it has one, is still to be written.
Unset(h, n, next) == [Piece(h, n, next) EXCEPT !.stale = h # "IPV6"]

HdrLen(h) ==
    CASE h = "ETHERNET" -> 14 [] h = "8023" -> 22
      [] h \in {"VLAN", "ISID", "MPLS", "ICMPV6", "GRE", "ICMPV6_RTR_SOL"} -> 4
      [] h = "PPPOE" -> 6 [] h = "PPP" -> 2 [] h = "ARPV4" -> 28
      [] h = "IPV4" -> 20 [] h = "IPV6" -> 40
      [] h \in {"UDP", "GTPU", "ICMPV4"} -> 8 [] h = "SCTP" -> 12
      [] h = "ICMPV6_RTR_ADV" -> 12
      [] h \in {"ICMPV6_NEIGH_SOL", "ICMPV6_NEIGH_ADV", "TCP"} -> 20
      [] OTHER -> 46      \* payload

PieceLen(p) == HdrLen(p.h) + 4 * p.n

\* Where piece i starts, in bytes from the first one.
Start(f, i) ==
    LET at[j \in 1..(Len(f) + 1)] == IF j = 1 THEN 0 ELSE at[j - 1] + PieceLen(f[j - 1])
    IN  at[i]
Bytes(f) == Start(f, Len(f) + 1)

-----------------------------------------------------------------------------
(* The frames.  The classifier goes by what a header announces and, but for *)
(* GTP, does not look whether there is room for it in the frame: a frame is *)
(* complete when every header that is announced follows, and when there is  *)
(* something behind the headers that only carry others.                     *)

Link == {"ETHERNET", "8023"}
Ethertypes == {"VLAN", "ISID", "MPLS", "PPPOE", "ARPV4", "IPV4", "IPV6"}
IpProtocols == {"TCP", "UDP", "SCTP", "GRE"}

\* The headers that a header may announce, as far as the classifier knows them.
Carries(h) ==
    CASE h \in Link \cup {"VLAN"} -> Ethertypes
      [] h = "MPLS" -> {"MPLS"}
      [] h = "PPPOE" -> {"PPP"}
      [] h = "IPV4" -> IpProtocols \cup {"ICMPV4"}
      [] h = "IPV6" -> IpProtocols \cup {"ICMPV6"}
      [] h = "UDP" -> {"GTPU"}
      [] h = "ICMPV6" -> NeighbourMsgs
      [] h \in NeighbourMsgs -> {NeighbourOption[h]}
      [] OTHER -> {}

FixedLength == Link \cup {"VLAN", "ISID", "MPLS", "PPPOE", "PPP", "IPV6", "UDP", "ICMPV6"} \cup NeighbourMsgs
Carriers == Link \cup {"VLAN", "ISID", "MPLS", "PPPOE", "PPP", "GTPU"}
BringsFrame(p) == p.h = "ISID" \/ (p.h = "GRE" /\ p.next = "ETHERNET")

\* The headers there are, and what else a header may announce.
Names == Link \cup Ethertypes \cup IpProtocols \cup {"PPP", "ICMPV4", "ICMPV6", "GTPU"} \cup NeighbourMsgs
         \cup {NeighbourOption[m] : m \in NeighbourMsgs} \cup {"PAYLOAD", "FRAGMENT", "BOTTOM", "OTHER"}
Pieces == [h : Names, n : Nat, next : Names, stale : BOOLEAN]
Complete(f) ==
    /\ f \in Seq(Pieces) /\ Len(f) > 0 /\ f[1].h \in Link
    /\ \A i \in DOMAIN f :
         /\ f[i].h \in FixedLength => f[i].n = 0
         /\ f[i].h = "IPV4" => f[i].n <= MaxOptions
         /\ f[i].next \in Carries(f[i].h) => i < Len(f) /\ f[i + 1].h = f[i].next
         /\ f[i].h \in Carriers => i < Len(f)
         /\ BringsFrame(f[i]) => i < Len(f) /\ f[i + 1].h \in Link

ASSUME ReceivedAssumption == \A f \in Received : Complete(f) /\ \A i \in DOMAIN f : ~f[i].stale

-----------------------------------------------------------------------------
(* Classification.  Each parse operator takes the frame, the index of the   *)
(* piece it looks at and the type so far.  When the tables know no type for *)
(* one more header the code asserts, and a build without asserts returns    *)
(* with the type it has.                                                    *)

Add(t, h) == LET u == parse_transitions(t, h, 0) IN IF u = Invalid THEN t ELSE u

parse_gtp(f, i, t) ==
    IF Bytes(f) - Start(f, i) < 12 THEN t
    ELSE Add(t, IF "IPV4" \in HeadersOf(t) THEN "GTPU4" ELSE "GTPU6")
parse_gre(t) == Add(t, IF "IPV4" \in HeadersOf(t) THEN "GRE4" ELSE "GRE6")
parse_udp(f, i, t) ==
    IF f[i].next = "GTPU" THEN parse_gtp(f, i + 1, Add(t, "UDP")) ELSE Add(t, "UDP")

parse_ipv4(f, i, t) ==
    LET u == parse_transitions(t, "IPV4", f[i].n)
    IN  CASE f[i].next = "FRAGMENT" -> t
          [] f[i].next \in {"ICMPV4", "TCP", "SCTP"} -> Add(u, f[i].next)
          [] f[i].next = "UDP" -> parse_udp(f, i + 1, u)
          [] f[i].next = "GRE" -> parse_gre(u)
          [] OTHER -> u

\* A neighbour discovery message and the one option looked for in it.
parse_icmpv6(f, i, t) ==
    LET u == Add(t, "ICMPV6")
        m == f[i].next
    IN  IF m \notin NeighbourMsgs THEN u
        ELSE IF f[i + 1].next = NeighbourOption[m] THEN Add(Add(u, m), NeighbourOption[m]) ELSE Add(u, m)

parse_ipv6(f, i, t) ==
    LET u == Add(t, "IPV6")
    IN  CASE f[i].next \in {"TCP", "SCTP"} -> Add(u, f[i].next)
          [] f[i].next = "ICMPV6" -> parse_icmpv6(f, i + 1, u)
          [] f[i].next = "UDP" -> parse_udp(f, i + 1, u)
          [] f[i].next = "GRE" -> parse_gre(u)
          [] OTHER -> u

\* The k-th turn of the loop takes a label, unless one before it was at the bottom.
parse_mpls(f, i, t) ==
    LET labelled[k \in 0..(MaxLabels + 1)] ==
          IF k = 0 THEN t
          ELSE IF \E j \in i..(i + k - 2) : f[j].next # "MPLS" THEN labelled[k - 1]
          ELSE Add(labelled[k - 1], "MPLS")
    IN  labelled[MaxLabels + 1]

parse_pppoe(f, i, t) ==
    IF f[i].next = "PPP" THEN Add(Add(t, "PPPOE"), "PPP") ELSE Add(t, "PPPOE")

\* What an ethertype announces behind a tag or without one; i is the piece after the one
\* that carries it.
parse_ethertype(f, i, t, next) ==
    CASE next \in {"ISID", "ARPV4"} -> Add(t, next)
      [] next = "MPLS" -> parse_mpls(f, i, t)
      [] next = "PPPOE" -> parse_pppoe(f, i, t)
      [] next = "IPV4" -> parse_ipv4(f, i, t)
      [] next = "IPV6" -> parse_ipv6(f, i, t)
      [] OTHER -> t

\* The loop over the tags: no type has a third one, with which it returns.
parse_vlan(f, i, t) ==
    LET u == Add(t, "VLAN")
        v == Add(u, "VLAN")
    IN  IF f[i].next # "VLAN" THEN parse_ethertype(f, i + 1, u, f[i].next)
        ELSE IF f[i + 1].next # "VLAN" THEN parse_ethertype(f, i + 2, v, f[i + 1].next)
        ELSE Add(v, "VLAN")

parse_ethernet(f) ==
    LET t == Type(<<f[1].h>>, <<>>, 0)
    IN  IF f[1].next = "VLAN" THEN parse_vlan(f, 2, t) ELSE parse_ethertype(f, 2, t, f[1].next)

-----------------------------------------------------------------------------
TypeOK ==
    /\ type \in Types
    /\ flags \subseteq {"IPV4", "TCP", "UDP", "SCTP", "ICMPV4", "ICMPV6", "GRE"}
    /\ body \in Bodies \cup {NoBody}
    /\ room \in Nat /\ free \in 0..Free /\ ops \in 0..MaxOps
    /\ fate \in {"pipeline", "queued", "released", "lost", "crashed"}
    /\ replicas \in 0..Free /\ uncovered \in BOOLEAN

Init ==
    /\ frame \in Received
    /\ type = parse_ethernet(frame)
    /\ flags = {}
    /\ body = NoBody
    /\ room = Room /\ free = Free
    /\ inPort = TRUE /\ fate = "pipeline" /\ replicas = 0
    /\ spoiled = "" /\ missed = {} /\ uncovered = FALSE /\ ops = 0

\* An action of a flow entry is applied to the packet.
Apply ==
    /\ fate = "pipeline" /\ spoiled = "" /\ ops < MaxOps
    /\ ops' = ops + 1
    /\ UNCHANGED <<free, inPort, replicas, body>>

Nothing == UNCHANGED <<frame, type, flags, room, fate, spoiled, missed, uncovered>>

\* The protocol of a piece under the name the tables use.
Named(h, t) ==
    CASE h = "GTPU" -> IF "GTPU4" \in HeadersOf(t) THEN "GTPU4" ELSE "GTPU6"
      [] h = "GRE" -> IF "GRE4" \in HeadersOf(t) THEN "GRE4" ELSE "GRE6"
      [] OTHER -> h

\* The pieces that the type shows, each at the offset of the tables.
Visible(f, t) ==
    {i \in DOMAIN f : protocol_offsets_bt(t, Named(f[i].h, t)) = Start(f, i)}
Shows(h) == Named(h, type) \in HeadersOf(type)

Announce(f, next) == [f EXCEPT ![1].next = next]

-----------------------------------------------------------------------------
(* datapacketx86::push and pop: bytes go in and out at offset `at'.         *)

Spoil(op) == spoiled' = op /\ UNCHANGED <<frame, type, flags, room, fate, missed, uncovered>>

\* Mutant of Push: the headroom is not looked at.
push_without_room(op, at, pieces, new, h, set) ==
    LET i == CHOOSE j \in 0..Len(frame) : Start(frame, j + 1) = at
        rest == SubSeq(frame, i + 1, Len(frame))
    IN  IF protocol_offsets_bt(new, h) # at THEN Spoil(op)
        ELSE /\ frame' = IF i = 0 THEN pieces \o rest
                         ELSE Announce(SubSeq(frame, 1, i), pieces[1].h) \o pieces \o rest
             /\ type' = new
             /\ room' = room - Bytes(pieces)
             /\ flags' = flags \cup set
             /\ UNCHANGED <<fate, spoiled, missed, uncovered>>

\* Pieces are pushed at byte `at', which is right when the header h of the new
\* type is found there and no piece is cut in two.
Push(op, at, pieces, new, h, set) ==
    LET i == CHOOSE j \in 0..Len(frame) : Start(frame, j + 1) = at
        rest == SubSeq(frame, i + 1, Len(frame))
    IN  IF Bytes(pieces) > room THEN Nothing
        ELSE IF protocol_offsets_bt(new, h) # at THEN Spoil(op)
        ELSE /\ frame' = IF i = 0 THEN pieces \o rest
                         ELSE Announce(SubSeq(frame, 1, i), pieces[1].h) \o pieces \o rest
             /\ type' = new
             /\ room' = room - Bytes(pieces)
             /\ flags' = flags \cup set
             /\ UNCHANGED <<fate, spoiled, missed, uncovered>>

\* n bytes are popped at `at'; the code means the pieces from first to last.
Cuts(at, n, first, last) == Start(frame, first) = at /\ Start(frame, last + 1) = at + n
Without(first, last) == SubSeq(frame, 1, first - 1) \o SubSeq(frame, last + 1, Len(frame))

\* What is left is classified again, the checksum flags stay.
Pop(op, at, n, first, last, next) ==
    IF ~Cuts(at, n, first, last) THEN Spoil(op)
    ELSE /\ frame' = IF first = 1 THEN Without(first, last) ELSE Announce(Without(first, last), next)
         /\ type' = parse_ethernet(frame')
         /\ room' = room + n
         /\ uncovered' = FALSE
         /\ UNCHANGED <<flags, fate, spoiled, missed>>

\* What follows a piece, which is the ethertype a controller pops it with.
After(i) == IF frame[i].h = "MPLS" /\ frame[i].next = "MPLS" THEN "MPLS" ELSE frame[i + 1].h
First(h) == CHOOSE i \in DOMAIN frame : frame[i].h = h /\ \A j \in 1..(i - 1) : frame[j].h # h

-----------------------------------------------------------------------------
push_vlan ==
    LET new == push_transitions(type, "VLAN")
    IN  /\ Apply
        /\ IF new = Invalid THEN Nothing
           ELSE Push("push_vlan", 14, <<Piece("VLAN", 0, frame[1].next)>>, new, "VLAN", {})

\* pop_vlan does not classify again: the type only loses a tag.
pop_vlan ==
    LET new == pop_transitions(type, "VLAN")
        i == First("VLAN")
    IN  /\ Apply
        /\ IF new = Invalid THEN Nothing
           ELSE IF ~Cuts(14, 4, i, i) THEN Spoil("pop_vlan")
           ELSE /\ frame' = Announce(Without(i, i), frame[i].next)
                /\ type' = new
                /\ room' = room + 4
                /\ uncovered' = (uncovered \/ new # parse_ethernet(frame'))
                /\ UNCHANGED <<flags, fate, spoiled, missed>>

\* Mutant of push_mpls: every label that is pushed carries the bottom-of-stack bit.
push_bottom ==
    LET new == push_transitions(type, "MPLS")
    IN  /\ Apply
        /\ IF new = Invalid THEN Nothing
           ELSE Push("push_mpls", 14, <<Piece("MPLS", 0, "BOTTOM")>>, new, "MPLS", {})
push_mpls ==
    LET new == push_transitions(type, "MPLS")
        below == IF Shows("MPLS") THEN "MPLS" ELSE "BOTTOM"
    IN  /\ Apply
        /\ IF new = Invalid THEN Nothing
           ELSE Push("push_mpls", 14, <<Piece("MPLS", 0, below)>>, new, "MPLS", {})

pop_mpls ==
    LET i == First("MPLS")
    IN  /\ Apply
        /\ IF pop_transitions(type, "MPLS") = Invalid THEN Nothing
           ELSE Pop("pop_mpls", 14, 4, i, i, After(i))

push_pppoe(session) ==
    LET new == push_transitions(type, "PPPOE")
        pieces == IF session THEN <<Piece("PPPOE", 0, "PPP"), Piece("PPP", 0, "OTHER")>>
                  ELSE <<Piece("PPPOE", 0, "OTHER")>>
    IN  /\ Apply
        /\ IF new = Invalid THEN Nothing
           ELSE Push("push_pppoe", 14, pieces, IF session THEN push_transitions(new, "PPP") ELSE new, "PPPOE", {})

\* The protocols of the pieces at `at' with a stale checksum.
Dirty(f, at) == {f[i].h : i \in {j \in at : f[j].stale}}

\* Only the ethertype of the Ethernet header is looked at, so behind a VLAN tag nothing
\* is popped and the tag's ethertype is overwritten.  classify_packet forgets the flags,
\* those of the headers that are still hidden by a tunnel too.
pop_pppoe ==
    LET i == First("PPPOE")
        last == IF frame[i].next = "PPP" THEN i + 1 ELSE i
        n == IF frame[i].next = "PPP" THEN 8 ELSE 6
    IN  /\ Apply /\ Shows("PPPOE")
        /\ IF frame[1].next # "PPPOE" \/ ~Cuts(14, n, i, last) THEN Spoil("pop_pppoe")
           ELSE /\ frame' = Announce(Without(i, last), After(last))
                /\ type' = parse_ethernet(frame')
                /\ flags' = {}
                /\ room' = room + n
                /\ missed' = missed \cup Dirty(frame', DOMAIN frame')
                /\ uncovered' = FALSE
                /\ UNCHANGED <<fate, spoiled>>

push_pbb ==
    LET new == push_transitions(type, "ISID")
    IN  /\ Apply
        /\ IF new = Invalid THEN Nothing
           ELSE Push("push_pbb", 0, <<Piece("ETHERNET", 0, "ISID"), Piece("ISID", 0, "ETHERNET")>>,
                     new, "ETHERNET", {})

pop_pbb ==
    /\ Apply
    /\ IF pop_transitions(type, "ISID") = Invalid THEN Nothing
       ELSE Pop("pop_pbb", 0, 18, 1, 2, "")

\* The IPv4 branch reads the identification of an IPv4 header that an IPv6 packet has not.
push_gtp(ip) ==
    LET gtp == IF ip = "IPV4" THEN "GTPU4" ELSE "GTPU6"
        new == push_transitions(type, gtp)
        pieces == <<Unset(ip, 0, "UDP"), Unset("UDP", 0, "GTPU"), Piece("GTPU", 0, "OTHER")>>
        fits == frame[1].next \in {"IPV4", "IPV6"} /\ Shows(frame[1].next)
        set == {"UDP"} \cup ({ip} \cap {"IPV4"})    \* set by the caller, pushed or not
        Only == flags' = flags \cup set /\ UNCHANGED <<frame, type, room, fate, spoiled, missed, uncovered>>
    IN  /\ Apply
        /\ IF ~fits THEN Only
           ELSE IF ip = "IPV4" /\ ~Shows("IPV4")
                THEN fate' = "crashed" /\ UNCHANGED <<frame, type, flags, room, spoiled, missed, uncovered>>
           ELSE IF new = Invalid \/ Bytes(pieces) > room THEN Only
           ELSE Push("push_gtp", 14, pieces, new, ip, set)

\* The lengths are those of headers without options.
pop_gtp ==
    LET i == First("GTPU")
        ip == frame[1].next
        n == IF ip = "IPV4" THEN 36 ELSE 56
    IN  /\ Apply
        /\ IF ~Shows("GTPU") THEN Nothing
           ELSE IF ip \notin {"IPV4", "IPV6"} THEN Spoil("pop_gtp")
           ELSE IF pop_transitions(type, Named("GTPU", type)) = Invalid THEN Nothing
           ELSE Pop("pop_gtp", 14, n, i - 2, i, After(i))

push_gre(ip) ==
    LET gre == IF ip = "IPV4" THEN "GRE4" ELSE "GRE6"
        new == push_transitions(type, gre)
        pieces == <<Piece("ETHERNET", 0, ip), Unset(ip, 0, "GRE"), Unset("GRE", 2, "ETHERNET")>>
    IN  /\ Apply
        /\ IF new = Invalid THEN Nothing
           ELSE Push("push_gre", 0, pieces, new, "ETHERNET", {"GRE"} \cup ({ip} \cap {"IPV4"}))

\* Mutant of pop_gre: the optional words of the GRE header stay in the frame.
pop_short_gre ==
    LET i == First("GRE")
        ip == frame[1].next
        n == 14 + (IF ip = "IPV4" THEN 20 ELSE 40) + 4
    IN  /\ Apply
        /\ IF ~Shows("GRE") THEN Nothing
           ELSE IF frame[i].next # "ETHERNET" \/ ip \notin {"IPV4", "IPV6"} THEN Nothing
           ELSE Pop("pop_gre", 0, n, 1, i, "")
pop_gre ==
    LET i == First("GRE")
        ip == frame[1].next
        n == 14 + (IF ip = "IPV4" THEN 20 ELSE 40) + 4 + 4 * frame[i].n
    IN  /\ Apply
        /\ IF ~Shows("GRE") THEN Nothing
           ELSE IF frame[i].next # "ETHERNET" \/ ip \notin {"IPV4", "IPV6"} THEN Nothing
           ELSE IF pop_transitions(type, Named("GRE", type)) = Invalid THEN Nothing
           ELSE Pop("pop_gre", 0, n, 1, i, "")

-----------------------------------------------------------------------------
(* Set-field actions.  A field needs a header; it sets some flags; and it   *)
(* is covered by some checksums, as the protocols define them.              *)

Field(h, set, covered) == [h |-> h, set |-> set, covered |-> covered]
L4 == {"TCP", "UDP"}

eth_fields == {Field("ETHERNET", {}, {})}
vlan_fields == {Field("VLAN", {}, {})}
arp_fields == {Field("ARPV4", {}, {})}
ip_fields == {Field("IPV4", {"IPV4"}, {"IPV4"}), Field("IPV6", {}, {})}
nw_ttl == {Field("IPV4", {"IPV4"}, {"IPV4"}), Field("IPV6", {}, {})}
ipv4_fields == {Field("IPV4", {"IPV4"} \cup L4, {"IPV4"} \cup L4)}
ipv6_fields == {Field("IPV6", L4, L4 \cup {"ICMPV6"})}
nd_fields == {Field("ICMPV6", {"ICMPV6"}, {"ICMPV6"})}
icmpv6_fields == {Field("ICMPV6", {"ICMPV6"}, {"ICMPV6"})}
tcp_fields == {Field("TCP", {"TCP"}, {"TCP"})}
udp_fields == {Field("UDP", {"UDP"}, {"UDP"})}
sctp_fields == {Field("SCTP", {"SCTP"}, {"SCTP"})}
icmpv4_fields == {Field("ICMPV4", {"ICMPV4"}, {"ICMPV4"})}
mpls_fields == {Field("MPLS", {}, {})}
pbb_fields == {Field("ISID", {}, {})}
pppoe_fields == {Field("PPPOE", {}, {}), Field("PPP", {}, {})}
gtp_fields == {Field("GTPU", {}, {"UDP"})}
gre_fields == {Field("GRE", {}, {"GRE"})}

Fields == eth_fields \cup vlan_fields \cup arp_fields \cup ip_fields \cup nw_ttl \cup ipv4_fields
          \cup ipv6_fields \cup nd_fields \cup icmpv6_fields \cup tcp_fields \cup udp_fields
          \cup sctp_fields \cup icmpv4_fields \cup mpls_fields \cup pbb_fields \cup pppoe_fields
          \cup gtp_fields \cup gre_fields

Stale(f, hs, at) == [i \in DOMAIN f |-> IF i \in at /\ f[i].h \in hs THEN [f[i] EXCEPT !.stale = TRUE] ELSE f[i]]

\* Mutant of set_field: the header is written without looking whether there is one.
set_missing_field(fld) ==
    /\ Apply
    /\ fate' = IF Shows(fld.h) THEN fate ELSE "crashed"
    /\ frame' = Stale(frame, fld.covered, Visible(frame, type))
    /\ flags' = flags \cup fld.set
    /\ missed' = missed \cup (Dirty(frame', Visible(frame, type)) \ flags')
    /\ UNCHANGED <<type, room, spoiled, uncovered>>
set_field(fld) ==
    /\ Apply /\ Shows(fld.h)
    /\ frame' = Stale(frame, fld.covered, Visible(frame, type))
    /\ flags' = flags \cup fld.set
    /\ missed' = missed \cup (Dirty(frame', Visible(frame, type)) \ flags')
    /\ UNCHANGED <<type, room, fate, spoiled, uncovered>>

\* With one label left the IP version behind it is guessed and its TTL overwritten.
copy_ttl_in ==
    LET i == First("MPLS")
    IN  /\ Apply /\ Shows("MPLS")
        /\ IF type.n > 1 \/ frame[i + 1].h # "IPV4" THEN Nothing
           ELSE /\ frame' = Stale(frame, {"IPV4"}, {i + 1})
                /\ missed' = missed \cup ({"IPV4"} \ flags)
                /\ UNCHANGED <<type, flags, room, fate, spoiled, uncovered>>

\* Towards the label only its TTL is written, which no checksum covers.
copy_ttl_out == Apply /\ Shows("MPLS") /\ Nothing

-----------------------------------------------------------------------------
(* The getters of the match fields: each looks for one of some headers and  *)
(* reads its fields at the offset of the tables.                            *)

eth_getters == {"ETHERNET", "8023"}
vlan_getters == {"VLAN"}
arp_getters == {"ARPV4"}
ip_getters == {"IPV4", "IPV6"}
ipv4_getters == {"IPV4"}
tcp_getters == {"TCP"}
udp_getters == {"UDP"}
sctp_getters == {"SCTP"}
icmpv4_getters == {"ICMPV4"}
ipv6_getters == {"IPV6"}
nd_getters == {"ICMPV6"} \cup {NeighbourOption[m] : m \in NeighbourMsgs} \cup Icmpv6Options
icmpv6_getters == {"ICMPV6"}
mpls_getters == {"MPLS"}
pbb_getters == {"ISID"}
pppoe_getters == {"PPPOE", "PPP"}
gtp_getters == {"GTPU4", "GTPU6"}
capwap_getters == {}      \* CAPWAP and WLAN fields are never found
gre_getters == {"GRE4", "GRE6"}

Getters == eth_getters \cup vlan_getters \cup arp_getters \cup ip_getters \cup ipv4_getters
           \cup tcp_getters \cup udp_getters \cup sctp_getters \cup icmpv4_getters
           \cup ipv6_getters \cup nd_getters \cup icmpv6_getters \cup mpls_getters
           \cup pbb_getters \cup pppoe_getters \cup gtp_getters \cup capwap_getters \cup gre_getters

\* classifier_get_eth_type reads at a place that depends on the type alone.
classifier_get_eth_type ==
    LET i == CHOOSE j \in DOMAIN frame : Start(frame, j + 1) = eth_type_offsets(type) + 2
    IN  frame[i].next

-----------------------------------------------------------------------------
Checksummed == {"IPV4", "TCP", "UDP", "SCTP", "ICMPV4", "ICMPV6", "GRE"}

\* What the checksum functions get right, for every header, body and version of IP.
Good == {x \in Checksummed \X (Bodies \cup {NoBody}) \X BOOLEAN : Right(x[1], x[2], x[3])}
Bad == {x \in Checksummed \X (Bodies \cup {NoBody}) : KnownWrong(x[1], x[2])}

Recalculated(f, hs, b) ==
    LET ipv6 == Shows("IPV6")
        at == {i \in Visible(f, type) : f[i].h \in hs}
        Options(i) == f[i].h = "IPV4" /\ f[i].n > 0
    IN [i \in DOMAIN f |-> IF i \notin at THEN f[i]
                           ELSE [f[i] EXCEPT !.stale = Options(i) \/ <<f[i].h, b, ipv6>> \notin Good]]

\* Mutant of calculate_checksums_in_software: UDP is forgotten.
checksums_without_udp(f, b) == Recalculated(f, flags \ {"UDP"}, b)

\* Flagged checksums of visible headers are recalculated.  The IPv4 one is summed over
\* 20 bytes, which is wrong when there are options.
calculate_checksums_in_software(f, b) == IF flags = {} THEN f ELSE Recalculated(f, flags, b)

Leave ==
    /\ fate = "pipeline" /\ spoiled = ""
    /\ UNCHANGED <<type, flags, room, spoiled, missed, uncovered, ops, inPort>>

\* Which bytes they are only matters when there is a checksum to calculate and to receive.
LeaveWithChecksums(ends) ==
    /\ Leave
    /\ fate' \in ends
    /\ body' \in IF flags = {} \/ fate' # "queued" THEN {body} ELSE Bodies
    /\ frame' = calculate_checksums_in_software(frame, body')

\* Mutant of output_single_packet: a port that is down forgets the packet.
output_forgets ==
    /\ LeaveWithChecksums({"queued", "lost"})
    /\ UNCHANGED <<free, replicas>>
\* A port that is down or gone drops the packet, which releases it.
output_single_packet ==
    /\ LeaveWithChecksums({"queued", "released"})
    /\ UNCHANGED <<free, replicas>>

\* One replica per port, then the original is released.
output_flood ==
    LET n == Cardinality(Ports)
    IN  /\ LeaveWithChecksums({IF n > free THEN "crashed" ELSE "released"})
        /\ IF n > free THEN UNCHANGED <<free, replicas>>
           ELSE free' = free - n /\ replicas' = n

output_in_port ==
    /\ LeaveWithChecksums(IF inPort THEN {"queued", "released"} ELSE {"lost"})
    /\ UNCHANGED <<free, replicas>>

platform_packet_drop ==
    /\ Leave /\ fate' = "released" /\ UNCHANGED <<frame, free, replicas, body>>

\* The copy goes on through the pipeline, in a buffer with all of its headroom.
platform_packet_replicate ==
    /\ fate = "pipeline" /\ spoiled = "" /\ free > 0 /\ ops < MaxOps
    /\ free' = free - 1 /\ room' = Room /\ ops' = ops + 1
    /\ UNCHANGED <<frame, type, flags, inPort, fate, replicas, spoiled, missed, uncovered, body>>

detach_input_port ==
    /\ inPort /\ fate = "pipeline"
    /\ inPort' = FALSE
    /\ UNCHANGED <<frame, type, flags, room, free, fate, replicas, spoiled, missed, uncovered, body, ops>>

Next ==
    \/ push_vlan \/ pop_vlan \/ push_mpls \/ pop_mpls
    \/ \E session \in BOOLEAN : push_pppoe(session)
    \/ pop_pppoe \/ push_pbb \/ pop_pbb
    \/ \E ip \in {"IPV4", "IPV6"} : push_gtp(ip) \/ push_gre(ip)
    \/ pop_gtp \/ pop_gre
    \/ \E fld \in Fields : set_field(fld)
    \/ copy_ttl_in \/ copy_ttl_out
    \/ output_single_packet \/ output_flood \/ output_in_port \/ platform_packet_drop
    \/ platform_packet_replicate \/ detach_input_port

Spec == Init /\ [][Next]_vars

-----------------------------------------------------------------------------
\* The type that pushes and pops maintain step by step is the one that classifying the
\* frame from its first byte gives.
TypeIsParse == spoiled = "" /\ ~uncovered => type = parse_ethernet(frame)

\* Every header that a getter looks for and the type has is in the frame at the offset
\* the tables give for it: flow entries are matched against the fields they name.  The
\* ethertype is that of the last tag, or the one that announces an I-SID.
HeadersInPlace ==
    spoiled = "" =>
      /\ \A h \in Getters \cap HeadersOf(type) :
           \E i \in DOMAIN frame :
             Named(frame[i].h, type) = h /\ Start(frame, i) = protocol_offsets_bt(type, h)
      /\ classifier_get_eth_type =
           frame[Tags(type)].next

\* Bytes are only cut out of or inserted into the wrong place behind an 802.3 header,
\* behind a VLAN tag or an I-SID for MPLS, PPPoE and GTP, or when a tunnel header that
\* is popped has options.
SpoiledOnlyWhere ==
    CASE spoiled \in {"push_vlan", "pop_vlan"} -> type.l2[1] = "8023"
      [] spoiled \in {"push_mpls", "pop_mpls", "push_pppoe", "pop_pppoe", "push_gtp"} -> type.l2 # <<"ETHERNET">>
      [] spoiled = "pop_gtp" -> type.l2 # <<"ETHERNET">> \/ frame[2].n > 0 \/ frame[4].n > 0
      [] spoiled = "pop_gre" -> type.l2[1] = "8023" \/ frame[2].n > 0
      [] spoiled = "push_gre" \/ spoiled = "push_pbb" \/ spoiled = "pop_pbb" -> FALSE
      [] OTHER -> TRUE

\* A packet leaves with right checksums in every header the switch can see, except those
\* that an edit without a flag or a PPPoE pop left stale, IPv4 headers with options, and
\* what the checksum functions get wrong: a second carry and an odd length (IPv4, ICMPv4), a
\* frame that is filled up to its least length (TCP, UDP, ICMPv6, SCTP), a sum of zero (UDP).
ChecksumsRight ==
    fate = "queued" =>
      \A i \in Visible(frame, type) :
        frame[i].stale => \/ frame[i].h \in missed
                          \/ frame[i].h = "IPV4" /\ frame[i].n > 0
                          \/ frame[i].h \in flags /\ <<frame[i].h, body>> \in Bad

\* Every packet ends up queued at a port or back in the pool.  It is lost only when the
\* port it came in on was detached while it was in the pipeline.  The code dereferences a
\* null pointer in two places only, a flood that finds the pool empty and an IPv4 GTP
\* tunnel pushed on an IPv6 packet: everywhere else an action looks whether the packet
\* has the header it works on.
FateAccounted ==
    /\ fate = "lost" => ~inPort
    /\ fate = "crashed" => free < Cardinality(Ports) \/ (~Shows("IPV4") /\ frame[1].next = "IPV6")
=============================================================================
