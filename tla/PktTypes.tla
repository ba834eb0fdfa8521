------------------------------- MODULE PktTypes -------------------------------
(***************************************************************************)
(* The packet types of the classifier and the six generated tables over     *)
(* them (autogen_pkt_types).  A type is the stack of headers the classifier *)
(* recognised: one of eight layer 2 prefixes, the headers above it, and n,  *)
(* the number of MPLS labels or of 4-byte IPv4 option words.                *)
(***************************************************************************)
EXTENDS Integers, Sequences

L2 == {<<"ETHERNET">>, <<"ETHERNET", "ISID">>, <<"ETHERNET", "VLAN", "ISID">>, <<"8023">>,
       <<"ETHERNET", "VLAN">>, <<"8023", "VLAN">>, <<"ETHERNET", "VLAN", "VLAN">>,
       <<"8023", "VLAN", "VLAN">>}

MaxLabels == 32
MaxOptions == 15

Type(l2, up, n) == [l2 |-> l2, up |-> up, n |-> n]
Invalid == Type(<<>>, <<>>, 0)      \* PT_INVALID
Rows(up, counts) == {Type(l2, up, n) : l2 \in L2, n \in counts}

plain_types == Rows(<<>>, {0})
mpls_types == Rows(<<"MPLS">>, 1..MaxLabels)
pppoe_types == Rows(<<"PPPOE">>, {0}) \cup Rows(<<"PPPOE", "PPP">>, {0})
arpv4_types == Rows(<<"ARPV4">>, {0})
ipv4_types == Rows(<<"IPV4">>, 0..MaxOptions)
icmpv4_types == Rows(<<"IPV4", "ICMPV4">>, 0..MaxOptions)
ipv4_tcp_types == Rows(<<"IPV4", "TCP">>, 0..MaxOptions)
ipv4_udp_types == Rows(<<"IPV4", "UDP">>, 0..MaxOptions)
gtpu4_types == Rows(<<"IPV4", "UDP", "GTPU4">>, 0..MaxOptions)
ipv4_sctp_types == Rows(<<"IPV4", "SCTP">>, 0..MaxOptions)
gre4_types == Rows(<<"IPV4", "GRE4">>, 0..MaxOptions)

\* The ICMPv6 messages with a header of their own, each with its option.
NeighbourOption == [ICMPV6_RTR_SOL   |-> "ICMPV6_RTR_SOL_OPTS_LLADR_SRC",
                    ICMPV6_RTR_ADV   |-> "ICMPV6_RTR_ADV_OPTS_LLADR_SRC",
                    ICMPV6_NEIGH_SOL |-> "ICMPV6_NEIGH_SOL_OPTS_LLADR_SRC",
                    ICMPV6_NEIGH_ADV |-> "ICMPV6_NEIGH_ADV_OPTS_LLADR_TGT"]
NeighbourMsgs == DOMAIN NeighbourOption
Icmpv6Options == {"ICMPV6_OPTS_LLADR_SRC", "ICMPV6_OPTS_LLADR_TGT", "ICMPV6_OPTS_PREFIX_INFO"}

ipv6_types ==
    UNION {Rows(up, {0}) :
             up \in {<<"IPV6">>, <<"IPV6", "ICMPV6">>, <<"IPV6", "TCP">>, <<"IPV6", "UDP">>,
                     <<"IPV6", "UDP", "GTPU6">>, <<"IPV6", "SCTP">>, <<"IPV6", "GRE6">>}
                    \cup {<<"IPV6", "ICMPV6", h>> : h \in NeighbourMsgs \cup Icmpv6Options}
                    \cup {<<"IPV6", "ICMPV6", h, NeighbourOption[h]>> : h \in NeighbourMsgs}}

Types == plain_types \cup mpls_types \cup pppoe_types \cup arpv4_types \cup ipv4_types
         \cup icmpv4_types \cup ipv4_tcp_types \cup ipv4_udp_types \cup gtpu4_types
         \cup ipv4_sctp_types \cup gre4_types \cup ipv6_types

Untagged(t) == t.l2 \in {<<"ETHERNET">>, <<"8023">>}
Backbone(t) == "ISID" \in {t.l2[i] : i \in DOMAIN t.l2}
Top(t) == IF t.up = <<>> THEN "L2" ELSE t.up[Len(t.up)]
\* The block of rows of the tables that a type belongs to.
Block(t) ==
    CASE t.up = <<>> -> "L2"
      [] t.up # <<>> /\ t.up[1] = "IPV6" -> "IPV6"
      [] Top(t) = "PPP" -> "PPPOE"
      [] OTHER -> Top(t)

-----------------------------------------------------------------------------
(* protocol_offsets_bt: where each header of a type starts, in bytes from   *)
(* the first byte of the frame.  Headers a type does not have map to -1.    *)

L2Len(l2) == (IF l2[1] = "8023" THEN 22 ELSE 14) + 4 * (Len(l2) - 1)

\* Of two tags the outer one.
plain_offsets(t, h) ==
    IF h = t.l2[1] THEN 0
    ELSE IF h = t.l2[2] THEN L2Len(<<t.l2[1]>>) ELSE L2Len(<<t.l2[1]>>) + 4
mpls_offsets(t) == L2Len(t.l2)
pppoe_offsets(t, h) == IF h = "PPP" THEN L2Len(t.l2) + 6 ELSE L2Len(t.l2)
arpv4_offsets(t) == L2Len(t.l2)
ipv4_offsets(t) == L2Len(t.l2)
\* Mutant of Ipv4End: the header of an IPv4 packet is taken to have no options.
WithoutOptions(t) == L2Len(t.l2) + 20
Ipv4End(t) == L2Len(t.l2) + 20 + 4 * t.n
icmpv4_offsets(t) == Ipv4End(t)
ipv4_tcp_offsets(t) == Ipv4End(t)
ipv4_udp_offsets(t) == Ipv4End(t)
gtpu4_offsets(t) == Ipv4End(t) + 8
ipv4_sctp_offsets(t) == Ipv4End(t)
gre4_offsets(t) == Ipv4End(t)
MsgLen == [ICMPV6_RTR_SOL |-> 8, ICMPV6_RTR_ADV |-> 16, ICMPV6_NEIGH_SOL |-> 24, ICMPV6_NEIGH_ADV |-> 24]
ipv6_offsets(t, h) ==
    LET ip == L2Len(t.l2)
    IN  CASE h = "IPV6" -> ip
          [] h \in {"ICMPV6", "TCP", "UDP", "SCTP", "GRE6"} -> ip + 40
          [] h = "GTPU6" -> ip + 48
          [] h \in NeighbourMsgs \cup Icmpv6Options -> ip + 44
          [] OTHER -> ip + 40 + MsgLen[CHOOSE m \in NeighbourMsgs : NeighbourOption[m] = h]

HeadersOf(t) == {t.l2[i] : i \in DOMAIN t.l2} \cup {t.up[i] : i \in DOMAIN t.up}

upper_offsets(t, h) ==
    CASE h = "MPLS" -> mpls_offsets(t)
      [] h \in {"PPPOE", "PPP"} -> pppoe_offsets(t, h)
      [] h = "ARPV4" -> arpv4_offsets(t)
      [] h = "IPV4" -> ipv4_offsets(t)
      [] h = "ICMPV4" -> icmpv4_offsets(t)
      [] h = "TCP" -> ipv4_tcp_offsets(t)
      [] h = "UDP" -> ipv4_udp_offsets(t)
      [] h = "GTPU4" -> gtpu4_offsets(t)
      [] h = "SCTP" -> ipv4_sctp_offsets(t)
      [] h = "GRE4" -> gre4_offsets(t)

protocol_offsets_bt(t, h) ==
    CASE h \notin HeadersOf(t) -> -1
      [] h \in {t.l2[i] : i \in DOMAIN t.l2} -> plain_offsets(t, h)
      [] Block(t) = "IPV6" /\ h \in {t.up[i] : i \in DOMAIN t.up} -> ipv6_offsets(t, h)
      [] OTHER -> upper_offsets(t, h)

\* The tags in front of an I-SID.  Where the ethertype that announces what follows them is
\* read and written.
Tags(t) == IF Backbone(t) THEN Len(t.l2) - 1 ELSE Len(t.l2)
eth_type_offsets(t) == L2Len(SubSeq(t.l2, 1, Tags(t))) - 2

mpls_num_of_labels(t) == IF t.up = <<"MPLS">> THEN t.n ELSE 0

-----------------------------------------------------------------------------
(* parse_transitions: the type after one more header was recognised.        *)

ValidType(t) == IF t \in Types THEN t ELSE Invalid
Extend(t, h, next) == IF h \in next THEN [t EXCEPT !.up = Append(@, h)] ELSE Invalid

plain_parse(t, h, n) ==
    CASE h \in {"VLAN", "ISID"} -> IF Append(t.l2, h) \in L2 THEN [t EXCEPT !.l2 = Append(@, h)] ELSE Invalid
      [] h = "IPV4" -> ValidType([t EXCEPT !.up = <<h>>, !.n = n])
      [] h = "MPLS" -> Type(t.l2, <<h>>, 1)
      [] OTHER -> Extend(t, h, {"PPPOE", "ARPV4", "IPV6"})
mpls_parse(t, h) == IF h = "MPLS" /\ t.n < MaxLabels THEN [t EXCEPT !.n = @ + 1] ELSE Invalid
pppoe_parse(t, h) == IF Top(t) = "PPPOE" THEN Extend(t, h, {"PPP"}) ELSE Invalid
ipv4_parse(t, h) == Extend(t, h, {"ICMPV4", "TCP", "UDP", "SCTP", "GRE4"})
ipv4_udp_parse(t, h) == Extend(t, h, {"GTPU4"})
arpv4_parse(t, h) == Invalid          \* as the five below: nothing is looked for behind it
icmpv4_parse(t, h) == Invalid
ipv4_tcp_parse(t, h) == Invalid
gtpu4_parse(t, h) == Invalid
ipv4_sctp_parse(t, h) == Invalid
gre4_parse(t, h) == Invalid
ipv6_parse(t, h) ==
    CASE Top(t) = "IPV6" -> Extend(t, h, {"ICMPV6", "TCP", "UDP", "SCTP", "GRE6"})
      [] Top(t) = "UDP" -> Extend(t, h, {"GTPU6"})
      [] Top(t) = "ICMPV6" -> Extend(t, h, NeighbourMsgs \cup Icmpv6Options)
      [] Top(t) \in NeighbourMsgs -> Extend(t, h, {NeighbourOption[Top(t)]})
      [] OTHER -> Invalid

parse_transitions(t, h, n) ==
    CASE Block(t) = "L2" -> plain_parse(t, h, n)
      [] Block(t) = "MPLS" -> mpls_parse(t, h)
      [] Block(t) = "PPPOE" -> pppoe_parse(t, h)
      [] Block(t) = "ARPV4" -> arpv4_parse(t, h)
      [] Block(t) = "IPV4" -> ipv4_parse(t, h)
      [] Block(t) = "ICMPV4" -> icmpv4_parse(t, h)
      [] Block(t) = "TCP" -> ipv4_tcp_parse(t, h)
      [] Block(t) = "UDP" -> ipv4_udp_parse(t, h)
      [] Block(t) = "GTPU4" -> gtpu4_parse(t, h)
      [] Block(t) = "SCTP" -> ipv4_sctp_parse(t, h)
      [] Block(t) = "GRE4" -> gre4_parse(t, h)
      [] Block(t) = "IPV6" -> ipv6_parse(t, h)

-----------------------------------------------------------------------------
(* push_transitions: the type after a header was pushed.  Nothing is pushed *)
(* on a frame with an I-SID.                                                *)

plain_push(t, h) ==
    CASE h = "MPLS" -> Type(t.l2, <<h>>, 1)
      [] h = "VLAN" -> ValidType([t EXCEPT !.l2 = Append(@, h)])
      [] h = "ISID" -> Type(<<"ETHERNET", h>>, <<>>, 0)
      [] h = "PPPOE" -> Type(t.l2, <<h>>, 0)
      [] h = "GRE4" -> Type(<<"ETHERNET">>, <<"IPV4", h>>, 0)
      [] h = "GRE6" -> Type(<<"ETHERNET">>, <<"IPV6", h>>, 0)
      [] OTHER -> Invalid
mpls_push(t, h) ==
    CASE h = "MPLS" -> IF t.n <= 30 THEN [t EXCEPT !.n = @ + 1] ELSE Invalid
      [] h = "PPPOE" -> Invalid
      [] OTHER -> plain_push(t, h)
pppoe_push(t, h) ==
    CASE h = "PPPOE" -> Invalid
      [] h = "PPP" -> IF Top(t) = "PPPOE" THEN [t EXCEPT !.up = <<"PPPOE", h>>] ELSE Invalid
      [] OTHER -> plain_push(t, h)
arpv4_push(t, h) == plain_push(t, h)
\* A GTP tunnel goes on an IP packet without options and without tags.
ip_push(t, h) ==
    CASE h = "GTPU4" /\ Untagged(t) /\ t.n = 0 -> Type(t.l2, <<"IPV4", "UDP", h>>, 0)
      [] h = "GTPU6" /\ Untagged(t) /\ t.n = 0 -> Type(t.l2, <<"IPV6", "UDP", h>>, 0)
      [] OTHER -> plain_push(t, h)
ipv4_push(t, h) == ip_push(t, h)
icmpv4_push(t, h) == ip_push(t, h)
ipv4_tcp_push(t, h) == ip_push(t, h)
ipv4_udp_push(t, h) == ip_push(t, h)
ipv4_sctp_push(t, h) == ip_push(t, h)
gtpu4_push(t, h) == plain_push(t, h)
gre_push(t, h) == IF h \in {"GRE4", "GRE6"} THEN Invalid ELSE ip_push(t, h)
gre4_push(t, h) == gre_push(t, h)
ipv6_push(t, h) ==
    CASE Top(t) = "GTPU6" -> plain_push(t, h)
      [] Top(t) = "GRE6" -> gre_push(t, h)
      [] OTHER -> ip_push(t, h)

push_transitions(t, h) ==
    IF Backbone(t) THEN Invalid
    ELSE CASE Block(t) = "L2" -> plain_push(t, h)
           [] Block(t) = "MPLS" -> mpls_push(t, h)
           [] Block(t) = "PPPOE" -> pppoe_push(t, h)
           [] Block(t) = "ARPV4" -> arpv4_push(t, h)
           [] Block(t) = "IPV4" -> ipv4_push(t, h)
           [] Block(t) = "ICMPV4" -> icmpv4_push(t, h)
           [] Block(t) = "TCP" -> ipv4_tcp_push(t, h)
           [] Block(t) = "UDP" -> ipv4_udp_push(t, h)
           [] Block(t) = "GTPU4" -> gtpu4_push(t, h)
           [] Block(t) = "SCTP" -> ipv4_sctp_push(t, h)
           [] Block(t) = "GRE4" -> gre4_push(t, h)
           [] Block(t) = "IPV6" -> ipv6_push(t, h)

-----------------------------------------------------------------------------
(* pop_transitions: the type after the outermost header h was taken off.    *)

plain_pop(t, h) ==
    CASE h = "VLAN" -> IF Len(t.l2) > 1 /\ ~Backbone(t) THEN [t EXCEPT !.l2 = SubSeq(@, 1, Len(@) - 1)] ELSE Invalid
      [] h = "ISID" /\ t.l2 = <<"ETHERNET", "ISID">> ->
           IF t.up = <<>> THEN t ELSE [t EXCEPT !.l2 = <<"ETHERNET">>]
      [] h = "PPPOE" /\ ~Backbone(t) -> t
      [] OTHER -> Invalid
mpls_pop(t, h) ==
    CASE h = "MPLS" /\ ~Backbone(t) -> IF t.n > 1 THEN [t EXCEPT !.n = @ - 1] ELSE Type(t.l2, <<>>, 0)
      [] OTHER -> plain_pop(t, h)
pppoe_pop(t, h) ==
    CASE Backbone(t) -> plain_pop(t, h)
      [] ~Backbone(t) /\ h = "PPPOE" -> IF Top(t) = "PPPOE" THEN Type(t.l2, <<>>, 0) ELSE Invalid
      [] ~Backbone(t) /\ h = "PPP" -> IF Top(t) = "PPP" THEN Type(t.l2, <<"PPPOE">>, 0) ELSE Invalid
      [] OTHER -> plain_pop(t, h)
arpv4_pop(t, h) == plain_pop(t, h)
ipv4_pop(t, h) == plain_pop(t, h)
icmpv4_pop(t, h) == plain_pop(t, h)
ipv4_tcp_pop(t, h) == plain_pop(t, h)
ipv4_udp_pop(t, h) == plain_pop(t, h)
ipv4_sctp_pop(t, h) == plain_pop(t, h)
tunnel_pop(t, h) ==
    IF h = Top(t) THEN IF Untagged(t) THEN Type(t.l2, <<>>, 0) ELSE Invalid ELSE plain_pop(t, h)
gtpu4_pop(t, h) == tunnel_pop(t, h)
gre4_pop(t, h) == tunnel_pop(t, h)
ipv6_pop(t, h) == IF Top(t) \in {"GTPU6", "GRE6"} THEN tunnel_pop(t, h) ELSE plain_pop(t, h)

pop_transitions(t, h) ==
    CASE Block(t) = "L2" -> plain_pop(t, h)
      [] Block(t) = "MPLS" -> mpls_pop(t, h)
      [] Block(t) = "PPPOE" -> pppoe_pop(t, h)
      [] Block(t) = "ARPV4" -> arpv4_pop(t, h)
      [] Block(t) = "IPV4" -> ipv4_pop(t, h)
      [] Block(t) = "ICMPV4" -> icmpv4_pop(t, h)
      [] Block(t) = "TCP" -> ipv4_tcp_pop(t, h)
      [] Block(t) = "UDP" -> ipv4_udp_pop(t, h)
      [] Block(t) = "GTPU4" -> gtpu4_pop(t, h)
      [] Block(t) = "SCTP" -> ipv4_sctp_pop(t, h)
      [] Block(t) = "GRE4" -> gre4_pop(t, h)
      [] Block(t) = "IPV6" -> ipv6_pop(t, h)
=============================================================================
