--------------------------- MODULE Of13Translation ---------------------------
(***************************************************************************)
(* of13_translation_utils: OpenFlow 1.3 messages to pipeline structures and *)
(* back, in the build with the experimental extensions.                     *)
(***************************************************************************)
EXTENDS Translation

\* The fastest speed named; 10GB is not among them.
of13_get_port_speed_kb(features) ==
    LET Has(S) == features \cap S # {}
    IN CASE Has({"1TB_FD"}) -> 1000000000 [] Has({"100GB_FD"}) -> 100000000
         [] Has({"40GB_FD"}) -> 40000000 [] Has({"1GB_FD", "1GB_HD"}) -> 1000000
         [] Has({"100MB_FD", "100MB_HD"}) -> 100000 [] Has({"10MB_FD", "10MB_HD"}) -> 10000
         [] OTHER -> 0

-----------------------------------------------------------------------------
(* Matches *)

of13_map_vlan_vid(x) ==
    of1x_init_vlan_vid_match(x.value, x.mask,
        IF x.value = PRESENT /\ x.mask = PRESENT THEN "ANY"
        ELSE IF x.value = 0 /\ x.mask = FULL THEN "NONE" ELSE "SPECIFIC")

of13_map_link_matches(m) ==
    Exact(m, {"IN_PORT", "IN_PHY_PORT", "ETH_TYPE", "VLAN_PCP"})
    @@ Masked(m, {"METADATA", "ETH_SRC", "ETH_DST"})
    @@ [f \in DOMAIN m \cap {"VLAN_VID"} |-> of13_map_vlan_vid(m[f])]

of13_map_ipv4_matches(m) ==
    Exact(m, {"IP_DSCP", "IP_ECN", "IP_PROTO", "TCP_SRC", "TCP_DST", "UDP_SRC", "UDP_DST",
              "SCTP_SRC", "SCTP_DST", "ICMPV4_TYPE", "ICMPV4_CODE", "ARP_OP"})
    @@ Masked(m, {"IPV4_SRC", "IPV4_DST", "ARP_SHA", "ARP_SPA", "ARP_THA", "ARP_TPA"})

\* The match on IPv6 extension headers is compiled out.
of13_map_ipv6_matches(m) ==
    Exact(m, {"ICMPV6_TYPE", "ICMPV6_CODE", "IPV6_ND_TARGET", "IPV6_ND_SLL", "IPV6_ND_TLL",
              "MPLS_LABEL", "MPLS_TC", "MPLS_BOS"})
    @@ Masked(m, {"IPV6_SRC", "IPV6_DST", "IPV6_FLABEL", "TUNNEL_ID", "PBB_ISID"})

of13_map_experimental_matches(m) ==
    Exact(m, {"PPPOE_CODE", "PPPOE_TYPE", "PPPOE_SID", "PPP_PROT", "GTP_MSG_TYPE",
              "GRE_VERSION", "GRE_PROT_TYPE", "GRE_KEY"})
    @@ Masked(m, {"GTP_TEID", "CAPWAP_WBID", "CAPWAP_RID", "CAPWAP_FLAGS", "WLAN_FC",
                  "WLAN_TYPE", "WLAN_SUBTYPE", "WLAN_DIRECTION", "WLAN_ADDRESS_1",
                  "WLAN_ADDRESS_2", "WLAN_ADDRESS_3"})

of13_map_flow_entry_matches(m) ==
    of13_map_link_matches(m) @@ of13_map_ipv4_matches(m)
    @@ of13_map_ipv6_matches(m) @@ of13_map_experimental_matches(m)

\* Mutant of of13_map_reverse_vlan_vid: the bit that says a tag is there is forgotten.
vid_without_present(h) ==
    CASE h.present = "NONE" -> [value |-> 0, mask |-> FULL]
      [] h.present = "ANY" -> [value |-> PRESENT, mask |-> PRESENT]
      [] h.mask = PRESENT - 1 -> [value |-> h.value, mask |-> FULL]
      [] OTHER -> [value |-> h.value, mask |-> h.mask]

of13_map_reverse_vlan_vid(h) ==
    CASE h.present = "NONE" -> [value |-> 0, mask |-> FULL]
      [] h.present = "ANY" -> [value |-> PRESENT, mask |-> PRESENT]
      [] h.mask = PRESENT - 1 -> [value |-> WithPresent(h.value), mask |-> FULL]
      [] OTHER -> [value |-> h.value, mask |-> h.mask]

of13_map_reverse_link_matches(h) ==
    Exact(h, {"IN_PORT", "IN_PHY_PORT", "ETH_TYPE", "VLAN_PCP", "ARP_OP", "IP_DSCP", "IP_ECN",
              "IP_PROTO"})
    @@ Masked(h, {"METADATA", "ETH_SRC", "ETH_DST", "ARP_SHA", "ARP_SPA", "ARP_THA", "ARP_TPA",
                  "IPV4_SRC", "IPV4_DST"})
    @@ [f \in DOMAIN h \cap {"VLAN_VID"} |-> of13_map_reverse_vlan_vid(h[f])]

\* The mask of a tunnel is not reported.
of13_map_reverse_network_matches(h) ==
    Exact(h, {"TCP_SRC", "TCP_DST", "UDP_SRC", "UDP_DST", "SCTP_SRC", "SCTP_DST",
              "ICMPV4_TYPE", "ICMPV4_CODE", "ICMPV6_TYPE", "ICMPV6_CODE", "IPV6_ND_TARGET",
              "IPV6_ND_SLL", "IPV6_ND_TLL", "MPLS_LABEL", "MPLS_TC", "MPLS_BOS", "TUNNEL_ID",
              "IPV6_EXTHDR"})
    @@ Masked(h, {"IPV6_SRC", "IPV6_DST", "IPV6_FLABEL", "PBB_ISID"})

of13_map_reverse_experimental_matches(h) ==
    Exact(h, {"PPPOE_CODE", "PPPOE_TYPE", "PPPOE_SID", "PPP_PROT", "GTP_MSG_TYPE",
              "GRE_VERSION", "GRE_PROT_TYPE", "GRE_KEY"})
    @@ Masked(h, {"GTP_TEID", "CAPWAP_WBID", "CAPWAP_RID", "CAPWAP_FLAGS", "WLAN_FC",
                  "WLAN_TYPE", "WLAN_SUBTYPE", "WLAN_DIRECTION", "WLAN_ADDRESS_1",
                  "WLAN_ADDRESS_2", "WLAN_ADDRESS_3"})

of13_map_reverse_flow_entry_matches(h) ==
    of13_map_reverse_link_matches(h) @@ of13_map_reverse_network_matches(h)
    @@ of13_map_reverse_experimental_matches(h)

\* A field that is zero in the packet is left out of a packet-in.
of13_map_reverse_packet_matches(pm) ==
    NonZero(pm, {"IN_PORT", "IN_PHY_PORT", "METADATA", "ETH_DST", "ETH_SRC", "ETH_TYPE",
        "VLAN_VID", "VLAN_PCP", "ARP_OP", "ARP_SHA", "ARP_SPA", "ARP_THA", "ARP_TPA", "IP_DSCP",
        "IP_ECN", "IP_PROTO", "IPV4_SRC", "IPV4_DST", "TCP_SRC", "TCP_DST", "UDP_SRC",
        "UDP_DST", "SCTP_SRC", "SCTP_DST", "ICMPV4_TYPE", "ICMPV4_CODE", "IPV6_SRC",
        "IPV6_DST", "IPV6_FLABEL", "IPV6_ND_TARGET", "IPV6_ND_SLL", "IPV6_ND_TLL",
        "ICMPV6_TYPE", "ICMPV6_CODE", "MPLS_LABEL", "MPLS_TC", "MPLS_BOS", "TUNNEL_ID",
        "PBB_ISID", "IPV6_EXTHDR"})

of13_map_reverse_experimental_packet_matches(pm) ==
    NonZero(pm, {"PPPOE_CODE", "PPPOE_TYPE", "PPPOE_SID", "PPP_PROT", "GTP_MSG_TYPE",
        "GTP_TEID", "CAPWAP_WBID", "CAPWAP_RID", "CAPWAP_FLAGS", "WLAN_FC", "WLAN_TYPE",
        "WLAN_SUBTYPE", "WLAN_DIRECTION", "WLAN_ADDRESS_1", "WLAN_ADDRESS_2",
        "WLAN_ADDRESS_3", "GRE_VERSION", "GRE_PROT_TYPE", "GRE_KEY"})

-----------------------------------------------------------------------------
(* Actions: the member of the union that is written, in bits *)

of13_plain_actions ==
    Each({"COPY_TTL_OUT", "COPY_TTL_IN", "DEC_MPLS_TTL", "POP_VLAN", "POP_PBB", "DEC_NW_TTL"}, 0)
    @@ Each({"SET_MPLS_TTL", "SET_NW_TTL"}, 8)
    @@ Each({"PUSH_VLAN", "PUSH_MPLS", "POP_MPLS", "PUSH_PBB"}, 16)
    @@ Each({"OUTPUT", "SET_QUEUE", "GROUP"}, 32)

of13_link_set_fields ==
    Each({"SET_FIELD_ICMPV4_CODE", "SET_FIELD_ICMPV4_TYPE", "SET_FIELD_IP_DSCP",
          "SET_FIELD_IP_ECN", "SET_FIELD_IP_PROTO", "SET_FIELD_MPLS_TC", "SET_FIELD_MPLS_BOS"}, 8)
    @@ Each({"SET_FIELD_ETH_TYPE", "SET_FIELD_ARP_OPCODE"}, 16)
    @@ Each({"SET_FIELD_ARP_SPA", "SET_FIELD_ARP_TPA", "SET_FIELD_IPV4_DST",
             "SET_FIELD_IPV4_SRC", "SET_FIELD_MPLS_LABEL"}, 32)
    @@ Each({"SET_FIELD_ETH_DST", "SET_FIELD_ETH_SRC", "SET_FIELD_ARP_SHA", "SET_FIELD_ARP_THA"}, 64)

of13_network_set_fields ==
    Each({"SET_FIELD_VLAN_PCP", "SET_FIELD_ICMPV6_TYPE", "SET_FIELD_ICMPV6_CODE"}, 8)
    @@ Each({"SET_FIELD_VLAN_VID", "SET_FIELD_TCP_DST", "SET_FIELD_TCP_SRC", "SET_FIELD_UDP_DST",
             "SET_FIELD_UDP_SRC", "SET_FIELD_SCTP_DST", "SET_FIELD_SCTP_SRC",
             "SET_FIELD_IPV6_EXTHDR"}, 16)
    @@ Each({"SET_FIELD_IPV6_FLABEL", "SET_FIELD_PBB_ISID"}, 32)
    @@ Each({"SET_FIELD_IPV6_ND_SLL", "SET_FIELD_IPV6_ND_TLL", "SET_FIELD_TUNNEL_ID"}, 64)
    @@ Each({"SET_FIELD_IPV6_SRC", "SET_FIELD_IPV6_DST", "SET_FIELD_IPV6_ND_TARGET"}, 128)

of13_experimental_set_fields ==
    Each({"SET_FIELD_PPPOE_CODE", "SET_FIELD_PPPOE_TYPE", "SET_FIELD_GTP_MSG_TYPE",
          "SET_FIELD_CAPWAP_WBID", "SET_FIELD_CAPWAP_RID", "SET_FIELD_WLAN_TYPE",
          "SET_FIELD_WLAN_SUBTYPE", "SET_FIELD_WLAN_DIRECTION"}, 8)
    @@ Each({"SET_FIELD_PPPOE_SID", "SET_FIELD_PPP_PROT", "SET_FIELD_CAPWAP_FLAGS",
             "SET_FIELD_WLAN_FC", "SET_FIELD_GRE_VERSION", "SET_FIELD_GRE_PROT_TYPE"}, 16)
    @@ Each({"SET_FIELD_GTP_TEID", "SET_FIELD_GRE_KEY"}, 32)
    @@ Each({"SET_FIELD_WLAN_ADDRESS_1", "SET_FIELD_WLAN_ADDRESS_2", "SET_FIELD_WLAN_ADDRESS_3"}, 64)

of13_experimenter_actions ==
    Each({"PUSH_PPPOE", "POP_PPPOE", "PUSH_GTP", "POP_GTP", "PUSH_CAPWAP", "POP_CAPWAP",
          "PUSH_WLAN", "POP_WLAN", "PUSH_GRE", "POP_GRE"}, 16)

of13_map_flow_entry_actions(actions) ==
    MapActions(actions, of13_plain_actions @@ of13_link_set_fields @@ of13_network_set_fields
                        @@ of13_experimental_set_fields @@ of13_experimenter_actions)

(* and the member that is read for a reply *)

of13_reverse_header_actions ==
    Each({"COPY_TTL_IN", "POP_VLAN", "POP_PBB"}, 0)
    @@ Each({"POP_MPLS", "POP_GRE", "POP_WLAN", "POP_PPPOE", "POP_GTP", "POP_CAPWAP",
             "PUSH_CAPWAP", "PUSH_GTP", "PUSH_PPPOE", "PUSH_WLAN", "PUSH_GRE", "PUSH_PBB"}, 16)

\* Eight bits of a queue's number are read.
of13_reverse_plain_actions ==
    Each({"COPY_TTL_OUT", "DEC_NW_TTL", "DEC_MPLS_TTL"}, 0)
    @@ Each({"SET_NW_TTL", "SET_MPLS_TTL", "SET_QUEUE"}, 8)
    @@ Each({"PUSH_MPLS", "PUSH_VLAN"}, 16)

of13_reverse_set_fields ==
    Each({"SET_FIELD_VLAN_PCP", "SET_FIELD_IP_DSCP", "SET_FIELD_IP_ECN", "SET_FIELD_IP_PROTO",
          "SET_FIELD_ICMPV4_TYPE", "SET_FIELD_ICMPV4_CODE", "SET_FIELD_ICMPV6_TYPE",
          "SET_FIELD_ICMPV6_CODE", "SET_FIELD_MPLS_TC", "SET_FIELD_MPLS_BOS"}, 8)
    @@ Each({"SET_FIELD_ETH_TYPE", "SET_FIELD_VLAN_VID", "SET_FIELD_ARP_OPCODE",
             "SET_FIELD_TCP_SRC", "SET_FIELD_TCP_DST", "SET_FIELD_UDP_SRC", "SET_FIELD_UDP_DST",
             "SET_FIELD_SCTP_SRC", "SET_FIELD_SCTP_DST"}, 16)
    @@ Each({"SET_FIELD_ARP_SPA", "SET_FIELD_ARP_TPA", "SET_FIELD_IPV4_SRC", "SET_FIELD_IPV4_DST",
             "SET_FIELD_IPV6_FLABEL", "SET_FIELD_MPLS_LABEL", "SET_FIELD_PBB_ISID"}, 32)
    @@ Each({"SET_FIELD_ETH_DST", "SET_FIELD_ETH_SRC", "SET_FIELD_ARP_SHA", "SET_FIELD_ARP_THA",
             "SET_FIELD_IPV6_ND_SLL", "SET_FIELD_IPV6_ND_TLL", "SET_FIELD_TUNNEL_ID"}, 64)
    @@ Each({"SET_FIELD_IPV6_SRC", "SET_FIELD_IPV6_DST", "SET_FIELD_IPV6_ND_TARGET"}, 128)

\* Eight of the sixteen CAPWAP flags are read.
of13_reverse_experimental_set_fields ==
    Each({"SET_FIELD_PPPOE_CODE", "SET_FIELD_PPPOE_TYPE", "SET_FIELD_GTP_MSG_TYPE",
          "SET_FIELD_CAPWAP_WBID", "SET_FIELD_CAPWAP_RID", "SET_FIELD_CAPWAP_FLAGS",
          "SET_FIELD_WLAN_TYPE", "SET_FIELD_WLAN_SUBTYPE", "SET_FIELD_WLAN_DIRECTION"}, 8)
    @@ Each({"SET_FIELD_PPPOE_SID", "SET_FIELD_PPP_PROT", "SET_FIELD_WLAN_FC",
             "SET_FIELD_GRE_VERSION", "SET_FIELD_GRE_PROT_TYPE"}, 16)
    @@ Each({"SET_FIELD_GTP_TEID", "SET_FIELD_GRE_KEY"}, 32)
    @@ Each({"SET_FIELD_WLAN_ADDRESS_1", "SET_FIELD_WLAN_ADDRESS_2", "SET_FIELD_WLAN_ADDRESS_3"}, 64)

of13_reverse_output == Each({"GROUP", "OUTPUT"}, 32)

\* A reply always says that a tag is present.
of13_map_reverse_actions(actions) ==
    LET as == MapReverseActions(actions, of13_reverse_header_actions @@ of13_reverse_plain_actions
                  @@ of13_reverse_set_fields @@ of13_reverse_experimental_set_fields
                  @@ of13_reverse_output)
    IN [i \in DOMAIN as |-> IF as[i].name = "SET_FIELD_VLAN_VID"
                            THEN [as[i] EXCEPT !.value = WithPresent(@)] ELSE as[i]]

\* The exception that rewriting an IPv6 extension header ends a reply with.
of13_reverse_throws(actions) ==
    \E i \in DOMAIN actions : actions[i].name = "SET_FIELD_IPV6_EXTHDR"

-----------------------------------------------------------------------------
(* Flow entries: instructions are a record, one field for each one present *)

\* An experimenter instruction has no contents; a meter is not looked for.
of13_map_instructions(i) ==
    [t \in DOMAIN i \cap {"apply_actions", "write_actions", "clear_actions", "experimenter",
                          "goto_table", "write_metadata"} |->
        IF t = "apply_actions" THEN of13_map_flow_entry_actions(i[t])
        ELSE IF t = "write_actions" THEN ActionSet(of13_map_flow_entry_actions(i[t])) ELSE i[t]]

of13_map_flow_entry(flow) ==
    [match |-> of13_map_flow_entry_matches(flow.match),
     insts |-> of13_map_instructions(flow.insts),
     cookie |-> flow.cookie, notify |-> flow.notify]

\* The actions of a set come back in the order of their types.
AsSequence(S) == CHOOSE s \in [1..Cardinality(S) -> S] : \A a \in S : \E i \in DOMAIN s : s[i] = a

of13_map_reverse_apply_actions(actions) == of13_map_reverse_actions(actions)
of13_map_reverse_write_actions(actions) == of13_map_reverse_actions(AsSequence(actions))
of13_map_reverse_clear_actions(i) == i
of13_map_reverse_goto_table(table) == table
of13_map_reverse_write_metadata(metadata) == metadata

\* The experimenter instruction is left out.
of13_map_reverse_instructions(i) ==
    [t \in DOMAIN i \ {"experimenter"} |->
        CASE t = "apply_actions" -> of13_map_reverse_apply_actions(i[t])
          [] t = "write_actions" -> of13_map_reverse_write_actions(i[t])
          [] t = "clear_actions" -> of13_map_reverse_clear_actions(i[t])
          [] t = "goto_table" -> of13_map_reverse_goto_table(i[t])
          [] t = "write_metadata" -> of13_map_reverse_write_metadata(i[t])]

\* A bucket list is a sequence of buckets.
of13_map_bucket_list(buckets) ==
    [i \in DOMAIN buckets |-> [buckets[i] EXCEPT !.actions = of13_map_flow_entry_actions(@)]]

of13_map_reverse_bucket_list(buckets) ==
    [i \in DOMAIN buckets |-> [buckets[i] EXCEPT !.actions = of13_map_reverse_actions(@)]]

-----------------------------------------------------------------------------
(* What a table can do, from the pipeline's bitmaps *)

of13_map_bitmap_matches(bits) ==
    bits \cap {"IN_PORT", "IN_PHY_PORT", "METADATA", "ETH_DST", "ETH_SRC", "ETH_TYPE",
        "VLAN_VID", "VLAN_PCP", "MPLS_LABEL", "MPLS_BOS", "MPLS_TC", "ARP_OP", "ARP_SPA",
        "ARP_TPA", "ARP_SHA", "ARP_THA", "IP_DSCP", "IP_ECN", "IP_PROTO", "IPV4_SRC",
        "IPV4_DST", "IPV6_SRC", "IPV6_DST", "IPV6_FLABEL", "ICMPV6_TYPE", "ICMPV6_CODE",
        "IPV6_ND_TARGET", "IPV6_ND_SLL", "IPV6_ND_TLL", "TCP_SRC", "TCP_DST", "UDP_SRC",
        "UDP_DST", "SCTP_SRC", "SCTP_DST", "ICMPV4_TYPE", "ICMPV4_CODE", "PBB_ISID", "TUNNEL_ID"}

of13_map_bitmap_set_fields(bits) ==
    bits \cap {"SET_FIELD_ETH_DST", "SET_FIELD_ETH_SRC", "SET_FIELD_ETH_TYPE",
        "SET_FIELD_MPLS_LABEL", "SET_FIELD_MPLS_TC", "SET_FIELD_MPLS_BOS", "SET_FIELD_VLAN_VID",
        "SET_FIELD_VLAN_PCP", "SET_FIELD_ARP_OPCODE", "SET_FIELD_ARP_SHA", "SET_FIELD_ARP_SPA",
        "SET_FIELD_ARP_THA", "SET_FIELD_ARP_TPA", "SET_FIELD_IP_DSCP", "SET_FIELD_IP_ECN",
        "SET_FIELD_IP_PROTO", "SET_FIELD_IPV4_SRC", "SET_FIELD_IPV4_DST", "SET_FIELD_IPV6_SRC",
        "SET_FIELD_IPV6_DST", "SET_FIELD_IPV6_FLABEL", "SET_FIELD_IPV6_ND_TARGET",
        "SET_FIELD_IPV6_ND_SLL", "SET_FIELD_IPV6_ND_TLL", "SET_FIELD_IPV6_EXTHDR",
        "SET_FIELD_TCP_SRC", "SET_FIELD_TCP_DST", "SET_FIELD_UDP_SRC", "SET_FIELD_UDP_DST",
        "SET_FIELD_SCTP_SRC", "SET_FIELD_SCTP_DST", "SET_FIELD_ICMPV4_TYPE",
        "SET_FIELD_ICMPV4_CODE", "SET_FIELD_ICMPV6_TYPE", "SET_FIELD_ICMPV6_CODE",
        "SET_FIELD_PBB_ISID", "SET_FIELD_TUNNEL_ID"}

\* Set-field is always among them.
of13_map_bitmap_actions(bits) ==
    {"SET_FIELD"} \cup (bits \cap {"COPY_TTL_IN", "POP_VLAN", "POP_MPLS", "POP_PBB", "PUSH_PBB",
        "PUSH_MPLS", "PUSH_VLAN", "COPY_TTL_OUT", "DEC_NW_TTL", "DEC_MPLS_TTL", "SET_MPLS_TTL",
        "SET_NW_TTL", "SET_QUEUE", "GROUP", "OUTPUT"})

of13_map_bitmap_instructions(bits) ==
    bits \cap {"apply_actions", "clear_actions", "write_actions", "write_metadata",
               "goto_table", "meter"}

==============================================================================
