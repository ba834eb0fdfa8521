----------------------------- MODULE MCOpenflow ------------------------------
EXTENDS Openflow

MCTopics == {"translate", "flows", "groups", "ports", "interfaces", "queues", "switch", "packets"}
MCMaxMessages == [translate |-> 2, flows |-> 3, groups |-> 3, ports |-> 3, interfaces |-> 4, queues |-> 3,
                  switch |-> 3, packets |-> 4]
MCRates == {PIRL_DISABLED, PIRL_MIN_RATE \div 2, PIRL_MIN_RATE}

-----------------------------------------------------------------------------
(* Matches and actions: one field or one action at a time *)

Fields == {"IN_PORT", "IN_PHY_PORT", "METADATA", "ETH_DST", "ETH_SRC", "ETH_TYPE", "VLAN_PCP",
    "ARP_OP", "ARP_SHA", "ARP_SPA", "ARP_THA", "ARP_TPA", "IP_DSCP", "IP_ECN", "IP_PROTO",
    "IPV4_SRC", "IPV4_DST", "TCP_SRC", "TCP_DST", "UDP_SRC", "UDP_DST", "SCTP_SRC", "SCTP_DST",
    "ICMPV4_TYPE", "ICMPV4_CODE", "IPV6_SRC", "IPV6_DST", "IPV6_FLABEL", "IPV6_ND_TARGET",
    "IPV6_ND_SLL", "IPV6_ND_TLL", "ICMPV6_TYPE", "ICMPV6_CODE", "MPLS_LABEL", "MPLS_TC",
    "MPLS_BOS", "TUNNEL_ID", "PBB_ISID", "IPV6_EXTHDR", "PPPOE_CODE", "PPPOE_TYPE", "PPPOE_SID",
    "PPP_PROT", "GTP_MSG_TYPE", "GTP_TEID", "CAPWAP_WBID", "CAPWAP_RID", "CAPWAP_FLAGS", "WLAN_FC",
    "WLAN_TYPE", "WLAN_SUBTYPE", "WLAN_DIRECTION", "WLAN_ADDRESS_1", "WLAN_ADDRESS_2",
    "WLAN_ADDRESS_3", "GRE_VERSION", "GRE_PROT_TYPE", "GRE_KEY"}

Actions == DOMAIN of13_plain_actions \cup DOMAIN of13_link_set_fields
    \cup DOMAIN of13_network_set_fields \cup DOMAIN of13_experimental_set_fields
    \cup DOMAIN of13_experimenter_actions

Wide == {"SET_QUEUE", "SET_FIELD_CAPWAP_FLAGS", "SET_FIELD_TCP_SRC", "SET_FIELD_ETH_TYPE",
         "SET_FIELD_WLAN_FC", "SET_FIELD_GRE_KEY", "OUTPUT", "GROUP", "PUSH_MPLS"}

MCCan == [matches |-> Fields \cup {"VLAN_VID", "NW_PROTO", "NW_SRC", "NW_DST", "TP_SRC", "TP_DST"},
          actions |-> Actions \cup {"SET_FIELD_NW_SRC", "SET_FIELD_TP_SRC", "SET_FIELD_TP_DST"},
          instructions |-> {"apply_actions", "write_actions", "clear_actions", "write_metadata",
                            "goto_table"}]

Act(name, value) == [name |-> name, value |-> value, len |-> 0]
Act1(a) == [apply_actions |-> <<a>>]
Is(f, value, mask) == f :> [value |-> value, mask |-> mask]
Flow(match, insts) == [match |-> match, insts |-> insts, cookie |-> <<1, 1>>, notify |-> TRUE]
Add(flow) == [command |-> "ADD", table_id |-> 0, flow |-> flow, buffer_id |-> NO_BUFFER,
              check_overlap |-> FALSE, out_port |-> 0, unreadable |-> "none"]
Everything(v) == [table_id |-> OFPTT_ALL, match |-> <<>>, cookie |-> <<0, 0>>,
                  cookie_mask |-> <<0, 0>>, out_port |-> OFPP_ANY(v)]

Since(v, S, new) == IF v = 13 THEN S ELSE S \ new
Exactly(v) == {Is(f, 5, FULL) : f \in Since(v, Fields, Since13)}
Masks(v) == {Is(f, 4, 12) : f \in Since(v, {"METADATA", "ETH_DST", "ARP_SPA", "IPV4_SRC", "IPV6_DST",
                                    "IPV6_FLABEL", "TUNNEL_ID", "PBB_ISID", "GTP_TEID", "WLAN_FC"}, Since13)}
Vlans == {Is("VLAN_VID", 0, FULL), Is("VLAN_VID", PRESENT, PRESENT),
          Is("VLAN_VID", PRESENT + 7, FULL), Is("VLAN_VID", PRESENT + 4, PRESENT + 12)}
Bare(a) == Act(a, IF a \in {"STRIP_VLAN", "POP_VLAN", "POP_PBB", "COPY_TTL_OUT", "COPY_TTL_IN",
                            "DEC_MPLS_TTL", "DEC_NW_TTL"} THEN 0 ELSE 200)
Single(v) == {Bare(a) : a \in Since(v, Actions, ActionsSince13) \ {"SET_FIELD_VLAN_VID"}}
             \cup {Act(a, 60000) : a \in Wide}
             \cup {Act("SET_FIELD_VLAN_VID", 7), Act("SET_FIELD_VLAN_VID", PRESENT + 7),
                   [Act("OUTPUT", 1) EXCEPT !.len = 64]}
Rest == {[clear_actions |-> 0], [goto_table |-> 1], [experimenter |-> 0],
         [write_metadata |-> [value |-> 4, mask |-> 12]],
         [write_actions |-> <<Act("PUSH_VLAN", 33024), Act("SET_FIELD_VLAN_VID", PRESENT + 7),
                              Act("OUTPUT", 1), Act("OUTPUT", 2)>>],
         [apply_actions |-> <<Act("SET_FIELD_VLAN_VID", PRESENT + 9), Act("SET_QUEUE", 3),
                              Act("OUTPUT", 1)>>, goto_table |-> 1]}

Translated(v) ==
    {Flow(m, Act1(Act("OUTPUT", 1))) : m \in Exactly(v) \cup Masks(v) \cup Vlans}
    \cup {Flow(<<>>, Act1(a)) : a \in Single(v)}
    \cup {Flow(Is("IN_PORT", 1, FULL), i) : i \in Rest \cup (IF v = 13 THEN {[meter |-> 1]} ELSE {})}

Single10 == {Bare(a) : a \in DOMAIN of10_action}
            \cup {Act("OUTPUT", OFPP_ALL(10)), Act("SET_NW_TOS", 201), Act("SET_TP_SRC", 60000),
                  [Act("OUTPUT", 65533) EXCEPT !.len = 64],
                  [name |-> "ENQUEUE", value |-> 300, len |-> 0, port |-> 65528]}
Translated10 ==
    {Flow(Is(f, 4, FULL), Act1(Act("OUTPUT", 1))) : f \in DOMAIN of10_field}
    \cup {Flow(m, Act1(Act("OUTPUT", 1))) :
             m \in {Is("DL_VLAN", OFP_VLAN_NONE, FULL), Is("NW_SRC", 4, 12), Is("NW_DST", 0, FULL),
                    Is("NW_TOS", 5, FULL)}}
    \cup {Flow(<<>>, Act1(a)) : a \in Single10}
    \cup {Flow(<<>>, [apply_actions |-> <<Act("SET_VLAN_VID", 7), Act("OUTPUT", 1),
                                          [name |-> "ENQUEUE", value |-> 1, len |-> 0, port |-> 2],
                                          Act("STRIP_VLAN", 0), Act("OUTPUT", 2)>>])}

Arriving(v) ==
    {[fields |-> f :> x, total_len |-> 60, buf_len |-> 128] :
        f \in IF v = 10 THEN DOMAIN of10_packet_field ELSE Since(v, Fields \cup {"VLAN_VID"}, Since13),
        x \in {0, 6}}
Packets == {[fields |-> [IN_PORT |-> 1, ETH_TYPE |-> 2048], total_len |-> 300, buf_len |-> n] :
               n \in {128, 0}}

-----------------------------------------------------------------------------
(* Flow tables: three overlapping flows, every command *)

FewMatches(v) == IF v = 10 THEN {<<>>, Is("IN_PORT", 1, FULL)}
                 ELSE {<<>>, Is("IN_PORT", 1, FULL)}
FewFlows(v) == {[match |-> m, insts |-> Act1(Act("OUTPUT", p)), cookie |-> c, notify |-> p = 1] :
                   m \in FewMatches(v), p \in {1, 2}, c \in {<<0, 1>>, <<1, 1>>}}
Cookie(f) == IF f.insts.apply_actions[1].value = 1 THEN <<0, 1>> ELSE <<1, 1>>
FlowMods(v) ==
    {[command |-> c, table_id |-> t, flow |-> f, buffer_id |-> NO_BUFFER, check_overlap |-> FALSE,
      out_port |-> o, unreadable |-> "none"] :
        c \in {"ADD", "MODIFY", "MODIFY_STRICT", "DELETE", "DELETE_STRICT"},
        t \in {0, NumTables, OFPTT_ALL}, f \in {g \in FewFlows(v) : g.cookie = Cookie(g)},
        o \in {1, OFPP_ANY(v)}}
    \cup {[Add(f) EXCEPT !.buffer_id = b, !.check_overlap = x, !.table_id = 1,
                         !.command = c, !.unreadable = u] :
             f \in {g \in FewFlows(v) : g.cookie = Cookie(g) /\ g.match = <<>>}, b \in {0, 1, 2, NO_BUFFER},
             x \in BOOLEAN, c \in {"ADD", "MODIFY", "BOGUS"}, u \in {"none"}}
    \cup {[Add(f) EXCEPT !.command = c, !.unreadable = u] :
             f \in {g \in FewFlows(v) : g.cookie = Cookie(g)}, c \in {"ADD", "MODIFY_STRICT", "DELETE"},
             u \in {"match", "apply", "write"}}
    \cup {[Add(Flow(<<>>, [goto_table |-> 0])) EXCEPT !.table_id = 1] : x \in IF v = 10 THEN {} ELSE {1}}
FlowQueries(v) ==
    {[table_id |-> t, match |-> m, cookie |-> c, cookie_mask |-> k, out_port |-> o] :
        t \in {0, 1, NumTables, OFPTT_ALL}, m \in FewMatches(v),
        <<c, k>> \in {<<<<0, 0>>, <<0, 0>>>>, <<<<0, 1>>, <<1, 1>>>>, <<<<0, 0>>, <<0, 1>>>>},
        o \in {2, OFPP_ANY(v)}}

-----------------------------------------------------------------------------
(* Groups, configuration, ports and packets *)

Bucket(actions) == [weight |-> 0, actions |-> actions]
Buckets == {<<>>, <<Bucket(<<Act("OUTPUT", 1)>>), Bucket(<<Act("SET_FIELD_ETH_DST", 5), Act("OUTPUT", 2)>>)>>,
            <<Bucket(<<Act("SET_QUEUE", 300)>>)>>}
GroupMods(v) ==
    {[command |-> c, gid |-> g, type |-> "ALL", buckets |-> b, unreadable |-> u] :
        c \in {"ADD", "MODIFY", "DELETE", "BOGUS"}, g \in {1, 2, GROUP_ALL},
        b \in Buckets \cup (IF v = 13 THEN {<<Bucket(<<Act("SET_FIELD_IPV6_EXTHDR", 1)>>)>>} ELSE {}),
        u \in BOOLEAN}

PortMods(v) ==
    {[port |-> p, config |-> c, mask |-> k] :
        p \in {1, 2} \cup (IF v = 13 THEN {OFPP_ALL(v)} ELSE {}),
        <<c, k>> \in {<<{"NO_RECV", "NO_FLOOD"}, {"NO_RECV", "NO_FWD", "NO_FLOOD"}>>,
                      <<{"PORT_DOWN", "ADVERTISE"}, {"PORT_DOWN", "NO_PACKET_IN", "ADVERTISE"}>>,
                      <<{}, {"PORT_DOWN"}>>}}
    \cup {[port |-> p, config |-> {"NO_FWD"}, mask |-> k] :
             p \in {MaxPorts, OFPP_ALL(v), OFPP_MAX(v) + 1, OFPP_MAX(v)}, k \in {{}, {"NO_FWD"}}}

PacketOuts == {[buffer_id |-> b, actions |-> a, unreadable |-> u] :
                  b \in {0, 1, 2, NO_BUFFER}, a \in {<<>>, <<Act("OUTPUT", 1)>>}, u \in BOOLEAN}

Nothing == [k \in {"flow_mod", "flow_stats", "group_mod", "group_stats", "set_config", "table_mod",
                   "packet_out", "port_stats", "queue_stats", "request", "port_mod", "packet_in"} |-> {}]

SamplesOf(v) ==
    [translate |-> [flow_mod |-> {Add(f) : f \in IF v = 10 THEN Translated10 ELSE Translated(v)},
                    flow_stats |-> {Everything(v)}, packet_in |-> Arriving(v)] @@ Nothing,
     flows |-> [flow_mod |-> FlowMods(v), flow_stats |-> FlowQueries(v), request |-> {"table_stats"}] @@ Nothing,
     groups |-> (IF v = 10 THEN <<>> ELSE
                 [group_mod |-> GroupMods(v), group_stats |-> {1, GROUP_ALL}, request |-> {"group_desc"}]) @@ Nothing,
     ports |-> [port_mod |-> PortMods(v)] @@ Nothing,
     interfaces |-> [port_mod |-> {[port |-> p, config |-> c, mask |-> {"PORT_DOWN", "NO_FWD"}] :
                                    p \in {1, 2}, c \in {{"PORT_DOWN"}, {"NO_FWD"}}}] @@ Nothing,
     queues |-> [port_stats |-> {1, 2, OFPP_ALL(v), OFPP_ANY(v)},
                 queue_stats |-> {[port |-> p, queue_id |-> i] :
                    p \in {0, 1, 2, OFPP_ALL(v), OFPP_ANY(v)}, i \in {0, 1, MaxQueues, OFPQ_ALL}}] @@ Nothing,
     switch |-> [set_config |-> {[flags |-> f, miss_send_len |-> n] : f \in {"normal", "drop"}, n \in {0, 64}},
                 table_mod |-> {[table_id |-> t, config |-> c] : t \in {0, NumTables, OFPTT_ALL},
                                    c \in {"CONTROLLER", "CONTINUE", "DROP"}},
                 request |-> Requests(v) \ {"group_desc"}] @@ Nothing,
     packets |-> [packet_in |-> Packets, packet_out |-> PacketOuts] @@ Nothing]
\* A name of its own for the value: TLC computes a definition once, and one that replaces a
\* constant each time it is used.
AllSamples == (10 :> SamplesOf(10)) @@ (12 :> SamplesOf(12)) @@ (13 :> SamplesOf(13))
MCSamples == AllSamples

==============================================================================
