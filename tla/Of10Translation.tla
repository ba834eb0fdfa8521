--------------------------- MODULE Of10Translation ---------------------------
(***************************************************************************)
(* of10_translation_utils: OpenFlow 1.0 messages to pipeline structures and *)
(* back.  OpenFlow 1.0 has names of its own for fields and actions, no      *)
(* instructions, and reserved port numbers of 16 bits.                      *)
(***************************************************************************)
EXTENDS Translation

OFP_VLAN_NONE == 65535

-----------------------------------------------------------------------------
(* Ports *)

Reserved == {65280} \cup 65528..65535   \* OFPP_MAX, OFPP_IN_PORT to OFPP_NONE

get_out_port(port) == IF port \in Reserved THEN port + Upper ELSE port
get_out_port_reverse(port) == IF port \in {p + Upper : p \in Reserved} THEN port - Upper ELSE port

-----------------------------------------------------------------------------
(* Matches *)

of10_field == [IN_PORT |-> "IN_PORT", DL_SRC |-> "ETH_SRC", DL_DST |-> "ETH_DST",
               DL_TYPE |-> "ETH_TYPE", DL_VLAN |-> "VLAN_VID", DL_VLAN_PCP |-> "VLAN_PCP",
               NW_TOS |-> "IP_DSCP", NW_PROTO |-> "NW_PROTO", NW_SRC |-> "NW_SRC",
               NW_DST |-> "NW_DST", TP_SRC |-> "TP_SRC", TP_DST |-> "TP_DST"]

of10_map_vlan_vid(vid) ==
    of1x_init_vlan_vid_match(vid, PRESENT - 1, IF vid = OFP_VLAN_NONE THEN "NONE" ELSE "SPECIFIC")

\* An address of zero is taken for one that is not there.
of10_map_flow_entry_matches(m) ==
    LET there == {g \in DOMAIN m \cap DOMAIN of10_field :
                     g \in {"NW_SRC", "NW_DST"} => m[g].value # 0}
        From(f) == CHOOSE g \in there : of10_field[g] = f
    IN [f \in {of10_field[g] : g \in there} |->
            LET x == m[From(f)] IN
            CASE f = "VLAN_VID" -> of10_map_vlan_vid(x.value)
              [] f = "IP_DSCP" -> [value |-> x.value \div 4, mask |-> FULL]
              [] f \in {"NW_SRC", "NW_DST"} -> x
              [] OTHER -> [value |-> x.value, mask |-> FULL]]

of10_reverse_field == [f \in {of10_field[g] : g \in DOMAIN of10_field} |->
                           CHOOSE g \in DOMAIN of10_field : of10_field[g] = f]
                      @@ [ARP_OP |-> "NW_PROTO", ARP_SPA |-> "NW_SRC", ARP_TPA |-> "NW_DST"]

\* "No VLAN" is reported with a priority of zero.
of1x_map_reverse_flow_entry_matches(h) ==
    LET there == DOMAIN h \cap DOMAIN of10_reverse_field
        Untagged == "VLAN_VID" \in there /\ h["VLAN_VID"].present = "NONE"
        From(g) == CHOOSE f \in there : of10_reverse_field[f] = g
    IN [g \in {of10_reverse_field[f] : f \in there} |->
            LET x == h[From(g)] IN
            CASE g = "DL_VLAN" -> [value |-> IF Untagged THEN OFP_VLAN_NONE ELSE x.value, mask |-> FULL]
              [] g = "NW_TOS" -> [value |-> x.value * 4, mask |-> FULL]
              [] OTHER -> [value |-> x.value, mask |-> x.mask]]
       @@ [g \in (IF Untagged THEN {"DL_VLAN_PCP"} ELSE {}) |-> [value |-> 0, mask |-> FULL]]

\* Of a packet's headers at most one has ports, and at most one has addresses.
of10_packet_field ==
    [IN_PORT |-> "IN_PORT", ETH_DST |-> "DL_DST", ETH_SRC |-> "DL_SRC", ETH_TYPE |-> "DL_TYPE",
     VLAN_VID |-> "DL_VLAN", VLAN_PCP |-> "DL_VLAN_PCP", ARP_OP |-> "NW_PROTO",
     ARP_SPA |-> "NW_SRC", ARP_TPA |-> "NW_DST", IP_DSCP |-> "NW_TOS", IP_PROTO |-> "IP_PROTO",
     IPV4_SRC |-> "NW_SRC", IPV4_DST |-> "NW_DST", TCP_SRC |-> "TP_SRC", TCP_DST |-> "TP_DST",
     UDP_SRC |-> "TP_SRC", UDP_DST |-> "TP_DST", ICMPV4_TYPE |-> "TP_SRC", ICMPV4_CODE |-> "TP_DST"]

of1x_map_reverse_packet_matches(pm) ==
    LET there == {f \in DOMAIN pm \cap DOMAIN of10_packet_field : pm[f] # 0}
        From(g) == CHOOSE f \in there : of10_packet_field[f] = g
    IN [g \in {of10_packet_field[f] : f \in there} |->
            [value |-> IF g = "NW_TOS" THEN pm[From(g)] * 4 ELSE pm[From(g)], mask |-> FULL]]

-----------------------------------------------------------------------------
(* Actions *)

of10_action == [OUTPUT |-> "OUTPUT", SET_VLAN_VID |-> "SET_FIELD_VLAN_VID",
                SET_VLAN_PCP |-> "SET_FIELD_VLAN_PCP", STRIP_VLAN |-> "POP_VLAN",
                SET_DL_SRC |-> "SET_FIELD_ETH_SRC", SET_DL_DST |-> "SET_FIELD_ETH_DST",
                SET_NW_SRC |-> "SET_FIELD_NW_SRC", SET_NW_DST |-> "SET_FIELD_NW_DST",
                SET_NW_TOS |-> "SET_FIELD_IP_DSCP", SET_TP_SRC |-> "SET_FIELD_TP_SRC",
                SET_TP_DST |-> "SET_FIELD_TP_DST"]

of10_width ==
    Each({"POP_VLAN"}, 0) @@ Each({"SET_FIELD_VLAN_PCP", "SET_FIELD_IP_DSCP"}, 8)
    @@ Each({"SET_FIELD_VLAN_VID", "SET_FIELD_TP_SRC", "SET_FIELD_TP_DST", "PUSH_VLAN"}, 16)
    @@ Each({"OUTPUT", "SET_QUEUE", "SET_FIELD_NW_SRC", "SET_FIELD_NW_DST"}, 32)
    @@ Each({"SET_FIELD_ETH_SRC", "SET_FIELD_ETH_DST"}, 64)

\* An enqueue becomes two actions; port is used by it only.
of1x_map_action(a) ==
    IF a.name = "ENQUEUE"
    THEN <<[name |-> "SET_QUEUE", u |-> a.value, len |-> 0],
           [name |-> "OUTPUT", u |-> get_out_port(a.port), len |-> 0]>>
    ELSE LET value == CASE a.name = "OUTPUT" -> get_out_port(a.value)
                        [] a.name = "SET_NW_TOS" -> a.value \div 4
                        [] OTHER -> a.value
         IN <<WriteUnion([name |-> of10_action[a.name], value |-> value, len |-> a.len], of10_width)>>

of1x_map_flow_entry_actions(actions) == FoldLeft(LAMBDA s, a : s \o of1x_map_action(a), <<>>, actions)

\* After a set-queue the next action is taken for its output, and skipped.
of1x_map_reverse_flow_entry_actions(actions) ==
    LET Shown == {i \in DOMAIN actions : actions[i].name \in DOMAIN of10_width
                                         /\ (i > 1 => actions[i - 1].name # "SET_QUEUE")}
        Reported(i) ==
            LET h == ReadUnion(actions[i], of10_width) IN
            CASE h.name = "SET_QUEUE" ->
                    [name |-> "ENQUEUE", value |-> h.value, len |-> 0,
                     port |-> get_out_port_reverse(actions[i + 1].u)]
              [] h.name = "OUTPUT" -> [h EXCEPT !.value = get_out_port_reverse(@)]
              [] h.name = "SET_FIELD_IP_DSCP" -> [h EXCEPT !.name = "SET_NW_TOS", !.value = @ * 4]
              [] h.name = "PUSH_VLAN" -> h
              [] OTHER -> [h EXCEPT !.name = CHOOSE n \in DOMAIN of10_action : of10_action[n] = h.name]
    IN [k \in 1..Cardinality(Shown) |->
            Reported(CHOOSE i \in Shown : Cardinality({j \in Shown : j <= i}) = k)]

\* The only instruction is apply-actions.
of1x_map_flow_entry(flow) ==
    [match |-> of10_map_flow_entry_matches(flow.match),
     insts |-> [apply_actions |-> of1x_map_flow_entry_actions(flow.insts.apply_actions)],
     cookie |-> flow.cookie, notify |-> flow.notify]

-----------------------------------------------------------------------------
(* What table 0 can do *)

get_supported_actions(bits) ==
    {n \in DOMAIN of10_action \cup {"ENQUEUE"} :
        CASE n = "ENQUEUE" -> "SET_QUEUE" \in bits
          [] n = "SET_NW_SRC" -> "SET_FIELD_IPV4_SRC" \in bits
          [] n = "SET_NW_DST" -> "SET_FIELD_IPV4_DST" \in bits
          [] OTHER -> of10_action[n] \in bits}

get_supported_wildcards(bits) == {g \in DOMAIN of10_field : of10_field[g] \in bits}

==============================================================================
