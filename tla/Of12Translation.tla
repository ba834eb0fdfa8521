--------------------------- MODULE Of12Translation ---------------------------
(***************************************************************************)
(* of12_translation_utils: OpenFlow 1.2 messages to pipeline structures and *)
(* back.  The file repeats the one for OpenFlow 1.3 less what that version  *)
(* added, so each table here is that one's, restricted; VLAN identifiers    *)
(* are treated differently.                                                 *)
(***************************************************************************)
EXTENDS Of13Translation

Since13 == {"MPLS_BOS", "TUNNEL_ID", "PBB_ISID", "IPV6_EXTHDR"}
ActionsSince13 == {"PUSH_PBB", "POP_PBB"} \cup {"SET_FIELD_" \o f : f \in Since13}

Without(f, S) == [x \in DOMAIN f \ S |-> f[x]]

of12_get_port_speed_kb(features) == of13_get_port_speed_kb(features)

-----------------------------------------------------------------------------
(* Matches *)

of12_map_vlan_vid(x) ==
    of1x_init_vlan_vid_match(x.value, x.mask,
        IF x.value = PRESENT /\ x.mask = PRESENT THEN "ANY"
        ELSE IF x.value = 0 THEN "NONE" ELSE "SPECIFIC")

of12_map_link_matches(m) ==
    [f \in DOMAIN m \cap {"VLAN_VID"} |-> of12_map_vlan_vid(m[f])] @@ of13_map_link_matches(m)

of12_map_ipv4_matches(m) == of13_map_ipv4_matches(m)
of12_map_ipv6_matches(m) == of13_map_ipv6_matches(Without(m, Since13))
of12_map_experimental_matches(m) == of13_map_experimental_matches(m)

of12_map_flow_entry_matches(m) ==
    of12_map_link_matches(m) @@ of12_map_ipv4_matches(m)
    @@ of12_map_ipv6_matches(m) @@ of12_map_experimental_matches(m)

\* A specific tag comes back as the pipeline keeps it, without the bit that says it is there.
of12_map_reverse_vlan_vid(h) ==
    CASE h.present = "SPECIFIC" -> [value |-> h.value, mask |-> h.mask]
      [] h.present = "NONE" -> [value |-> 0, mask |-> FULL]
      [] h.present = "ANY" -> [value |-> PRESENT, mask |-> PRESENT]

of12_map_reverse_link_matches(h) ==
    [f \in DOMAIN h \cap {"VLAN_VID"} |-> of12_map_reverse_vlan_vid(h[f])]
    @@ of13_map_reverse_link_matches(h)

of12_map_reverse_network_matches(h) == of13_map_reverse_network_matches(Without(h, Since13))
of12_map_reverse_experimental_matches(h) == of13_map_reverse_experimental_matches(h)

of12_map_reverse_flow_entry_matches(h) ==
    of12_map_reverse_link_matches(h) @@ of12_map_reverse_network_matches(h)
    @@ of12_map_reverse_experimental_matches(h)

of12_map_reverse_packet_matches(pm) == of13_map_reverse_packet_matches(Without(pm, Since13))

of12_map_reverse_experimental_packet_matches(pm) ==
    of13_map_reverse_experimental_packet_matches(pm)

-----------------------------------------------------------------------------
(* Actions *)

of12_plain_actions == Without(of13_plain_actions, ActionsSince13)
of12_link_set_fields == Without(of13_link_set_fields, ActionsSince13)
of12_network_set_fields == Without(of13_network_set_fields, ActionsSince13)
of12_experimental_set_fields == of13_experimental_set_fields
of12_experimenter_actions == of13_experimenter_actions

of12_map_flow_entry_actions(actions) ==
    MapActions(actions, of12_plain_actions @@ of12_link_set_fields @@ of12_network_set_fields
                        @@ of12_experimental_set_fields @@ of12_experimenter_actions)

of12_reverse_header_actions == Without(of13_reverse_header_actions, ActionsSince13)
of12_reverse_plain_actions == of13_reverse_plain_actions
of12_reverse_set_fields == Without(of13_reverse_set_fields, ActionsSince13)
of12_reverse_experimental_set_fields == of13_reverse_experimental_set_fields
of12_reverse_output == of13_reverse_output

of12_map_reverse_flow_entry_action(actions) ==
    LET as == MapReverseActions(actions, of12_reverse_header_actions @@ of12_reverse_plain_actions
                  @@ of12_reverse_set_fields @@ of12_reverse_experimental_set_fields
                  @@ of12_reverse_output)
    IN [i \in DOMAIN as |-> IF as[i].name = "SET_FIELD_VLAN_VID"
                            THEN [as[i] EXCEPT !.value = WithPresent(@)] ELSE as[i]]

-----------------------------------------------------------------------------
(* Flow entries and groups *)

of12_map_instructions(i) ==
    [t \in DOMAIN i \cap {"apply_actions", "write_actions", "clear_actions", "experimenter",
                          "goto_table", "write_metadata"} |->
        IF t = "apply_actions" THEN of12_map_flow_entry_actions(i[t])
        ELSE IF t = "write_actions" THEN ActionSet(of12_map_flow_entry_actions(i[t])) ELSE i[t]]

of12_map_flow_entry(flow) ==
    [match |-> of12_map_flow_entry_matches(flow.match),
     insts |-> of12_map_instructions(flow.insts),
     cookie |-> flow.cookie, notify |-> flow.notify]

of12_map_reverse_apply_actions(actions) == of12_map_reverse_flow_entry_action(actions)
of12_map_reverse_write_actions(actions) == of12_map_reverse_flow_entry_action(AsSequence(actions))
of12_map_reverse_clear_actions(i) == i
of12_map_reverse_goto_table(table) == table
of12_map_reverse_write_metadata(metadata) == metadata

of12_map_reverse_instructions(i) ==
    [t \in DOMAIN i \ {"experimenter"} |->
        CASE t = "apply_actions" -> of12_map_reverse_apply_actions(i[t])
          [] t = "write_actions" -> of12_map_reverse_write_actions(i[t])
          [] t = "clear_actions" -> of12_map_reverse_clear_actions(i[t])
          [] t = "goto_table" -> of12_map_reverse_goto_table(i[t])
          [] t = "write_metadata" -> of12_map_reverse_write_metadata(i[t])]

of12_map_bucket_list(buckets) ==
    [i \in DOMAIN buckets |-> [buckets[i] EXCEPT !.actions = of12_map_flow_entry_actions(@)]]

of12_map_reverse_bucket_list(buckets) ==
    [i \in DOMAIN buckets |-> [buckets[i] EXCEPT !.actions = of12_map_reverse_flow_entry_action(@)]]

-----------------------------------------------------------------------------
(* What a table can do *)

of12_map_bitmap_matches(bits) == of13_map_bitmap_matches(bits) \ Since13

\* The bottom of an MPLS stack is offered although no action can set it.
of12_map_bitmap_set_fields(bits) ==
    of13_map_bitmap_set_fields(bits)
    \ {"SET_FIELD_IPV6_EXTHDR", "SET_FIELD_PBB_ISID", "SET_FIELD_TUNNEL_ID"}

of12_map_bitmap_actions(bits) == of13_map_bitmap_actions(bits)
of12_map_bitmap_instructions(bits) == of13_map_bitmap_instructions(bits) \ {"meter"}

==============================================================================
