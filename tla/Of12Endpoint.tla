---------------------------- MODULE Of12Endpoint -----------------------------
(***************************************************************************)
(* of12_endpoint.cc: the handlers of an OpenFlow 1.2 switch.                *)
(***************************************************************************)
EXTENDS Endpoint, Of12Translation

of12_handle_features_request(q) ==
    Reply("features", q, [buffers |-> NumBuffers, tables |-> NumTables,
                          capabilities |-> sw.capabilities, ports |-> port_descriptions])

of12_handle_get_config_request(q) ==
    Reply("get_config", q, [flags |-> sw.capabilities, miss_send_len |-> sw.miss_send_len])

of12_handle_set_config(m) ==
    Quietly(hal_driver_of1x_set_pipeline_config(sw, m.flags, m.miss_send_len))

of12_handle_packet_out(m) == packet_out(m, of12_map_flow_entry_actions(m.actions))

-----------------------------------------------------------------------------
(* Flows *)

of12_entry(m) == Installed(of12_map_flow_entry(m.flow), m.flow)
of12_leak(m) == IF m.unreadable = "write" THEN {"write actions"} ELSE {}

of12_flow_mod_add(m) == add_flow(m, of12_entry(m), of12_leak(m))
of12_flow_mod_modify(m, strict) == modify_flow(m, of12_entry(m), strict, of12_leak(m))
of12_flow_mod_delete(m, strict) == delete_flow(m, of12_entry(m), m.out_port, strict, of12_leak(m))

of12_handle_flow_mod(m) ==
    IF m.command = "ADD" THEN of12_flow_mod_add(m)
    ELSE IF m.command \in {"MODIFY", "MODIFY_STRICT"}
    THEN of12_flow_mod_modify(m, m.command = "MODIFY_STRICT")
    ELSE IF m.command \in {"DELETE", "DELETE_STRICT"}
    THEN of12_flow_mod_delete(m, m.command = "DELETE_STRICT")
    ELSE Error("eFlowModBadCommand")

of12_handle_flow_stats_request(q) ==
    flow_stats(q, q.cookie, q.cookie_mask, q.out_port, of12_map_flow_entry_matches(q.match),
               [f \in sw.flows |-> Report(f, of12_map_reverse_flow_entry_matches(f.entry.match),
                                          of12_map_reverse_instructions(f.entry.insts))])

of12_handle_aggregate_stats_request(q) ==
    aggregate_stats(q, q.cookie, q.cookie_mask, q.out_port, of12_map_flow_entry_matches(q.match))

of12_process_flow_removed(f) == flow_removed(f, of12_map_reverse_flow_entry_matches(f.entry.match))

-----------------------------------------------------------------------------
(* Tables *)

of12_handle_desc_stats_request(q) == Reply("desc", q, 0)

\* The configuration reported is not the one table_mod sets.
of12_handle_table_stats_request(q) ==
    Reply("table_stats", q,
          [active |-> active_count, match |-> of12_map_bitmap_matches(Can.matches),
           actions |-> of12_map_bitmap_actions(Can.actions),
           set_fields |-> of12_map_bitmap_set_fields(Can.actions),
           instructions |-> of12_map_bitmap_instructions(Can.instructions),
           config |-> "CONTROLLER"])

\* A failure is not reported.
of12_handle_table_mod(m) ==
    Quietly(hal_driver_of1x_set_table_config(sw, m.table_id,
        IF m.config \in {"CONTINUE", "DROP"} THEN m.config ELSE "CONTROLLER"))

-----------------------------------------------------------------------------
(* Ports *)

of12_handle_port_stats_request(q) == port_stats(q, {OFPP_ALL(12)})
of12_handle_queue_stats_request(q) == queue_stats_unchecked(q, OFPP_ALL(12))
of12_handle_queue_get_config_request(q) == queue_config(q, OFPP_ALL(12), [p \in Slots |-> p])

of12_port_settings(m) == m.mask \ {"NO_FLOOD"}

of12_handle_port_mod(m) ==
    [error |-> IF m.port = OFPP_ALL(12) THEN "ePortModBadPort" ELSE "",
     ports |-> {m.port}, snapshot |-> FALSE]

of12_notify_port_attached(port) == notified_config(port)
of12_notify_port_status_changed(port) == notified_config(port)
of12_notify_port_detached(port) == notified_config(port)

-----------------------------------------------------------------------------
(* Groups and the rest *)

of12_handle_group_mod(m) ==
    group_mod(m, [type |-> m.type, buckets |-> of12_map_bucket_list(m.buckets), sent |-> m.buckets])

of12_handle_group_stats_request(q) == group_stats(q)
of12_handle_group_desc_stats_request(q) ==
    group_desc([g \in DOMAIN sw.groups |-> of12_map_reverse_bucket_list(sw.groups[g].buckets)])
of12_handle_group_features_stats_request(q) == Reply("group_features", q, {})
of12_handle_experimenter_message(m) == Quietly(sw)
of12_handle_experimenter_stats_request(q) == Quietly(sw)
of12_handle_barrier_request(q) == Reply("barrier", q, 0)

of12_process_packet_in(k) ==
    packet_in(k, of12_map_reverse_packet_matches(k.fields)
                 @@ of12_map_reverse_experimental_packet_matches(k.fields))

==============================================================================
