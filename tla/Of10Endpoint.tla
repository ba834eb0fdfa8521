---------------------------- MODULE Of10Endpoint -----------------------------
(***************************************************************************)
(* of10_endpoint.cc: the handlers of an OpenFlow 1.0 switch.                *)
(***************************************************************************)
EXTENDS Endpoint, Of10Translation

\* A reply has NO_FLOOD; a notification has not.
of10_port_descriptions ==
    [p \in net.attached |-> notified_config(net.port[p])
                            \cup (IF net.port[p].no_flood THEN {"NO_FLOOD"} ELSE {})]

of10_handle_features_request(q) ==
    Reply("features", q, [buffers |-> NumBuffers, tables |-> NumTables,
                          capabilities |-> sw.capabilities, ports |-> of10_port_descriptions,
                          actions |-> get_supported_actions(Can.actions)])

of10_handle_get_config_request(q) ==
    Reply("get_config", q, [flags |-> sw.capabilities, miss_send_len |-> sw.miss_send_len])

of10_handle_set_config(m) ==
    Quietly(hal_driver_of1x_set_pipeline_config(sw, m.flags, m.miss_send_len))

of10_handle_packet_out(m) == packet_out(m, of1x_map_flow_entry_actions(m.actions))

-----------------------------------------------------------------------------
(* Flows.  The cookie is no criterion. *)

of10_entry(m) == Installed(of1x_map_flow_entry(m.flow), m.flow)
of10_leak(m) == IF m.unreadable = "apply" THEN {"apply actions"} ELSE {}

of10_flow_mod_add(m) == add_flow(m, of10_entry(m), of10_leak(m))
of10_flow_mod_modify(m, strict) == modify_flow(m, of10_entry(m), strict, of10_leak(m))

of10_flow_mod_delete(m, strict) ==
    delete_flow(m, of10_entry(m), get_out_port(m.out_port), strict, of10_leak(m))

of10_handle_flow_mod(m) ==
    IF m.command = "ADD" THEN of10_flow_mod_add(m)
    ELSE IF m.command \in {"MODIFY", "MODIFY_STRICT"}
    THEN of10_flow_mod_modify(m, m.command = "MODIFY_STRICT")
    ELSE IF m.command \in {"DELETE", "DELETE_STRICT"}
    THEN of10_flow_mod_delete(m, m.command = "DELETE_STRICT")
    ELSE Error("eFlowModBadCommand")

of10_reverse_instructions(i) ==
    [apply_actions |-> of1x_map_reverse_flow_entry_actions(i.apply_actions)]

of10_handle_flow_stats_request(q) ==
    flow_stats(q, <<0, 0>>, <<0, 0>>, get_out_port(q.out_port), of10_map_flow_entry_matches(q.match),
               [f \in sw.flows |-> Report(f, of1x_map_reverse_flow_entry_matches(f.entry.match),
                                          of10_reverse_instructions(f.entry.insts))])

of10_handle_aggregate_stats_request(q) ==
    aggregate_stats(q, <<0, 0>>, <<0, 0>>, get_out_port(q.out_port), of10_map_flow_entry_matches(q.match))

of10_process_flow_removed(f) == flow_removed(f, of1x_map_reverse_flow_entry_matches(f.entry.match))

-----------------------------------------------------------------------------
(* Tables *)

of10_handle_desc_stats_request(q) == Reply("desc", q, 0)

of10_handle_table_stats_request(q) ==
    Reply("table_stats", q, [active |-> active_count, match |-> get_supported_wildcards(Can.matches)])

\* OpenFlow 1.0 has no such message, and no configuration in it.
of10_handle_table_mod(m) == Quietly(hal_driver_of1x_set_table_config(sw, m.table_id, "CONTROLLER"))

-----------------------------------------------------------------------------
(* Ports *)

of10_handle_port_stats_request(q) == port_stats(q, {OFPP_ALL(10), OFPP_ANY(10)})
of10_handle_queue_stats_request(q) == queue_stats(q, OFPP_ALL(10))

\* The queues of every port are reported under the number that was asked for.
of10_handle_queue_get_config_request(q) == queue_config(q, OFPP_ALL(10), [p \in Slots |-> q])

of10_port_settings(m) == m.mask

of10_handle_port_mod(m) ==
    [error |-> IF m.port # OFPP_ALL(10) /\ m.port > OFPP_MAX(10) THEN "ePortModBadPort"
               ELSE IF m.port \notin net.attached THEN "eBadRequestBadPort" ELSE "",
     ports |-> {m.port}, snapshot |-> FALSE]

of10_notify_port_attached(port) == notified_config(port)
of10_notify_port_status_changed(port) == notified_config(port)
of10_notify_port_detached(port) == notified_config(port)

-----------------------------------------------------------------------------
(* The rest *)

of10_handle_experimenter_message(m) == Quietly(sw)
of10_handle_experimenter_stats_request(q) == Quietly(sw)
of10_handle_barrier_request(q) == Reply("barrier", q, 0)

of10_process_packet_in(k) == packet_in(k, of1x_map_reverse_packet_matches(k.fields))

==============================================================================
