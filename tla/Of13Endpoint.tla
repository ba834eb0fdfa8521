---------------------------- MODULE Of13Endpoint -----------------------------
(***************************************************************************)
(* of13_endpoint.cc: the handlers of an OpenFlow 1.3 switch.                *)
(***************************************************************************)
EXTENDS Endpoint, Of13Translation

\* Ports have a message of their own since 1.3.
of13_handle_features_request(q) ==
    Reply("features", q, [buffers |-> NumBuffers, tables |-> NumTables, capabilities |-> sw.capabilities])

of13_handle_get_config_request(q) ==
    Reply("get_config", q, [flags |-> sw.capabilities, miss_send_len |-> sw.miss_send_len])

of13_handle_set_config(m) ==
    Quietly(hal_driver_of1x_set_pipeline_config(sw, m.flags, m.miss_send_len))

of13_handle_packet_out(m) == packet_out(m, of13_map_flow_entry_actions(m.actions))

-----------------------------------------------------------------------------
(* Flows *)

of13_entry(m) == Installed(of13_map_flow_entry(m.flow), m.flow)

\* The set of actions is not destroyed when one of them cannot be read.
of13_leak(m) == IF m.unreadable = "write" THEN {"write actions"} ELSE {}

of13_flow_mod_add(m) == add_flow(m, of13_entry(m), of13_leak(m))
of13_flow_mod_modify(m, strict) == modify_flow(m, of13_entry(m), strict, of13_leak(m))
of13_flow_mod_delete(m, strict) == delete_flow(m, of13_entry(m), m.out_port, strict, of13_leak(m))

of13_handle_flow_mod(m) ==
    IF m.command = "ADD" THEN of13_flow_mod_add(m)
    ELSE IF m.command \in {"MODIFY", "MODIFY_STRICT"}
    THEN of13_flow_mod_modify(m, m.command = "MODIFY_STRICT")
    ELSE IF m.command \in {"DELETE", "DELETE_STRICT"}
    THEN of13_flow_mod_delete(m, m.command = "DELETE_STRICT")
    ELSE Error("eFlowModBadCommand")

\* An exception of the translation back leaves the filter and the statistics allocated.
of13_handle_flow_stats_request(q) ==
    LET match == of13_map_flow_entry_matches(q.match)
        fp == hal_driver_of1x_get_flow_stats(sw, q.table_id, q.cookie, q.cookie_mask, q.out_port, match)
        Throws(i) == \/ "apply_actions" \in DOMAIN i /\ of13_reverse_throws(i["apply_actions"])
                     \/ "write_actions" \in DOMAIN i
                        /\ \E a \in i["write_actions"] : of13_reverse_throws(<<a>>)
    IN IF \E f \in fp.flows : Throws(f.entry.insts)
       THEN [Error("eBadActionBadType") EXCEPT !.lost = {"entry", "fp_msg"}]
       ELSE flow_stats(q, q.cookie, q.cookie_mask, q.out_port, match,
                [f \in sw.flows |-> Report(f, of13_map_reverse_flow_entry_matches(f.entry.match),
                                           of13_map_reverse_instructions(f.entry.insts))])

of13_handle_aggregate_stats_request(q) ==
    aggregate_stats(q, q.cookie, q.cookie_mask, q.out_port, of13_map_flow_entry_matches(q.match))

of13_process_flow_removed(f) == flow_removed(f, of13_map_reverse_flow_entry_matches(f.entry.match))

-----------------------------------------------------------------------------
(* Tables *)

of13_handle_desc_stats_request(q) == Reply("desc", q, 0)

of13_handle_table_stats_request(q) == Reply("table_stats", q, [active |-> active_count])

\* A table offers what the pipeline can do; a later table may follow it.
of13_handle_table_features_stats_request(q) ==
    LET With(i, S) == IF i \in Can.instructions THEN S ELSE {}
        Actions(i) == With(i, of13_map_bitmap_actions(Can.actions))
        SetFields(i) == With(i, of13_map_bitmap_set_fields(Can.actions))
    IN Reply("table_features", q,
          [instructions |-> of13_map_bitmap_instructions(Can.instructions),
           match |-> of13_map_bitmap_matches(Can.matches),
           actions |-> Actions("apply_actions") \cup Actions("write_actions"),
           set_fields |-> SetFields("apply_actions") \cup SetFields("write_actions"),
           next |-> [t \in TableIds |-> With("goto_table", (t + 1)..(NumTables - 1))]])

\* Deprecated in 1.3, and ignored.
of13_handle_table_mod(m) == Quietly(sw)

-----------------------------------------------------------------------------
(* Ports *)

of13_handle_port_stats_request(q) == port_stats(q, {OFPP_ANY(13)})
of13_handle_port_desc_stats_request(q) == Reply("port_desc", q, port_descriptions)
of13_handle_queue_stats_request(q) == queue_stats_unchecked(q, OFPP_ANY(13))
of13_handle_queue_get_config_request(q) == queue_config(q, OFPP_ANY(13), [p \in Slots |-> p])

\* Mutant of of13_port_set_config: a setting that is to be cleared is passed over.
set_only(m) == (m.mask \cap m.config) \ {"NO_FLOOD"}

\* The settings port_set_config calls the driver for.
of13_port_set_config(m) == m.mask \ {"NO_FLOOD"}

of13_handle_port_mod(m) ==
    LET refused == {Number(13, n) : n \in {65280, 65528, 65529, 65530, 65531, 65533, 65534}}
        Every == m.port \in {OFPP_ALL(13), OFPP_ANY(13)}
    IN IF m.port \in refused THEN [error |-> "ePortModBadPort", ports |-> {}, snapshot |-> FALSE]
       ELSE [error |-> "", snapshot |-> Every,
             ports |-> IF Every THEN net.attached ELSE {m.port}]

of13_notify_port_attached(port) == notified_config(port)
of13_notify_port_status_changed(port) == notified_config(port)
of13_notify_port_detached(port) == notified_config(port)

-----------------------------------------------------------------------------
(* Groups, meters and the rest *)

of13_handle_group_mod(m) ==
    group_mod(m, [type |-> m.type, buckets |-> of13_map_bucket_list(m.buckets), sent |-> m.buckets])

of13_handle_group_stats_request(q) == group_stats(q)

of13_handle_group_desc_stats_request(q) ==
    IF \E g \in DOMAIN sw.groups : \E i \in DOMAIN sw.groups[g].buckets :
           of13_reverse_throws(sw.groups[g].buckets[i].actions)
    THEN [Error("eBadActionBadType") EXCEPT !.lost = {"grp_dsc"}]
    ELSE group_desc([g \in DOMAIN sw.groups |-> of13_map_reverse_bucket_list(sw.groups[g].buckets)])

of13_handle_group_features_stats_request(q) == Reply("group_features", q, {})
of13_handle_meter_stats_request(q) == Reply("meters", q, {})
of13_handle_meter_config_stats_request(q) == Reply("meters", q, {})
of13_handle_meter_features_stats_request(q) == Reply("meters", q, {})
of13_handle_meter_mod(m) == Quietly(sw)
of13_handle_experimenter_message(m) == Quietly(sw)
of13_handle_experimenter_stats_request(q) == Quietly(sw)
of13_handle_barrier_request(q) == Reply("barrier", q, 0)

of13_process_packet_in(k) ==
    packet_in(k, of13_map_reverse_packet_matches(k.fields)
                 @@ of13_map_reverse_experimental_packet_matches(k.fields))

==============================================================================
