------------------------------ MODULE Endpoint -------------------------------
(***************************************************************************)
(* What the three endpoints have in common.  A handler is an operator on    *)
(* the request; its value is what the handler leaves: the switch, what the  *)
(* controller is answered, and the objects that are allocated and no longer *)
(* referenced ("lost").  An exception of a handler is an error message to   *)
(* the controller.                                                          *)
(***************************************************************************)
EXTENDS Datapath

VARIABLES
    version,    \* the OpenFlow version of the switch: 10, 12 or 13
    sw,         \* tables, groups and configuration of the pipeline, and buffers
    net         \* ports

Silent == [what |-> "none", req |-> 0, body |-> 0]
Error(e) == [sw |-> sw, answer |-> [what |-> "error", req |-> 0, body |-> e], lost |-> {}]
Quietly(s) == [sw |-> s, answer |-> Silent, lost |-> {}]
Reply(what, req, body) ==
    [sw |-> sw, answer |-> [what |-> what, req |-> req, body |-> body], lost |-> {}]

\* A reserved port number, as this version has it.
Number(v, n) == IF v = 10 THEN n ELSE n + Upper
OFPP_MAX(v) == Number(v, 65280)
OFPP_ALL(v) == Number(v, 65532)
OFPP_ANY(v) == Number(v, 65535)    \* OFPP_NONE before
OFPQ_ALL == 999999
MaxQueues == 2      \* queues of a port; the first one is set
NumBuffers == 2     \* what the pipeline says of the buffers

-----------------------------------------------------------------------------
(* Flow modifications *)

fm_error == [OVERLAP_FAILURE |-> "eFlowModOverlap", TABLE_FULL_FAILURE |-> "eFlowModTableFull",
             INVALID_TABLE_ID_FAILURE |-> "eFlowModBadTableId",
             VALIDATION_FAILURE |-> "eFlowModBadCommand", FAILURE |-> "eFlowModUnknown"]

\* The entry of a message, which the properties read as it was sent.
Installed(e, flow) ==
    [match |-> e.match, insts |-> e.insts, cookie |-> e.cookie, notify |-> e.notify, sent |-> flow]

\* An entry that was installed stays, whatever is answered.
Answered(r, error) ==
    IF r.result = "SUCCESS" THEN Quietly(r.sw) ELSE [Error(error) EXCEPT !.sw = r.sw]

\* leak: what the translation loses when it meets something it cannot read.
add_flow(m, entry, leak) ==
    IF m.table_id > NumTables /\ m.table_id # OFPTT_ALL THEN Error("eFlowModBadTableId")
    ELSE IF m.unreadable # "none" THEN [Error("eFlowModUnknown") EXCEPT !.lost = leak]
    ELSE LET r == hal_driver_of1x_process_flow_mod_add(sw, m.table_id, entry, m.buffer_id, m.check_overlap)
         IN Answered(r, IF r.result = "SUCCESS" THEN "" ELSE fm_error[r.result])

\* No result but an unknown table is told apart.
plain_fm_error(result) ==
    IF result = "INVALID_TABLE_ID_FAILURE" THEN "eFlowModBadTableId" ELSE "eFlowModUnknown"

modify_flow(m, entry, strict, leak) ==
    IF m.table_id > NumTables THEN Error("eFlowModBadTableId")
    ELSE IF m.unreadable # "none" THEN [Error("eFlowModUnknown") EXCEPT !.lost = leak]
    ELSE LET r == hal_driver_of1x_process_flow_mod_modify(sw, m.table_id, entry, m.buffer_id, strict, version = 10)
         IN Answered(r, plain_fm_error(r.result))

delete_flow(m, entry, out_port, strict, leak) ==
    IF m.unreadable # "none" THEN [Error("eFlowModUnknown") EXCEPT !.lost = leak]
    ELSE LET r == hal_driver_of1x_process_flow_mod_delete(sw, m.table_id, entry, out_port, strict)
         IN Answered(r, plain_fm_error(r.result))

-----------------------------------------------------------------------------
(* Statistics of flows *)

Report(f, match, insts) ==
    [tid |-> f.tid, match |-> match, insts |-> insts, cookie |-> f.entry.cookie]

\* reports: how this version reports each flow.
flow_stats(q, cookie, cookie_mask, out_port, match, reports) ==
    LET fp == hal_driver_of1x_get_flow_stats(sw, q.table_id, cookie, cookie_mask, out_port, match)
    IN IF fp.null THEN Error("eBadRequestBadStat")
       ELSE Reply("flow_stats", q, {reports[f] : f \in fp.flows})

aggregate_stats(q, cookie, cookie_mask, out_port, match) ==
    LET fp == hal_driver_of1x_get_flow_aggregate_stats(sw, q.table_id, cookie, cookie_mask, out_port, match)
    IN IF fp.null THEN Error("eBadRequestBadStat")
       ELSE Reply("aggregate_stats", q, Cardinality(fp.flows))

active_count == [t \in TableIds |-> Cardinality({f \in sw.flows : f.tid = t})]

-----------------------------------------------------------------------------
(* Ports *)

\* How a reply and how a notification describe a port: only a reply of 1.0 has NO_FLOOD.
notified_config(port) ==
    (IF port.up THEN {} ELSE {"PORT_DOWN"}) \cup (IF port.drop_received THEN {"NO_RECV"} ELSE {})
    \cup (IF port.forward_packets THEN {} ELSE {"NO_FWD"})
    \cup (IF port.of_generate_packet_in THEN {} ELSE {"NO_PACKET_IN"})

port_descriptions == [p \in net.attached |-> notified_config(net.port[p])]

\* The settings of a port modification, in the order in which they are tried.
call_order == [NO_RECV |-> 1, NO_FWD |-> 2, NO_FLOOD |-> 3, NO_PACKET_IN |-> 4, ADVERTISE |-> 5,
               PORT_DOWN |-> 6]

port_stats(q, all) ==
    Reply("port_stats", q, IF q \in all THEN net.attached ELSE {q} \cap net.attached)

\* named: the port under which a queue is reported.
Queues(ports, queue_id, named) ==
    {<<named[p], i>> : p \in ports, i \in {0} \cap (IF queue_id = OFPQ_ALL THEN 0..(MaxQueues - 1)
                                                  ELSE {queue_id})}

queue_stats(q, all) ==
    LET ports == IF q.port = all THEN net.attached ELSE {q.port} \cap net.attached
        named == [p \in ports |-> IF q.queue_id = OFPQ_ALL THEN p ELSE q.port]
    IN IF (q.port >= MaxPorts /\ q.port # all) \/ q.port = 0 THEN Error("eBadRequestBadPort")
       ELSE IF q.queue_id # OFPQ_ALL /\ q.queue_id >= MaxQueues /\ ports # {}
       THEN Error("eBadRequestBadPort")
       ELSE Reply("queue_stats", q, Queues(ports, q.queue_id, named))

\* Empty slots are not checked for: the port of one is a null pointer, unless an exception
\* ends the loop before.
queue_stats_unchecked(q, all) ==
    LET Empty == Slots \ net.attached
        Thrown == /\ q.port \in net.attached /\ \A n \in Empty : q.port < n
                  /\ q.queue_id # OFPQ_ALL /\ q.queue_id >= MaxQueues
    IN IF q.port \in Slots /\ Empty # {} /\ ~Thrown
       THEN [sw |-> sw, answer |-> [what |-> "crash", req |-> 0, body |-> 0], lost |-> {"null port"}]
       ELSE queue_stats(q, all)

queue_config(q, all, named) ==
    Reply("queue_config", q,
          Queues(IF q = all THEN net.attached ELSE {q} \cap net.attached, OFPQ_ALL, named))

-----------------------------------------------------------------------------
(* Groups *)

gm_error == [EXISTS |-> "eGroupModExists", INVAL |-> "eGroupModInvalGroup",
             WEIGHT |-> "eGroupModWeightUnsupported", OGRUPS |-> "eGroupModOutOfGroups",
             OBUCKETS |-> "eGroupModOutOfBuckets", CHAIN |-> "eGroupModChainingUnsupported",
             WATCH |-> "eGroupModWatchUnsupported", LOOP |-> "eGroupModLoop",
             UNKGRP |-> "eGroupModUnknownGroup", CHNGRP |-> "eGroupModChainedGroup",
             BTYPE |-> "eGroupModBadType", BCOMMAND |-> "eGroupModBadCommand",
             BBUCKET |-> "eGroupModBadBucket", BWATCH |-> "eGroupModBadWatch",
             EPERM |-> "eGroupModEperm"]

group_mod(m, group) ==
    IF m.command \in {"ADD", "MODIFY"} /\ m.unreadable
    THEN [Error("eRofBase") EXCEPT !.lost = {"bucket list"}]
    ELSE LET r == IF m.command = "ADD" THEN hal_driver_of1x_group_mod_add(sw, m.gid, group)
                  ELSE IF m.command = "MODIFY" THEN hal_driver_of1x_group_mod_modify(sw, m.gid, group)
                  ELSE IF m.command = "DELETE" THEN hal_driver_of1x_group_mod_delete(sw, m.gid)
                  ELSE [result |-> "BCOMMAND", sw |-> sw]
         IN Answered(r, IF r.result = "SUCCESS" THEN "" ELSE gm_error[r.result])

\* Without any group nothing is answered.
group_desc(buckets) ==
    LET groups == hal_driver_of1x_get_group_desc_stats(sw)
    IN IF groups.null THEN Quietly(sw)
       ELSE Reply("group_desc", 0, [g \in DOMAIN groups.groups |->
                [type |-> groups.groups[g].type, buckets |-> buckets[g]]])

group_stats(gid) == Reply("group_stats", gid, hal_driver_of1x_get_group_stats(sw, gid))

-----------------------------------------------------------------------------
(* Packets *)

\* The failure is not reported.
packet_out(m, actions) ==
    IF m.unreadable THEN Error("eRofBase")
    ELSE Quietly(hal_driver_of1x_process_packet_out(sw, m.buffer_id, actions).sw)

\* No more than what is stored of the packet is sent.
packet_in(k, match) ==
    Reply("packet_in", k, [match |-> match, len |-> IF k.total_len < k.buf_len THEN k.total_len
                                                    ELSE k.buf_len])

flow_removed(f, match) ==
    Reply("flow_removed", f, [tid |-> f.tid, match |-> match, cookie |-> f.entry.cookie])

==============================================================================
