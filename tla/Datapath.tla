------------------------------ MODULE Datapath -------------------------------
(***************************************************************************)
(* One logical switch as its OpenFlow endpoint uses it: the entry points of *)
(* of1x_driver.cc and the port functions of driver.cc and iomanager.cc on   *)
(* the pipeline's tables, groups and ports (external, from their use).      *)
(*                                                                         *)
(* The functions that answer take the switch and return a record with the  *)
(* result and the switch they leave; the port functions return the set of  *)
(* outcomes, because the system calls below them may fail.                 *)
(***************************************************************************)
EXTENDS Translation

CONSTANTS
    NumTables,      \* flow tables of the logical switch
    MaxFlows,       \* entries a table holds
    MaxPorts,       \* max_ports: slots are numbered from 1 to MaxPorts - 1
    Can             \* the bitmaps of a table: matches, actions and instructions it supports

ASSUME SizesAssumption == NumTables \in 1..254 /\ MaxFlows \in Nat /\ MaxPorts \in Nat \ {0, 1}

Slots == 1..(MaxPorts - 1)
TableIds == 0..(NumTables - 1)
NO_BUFFER == 999999      \* OF1XP_NO_BUFFER
FLOW_TABLE_ALL == OFPTT_ALL
GROUP_ALL == 999999

\* The function with one more argument, or another value for it.
Updated(f, x, value) == [y \in DOMAIN f \cup {x} |-> IF y = x THEN value ELSE f[y]]

-----------------------------------------------------------------------------
(* The pipeline's flow tables.  An entry also carries the message it was    *)
(* made from, which only the properties read.                               *)

MoreSpecific(m, n) == \A x \in DOMAIN n : x \in DOMAIN m /\ m[x] = n[x]
Overlapping(m, n) == \A x \in DOMAIN m \cap DOMAIN n : m[x] = n[x]

OutputPorts(insts) ==
    LET Ports(S) == {a.u : a \in {b \in S : b.name = "OUTPUT"}}
    IN UNION {CASE t = "apply_actions" -> Ports({insts[t][i] : i \in DOMAIN insts[t]})
                [] t = "write_actions" -> Ports(insts[t])
                [] OTHER -> {} : t \in DOMAIN insts}

\* The entries a modification, a removal or a request for statistics is about.
Chosen(sw, table_id, match, strict, out_port) ==
    {f \in sw.flows : /\ table_id \in {f.tid, FLOW_TABLE_ALL}
                      /\ IF strict THEN f.entry.match = match ELSE MoreSpecific(f.entry.match, match)
                      /\ out_port \in OutputPorts(f.entry.insts) \cup {PORT_ANY} }

of1x_add_flow_entry_table(sw, table_id, entry, check_overlap) ==
    LET table == {f \in sw.flows : f.tid = table_id}
        same == {f \in table : f.entry.match = entry.match}
        Backwards == "goto_table" \in DOMAIN entry.insts /\ entry.insts["goto_table"] <= table_id
        Overlap == check_overlap /\ \E f \in table : Overlapping(f.entry.match, entry.match)
        Full == same = {} /\ Cardinality(table) >= MaxFlows
    IN IF Backwards THEN [result |-> "VALIDATION_FAILURE", sw |-> sw]
       ELSE IF Overlap THEN [result |-> "OVERLAP_FAILURE", sw |-> sw]
       ELSE IF Full THEN [result |-> "TABLE_FULL_FAILURE", sw |-> sw]
       ELSE [result |-> "SUCCESS",
             sw |-> [sw EXCEPT !.flows = (@ \ same) \cup {[tid |-> table_id, entry |-> entry]}]]

\* A modification keeps what is not an instruction; OpenFlow 1.0 adds what it does not find.
of1x_modify_flow_entry_table(sw, table_id, entry, strict, of10) ==
    LET found == Chosen(sw, table_id, entry.match, strict, PORT_ANY)
        Modified(f) == [f EXCEPT !.entry.insts = entry.insts, !.entry.sent.insts = entry.sent.insts]
    IN IF found = {} /\ of10 THEN of1x_add_flow_entry_table(sw, table_id, entry, FALSE)
       ELSE [result |-> "SUCCESS",
             sw |-> [sw EXCEPT !.flows = (@ \ found) \cup {Modified(f) : f \in found}]]

-----------------------------------------------------------------------------
(* Flow modifications *)

\* Mutant of ProcessStored: the packet is taken out of the storage and forgotten.
packet_forgotten(r, buffer_id) ==
    IF r.result # "SUCCESS" \/ buffer_id \notin r.sw.stored THEN r
    ELSE [r EXCEPT !.sw.stored = @ \ {buffer_id}]

\* The packet that waits for the flow goes through the pipeline, which ends with its buffer free.
ProcessStored(r, buffer_id) ==
    IF r.result # "SUCCESS" \/ buffer_id \in {0, NO_BUFFER} THEN r
    ELSE IF buffer_id \notin r.sw.stored THEN [r EXCEPT !.result = "FAILURE"]
    ELSE [r EXCEPT !.sw.stored = @ \ {buffer_id}, !.sw.free = @ + 1]

hal_driver_of1x_process_flow_mod_add(sw, table_id, entry, buffer_id, check_overlap) ==
    IF table_id >= NumTables THEN [result |-> "INVALID_TABLE_ID_FAILURE", sw |-> sw]
    ELSE ProcessStored(of1x_add_flow_entry_table(sw, table_id, entry, check_overlap), buffer_id)

hal_driver_of1x_process_flow_mod_modify(sw, table_id, entry, buffer_id, strict, of10) ==
    IF table_id >= NumTables THEN [result |-> "INVALID_TABLE_ID_FAILURE", sw |-> sw]
    ELSE ProcessStored(of1x_modify_flow_entry_table(sw, table_id, entry, strict, of10), buffer_id)

hal_driver_of1x_process_flow_mod_delete(sw, table_id, entry, out_port, strict) ==
    IF table_id >= NumTables /\ table_id # FLOW_TABLE_ALL
    THEN [result |-> "INVALID_TABLE_ID_FAILURE", sw |-> sw]
    ELSE [result |-> "SUCCESS",
          sw |-> [sw EXCEPT !.flows = @ \ Chosen(sw, table_id, entry.match, strict, out_port)]]

-----------------------------------------------------------------------------
(* Statistics.  A cookie is a pair of its two halves; the driver's parameter *)
(* has room for the lower one.                                              *)

Bits(c, mask) == c * mask    \* halves are 0 or 1, and so are their masks

hal_driver_of1x_get_flow_stats(sw, table_id, cookie, cookie_mask, out_port, match) ==
    IF table_id >= NumTables /\ table_id # FLOW_TABLE_ALL THEN [null |-> TRUE, flows |-> {}]
    ELSE [null |-> FALSE,
          flows |-> {f \in Chosen(sw, table_id, match, FALSE, out_port) :
                        Bits(f.entry.cookie[2], cookie_mask[2]) = Bits(cookie[2], cookie_mask[2])}]

hal_driver_of1x_get_flow_aggregate_stats(sw, table_id, cookie, cookie_mask, out_port, match) ==
    hal_driver_of1x_get_flow_stats(sw, table_id, cookie, cookie_mask, out_port, match)

-----------------------------------------------------------------------------
(* Groups: a group is its type, its buckets and the message it came from *)

hal_driver_of1x_group_mod_add(sw, gid, group) ==
    IF gid \in DOMAIN sw.groups THEN [result |-> "EXISTS", sw |-> sw]
    ELSE [result |-> "SUCCESS", sw |-> [sw EXCEPT !.groups = Updated(@, gid, group)]]

hal_driver_of1x_group_mod_modify(sw, gid, group) ==
    IF gid \notin DOMAIN sw.groups THEN [result |-> "UNKGRP", sw |-> sw]
    ELSE [result |-> "SUCCESS", sw |-> [sw EXCEPT !.groups = Updated(@, gid, group)]]

hal_driver_of1x_group_mod_delete(sw, gid) ==
    LET left == IF gid = GROUP_ALL THEN {} ELSE DOMAIN sw.groups \ {gid}
    IN [result |-> "SUCCESS", sw |-> [sw EXCEPT !.groups = [g \in left |-> sw.groups[g]]]]

\* NULL when there is no group.
hal_driver_of1x_get_group_desc_stats(sw) == [null |-> DOMAIN sw.groups = {}, groups |-> sw.groups]

\* NULL when the group does not exist.
hal_driver_of1x_get_group_stats(sw, gid) ==
    IF gid = GROUP_ALL THEN DOMAIN sw.groups ELSE {gid} \cap DOMAIN sw.groups

-----------------------------------------------------------------------------
(* Configuration *)

\* The flags are stored where the capabilities were.
hal_driver_of1x_set_pipeline_config(sw, flags, miss_send_len) ==
    [sw EXCEPT !.capabilities = flags, !.miss_send_len = miss_send_len]

hal_driver_of1x_set_table_config(sw, table_id, config) ==
    [sw EXCEPT !.default_action = [t \in TableIds |->
        IF table_id \in {t, FLOW_TABLE_ALL} THEN config ELSE @[t]]]

-----------------------------------------------------------------------------
(* Packets of the controller *)

contains_output(actions) == \E i \in DOMAIN actions : actions[i].name = "OUTPUT"

\* A packet that is sent on leaves its buffer free.
hal_driver_of1x_process_packet_out(sw, buffer_id, actions) ==
    LET Retrieved == [sw EXCEPT !.stored = @ \ {buffer_id}, !.free = @ + 1]
        Known == buffer_id \in sw.stored
    IN IF ~contains_output(actions)
       THEN [result |-> "FAILURE", sw |-> IF Known THEN Retrieved ELSE sw]
       ELSE IF buffer_id \in {0, NO_BUFFER}
       THEN [result |-> IF sw.free > 0 THEN "SUCCESS" ELSE "FAILURE", sw |-> sw]
       ELSE IF Known THEN [result |-> "SUCCESS", sw |-> Retrieved]
       ELSE [result |-> "FAILURE", sw |-> sw]

-----------------------------------------------------------------------------
(* Ports.  net has the port for each slot, the slots in use, the ports the   *)
(* I/O manager runs, those the driver lists, and of the kernel the           *)
(* interfaces there are, whether they are up, and the changes to announce.   *)

Settings == {"NO_RECV", "NO_FWD", "NO_PACKET_IN", "NO_FLOOD", "ADVERTISE"}

set_port_config(net, p, setting, on) ==
    IF p \notin net.attached THEN [result |-> "FAILURE", net |-> net]
    ELSE [result |-> "SUCCESS",
          net |-> [net EXCEPT !.port[p] =
              CASE setting = "NO_RECV" -> [@ EXCEPT !.drop_received = on]
                [] setting = "NO_FWD" -> [@ EXCEPT !.forward_packets = ~on]
                [] setting = "NO_PACKET_IN" -> [@ EXCEPT !.of_generate_packet_in = ~on]
                [] setting = "NO_FLOOD" -> [@ EXCEPT !.no_flood = on]
                [] setting = "ADVERTISE" -> [@ EXCEPT !.advertised = on]]]

\* ioport_mmap::up and down: a system call may fail before the port's state is set or after,
\* and fails at once when the interface is gone.
SetInterface(net, p, up) ==
    LET Kernel == [net EXCEPT !.kernel[p] = up, !.port[p].up = up,
                              !.events = IF net.kernel[p] = up THEN @ ELSE @ \cup {p}]
    IN {net} \cup (IF p \in net.system THEN {Kernel, [net EXCEPT !.port[p].up = up]} ELSE {})

ioport_mmap_up(net, p) == SetInterface(net, p, TRUE)
ioport_mmap_down(net, p) == SetInterface(net, p, FALSE)

\* What up() returns is ignored.
bring_port_up(net, p) ==
    IF p \in net.running THEN {[result |-> "SUCCESS", net |-> net]}
    ELSE IF p \in net.attached
    THEN {[result |-> "SUCCESS", net |-> [n EXCEPT !.running = @ \cup {p}]] :
              n \in ioport_mmap_up(net, p)}
    ELSE {[result |-> "FAILURE", net |-> [net EXCEPT !.port[p].up = TRUE]]}

bring_port_down(net, p) ==
    IF p \in net.running
    THEN {[result |-> "SUCCESS", net |-> [n EXCEPT !.running = @ \ {p}]] :
              n \in ioport_mmap_down(net, p)}
    ELSE {[result |-> "FAILURE", net |-> [net EXCEPT !.port[p].up = FALSE]]}

hal_driver_bring_port_by_num(net, p, up) ==
    IF p \notin net.attached THEN {[result |-> "FAILURE", net |-> net]}
    ELSE IF up THEN bring_port_up(net, p) ELSE bring_port_down(net, p)

hal_driver_attach_port_to_switch(net, p) == [net EXCEPT !.attached = @ \cup {p}]

\* Mutant of hal_driver_detach_port_from_switch: the port is not stopped.
detach_running(net, p) == {[net EXCEPT !.attached = @ \ {p}]}

\* The I/O manager stops the port first.
hal_driver_detach_port_from_switch(net, p) ==
    {[r.net EXCEPT !.attached = @ \ {p}] : r \in bring_port_down(net, p)}

\* A port as it is found: its interface says whether it is up.
fill_port(up) == [up |-> up, drop_received |-> FALSE, forward_packets |-> TRUE,
                  of_generate_packet_in |-> TRUE, no_flood |-> FALSE, advertised |-> FALSE]

\* Another interface may take its place.
destroy_port(net, p) == [net EXCEPT !.ports = @ \ {p}, !.port[p] = fill_port(FALSE)]

==============================================================================
