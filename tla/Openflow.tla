------------------------------ MODULE Openflow -------------------------------
(***************************************************************************)
(* An OpenFlow switch and its controller: the endpoint of the switch's      *)
(* version handles one message at a time, while the packet-in thread, the   *)
(* background thread that follows the interfaces, and management change     *)
(* ports and send messages of their own.                                    *)
(*                                                                         *)
(* A behaviour is one session of a controller, about one topic; Samples     *)
(* has the messages of each.  What the controller may conclude from the     *)
(* messages it sent and received is history (believes, doubts).             *)
(***************************************************************************)
EXTENDS Of13Endpoint, Of12Endpoint, Of10Endpoint, Pirl

CONSTANTS
    Topics,         \* what sessions are about
    Samples,        \* the messages, packets and requests there are, by version, topic and kind
    MaxMessages     \* bound: messages, packets and changes in a session, by topic

Versions == {10, 12, 13}
FlowFields == {"match", "insts", "cookie", "notify"}

\* Requests without a parameter that this model keeps.
Requests(v) ==
    {"get_config", "desc", "table_stats", "experimenter", "experimenter_stats", "barrier"}
    \cup (IF v = 13 THEN {"features", "table_features", "group_desc", "group_features", "meter_stats",
                          "meter_config", "meter_features", "meter_mod"}
          ELSE IF v = 12 THEN {"group_desc", "group_features"} ELSE {})

\* What a message can say: groups came with OpenFlow 1.2.
ASSUME SamplesAssumption ==
    \A v \in Versions, t \in Topics :
        /\ \A m \in Samples[v][t].flow_mod : DOMAIN m.flow = FlowFields /\ m.table_id \in Nat
        /\ v = 10 => Samples[v][t].group_mod = {}
        /\ Samples[v][t].request \subseteq Requests(v)
        /\ \A m \in Samples[v][t].port_mod :
              m.port \in Nat /\ m.config \cup m.mask \subseteq DOMAIN call_order

VARIABLES
    topic,      \* what the session is about
    left,       \* messages left
    answer,     \* what the last step sent to the controller
    lost,       \* objects the last step allocated and lost
    mod,        \* the port modification in progress: one call of the driver at a time
    mgmt,       \* the management call in progress
    bg,         \* update_port_status in the background thread
    packet,     \* the packet that is being filtered
    believes,   \* history: flows, groups, configuration and ports, as the controller has them
    doubts      \* history: the ports it has reason to ask for again; AllFlows for the flows

quietVars == <<version, topic>>
portVars == <<net, mod, mgmt, bg>>
ofVars == <<quietVars, portVars, sw, left, answer, lost, packet, believes, doubts>>
vars == <<ofVars, pirlVars>>

Idle == [at |-> "idle"]
NoPacket == [at |-> "none"]
AllFlows == 0
Alive == answer.what # "crash"
Accepted(o) == o.answer.what # "error"

\* The controller has just connected and asked for what there is.
Init ==
    /\ version \in Versions /\ topic \in Topics
    /\ left = MaxMessages[topic]
    /\ sw = [flows |-> {}, groups |-> <<>>, capabilities |-> "capabilities", miss_send_len |-> 128,
             default_action |-> [t \in TableIds |-> "CONTROLLER"],
             stored |-> IF topic = "flows" THEN {1} ELSE {},
             free |-> IF topic = "flows" THEN NumBuffers - 1 ELSE NumBuffers]
    /\ net = [port |-> [p \in Slots |-> fill_port(p = 1)], attached |-> {1}, running |-> {1},
              ports |-> Slots, system |-> Slots, kernel |-> [p \in Slots |-> p = 1], events |-> {}]
    /\ answer = Silent /\ lost = {}
    /\ mod = Idle /\ mgmt = Idle /\ bg = Idle /\ packet = NoPacket
    /\ believes = [flows |-> {}, groups |-> <<>>, config |-> {}, ports |-> port_descriptions]
    /\ doubts = {}
    /\ PirlInit(IF topic = "packets" THEN 2 * PIRL_MIN_RATE ELSE PIRL_DISABLED)

-----------------------------------------------------------------------------
(* What a controller may conclude *)

Outputs(insts) ==
    LET Ports(s) == {IF s[i].name = "ENQUEUE" THEN s[i].port ELSE s[i].value :
                        i \in {j \in DOMAIN s : s[j].name \in {"OUTPUT", "ENQUEUE"}}}
    IN UNION {Ports(insts[t]) : t \in DOMAIN insts \cap {"apply_actions", "write_actions"}}

\* The flows a message is about, as they were sent.
About(flows, m, match, strict, out_port) ==
    {f \in flows : /\ m.table_id \in {f.tid, OFPTT_ALL}
                   /\ IF strict THEN f.flow.match = match ELSE MoreSpecific(f.flow.match, match)
                   /\ out_port \in Outputs(f.flow.insts) \cup {OFPP_ANY(version)}}

AfterFlowMod(flows, m) ==
    LET Of(strict, out_port) == About(flows, m, m.flow.match, strict, out_port)
        new == {[tid |-> m.table_id, flow |-> m.flow]}
        Changed(S) == IF S = {} /\ version = 10 THEN flows \cup new
                      ELSE (flows \ S) \cup {[f EXCEPT !.flow.insts = m.flow.insts] : f \in S}
    IN CASE m.command = "ADD" -> (flows \ Of(TRUE, OFPP_ANY(version))) \cup new
         [] m.command = "MODIFY" -> Changed(Of(FALSE, OFPP_ANY(version)))
         [] m.command = "MODIFY_STRICT" -> Changed(Of(TRUE, OFPP_ANY(version)))
         [] m.command = "DELETE" -> flows \ Of(FALSE, m.out_port)
         [] m.command = "DELETE_STRICT" -> flows \ Of(TRUE, m.out_port)

AfterGroupMod(groups, m) ==
    CASE m.command \in {"ADD", "MODIFY"} ->
            Updated(groups, m.gid, [type |-> m.type, buckets |-> m.buckets])
      [] m.command = "DELETE" ->
            [g \in (IF m.gid = GROUP_ALL THEN {} ELSE DOMAIN groups \ {m.gid}) |-> groups[g]]

Flows == {[tid |-> f.tid, flow |-> f.entry.sent] : f \in sw.flows}

-----------------------------------------------------------------------------
(* Messages of the controller.  The endpoint handles one at a time. *)

Takes == Alive /\ left > 0 /\ mod = Idle /\ left' = left - 1

Sends(o) == sw' = o.sw /\ answer' = o.answer /\ lost' = o.lost

\* A handler that concerns neither the controller's view nor a port.
Handles(o) ==
    /\ Takes /\ Sends(o)
    /\ UNCHANGED <<quietVars, portVars, pirlVars, packet, believes, doubts>>

\* A buffer that is gone is only noticed when the flow has been installed.
flow_mod(m) ==
    LET o == CASE version = 13 -> of13_handle_flow_mod(m) [] version = 12 -> of12_handle_flow_mod(m)
               [] version = 10 -> of10_handle_flow_mod(m)
        Gone == m.buffer_id \notin sw.stored \cup {0, NO_BUFFER}
    IN /\ Takes /\ Sends(o)
       /\ believes' = IF Accepted(o) THEN [believes EXCEPT !.flows = AfterFlowMod(@, m)] ELSE believes
       /\ doubts' = IF ~Accepted(o) /\ Gone THEN doubts \cup {AllFlows} ELSE doubts
       /\ UNCHANGED <<quietVars, portVars, pirlVars, packet>>

flow_stats_request(q) ==
    Handles(CASE version = 13 -> of13_handle_flow_stats_request(q)
              [] version = 12 -> of12_handle_flow_stats_request(q)
              [] version = 10 -> of10_handle_flow_stats_request(q))

aggregate_stats_request(q) ==
    Handles(CASE version = 13 -> of13_handle_aggregate_stats_request(q)
              [] version = 12 -> of12_handle_aggregate_stats_request(q)
              [] version = 10 -> of10_handle_aggregate_stats_request(q))

group_mod_message(m) ==
    LET o == IF version = 13 THEN of13_handle_group_mod(m) ELSE of12_handle_group_mod(m)
    IN /\ Takes /\ Sends(o)
       /\ believes' = IF Accepted(o) THEN [believes EXCEPT !.groups = AfterGroupMod(@, m)] ELSE believes
       /\ UNCHANGED <<quietVars, portVars, pirlVars, packet, doubts>>

group_stats_request(gid) ==
    Handles(IF version = 13 THEN of13_handle_group_stats_request(gid)
            ELSE of12_handle_group_stats_request(gid))

set_config(m) ==
    LET o == CASE version = 13 -> of13_handle_set_config(m) [] version = 12 -> of12_handle_set_config(m)
               [] version = 10 -> of10_handle_set_config(m)
    IN /\ Takes /\ Sends(o)
       /\ believes' = [believes EXCEPT !.config = {m}]
       /\ UNCHANGED <<quietVars, portVars, pirlVars, packet, doubts>>

table_mod(m) ==
    Handles(CASE version = 13 -> of13_handle_table_mod(m) [] version = 12 -> of12_handle_table_mod(m)
              [] version = 10 -> of10_handle_table_mod(m))

packet_out_message(m) ==
    Handles(CASE version = 13 -> of13_handle_packet_out(m) [] version = 12 -> of12_handle_packet_out(m)
              [] version = 10 -> of10_handle_packet_out(m))

port_stats_request(q) ==
    Handles(CASE version = 13 -> of13_handle_port_stats_request(q)
              [] version = 12 -> of12_handle_port_stats_request(q)
              [] version = 10 -> of10_handle_port_stats_request(q))

queue_stats_request(q) ==
    Handles(CASE version = 13 -> of13_handle_queue_stats_request(q)
              [] version = 12 -> of12_handle_queue_stats_request(q)
              [] version = 10 -> of10_handle_queue_stats_request(q))

queue_get_config_request(q) ==
    Handles(CASE version = 13 -> of13_handle_queue_get_config_request(q)
              [] version = 12 -> of12_handle_queue_get_config_request(q)
              [] version = 10 -> of10_handle_queue_get_config_request(q))

Plain(what) ==
    CASE version = 13 ->
        (CASE what = "get_config" -> of13_handle_get_config_request(0)
           [] what = "features" -> of13_handle_features_request(0)
           [] what = "desc" -> of13_handle_desc_stats_request(0)
           [] what = "table_stats" -> of13_handle_table_stats_request(0)
           [] what = "table_features" -> of13_handle_table_features_stats_request(0)
           [] what = "group_desc" -> of13_handle_group_desc_stats_request(0)
           [] what = "group_features" -> of13_handle_group_features_stats_request(0)
           [] what = "meter_stats" -> of13_handle_meter_stats_request(0)
           [] what = "meter_config" -> of13_handle_meter_config_stats_request(0)
           [] what = "meter_features" -> of13_handle_meter_features_stats_request(0)
           [] what = "meter_mod" -> of13_handle_meter_mod(0)
           [] what = "experimenter" -> of13_handle_experimenter_message(0)
           [] what = "experimenter_stats" -> of13_handle_experimenter_stats_request(0)
           [] what = "barrier" -> of13_handle_barrier_request(0))
      [] version = 12 ->
        (CASE what = "get_config" -> of12_handle_get_config_request(0)
           [] what = "desc" -> of12_handle_desc_stats_request(0)
           [] what = "table_stats" -> of12_handle_table_stats_request(0)
           [] what = "group_desc" -> of12_handle_group_desc_stats_request(0)
           [] what = "group_features" -> of12_handle_group_features_stats_request(0)
           [] what = "experimenter" -> of12_handle_experimenter_message(0)
           [] what = "experimenter_stats" -> of12_handle_experimenter_stats_request(0)
           [] what = "barrier" -> of12_handle_barrier_request(0))
      [] version = 10 ->
        (CASE what = "get_config" -> of10_handle_get_config_request(0)
           [] what = "desc" -> of10_handle_desc_stats_request(0)
           [] what = "table_stats" -> of10_handle_table_stats_request(0)
           [] what = "experimenter" -> of10_handle_experimenter_message(0)
           [] what = "experimenter_stats" -> of10_handle_experimenter_stats_request(0)
           [] what = "barrier" -> of10_handle_barrier_request(0))

request(what) == Handles(Plain(what))

\* The reply that describes the ports is the current truth for the controller.
port_desc_request ==
    LET o == CASE version = 13 -> of13_handle_port_desc_stats_request(0)
               [] version = 12 -> of12_handle_features_request(0)
               [] version = 10 -> of10_handle_features_request(0)
        told == IF version = 13 THEN o.answer.body ELSE o.answer.body.ports
    IN /\ Takes /\ Sends(o)
       /\ believes' = [believes EXCEPT !.ports = [p \in DOMAIN told |-> told[p] \ {"NO_FLOOD"}]]
       /\ doubts' = doubts \ Slots
       /\ UNCHANGED <<quietVars, portVars, pirlVars, packet>>

-----------------------------------------------------------------------------
(* Port modifications: a call of the driver for each setting of each port *)

CallsOf(m) ==
    CASE version = 13 -> of13_port_set_config(m) [] version = 12 -> of12_port_settings(m)
      [] version = 10 -> of10_port_settings(m)

port_mod(m) ==
    LET r == CASE version = 13 -> of13_handle_port_mod(m) [] version = 12 -> of12_handle_port_mod(m)
               [] version = 10 -> of10_handle_port_mod(m)
    IN /\ Takes /\ lost' = {}
       /\ IF r.error # "" THEN answer' = Error(r.error).answer /\ mod' = mod
          ELSE /\ answer' = Silent
               /\ mod' = IF r.ports = {} \/ CallsOf(m) = {} THEN Idle
                         ELSE [at |-> "set", m |-> m, ports |-> r.ports, calls |-> CallsOf(m),
                               all |-> r.ports, snapshot |-> r.snapshot]
       /\ UNCHANGED <<quietVars, pirlVars, sw, net, mgmt, bg, packet, believes, doubts>>

\* The interface did not become what a call asked for; or it had not before, and the port that
\* runs in spite of it is not tried again.
Faulty(p, up, n) ==
    IF (p \in net.running) # up THEN n.kernel[p] # up \/ n.port[p].up # up
    ELSE up /\ ~net.port[p].up

Calls(p, setting) ==
    LET on == setting \in mod.m.config
    IN IF setting # "PORT_DOWN" THEN {set_port_config(net, p, setting, on)}
       ELSE hal_driver_bring_port_by_num(net, p, ~on)

\* What the controller asked for, once all calls have succeeded.
Configured(p) == (believes.ports[p] \ mod.m.mask)
                 \cup ((mod.m.config \cap mod.m.mask) \ {"NO_FLOOD", "ADVERTISE"})

\* Ports and settings are taken in order.
Lowest(p, ports) == p \in ports /\ \A q \in ports : p <= q
Earliest(setting, calls) == setting \in calls /\ \A s \in calls : call_order[setting] <= call_order[s]

\* What is left to do after a call.
StillToCall(p, setting) ==
    IF mod.calls # {setting} THEN [mod EXCEPT !.calls = @ \ {setting}]
    ELSE IF mod.ports # {p} THEN [mod EXCEPT !.ports = @ \ {p}, !.calls = CallsOf(mod.m)]
    ELSE Idle

port_mod_call ==
    /\ Alive /\ mod # Idle
    /\ \E p \in mod.ports, setting \in mod.calls :
         /\ Lowest(p, mod.ports) /\ Earliest(setting, mod.calls)
         /\ \E r \in Calls(p, setting) :
            /\ net' = r.net
            /\ mod' = IF r.result = "SUCCESS" THEN StillToCall(p, setting) ELSE Idle
            /\ answer' = IF r.result = "SUCCESS" THEN Silent ELSE Error("ePortModBase").answer
            /\ lost' = IF r.result # "SUCCESS" /\ mod.snapshot THEN {"snapshot"} ELSE {}
            /\ believes' = IF mod' # Idle \/ r.result # "SUCCESS" THEN believes
                           ELSE [believes EXCEPT !.ports = [q \in DOMAIN @ |->
                                     IF q \in mod.all THEN Configured(q) ELSE @[q]]]
            /\ doubts' = IF r.result # "SUCCESS" THEN doubts \cup (mod.all \cap Slots)
                         ELSE IF setting = "PORT_DOWN" /\ Faulty(p, setting \notin mod.m.config, net')
                         THEN doubts \cup {p} ELSE doubts
    /\ UNCHANGED <<quietVars, pirlVars, sw, left, mgmt, bg, packet>>

-----------------------------------------------------------------------------
(* Notifications.  A snapshot is true unless the port has changed since; while *)
(* a port modification is under way the controller cannot tell how much of it  *)
(* the snapshot has.                                                           *)

Describes(port) ==
    CASE version = 13 -> of13_notify_port_status_changed(port)
      [] version = 12 -> of12_notify_port_status_changed(port)
      [] version = 10 -> of10_notify_port_status_changed(port)

Introduces(port) ==
    CASE version = 13 -> of13_notify_port_attached(port) [] version = 12 -> of12_notify_port_attached(port)
      [] version = 10 -> of10_notify_port_attached(port)

Under(p) == mod # Idle /\ p \in mod.all

Told(p, config, fresh) ==
    /\ answer' = [what |-> "port_status", req |-> p, body |-> config] /\ lost' = {}
    /\ believes' = [believes EXCEPT !.ports = Updated(@, p, config)]
    /\ doubts' = IF fresh /\ ~Under(p) THEN doubts \ {p} ELSE doubts \cup {p}

Untold == answer' = Silent /\ lost' = {} /\ UNCHANGED <<believes, doubts>>

\* The port went without a message after the last one about it.
Missed(p) == IF p \in DOMAIN believes.ports THEN doubts \cup {p} ELSE doubts

Current(p, shot) == p \in net.attached /\ shot = net.port[p]

-----------------------------------------------------------------------------
(* Management: one call at a time, under the mutex of the port manager *)

Begins == Alive /\ topic \in {"ports", "interfaces", "queues"} /\ mgmt = Idle /\ left > 0 /\ left' = left - 1

attach_port(p) ==
    /\ Begins /\ p \in net.ports \ net.attached
    /\ net' = hal_driver_attach_port_to_switch(net, p)
    /\ mgmt' = [at |-> "attached", port |-> p] /\ Untold
    /\ UNCHANGED <<quietVars, pirlVars, sw, mod, bg, packet>>

\* The port may be gone by now, which is an exception.
attach_snapshot ==
    /\ Alive /\ mgmt.at = "attached"
    /\ mgmt' = IF mgmt.port \notin net.ports THEN Idle
               ELSE [at |-> "snapshot", port |-> mgmt.port, shot |-> net.port[mgmt.port]]
    /\ Untold
    /\ UNCHANGED <<quietVars, pirlVars, sw, left, net, mod, bg, packet>>

notify_port_attached ==
    /\ Alive /\ mgmt.at = "snapshot"
    /\ Told(mgmt.port, Introduces(mgmt.shot), Current(mgmt.port, mgmt.shot))
    /\ mgmt' = Idle
    /\ UNCHANGED <<quietVars, pirlVars, sw, left, net, mod, bg, packet>>

detach_port(p) ==
    /\ Begins /\ p \in net.attached
    /\ net' \in hal_driver_detach_port_from_switch(net, p)
    /\ mgmt' = [at |-> "detached", port |-> p] /\ Untold
    /\ UNCHANGED <<quietVars, pirlVars, sw, mod, bg, packet>>

\* The driver is expected to announce a port that is gone.
notify_port_detached ==
    /\ Alive /\ mgmt.at = "detached" /\ mgmt.port \in net.ports
    /\ answer' = [what |-> "port_status", req |-> mgmt.port, body |-> {}] /\ lost' = {}
    /\ believes' = [believes EXCEPT !.ports = [q \in DOMAIN @ \ {mgmt.port} |-> @[q]]]
    /\ doubts' = doubts \ {mgmt.port}
    /\ mgmt' = Idle
    /\ UNCHANGED <<quietVars, pirlVars, sw, left, net, mod, bg, packet>>

detached_and_gone ==
    /\ Alive /\ mgmt.at = "detached" /\ mgmt.port \notin net.ports
    /\ answer' = Silent /\ lost' = {} /\ believes' = believes
    /\ doubts' = Missed(mgmt.port)
    /\ mgmt' = Idle
    /\ UNCHANGED <<quietVars, pirlVars, sw, left, net, mod, bg, packet>>

\* Nobody is told: the background thread will see the interface change, unless the kernel has
\* it there already.
hal_driver_bring_port(p, up) ==
    /\ Begins /\ p \in net.ports
    /\ \E r \in IF p \notin net.attached
                THEN {[result |-> "SUCCESS", net |-> n] : n \in SetInterface(net, p, up)}
                ELSE IF up THEN bring_port_up(net, p) ELSE bring_port_down(net, p) :
         /\ net' = r.net
         /\ doubts' = IF p \in net.attached /\ (r.result # "SUCCESS" \/ Faulty(p, up, net')
                             \/ (net.kernel[p] = up /\ net.port[p].up # up))
                      THEN doubts \cup {p} ELSE doubts
    /\ answer' = Silent /\ lost' = {}
    /\ UNCHANGED <<quietVars, pirlVars, sw, mod, mgmt, bg, packet, believes>>

-----------------------------------------------------------------------------
(* The background thread.  The operating system changes an interface, and    *)
(* update_port_status follows: look for ports that are gone or new, read the *)
(* flags, start or stop the port, take a snapshot, send it.                  *)

KernelChanges(n) ==
    /\ Alive /\ topic \in {"ports", "interfaces"} /\ left > 0 /\ left' = left - 1
    /\ net' = n /\ Untold
    /\ UNCHANGED <<quietVars, pirlVars, sw, mod, mgmt, bg, packet>>

InterfaceChanges(p) ==
    p \in net.system /\ KernelChanges([net EXCEPT !.kernel[p] = ~@, !.events = @ \cup {p}])

InterfaceVanishes(p) ==
    /\ topic = "interfaces" /\ p \in net.system
    /\ KernelChanges([net EXCEPT !.system = @ \ {p}, !.kernel[p] = FALSE, !.events = @ \cup {p}])

InterfaceAppears(p) ==
    p \notin net.system /\ KernelChanges([net EXCEPT !.system = @ \cup {p}, !.events = @ \cup {p}])

BackgroundStep == Alive /\ UNCHANGED <<quietVars, pirlVars, sw, left, mod, mgmt, packet>>

\* The name of an interface that is gone is not found: nothing is done about it, and nobody told.
read_netlink_message(p) ==
    /\ BackgroundStep /\ bg = Idle /\ p \in net.events
    /\ bg' = IF p \in net.system THEN [at |-> "named", port |-> p] ELSE Idle
    /\ net' = [net EXCEPT !.events = @ \ {p}]
    /\ answer' = Silent /\ lost' = {} /\ believes' = believes
    /\ doubts' = IF p \in net.system THEN doubts ELSE Missed(p)

\* The interfaces there are now are compared with the ports.
update_physical_ports ==
    /\ BackgroundStep /\ bg.at = "named"
    /\ bg' = [at |-> "scan", port |-> bg.port, gone |-> net.ports \ net.system, new |-> net.system \ net.ports]
    /\ UNCHANGED net /\ Untold

\* What the controller is told of a port whose interface is gone ...
notify_port_delete ==
    /\ BackgroundStep /\ bg.at = "scan"
    /\ bg' = [bg EXCEPT !.at = "remove"]
    /\ \E p \in bg.gone : Lowest(p, bg.gone) /\
         IF p \in net.attached
         THEN /\ answer' = [what |-> "port_status", req |-> p, body |-> {}] /\ lost' = {}
              /\ believes' = [believes EXCEPT !.ports = [q \in DOMAIN @ \ {p} |-> @[q]]]
              /\ doubts' = doubts \ {p}
         ELSE Untold
    /\ UNCHANGED net

\* ... is true once the port is detached and destroyed.
remove_port ==
    /\ BackgroundStep /\ bg.at = "remove"
    /\ \E p \in bg.gone :
         /\ Lowest(p, bg.gone)
         /\ \E n \in IF p \in net.attached THEN hal_driver_detach_port_from_switch(net, p) ELSE {net} :
               net' = destroy_port(n, p)
         /\ bg' = [bg EXCEPT !.at = "scan", !.gone = @ \ {p}]
         /\ doubts' = IF mgmt.at = "detached" /\ mgmt.port = p THEN doubts ELSE Missed(p)
    /\ answer' = Silent /\ lost' = {} /\ believes' = believes

\* New interfaces become ports, unless they are gone again, and so may the one the message was about.
update_port_status ==
    /\ BackgroundStep /\ bg.at = "scan" /\ bg.gone = {}
    /\ LET found == bg.new \cap net.system IN
         /\ net' = [net EXCEPT !.ports = @ \cup found,
                               !.port = [p \in Slots |-> IF p \in found THEN fill_port(net.kernel[p]) ELSE @[p]]]
         /\ bg' = IF bg.port \in net'.ports \cap net.system
                  THEN [at |-> "apply", port |-> bg.port, up |-> net.kernel[bg.port]] ELSE Idle
    /\ Untold

follow_flags ==
    /\ Alive /\ bg.at = "apply"
    /\ \E r \in IF bg.up THEN bring_port_up(net, bg.port) ELSE bring_port_down(net, bg.port) :
         net' = r.net
    /\ bg' = [at |-> "snapshot", port |-> bg.port] /\ Untold
    /\ UNCHANGED <<quietVars, pirlVars, sw, left, mod, mgmt, packet>>

\* The port of another switch, or of none, concerns nobody here.
status_snapshot ==
    /\ Alive /\ bg.at = "snapshot"
    /\ bg' = IF bg.port \notin net.attached THEN Idle
             ELSE [at |-> "notify", port |-> bg.port, shot |-> net.port[bg.port]]
    /\ Untold
    /\ UNCHANGED <<quietVars, pirlVars, sw, left, net, mod, mgmt, packet>>

notify_port_status_changed ==
    /\ Alive /\ bg.at = "notify"
    /\ Told(bg.port, Describes(bg.shot), Current(bg.port, bg.shot))
    /\ bg' = Idle
    /\ UNCHANGED <<quietVars, pirlVars, sw, left, net, mod, mgmt, packet>>

-----------------------------------------------------------------------------
(* Packet-ins and removed flows.  A packet holds a buffer from the time it is *)
(* stored; the controller learns of it when the packet-in is sent.            *)

process_packet_in(k) ==
    CASE version = 13 -> of13_process_packet_in(k) [] version = 12 -> of12_process_packet_in(k)
      [] version = 10 -> of10_process_packet_in(k)

Arrives == Alive /\ packet = NoPacket /\ left > 0 /\ left' = left - 1 /\ sw.free > 0
Announced(k) ==
    /\ answer' = process_packet_in(k).answer /\ lost' = {}
    /\ UNCHANGED <<quietVars, portVars, believes, doubts>>

\* The limiter is off.
unlimited_packet_in(k, b) ==
    /\ Arrives /\ pirl.max_rate = PIRL_DISABLED /\ b \notin sw.stored
    /\ sw' = [sw EXCEPT !.stored = @ \cup {b}, !.free = @ - 1]
    /\ Announced(k)
    /\ UNCHANGED <<pirlVars, packet>>

\* The limiter is asked ...
process_and_filter_packet_in(k) ==
    /\ Arrives /\ filter_pkt
    /\ sw' = [sw EXCEPT !.free = @ - 1] /\ packet' = [at |-> "filter", k |-> k]
    /\ Untold
    /\ UNCHANGED <<quietVars, portVars>>

fill_bucket == Alive /\ reset_bucket /\ UNCHANGED ofVars

\* ... and lets the packet pass, or the packet gives its buffer back.
packet_passes(b) ==
    /\ Alive /\ pirl_dec /\ b \notin sw.stored
    /\ sw' = [sw EXCEPT !.stored = @ \cup {b}] /\ packet' = NoPacket
    /\ Announced(packet.k)
    /\ UNCHANGED left

packet_filtered ==
    /\ Alive /\ pirl_drop
    /\ sw' = [sw EXCEPT !.free = @ + 1] /\ packet' = NoPacket
    /\ Untold
    /\ UNCHANGED <<quietVars, portVars, left>>

Time == Alive /\ topic = "packets" /\ Tick /\ UNCHANGED ofVars
Reconfigure(rate) == Alive /\ topic = "packets" /\ reconfigure(rate) /\ UNCHANGED ofVars
RateSet == Alive /\ set_rate /\ UNCHANGED ofVars

\* A stored packet gets too old (datapacket_storage).
BufferExpires(b) ==
    /\ Alive /\ topic \in {"flows", "packets"} /\ b \in sw.stored
    /\ sw' = [sw EXCEPT !.stored = @ \ {b}, !.free = @ + 1] /\ Untold
    /\ UNCHANGED <<quietVars, portVars, pirlVars, left, packet>>

\* The pipeline removes a flow; a controller that did not ask to be told must ask.
FlowExpires(f) ==
    LET o == CASE version = 13 -> of13_process_flow_removed(f)
               [] version = 12 -> of12_process_flow_removed(f)
               [] version = 10 -> of10_process_flow_removed(f)
    IN /\ Alive /\ left > 0 /\ left' = left - 1
       /\ sw' = [sw EXCEPT !.flows = @ \ {f}]
       /\ answer' = IF f.entry.notify THEN o.answer ELSE Silent
       /\ believes' = IF f.entry.notify
                      THEN [believes EXCEPT !.flows = @ \ {[tid |-> f.tid, flow |-> f.entry.sent]}]
                      ELSE believes
       /\ doubts' = IF f.entry.notify THEN doubts ELSE doubts \cup {AllFlows}
       /\ lost' = {}
       /\ UNCHANGED <<quietVars, portVars, pirlVars, packet>>

-----------------------------------------------------------------------------
(* The next-state relation, with the inputs taken from the samples *)

Buffers == 1..NumBuffers
Asked(kind) == Samples[version][topic][kind]

\* A session about translation has one flow: two that differ in what is not translated are one
\* to the pipeline.
ControllerSends ==
    \/ \E m \in Asked("flow_mod") : (topic = "translate" => sw.flows = {}) /\ flow_mod(m)
    \/ \E q \in Asked("flow_stats") : flow_stats_request(q)
    \/ \E q \in Asked("flow_stats") : aggregate_stats_request(q)
    \/ \E m \in Asked("group_mod") : group_mod_message(m)
    \/ \E g \in Asked("group_stats") : group_stats_request(g)
    \/ \E m \in Asked("set_config") : set_config(m)
    \/ \E m \in Asked("table_mod") : table_mod(m)
    \/ \E m \in Asked("packet_out") : packet_out_message(m)
    \/ \E q \in Asked("port_stats") : port_stats_request(q)
    \/ \E q \in Asked("queue_stats") : queue_stats_request(q)
    \/ \E q \in Asked("port_stats") : queue_get_config_request(q)
    \/ \E w \in Asked("request") : request(w)
    \/ \E m \in Asked("port_mod") : port_mod(m)
    \/ topic \in {"ports", "interfaces", "switch"} /\ port_desc_request

PacketThread ==
    \/ \E k \in Asked("packet_in"), b \in Buffers : unlimited_packet_in(k, b)
    \/ \E k \in Asked("packet_in") : process_and_filter_packet_in(k)
    \/ fill_bucket
    \/ \E b \in Buffers : packet_passes(b)
    \/ packet_filtered
    \/ \E b \in Buffers : BufferExpires(b)
    \/ \E f \in sw.flows : FlowExpires(f)

Management ==
    \/ \E p \in Slots : attach_port(p) \/ detach_port(p)
    \/ attach_snapshot \/ notify_port_attached \/ notify_port_detached \/ detached_and_gone
    \/ \E p \in Slots, up \in BOOLEAN : hal_driver_bring_port(p, up)
    \/ \E rate \in Rates : Reconfigure(rate)
    \/ RateSet

Background ==
    \/ \E p \in Slots : InterfaceChanges(p) \/ InterfaceVanishes(p) \/ InterfaceAppears(p)
    \/ \E p \in Slots : read_netlink_message(p)
    \/ update_physical_ports \/ notify_port_delete \/ remove_port \/ update_port_status
    \/ follow_flags \/ status_snapshot \/ notify_port_status_changed

Next == ControllerSends \/ port_mod_call \/ PacketThread \/ Management \/ Background \/ Time

Spec == Init /\ [][Next]_vars

-----------------------------------------------------------------------------
(* Flows, groups, ports and the steps of the threads have their shape. *)
TypeOK ==
    /\ \A f \in sw.flows : f.tid \in TableIds /\ DOMAIN f.entry.sent = FlowFields
    /\ \A t \in TableIds : Cardinality({f \in sw.flows : f.tid = t}) <= MaxFlows
    /\ sw.stored \subseteq Buffers /\ sw.free \in 0..NumBuffers
    /\ net.running \subseteq net.attached /\ net.attached \subseteq Slots /\ net.events \subseteq Slots
    /\ doubts \subseteq Slots \cup {AllFlows}
    /\ mgmt.at \in {"idle", "attached", "snapshot", "detached"}
    /\ bg.at \in {"idle", "named", "scan", "remove", "apply", "snapshot", "notify"}
    /\ net.attached \subseteq net.ports /\ net.ports \subseteq Slots
    /\ packet.at = (IF filter.at = "idle" THEN "none" ELSE "filter")

(* What the translations are known to change on the way to the pipeline and  *)
(* back, for a field and for an action.                                      *)
ChangedField(f, x) ==
    CASE version = 13 -> \/ f = "IPV6_EXTHDR"
                         \/ f = "TUNNEL_ID" /\ x.mask # FULL
                         \/ f = "VLAN_VID" /\ x.mask \notin {FULL, PRESENT}
      [] version = 12 -> f = "VLAN_VID" /\ x.value \notin {0, PRESENT}
      [] version = 10 -> \/ f \in {"NW_SRC", "NW_DST"} /\ x.value = 0
                         \/ f = "NW_TOS" /\ x.value % 4 # 0

ChangedAction(a) ==
    \/ a.name \in {"SET_QUEUE", "SET_FIELD_CAPWAP_FLAGS"} /\ a.value > 255
    \/ a.name = "SET_FIELD_VLAN_VID" /\ a.value < PRESENT
    \/ a.name = "SET_NW_TOS" /\ a.value % 4 # 0

SameMatch(told, sent) ==
    /\ \A f \in DOMAIN sent : ChangedField(f, sent[f]) \/ (f \in DOMAIN told /\ told[f] = sent[f])
    /\ \A f \in DOMAIN told \ DOMAIN sent :
           f = "DL_VLAN_PCP" /\ sent["DL_VLAN"].value = OFP_VLAN_NONE

SameAction(told, sent) == told = sent \/ (told.name = sent.name /\ ChangedAction(sent))

SameActions(told, sent) ==
    DOMAIN told = DOMAIN sent /\ \A i \in DOMAIN sent : SameAction(told[i], sent[i])

\* Of several actions of a type the last one is in the set.
SameSet(told, sent) ==
    LET LastOf(name) == CHOOSE i \in DOMAIN sent : sent[i].name = name
                          /\ \A j \in DOMAIN sent : sent[j].name = name => j <= i
    IN /\ \A i \in DOMAIN told : SameAction(told[i], sent[LastOf(told[i].name)])
       /\ {told[i].name : i \in DOMAIN told} = {sent[i].name : i \in DOMAIN sent}

SameInstructions(told, sent) ==
    /\ DOMAIN told = DOMAIN sent \ {"meter", "experimenter"}
    /\ \A t \in DOMAIN told : CASE t = "apply_actions" -> SameActions(told[t], sent[t])
                                [] t = "write_actions" -> SameSet(told[t], sent[t])
                                [] OTHER -> told[t] = sent[t]

SameFlow(told, f) ==
    /\ told.tid = f.tid /\ told.cookie = f.flow.cookie
    /\ SameMatch(told.match, f.flow.match) /\ SameInstructions(told.insts, f.flow.insts)

\* The upper half of a cookie is no criterion, and in OpenFlow 1.0 the lower one neither.
Requested(q) ==
    {f \in About(Flows, q, q.match, FALSE, q.out_port) :
        version = 10 \/ q.cookie_mask[2] = 0 \/ f.flow.cookie[2] = q.cookie[2]}

\* A table offers nothing that a flow could not have; two actions and a field are the exception.
Usable(told) ==
    LET actions == told.actions \cup told.set_fields
        Known(a) == LET s == <<[name |-> a, value |-> 0, len |-> 0]>> IN
            IF version = 13 THEN of13_map_flow_entry_actions(s) ELSE of12_map_flow_entry_actions(s)
        Field(f) == LET m == f :> [value |-> 1, mask |-> FULL] IN
            IF version = 13 THEN of13_map_flow_entry_matches(m) ELSE of12_map_flow_entry_matches(m)
    IN /\ \A a \in actions \ {"SET_FIELD"} :
              Known(a) # <<>> \/ (version = 12 /\ a \in {"SET_FIELD_MPLS_BOS", "PUSH_PBB", "POP_PBB"})
       /\ \A f \in told.match : DOMAIN Field(f) = {f}

\* What the controller concludes from the answers to its flow modifications.
FlowsKnown == AllFlows \in doubts \/ believes.flows = Flows

(* Every message to the controller is true of the switch when it is sent:    *)
(* a flow modification that is not refused has been done, so that the flows  *)
(* it believes in are installed and no others, unless a flow with a lost     *)
(* buffer was refused or a flow went without notice; statistics have exactly *)
(* the flows asked for, as they were sent up to the changes above; a group   *)
(* is described as it was sent; what a table offers can be used; the         *)
(* configuration is the one that was set; the capabilities are the switch's, *)
(* as long as no configuration was set; a packet-in has every field of the   *)
(* packet that is not zero, and no more bytes than there are.                *)
AnswersTrue ==
    LET body == answer.body
        q == answer.req
        Values(m) == {m[f].value : f \in DOMAIN m}
    IN /\ FlowsKnown
       /\ CASE answer.what = "flow_stats" ->
                 /\ \A f \in Requested(q) : \E told \in body : SameFlow(told, f)
                 /\ \A told \in body : \E f \in Requested(q) : SameFlow(told, f)
            [] answer.what = "aggregate_stats" -> body = Cardinality(Requested(q))
            [] answer.what = "flow_removed" ->
                 body.tid = q.tid /\ body.cookie = q.entry.sent.cookie
                 /\ SameMatch(body.match, q.entry.sent.match)
            [] answer.what = "group_desc" ->
                 /\ DOMAIN body = DOMAIN sw.groups
                 /\ \A g \in DOMAIN body : DOMAIN body[g].buckets = DOMAIN sw.groups[g].sent
                      /\ \A i \in DOMAIN body[g].buckets :
                             SameActions(body[g].buckets[i].actions, sw.groups[g].sent[i].actions)
            [] answer.what = "table_features" ->
                 /\ Usable(body)
                 /\ \A t \in TableIds : \A n \in body.next[t] : n \in TableIds /\ n > t
            [] answer.what = "table_stats" ->
                 /\ \A t \in TableIds : body.active[t] = Cardinality({f \in Flows : f.tid = t})
                 /\ version = 12 => Usable(body)
            [] answer.what = "get_config" ->
                 \A c \in believes.config : body.flags = c.flags /\ body.miss_send_len = c.miss_send_len
            [] answer.what = "features" ->
                 believes.config = {} => body.capabilities = "capabilities"
            [] answer.what = "packet_in" ->
                 /\ body.len <= q.buf_len /\ body.len <= q.total_len
                 /\ Values(body.match) = {IF version = 10 /\ f = "IP_DSCP" THEN 4 * q.fields[f] ELSE q.fields[f] :
                                              f \in {g \in DOMAIN q.fields : q.fields[g] # 0}}
            [] OTHER -> TRUE

(* The controller's view: the groups it believes in are installed and no     *)
(* others; and once the threads are at rest, every port is described to it   *)
(* as it is, unless the last message about the port was overtaken by a       *)
(* change, a request on it failed half-way, or its interface refused to      *)
(* change.                                                                   *)
GroupsKnown ==
    /\ DOMAIN believes.groups = DOMAIN sw.groups
    /\ \A g \in DOMAIN sw.groups : believes.groups[g].buckets = sw.groups[g].sent

AtRest == mod = Idle /\ mgmt = Idle /\ bg = Idle /\ net.events = {}

PortsKnown ==
    AtRest => \A p \in Slots \ doubts :
                  /\ p \in DOMAIN believes.ports <=> p \in net.attached
                  /\ p \in net.attached => believes.ports[p] = notified_config(net.port[p])

ControllerView == GroupsKnown /\ PortsKnown

Losses(v) ==
    IF v = 13 THEN {"write actions", "entry", "fp_msg", "snapshot", "bucket list", "grp_dsc", "null port"}
    ELSE IF v = 12 THEN {"write actions", "bucket list", "null port"}
    ELSE {"apply actions"}

(* Only a handler that answers with an error, or dies, loses memory; only the *)
(* places below do; and a packet buffer is free, stored or being filtered.   *)
NothingLost ==
    /\ lost # {} => answer.what \in {"error", "crash"}
    /\ lost \subseteq Losses(version)
    /\ sw.free + Cardinality(sw.stored) + (IF packet = NoPacket THEN 0 ELSE 1) = NumBuffers

==============================================================================
