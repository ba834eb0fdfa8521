--------------------------- MODULE OpenflowProofs ----------------------------
(***************************************************************************)
(* Proofs about sessions of a controller with a switch, for every number of *)
(* tables, ports and messages, every set of messages SamplesAssumption       *)
(* admits, and every order in which the endpoint, the background thread,     *)
(* management and the packets take their steps:                              *)
(*   - the limiter keeps its promise, since no step but its own touches it;  *)
(*   - handlers lose memory only where they answer an error, and no packet   *)
(*     buffer is lost (SwitchInv);                                           *)
(*   - the controller knows the groups (GroupInv);                           *)
(*   - once the threads are at rest it knows the ports (PortInv).            *)
(***************************************************************************)
EXTENDS Openflow, FiniteSetTheorems, TLAPS

-----------------------------------------------------------------------------
(* The rate limiter keeps its promise for every rate, every sequence of      *)
(* packets and reconfigurations, and every width of an int.                  *)
(*                                                                         *)
(* PacketInsLimited is not inductive: it does not say how the tokens follow  *)
(* the packets of the current tenth (Counted), that the bucket's time is     *)
(* never ahead of the last packet (InTime), and that a tenth without a       *)
(* reconfiguration has none under way (Calm).                                *)

PirlTypeOK ==
    /\ pirl \in [max_rate : Int, last_seen_ts : Int, tokens : Int]
    /\ clock \in Nat \ {0}
    /\ filter \in [at : {"idle", "reset", "dec"}, ts : Nat]
    /\ conf \in [at : {"idle", "rate"}, rate : Int, calls : Nat]
    /\ seen \in [ts : Nat, passed : Nat, dropped : {0, 1}, disturbed : BOOLEAN]

\* Time: a packet that is being filtered is the last one seen.
InTime ==
    /\ seen.ts <= clock
    /\ filter.at # "idle" => filter.ts = seen.ts /\ seen.ts > 0
    /\ seen.ts < IntHalf => pirl.last_seen_ts <= seen.ts

Calm == ~seen.disturbed => conf.at = "idle"

Undisturbed == ~seen.disturbed /\ seen.ts < IntHalf

Counted ==
    Undisturbed =>
      /\ seen.ts = 0 \/ filter.at = "reset" => seen.passed = 0 /\ seen.dropped = 0
      /\ seen.ts > 0 /\ filter.at # "reset" =>
            /\ pirl.last_seen_ts = seen.ts
            /\ pirl.tokens + seen.passed = Tokens(pirl.max_rate)
            /\ pirl.tokens >= 0
            /\ seen.dropped > 0 => pirl.tokens = 0

PirlInv == PirlTypeOK /\ InTime /\ Calm /\ Counted

-----------------------------------------------------------------------------
LEMMA AsIntSmall == \A t \in Nat : t < IntHalf => AsInt(t) = t
  BY IntAssumption DEF AsInt

LEMMA AsIntType == \A t \in Nat : AsInt(t) \in Int /\ AsInt(t) <= t
  BY IntAssumption DEF AsInt

LEMMA TokensType == \A rate \in Int : Tokens(rate) \in Nat
  BY DEF Tokens, PIRL_NUMBER_OF_BUCKETS_PER_S

LEMMA InitEstablishes == (\E rate \in AcceptedRates : PirlInit(rate)) => PirlInv
  BY RatesAssumption, IntAssumption, TokensType
  DEF AcceptedRates, PirlInit, PirlInv, PirlTypeOK, InTime, Calm, Counted, Undisturbed

\* One step per action: each keeps the four parts of the invariant.
LEMMA StepPreserves == PirlInv /\ [PirlNext]_pirlVars => PirlInv'
<1> SUFFICES ASSUME PirlInv, [PirlNext]_pirlVars PROVE PirlInv'
  OBVIOUS
<1> USE DEF PirlInv, InTime, Calm, Counted, Undisturbed
<1>type. PirlTypeOK
  OBVIOUS
<1>1. CASE Tick
  BY <1>1 DEF Tick, PirlTypeOK, Tokens
<1>2. CASE filter_pkt
  <2>a. /\ seen'.ts = clock /\ clock > 0
        /\ filter'.ts = clock
        /\ filter'.at = IF pirl.last_seen_ts # clock THEN "reset" ELSE "dec"
        /\ pirl' = pirl /\ clock' = clock
    BY <1>2 DEF filter_pkt, PirlTypeOK, Tenth
  <2>1. PirlTypeOK'
    BY <1>2 DEF filter_pkt, PirlTypeOK, Tenth
  <2>2. InTime'
    <3>1. seen.ts \in Nat /\ clock \in Nat /\ pirl.last_seen_ts \in Int
      BY DEF PirlTypeOK
    <3>2. seen'.ts < IntHalf => pirl'.last_seen_ts <= seen'.ts
      BY <2>a, <3>1, IntAssumption
    <3>3. QED
      BY <2>a, <3>1, <3>2
  <2>3. Calm'
    BY <1>2 DEF filter_pkt, PirlTypeOK, Tenth
  <2>4. Counted'
    <3>1. CASE seen.ts = clock
      BY <1>2, <3>1 DEF filter_pkt, PirlTypeOK, Tenth, Tokens
    <3>2. CASE seen.ts # clock
      <4>1. seen'.passed = 0 /\ seen'.dropped = 0
        BY <1>2, <3>2 DEF filter_pkt, Tenth
      <4>2. clock < IntHalf => pirl.last_seen_ts # clock
        BY <3>2, IntAssumption DEF PirlTypeOK
      <4>3. seen'.ts < IntHalf => filter'.at = "reset"
        BY <2>a, <4>2
      <4>4. QED
        BY <4>1, <4>3
    <3>3. QED
      BY <3>1, <3>2
  <2>5. QED
    BY <2>1, <2>2, <2>3, <2>4
<1>3. CASE reset_bucket
  <2>1. PirlTypeOK'
    <3>1. AsInt(filter.ts) \in Int /\ Tokens(pirl.max_rate) \in Int
      BY AsIntType, TokensType DEF PirlTypeOK
    <3>2. QED
      BY <1>3, <3>1 DEF reset_bucket, PirlTypeOK
  <2>2. InTime'
    BY <1>3, AsIntType DEF reset_bucket, PirlTypeOK
  <2>3. Calm'
    BY <1>3 DEF reset_bucket, PirlTypeOK
  <2>4. Counted'
    BY <1>3, AsIntSmall, TokensType DEF reset_bucket, PirlTypeOK, Tokens
  <2>5. QED
    BY <2>1, <2>2, <2>3, <2>4
<1>4. CASE pirl_dec
  BY <1>4 DEF pirl_dec, PirlTypeOK, Tokens
<1>5. CASE pirl_drop
  BY <1>5 DEF pirl_drop, PirlTypeOK, Tokens
<1>6. CASE \E rate \in Rates : reconfigure(rate)
  <2>1. PICK rate \in Rates : reconfigure(rate)
    BY <1>6
  <2>2. rate \in Int
    BY RatesAssumption
  <2>3. CASE rate < PIRL_MIN_RATE /\ rate # PIRL_DISABLED
    <3>1. /\ pirl' = pirl /\ seen' = seen /\ clock' = clock /\ filter' = filter
          /\ conf' = [conf EXCEPT !.calls = @ + 1]
      BY <2>1, <2>3 DEF reconfigure
    <3>2. QED
      BY <3>1 DEF PirlTypeOK, Tokens
  <2>4. CASE ~(rate < PIRL_MIN_RATE /\ rate # PIRL_DISABLED)
    <3>1. /\ pirl' = [pirl EXCEPT !.last_seen_ts = 0]
          /\ conf' = [at |-> "rate", rate |-> rate, calls |-> conf.calls + 1]
          /\ seen' = [seen EXCEPT !.disturbed = TRUE]
          /\ clock' = clock /\ filter' = filter
      BY <2>1, <2>4 DEF reconfigure
    <3>2. seen'.disturbed = TRUE /\ seen'.ts = seen.ts /\ pirl'.last_seen_ts = 0
      BY <3>1 DEF PirlTypeOK
    <3>3. PirlTypeOK'
      <4>1. pirl' \in [max_rate : Int, last_seen_ts : Int, tokens : Int]
        BY <3>1 DEF PirlTypeOK
      <4>2. conf' \in [at : {"idle", "rate"}, rate : Int, calls : Nat]
        BY <2>2, <3>1 DEF PirlTypeOK
      <4>3. seen' \in [ts : Nat, passed : Nat, dropped : {0, 1}, disturbed : BOOLEAN]
        BY <3>1 DEF PirlTypeOK
      <4>4. QED
        BY <3>1, <4>1, <4>2, <4>3 DEF PirlTypeOK
    <3>4. InTime'
      BY <3>1, <3>2 DEF PirlTypeOK
    <3>5. Calm' /\ Counted'
      BY <3>2
    <3>6. QED
      BY <3>3, <3>4, <3>5
  <2>5. QED
    BY <2>3, <2>4
<1>7. CASE set_rate
  BY <1>7 DEF set_rate, PirlTypeOK
<1>8. CASE UNCHANGED pirlVars
  BY <1>8 DEF pirlVars, PirlTypeOK, Tokens
<1>9. QED
  BY <1>1, <1>2, <1>3, <1>4, <1>5, <1>6, <1>7, <1>8 DEF PirlNext

LEMMA InvImplies == PirlInv => PacketInsLimited
  BY TokensType DEF PirlInv, PirlTypeOK, Counted, Undisturbed, PacketInsLimited

-----------------------------------------------------------------------------
\* The bucket's numbers, the clock and the two threads' places keep their types: tokens and
\* times stay integers even when the time no longer fits an int.
THEOREM PirlTypeCorrect == PirlSpec => []PirlTypeOK
<1>1. PirlInv => PirlTypeOK
  BY DEF PirlInv
<1>2. QED
  BY InitEstablishes, StepPreserves, <1>1, PTL DEF PirlSpec

\* In a tenth of a second in which nobody reconfigures the limiter and whose number fits an
\* int, at most a tenth of the rate passes filter_pkt, and nothing is filtered before that.
THEOREM Limited == PirlSpec => []PacketInsLimited
  BY InitEstablishes, StepPreserves, InvImplies, PTL DEF PirlSpec

-----------------------------------------------------------------------------
(* The rate limiter within a session *)

LEMMA OneInTwo == \A r \in Int : PirlInit(r) => PirlInv
  BY IntAssumption
  DEF PirlInit, PirlInv, PirlTypeOK, InTime, Calm, Counted, Undisturbed

\* The session takes the limiter's steps and no others on its variables.
LEMMA LimiterSteps == [Next]_vars => [PirlNext]_pirlVars
<1> SUFFICES ASSUME [Next]_vars PROVE PirlNext \/ UNCHANGED pirlVars
  BY Zenon
<1>1. CASE ControllerSends
  BY <1>1 DEF ControllerSends, flow_mod, flow_stats_request, aggregate_stats_request, group_mod_message,
     group_stats_request, set_config, table_mod, packet_out_message, port_stats_request,
     queue_stats_request, queue_get_config_request, request, port_mod, port_desc_request, Handles
<1>2. CASE port_mod_call
  BY <1>2 DEF port_mod_call
<1>3. CASE PacketThread
  BY <1>3 DEF PacketThread, unlimited_packet_in, process_and_filter_packet_in, fill_bucket, packet_passes,
     packet_filtered, BufferExpires, FlowExpires, PirlNext
<1>4. CASE Management
  BY <1>4 DEF Management, attach_port, detach_port, attach_snapshot, notify_port_attached,
     notify_port_detached, detached_and_gone, hal_driver_bring_port, Reconfigure, RateSet, PirlNext
<1>5. CASE Background
  BY <1>5 DEF Background, InterfaceChanges, InterfaceVanishes, InterfaceAppears, KernelChanges,
     read_netlink_message, update_physical_ports, notify_port_delete, remove_port, update_port_status,
     follow_flags, status_snapshot, notify_port_status_changed, BackgroundStep
<1>6. CASE Time
  BY <1>6 DEF Time, PirlNext
<1>7. CASE UNCHANGED vars
  BY <1>7 DEF vars
<1> QED
  BY <1>1, <1>2, <1>3, <1>4, <1>5, <1>6, <1>7 DEF Next

\* process_and_filter_packet_in: within a session, whatever else goes on, a tenth of
\* a second that nobody disturbs lets at most a tenth of the rate pass.
THEOREM SessionLimited == Spec => []PacketInsLimited
<1>1. Init => PirlInv
  BY OneInTwo DEF Init, PIRL_DISABLED, PIRL_MIN_RATE, PIRL_NUMBER_OF_BUCKETS_PER_S
<1>2. PirlInv /\ [Next]_vars => PirlInv'
  BY LimiterSteps, StepPreserves
<1> QED
  BY <1>1, <1>2, InvImplies, PTL DEF Spec

-----------------------------------------------------------------------------
(* Handlers that only read *)

\* What a handler loses it may lose, and answers an error for, or dies.
LossFine(o) == o.lost \subseteq Losses(version) /\ (o.lost # {} => o.answer.what \in {"error", "crash"})

Reads(o) == o.sw = sw /\ LossFine(o)

LEMMA PlainAnswers ==
    /\ \A what, q, b : Reads(Reply(what, q, b))
    /\ \A e : Reads(Error(e))
    /\ Reads(Quietly(sw))
  BY DEF Reads, LossFine, Reply, Error, Quietly, Silent

LEMMA StatisticsRead ==
    /\ \A q, cookie, mask, out_port, match, reports :
           Reads(flow_stats(q, cookie, mask, out_port, match, reports))
    /\ \A q, cookie, mask, out_port, match : Reads(aggregate_stats(q, cookie, mask, out_port, match))
    /\ \A q, all : Reads(port_stats(q, all)) /\ Reads(queue_stats(q, all))
    /\ \A q, all, named : Reads(queue_config(q, all, named))
    /\ \A buckets : Reads(group_desc(buckets))
    /\ \A gid : Reads(group_stats(gid))
<1>1. \A q, cookie, mask, out_port, match, reports :
         Reads(flow_stats(q, cookie, mask, out_port, match, reports))
  BY PlainAnswers DEF flow_stats
<1>2. \A q, cookie, mask, out_port, match : Reads(aggregate_stats(q, cookie, mask, out_port, match))
  BY PlainAnswers DEF aggregate_stats
<1>3. \A q, all : Reads(port_stats(q, all))
  BY PlainAnswers DEF port_stats
<1>4. \A q, all : Reads(queue_stats(q, all))
  BY PlainAnswers DEF queue_stats
<1>5. \A q, all, named : Reads(queue_config(q, all, named))
  BY PlainAnswers DEF queue_config
<1>6. \A buckets : Reads(group_desc(buckets))
  BY PlainAnswers DEF group_desc
<1>7. \A gid : Reads(group_stats(gid))
  BY PlainAnswers DEF group_stats
<1> QED
  BY <1>1, <1>2, <1>3, <1>4, <1>5, <1>6, <1>7

LEMMA UncheckedRead ==
    ASSUME version \in {12, 13}
    PROVE  \A q, all : Reads(queue_stats_unchecked(q, all))
<1>1. Reads([sw |-> sw, answer |-> [what |-> "crash", req |-> 0, body |-> 0], lost |-> {"null port"}])
  BY DEF Reads, LossFine, Losses
<1> QED
  BY <1>1, StatisticsRead DEF queue_stats_unchecked

LEMMA Readers13 ==
    ASSUME version = 13
    PROVE
    /\ \A q : Reads(of13_handle_features_request(q))
    /\ \A q : Reads(of13_handle_get_config_request(q))
    /\ \A q : Reads(of13_handle_flow_stats_request(q))
    /\ \A q : Reads(of13_handle_aggregate_stats_request(q))
    /\ \A q : Reads(of13_handle_desc_stats_request(q))
    /\ \A q : Reads(of13_handle_table_stats_request(q))
    /\ \A q : Reads(of13_handle_table_features_stats_request(q))
    /\ \A q : Reads(of13_handle_table_mod(q))
    /\ \A q : Reads(of13_handle_port_stats_request(q))
    /\ \A q : Reads(of13_handle_port_desc_stats_request(q))
    /\ \A q : Reads(of13_handle_queue_stats_request(q))
    /\ \A q : Reads(of13_handle_queue_get_config_request(q))
    /\ \A q : Reads(of13_handle_group_stats_request(q))
    /\ \A q : Reads(of13_handle_group_desc_stats_request(q))
    /\ \A q : Reads(of13_handle_group_features_stats_request(q))
    /\ \A q : Reads(of13_handle_meter_stats_request(q))
    /\ \A q : Reads(of13_handle_meter_config_stats_request(q))
    /\ \A q : Reads(of13_handle_meter_features_stats_request(q))
    /\ \A q : Reads(of13_handle_meter_mod(q))
    /\ \A q : Reads(of13_handle_experimenter_message(q))
    /\ \A q : Reads(of13_handle_experimenter_stats_request(q))
    /\ \A q : Reads(of13_handle_barrier_request(q))
<1>1. /\ \A q : Reads(of13_handle_features_request(q))
      /\ \A q : Reads(of13_handle_get_config_request(q))
      /\ \A q : Reads(of13_handle_aggregate_stats_request(q))
      /\ \A q : Reads(of13_handle_desc_stats_request(q))
      /\ \A q : Reads(of13_handle_table_stats_request(q))
      /\ \A q : Reads(of13_handle_table_features_stats_request(q))
      /\ \A q : Reads(of13_handle_table_mod(q))
      /\ \A q : Reads(of13_handle_port_stats_request(q))
      /\ \A q : Reads(of13_handle_port_desc_stats_request(q))
      /\ \A q : Reads(of13_handle_queue_stats_request(q))
      /\ \A q : Reads(of13_handle_queue_get_config_request(q))
      /\ \A q : Reads(of13_handle_group_stats_request(q))
      /\ \A q : Reads(of13_handle_group_features_stats_request(q))
      /\ \A q : Reads(of13_handle_meter_stats_request(q))
      /\ \A q : Reads(of13_handle_meter_config_stats_request(q))
      /\ \A q : Reads(of13_handle_meter_features_stats_request(q))
      /\ \A q : Reads(of13_handle_meter_mod(q))
      /\ \A q : Reads(of13_handle_experimenter_message(q))
      /\ \A q : Reads(of13_handle_experimenter_stats_request(q))
      /\ \A q : Reads(of13_handle_barrier_request(q))
  BY PlainAnswers, StatisticsRead, UncheckedRead
  DEF of13_handle_features_request, of13_handle_get_config_request,
     of13_handle_aggregate_stats_request, of13_handle_desc_stats_request,
     of13_handle_table_stats_request, of13_handle_table_features_stats_request,
     of13_handle_table_mod, of13_handle_port_stats_request,
     of13_handle_port_desc_stats_request, of13_handle_queue_stats_request,
     of13_handle_queue_get_config_request, of13_handle_group_stats_request,
     of13_handle_group_features_stats_request, of13_handle_meter_stats_request,
     of13_handle_meter_config_stats_request, of13_handle_meter_features_stats_request,
     of13_handle_meter_mod, of13_handle_experimenter_message,
     of13_handle_experimenter_stats_request, of13_handle_barrier_request
<1>2. \A q : Reads(of13_handle_flow_stats_request(q))
  <2>1. Reads([Error("eBadActionBadType") EXCEPT !.lost = {"entry", "fp_msg"}])
    BY DEF Reads, LossFine, Error, Losses
  <2> QED
    BY <2>1, StatisticsRead DEF of13_handle_flow_stats_request
<1>3. \A q : Reads(of13_handle_group_desc_stats_request(q))
  <2>1. Reads([Error("eBadActionBadType") EXCEPT !.lost = {"grp_dsc"}])
    BY DEF Reads, LossFine, Error, Losses
  <2> QED
    BY <2>1, StatisticsRead DEF of13_handle_group_desc_stats_request
<1> QED
  BY <1>1, <1>2, <1>3

LEMMA Readers12 ==
    ASSUME version = 12
    PROVE
    /\ \A q : Reads(of12_handle_features_request(q))
    /\ \A q : Reads(of12_handle_get_config_request(q))
    /\ \A q : Reads(of12_handle_flow_stats_request(q))
    /\ \A q : Reads(of12_handle_aggregate_stats_request(q))
    /\ \A q : Reads(of12_handle_desc_stats_request(q))
    /\ \A q : Reads(of12_handle_table_stats_request(q))
    /\ \A q : Reads(of12_handle_port_stats_request(q))
    /\ \A q : Reads(of12_handle_queue_stats_request(q))
    /\ \A q : Reads(of12_handle_queue_get_config_request(q))
    /\ \A q : Reads(of12_handle_group_stats_request(q))
    /\ \A q : Reads(of12_handle_group_desc_stats_request(q))
    /\ \A q : Reads(of12_handle_group_features_stats_request(q))
    /\ \A q : Reads(of12_handle_experimenter_message(q))
    /\ \A q : Reads(of12_handle_experimenter_stats_request(q))
    /\ \A q : Reads(of12_handle_barrier_request(q))
  BY PlainAnswers, StatisticsRead, UncheckedRead
  DEF of12_handle_features_request, of12_handle_get_config_request,
     of12_handle_flow_stats_request, of12_handle_aggregate_stats_request,
     of12_handle_desc_stats_request, of12_handle_table_stats_request,
     of12_handle_port_stats_request, of12_handle_queue_stats_request,
     of12_handle_queue_get_config_request, of12_handle_group_stats_request,
     of12_handle_group_desc_stats_request, of12_handle_group_features_stats_request,
     of12_handle_experimenter_message, of12_handle_experimenter_stats_request,
     of12_handle_barrier_request

LEMMA Readers10 ==
    ASSUME version = 10
    PROVE
    /\ \A q : Reads(of10_handle_features_request(q))
    /\ \A q : Reads(of10_handle_get_config_request(q))
    /\ \A q : Reads(of10_handle_flow_stats_request(q))
    /\ \A q : Reads(of10_handle_aggregate_stats_request(q))
    /\ \A q : Reads(of10_handle_desc_stats_request(q))
    /\ \A q : Reads(of10_handle_table_stats_request(q))
    /\ \A q : Reads(of10_handle_port_stats_request(q))
    /\ \A q : Reads(of10_handle_queue_stats_request(q))
    /\ \A q : Reads(of10_handle_queue_get_config_request(q))
    /\ \A q : Reads(of10_handle_experimenter_message(q))
    /\ \A q : Reads(of10_handle_experimenter_stats_request(q))
    /\ \A q : Reads(of10_handle_barrier_request(q))
  BY PlainAnswers, StatisticsRead, UncheckedRead
  DEF of10_handle_features_request, of10_handle_get_config_request,
     of10_handle_flow_stats_request, of10_handle_aggregate_stats_request,
     of10_handle_desc_stats_request, of10_handle_table_stats_request,
     of10_handle_port_stats_request, of10_handle_queue_stats_request,
     of10_handle_queue_get_config_request, of10_handle_experimenter_message,
     of10_handle_experimenter_stats_request, of10_handle_barrier_request

-----------------------------------------------------------------------------
(* Handlers that change tables and buffers *)

Record(r, fields) == r = [x \in fields |-> r[x]]

SwitchFields == {"flows", "groups", "capabilities", "miss_send_len", "default_action", "stored", "free"}
IsSwitch(s) == Record(s, SwitchFields)

IsEntry(e) == Record(e, {"match", "insts", "cookie", "notify", "sent"}) /\ DOMAIN e.sent = FlowFields
IsFlow(f) == Record(f, {"tid", "entry"}) /\ f.tid \in TableIds /\ IsEntry(f.entry)

Table(flows, t) == {f \in flows : f.tid = t}

FlowsFit(flows) ==
    /\ IsFiniteSet(flows)
    /\ \A f \in flows : IsFlow(f)
    /\ \A t \in TableIds : Cardinality(Table(flows, t)) <= MaxFlows

SwitchFine == IsSwitch(sw) /\ FlowsFit(sw.flows) /\ IsFiniteSet(sw.stored) /\ sw.free \in Int

\* Tables are within bounds, and a buffer that is no longer stored is free.
Sound(s) ==
    /\ IsSwitch(s) /\ FlowsFit(s.flows) /\ s.stored \subseteq sw.stored
    /\ s.free \in Int
    /\ s.free + Cardinality(s.stored) = sw.free + Cardinality(sw.stored)

\* And the groups are the same.
Keeps(s) == Sound(s) /\ s.groups = sw.groups

\* A table that loses entries, or exchanges them one for one, stays within its bounds.
LEMMA FewerFit ==
    ASSUME NEW flows, FlowsFit(flows), NEW fewer \in SUBSET flows
    PROVE  FlowsFit(fewer)
<1>1. IsFiniteSet(fewer)
  BY FS_Subset DEF FlowsFit
<1>2. ASSUME NEW t \in TableIds PROVE Cardinality(Table(fewer, t)) <= MaxFlows
  <2>1. /\ IsFiniteSet(Table(flows, t)) /\ Table(flows, t) \subseteq flows
        /\ Table(fewer, t) \subseteq Table(flows, t)
    BY FS_Subset DEF FlowsFit, Table
  <2>2. /\ Cardinality(Table(fewer, t)) <= Cardinality(Table(flows, t))
        /\ IsFiniteSet(Table(fewer, t))
    BY <2>1, FS_Subset
  <2>3. Cardinality(Table(fewer, t)) \in Nat /\ Cardinality(Table(flows, t)) \in Nat
    BY <2>1, <2>2, FS_CardinalityType
  <2> QED
    BY <2>2, <2>3, SizesAssumption DEF FlowsFit
<1> QED
  BY <1>1, <1>2 DEF FlowsFit

LEMMA ChangedFit ==
    ASSUME NEW flows, FlowsFit(flows), NEW g, g \in [flows -> {g[f] : f \in flows}],
           \A f \in flows : IsFlow(g[f]) /\ g[f].tid = f.tid
    PROVE  FlowsFit({g[f] : f \in flows})
<1> DEFINE G == {g[f] : f \in flows}
<1>1. IsFiniteSet(G)
  <2>1. g \in Surjection(flows, G)
    BY DEF Surjection
  <2> QED
    BY <2>1, FS_Surjection DEF FlowsFit
<1>2. ASSUME NEW t \in TableIds PROVE Cardinality(Table(G, t)) <= MaxFlows
  <2> DEFINE h == [f \in Table(flows, t) |-> g[f]]
  <2>1. h \in Surjection(Table(flows, t), Table(G, t))
    BY DEF Surjection, Table
  <2>2. IsFiniteSet(Table(flows, t))
    BY FS_Subset DEF FlowsFit, Table
  <2>3. Cardinality(Table(G, t)) <= Cardinality(Table(flows, t)) /\ IsFiniteSet(Table(G, t))
    BY <2>1, <2>2, FS_Surjection
  <2>4. Cardinality(Table(G, t)) \in Nat /\ Cardinality(Table(flows, t)) \in Nat
    BY <2>2, <2>3, FS_CardinalityType
  <2> QED
    BY <2>3, <2>4, SizesAssumption DEF FlowsFit
<1> QED
  BY <1>1, <1>2 DEF FlowsFit

LEMMA AddedFit ==
    ASSUME NEW flows, FlowsFit(flows), NEW new, IsFlow(new),
           Cardinality(Table(flows, new.tid)) < MaxFlows
    PROVE  FlowsFit(flows \cup {new})
<1> DEFINE more == flows \cup {new}
<1>1. IsFiniteSet(more)
  BY FS_AddElement DEF FlowsFit
<1>2. ASSUME NEW t \in TableIds PROVE Cardinality(Table(more, t)) <= MaxFlows
  <2>1. CASE t = new.tid
    <3>1. Table(more, t) = Table(flows, t) \cup {new}
      BY <2>1 DEF Table
    <3>2. IsFiniteSet(Table(flows, t))
      BY FS_Subset DEF FlowsFit, Table
    <3>3. Cardinality(Table(flows, t)) \in Nat
      BY <3>2, FS_CardinalityType
    <3>4. Cardinality(Table(flows, t) \cup {new}) \in {Cardinality(Table(flows, t)), Cardinality(Table(flows, t)) + 1}
      BY <3>2, FS_AddElement
    <3> QED
      BY <2>1, <3>1, <3>3, <3>4, SizesAssumption
  <2>2. CASE t # new.tid
    <3>1. Table(more, t) = Table(flows, t)
      BY <2>2 DEF Table
    <3> QED
      BY <3>1 DEF FlowsFit
  <2> QED
    BY <2>1, <2>2
<1> QED
  BY <1>1, <1>2 DEF FlowsFit

\* What a function on the tables leaves, before the packet that waits is sent on.
OnlyTables(r) ==
    /\ Record(r, {"result", "sw"})
    /\ IsSwitch(r.sw) /\ FlowsFit(r.sw.flows)
    /\ r.sw.stored = sw.stored /\ r.sw.free = sw.free /\ r.sw.groups = sw.groups

LEMMA AddKeepsTables ==
    ASSUME SwitchFine, NEW t \in TableIds, NEW e, IsEntry(e), NEW check
    PROVE  OnlyTables(of1x_add_flow_entry_table(sw, t, e, check))
<1> DEFINE r == of1x_add_flow_entry_table(sw, t, e, check)
           new == [tid |-> t, entry |-> e]
           same == {f \in {g \in sw.flows : g.tid = t} : f.entry.match = e.match}
           flows == (sw.flows \ same) \cup {new}
           failed(why) == [result |-> why, sw |-> sw]
           added == [result |-> "SUCCESS", sw |-> [sw EXCEPT !.flows = flows]]
<1>1. \A why : OnlyTables(failed(why))
  BY DEF OnlyTables, SwitchFine, Record
<1>2. ASSUME same = {} => ~(Cardinality(Table(sw.flows, t)) >= MaxFlows)
      PROVE  FlowsFit(flows)
  <2>1. FlowsFit(sw.flows \ same)
    BY FewerFit DEF SwitchFine
  <2>2. IsFlow(new) /\ new.tid = t
    BY DEF IsFlow, Record
  <2>3. Cardinality(Table(sw.flows \ same, t)) < MaxFlows
    <3>1. IsFiniteSet(Table(sw.flows, t)) /\ Cardinality(Table(sw.flows, t)) \in Nat
      BY FS_Subset, FS_CardinalityType DEF SwitchFine, FlowsFit, Table
    <3>2. CASE same = {}
      <4>1. Cardinality(Table(sw.flows, t)) < MaxFlows
        BY <1>2, <3>1, <3>2, SizesAssumption
      <4>2. sw.flows \ same = sw.flows
        BY <3>2
      <4> QED
        BY <4>1, <4>2
    <3>3. CASE same # {}
      <4>1. PICK f \in Table(sw.flows, t) : f \notin Table(sw.flows \ same, t)
        BY <3>3 DEF Table
      <4>2. Table(sw.flows \ same, t) \subseteq Table(sw.flows, t) /\ Table(sw.flows \ same, t) # Table(sw.flows, t)
        BY <4>1 DEF Table
      <4>3. /\ Cardinality(Table(sw.flows \ same, t)) <= Cardinality(Table(sw.flows, t))
            /\ Cardinality(Table(sw.flows \ same, t)) # Cardinality(Table(sw.flows, t))
            /\ IsFiniteSet(Table(sw.flows \ same, t))
        BY <3>1, <4>2, FS_Subset
      <4>4. Cardinality(Table(sw.flows \ same, t)) \in Nat
        BY <4>3, FS_CardinalityType
      <4>5. Cardinality(Table(sw.flows, t)) <= MaxFlows
        BY DEF SwitchFine, FlowsFit
      <4> QED
        BY <3>1, <4>3, <4>4, <4>5, SizesAssumption
    <3> QED
      BY <3>2, <3>3
  <2> HIDE DEF new, same
  <2> QED
    BY <2>1, <2>2, <2>3, AddedFit
<1>3. ASSUME FlowsFit(flows) PROVE OnlyTables(added)
  <2> HIDE DEF flows
  <2> QED
    BY <1>3 DEF OnlyTables, SwitchFine, IsSwitch, SwitchFields, Record
<1>4. \/ \E why : r = failed(why)
      \/ r = added /\ (same = {} => ~(Cardinality(Table(sw.flows, t)) >= MaxFlows))
  BY DEF of1x_add_flow_entry_table, Table
<1> HIDE DEF failed, added, flows, r, same
<1> QED
  BY <1>1, <1>2, <1>3, <1>4 DEF r

LEMMA ModifyKeepsTables ==
    ASSUME SwitchFine, NEW t \in TableIds, NEW e, IsEntry(e), NEW strict, NEW of10
    PROVE  OnlyTables(of1x_modify_flow_entry_table(sw, t, e, strict, of10))
<1> DEFINE found == Chosen(sw, t, e.match, strict, PORT_ANY)
           Modified(f) == [f EXCEPT !.entry.insts = e.insts, !.entry.sent.insts = e.sent.insts]
           g == [f \in sw.flows |-> IF f \in found THEN Modified(f) ELSE f]
           flows == (sw.flows \ found) \cup {Modified(f) : f \in found}
           changed == [result |-> "SUCCESS", sw |-> [sw EXCEPT !.flows = flows]]
<1>1. ASSUME NEW f \in sw.flows PROVE IsFlow(Modified(f)) /\ Modified(f).tid = f.tid
  <2>1. IsFlow(f)
    BY DEF SwitchFine, FlowsFit
  <2>2. Record(Modified(f), {"tid", "entry"}) /\ Modified(f).tid = f.tid
    BY <2>1 DEF IsFlow, Record
  <2>3. Record(Modified(f).entry, {"match", "insts", "cookie", "notify", "sent"})
    BY <2>1 DEF IsFlow, IsEntry, Record
  <2>4. DOMAIN Modified(f).entry.sent = FlowFields
    BY <2>1 DEF IsFlow, IsEntry, Record, FlowFields
  <2> HIDE DEF Modified
  <2> QED
    BY <2>1, <2>2, <2>3, <2>4 DEF IsFlow, IsEntry
<1>2. FlowsFit(flows)
  <2>1. found \subseteq sw.flows
    BY DEF Chosen
  <2> HIDE DEF found, Modified
  <2>2. \A f \in sw.flows : IsFlow(g[f]) /\ g[f].tid = f.tid
    BY <1>1 DEF SwitchFine, FlowsFit
  <2>3. g \in [sw.flows -> {g[f] : f \in sw.flows}]
    OBVIOUS
  <2>4. flows = {g[f] : f \in sw.flows}
    BY <2>1
  <2> HIDE DEF g, flows
  <2> QED
    BY <2>2, <2>3, <2>4, ChangedFit DEF SwitchFine
<1>3. OnlyTables(changed)
  <2> HIDE DEF flows
  <2> QED
    BY <1>2 DEF OnlyTables, SwitchFine, IsSwitch, SwitchFields, Record
<1>4. OnlyTables(of1x_add_flow_entry_table(sw, t, e, FALSE))
  BY AddKeepsTables
<1> QED
  BY <1>3, <1>4 DEF of1x_modify_flow_entry_table

\* The packet that waits leaves its buffer free, or nothing is done.
LEMMA ProcessStoredKeeps ==
    ASSUME SwitchFine, NEW r, OnlyTables(r), NEW b
    PROVE  Keeps(ProcessStored(r, b).sw)
<1>1. CASE r.result # "SUCCESS" \/ b \in {0, NO_BUFFER} \/ b \notin r.sw.stored
  <2>1. ProcessStored(r, b).sw = r.sw
    BY <1>1 DEF ProcessStored, OnlyTables, Record
  <2> QED
    BY <2>1 DEF OnlyTables, Keeps, Sound, SwitchFine
<1>2. CASE ~(r.result # "SUCCESS" \/ b \in {0, NO_BUFFER} \/ b \notin r.sw.stored)
  <2> DEFINE s == [r.sw EXCEPT !.stored = @ \ {b}, !.free = @ + 1]
  <2>1. ProcessStored(r, b).sw = s
    BY <1>2 DEF ProcessStored, OnlyTables, IsSwitch, SwitchFields, Record
  <2>2. /\ IsSwitch(s) /\ s.flows = r.sw.flows /\ s.groups = r.sw.groups
        /\ s.stored = r.sw.stored \ {b} /\ s.free = r.sw.free + 1
    BY DEF OnlyTables, IsSwitch, SwitchFields, Record
  <2>3. /\ Cardinality(sw.stored \ {b}) = Cardinality(sw.stored) - 1
        /\ Cardinality(sw.stored) \in Nat
    BY <1>2, FS_RemoveElement, FS_CardinalityType DEF SwitchFine, OnlyTables
  <2> HIDE DEF s
  <2> QED
    BY <2>1, <2>2, <2>3 DEF OnlyTables, Keeps, Sound, SwitchFine
<1> QED
  BY <1>1, <1>2

\* hal_driver_of1x_process_packet_out does the same.
LEMMA PacketOutKeeps ==
    ASSUME SwitchFine, NEW b, NEW actions
    PROVE  Keeps(hal_driver_of1x_process_packet_out(sw, b, actions).sw)
<1> DEFINE s == [sw EXCEPT !.stored = @ \ {b}, !.free = @ + 1]
<1>1. Keeps(sw)
  BY DEF Keeps, Sound, SwitchFine
<1>2. ASSUME b \in sw.stored PROVE Keeps(s)
  <2>1. /\ IsSwitch(s) /\ s.flows = sw.flows /\ s.groups = sw.groups
        /\ s.stored = sw.stored \ {b} /\ s.free = sw.free + 1
    BY DEF SwitchFine, IsSwitch, SwitchFields, Record
  <2>2. /\ Cardinality(sw.stored \ {b}) = Cardinality(sw.stored) - 1
        /\ Cardinality(sw.stored) \in Nat
    BY <1>2, FS_RemoveElement, FS_CardinalityType DEF SwitchFine
  <2> HIDE DEF s
  <2> QED
    BY <2>1, <2>2 DEF Keeps, Sound, SwitchFine
<1>3. hal_driver_of1x_process_packet_out(sw, b, actions).sw \in (IF b \in sw.stored THEN {sw, s} ELSE {sw})
  BY DEF hal_driver_of1x_process_packet_out
<1> HIDE DEF s
<1> QED
  BY <1>1, <1>2, <1>3

-----------------------------------------------------------------------------
(* Handlers of messages that change flows, packets and configuration *)

Handled(o) == Keeps(o.sw) /\ LossFine(o)

LEMMA ReadsHandled == SwitchFine => \A o : Reads(o) => Handled(o)
  BY DEF Reads, Handled, Keeps, Sound, SwitchFine

LEMMA AnsweredHandled ==
    ASSUME NEW r, Keeps(r.sw), NEW e
    PROVE  Handled(Answered(r, e))
  BY DEF Answered, Handled, LossFine, Quietly, Silent, Error

LEMMA UnreadableHandled ==
    ASSUME SwitchFine, NEW e, NEW leak, leak \subseteq Losses(version)
    PROVE  Handled([Error(e) EXCEPT !.lost = leak])
  BY DEF Handled, LossFine, Error, Keeps, Sound, SwitchFine

LEMMA AddFlowHandled ==
    ASSUME SwitchFine, NEW m, m.table_id \in Nat, NEW e, IsEntry(e),
           NEW leak, leak \subseteq Losses(version)
    PROVE  Handled(add_flow(m, e, leak))
<1> DEFINE r == hal_driver_of1x_process_flow_mod_add(sw, m.table_id, e, m.buffer_id, m.check_overlap)
<1>1. Keeps(r.sw)
  <2>1. CASE m.table_id >= NumTables
    BY <2>1 DEF hal_driver_of1x_process_flow_mod_add, Keeps, Sound, SwitchFine
  <2>2. CASE ~(m.table_id >= NumTables)
    <3>1. m.table_id \in TableIds
      BY <2>2, SizesAssumption DEF TableIds
    <3> DEFINE added == of1x_add_flow_entry_table(sw, m.table_id, e, m.check_overlap)
    <3>2. OnlyTables(added)
      BY <3>1, AddKeepsTables
    <3>3. r = ProcessStored(added, m.buffer_id)
      BY <2>2 DEF hal_driver_of1x_process_flow_mod_add
    <3> HIDE DEF added, r
    <3> QED
      BY <3>2, <3>3, ProcessStoredKeeps
  <2> QED
    BY <2>1, <2>2
<1>2. \A error : Handled(Answered(r, error))
  <2> HIDE DEF r
  <2> QED
    BY <1>1, AnsweredHandled
<1>3. Handled(Error("eFlowModBadTableId"))
  BY PlainAnswers, ReadsHandled
<1> HIDE DEF r
<1> QED
  BY <1>2, <1>3, UnreadableHandled DEF add_flow, r

LEMMA ModifyFlowHandled ==
    ASSUME SwitchFine, NEW m, m.table_id \in Nat, NEW e, IsEntry(e), NEW strict,
           NEW leak, leak \subseteq Losses(version)
    PROVE  Handled(modify_flow(m, e, strict, leak))
<1> DEFINE r == hal_driver_of1x_process_flow_mod_modify(sw, m.table_id, e, m.buffer_id, strict, version = 10)
<1>1. Keeps(r.sw)
  <2>1. CASE m.table_id >= NumTables
    BY <2>1 DEF hal_driver_of1x_process_flow_mod_modify, Keeps, Sound, SwitchFine
  <2>2. CASE ~(m.table_id >= NumTables)
    <3>1. m.table_id \in TableIds
      BY <2>2, SizesAssumption DEF TableIds
    <3> DEFINE modified == of1x_modify_flow_entry_table(sw, m.table_id, e, strict, version = 10)
    <3>2. OnlyTables(modified)
      BY <3>1, ModifyKeepsTables
    <3>3. r = ProcessStored(modified, m.buffer_id)
      BY <2>2 DEF hal_driver_of1x_process_flow_mod_modify
    <3> HIDE DEF modified, r
    <3> QED
      BY <3>2, <3>3, ProcessStoredKeeps
  <2> QED
    BY <2>1, <2>2
<1>2. \A error : Handled(Answered(r, error))
  <2> HIDE DEF r
  <2> QED
    BY <1>1, AnsweredHandled
<1>3. Handled(Error("eFlowModBadTableId"))
  BY PlainAnswers, ReadsHandled
<1> HIDE DEF r
<1> QED
  BY <1>2, <1>3, UnreadableHandled DEF modify_flow, r

LEMMA DeleteFlowHandled ==
    ASSUME SwitchFine, NEW m, NEW e, NEW out_port, NEW strict,
           NEW leak, leak \subseteq Losses(version)
    PROVE  Handled(delete_flow(m, e, out_port, strict, leak))
<1> DEFINE r == hal_driver_of1x_process_flow_mod_delete(sw, m.table_id, e, out_port, strict)
           left_over == sw.flows \ Chosen(sw, m.table_id, e.match, strict, out_port)
           s == [sw EXCEPT !.flows = left_over]
<1>1. Keeps(sw)
  BY DEF Keeps, Sound, SwitchFine
<1>2. Keeps(s)
  <2>1. FlowsFit(left_over)
    BY FewerFit DEF SwitchFine
  <2> HIDE DEF left_over
  <2> QED
    BY <2>1 DEF Keeps, Sound, SwitchFine, IsSwitch, SwitchFields, Record
<1>3. r.sw = sw \/ r.sw = s
  BY DEF hal_driver_of1x_process_flow_mod_delete
<1>4. Keeps(r.sw)
  <2> HIDE DEF r, s
  <2> QED
    BY <1>1, <1>2, <1>3
<1>5. \A error : Handled(Answered(r, error))
  <2> HIDE DEF r
  <2> QED
    BY <1>4, AnsweredHandled
<1> HIDE DEF r
<1> QED
  BY <1>5, UnreadableHandled DEF delete_flow, r

\* The entry made from a message is one, whatever the translation makes of the message.
LEMMA EntriesInstalled ==
    ASSUME NEW m, DOMAIN m.flow = FlowFields
    PROVE  /\ IsEntry(of13_entry(m)) /\ IsEntry(of12_entry(m)) /\ IsEntry(of10_entry(m))
<1>1. \A e : IsEntry(Installed(e, m.flow))
  BY DEF IsEntry, Installed, Record
<1> QED
  BY <1>1 DEF of13_entry, of12_entry, of10_entry

LEMMA FlowModsHandled ==
    ASSUME SwitchFine, NEW m, DOMAIN m.flow = FlowFields, m.table_id \in Nat
    PROVE  /\ version = 13 => Handled(of13_handle_flow_mod(m))
           /\ version = 12 => Handled(of12_handle_flow_mod(m))
           /\ version = 10 => Handled(of10_handle_flow_mod(m))
<1>1. Handled(Error("eFlowModBadCommand"))
  BY PlainAnswers, ReadsHandled
<1>2. /\ version = 13 => of13_leak(m) \subseteq Losses(version)
      /\ version = 12 => of12_leak(m) \subseteq Losses(version)
      /\ version = 10 => of10_leak(m) \subseteq Losses(version)
  <2>1. /\ of13_leak(m) = {} \/ of13_leak(m) = {"write actions"}
        /\ of12_leak(m) = {} \/ of12_leak(m) = {"write actions"}
        /\ of10_leak(m) = {} \/ of10_leak(m) = {"apply actions"}
    BY DEF of13_leak, of12_leak, of10_leak
  <2>2. /\ version = 13 => "write actions" \in Losses(version)
        /\ version = 12 => "write actions" \in Losses(version)
        /\ version = 10 => "apply actions" \in Losses(version)
    BY DEF Losses
  <2> QED
    BY <2>1, <2>2
<1>3. ASSUME version = 13 PROVE Handled(of13_handle_flow_mod(m))
  BY <1>1, <1>2, <1>3, EntriesInstalled, AddFlowHandled, ModifyFlowHandled, DeleteFlowHandled
  DEF of13_handle_flow_mod, of13_flow_mod_add, of13_flow_mod_modify, of13_flow_mod_delete
<1>4. ASSUME version = 12 PROVE Handled(of12_handle_flow_mod(m))
  BY <1>1, <1>2, <1>4, EntriesInstalled, AddFlowHandled, ModifyFlowHandled, DeleteFlowHandled
  DEF of12_handle_flow_mod, of12_flow_mod_add, of12_flow_mod_modify, of12_flow_mod_delete
<1>5. ASSUME version = 10 PROVE Handled(of10_handle_flow_mod(m))
  BY <1>1, <1>2, <1>5, EntriesInstalled, AddFlowHandled, ModifyFlowHandled, DeleteFlowHandled
  DEF of10_handle_flow_mod, of10_flow_mod_add, of10_flow_mod_modify, of10_flow_mod_delete
<1> QED
  BY <1>3, <1>4, <1>5

LEMMA ConfigurationHandled ==
    ASSUME SwitchFine
    PROVE  /\ \A m : Handled(of13_handle_set_config(m)) /\ Handled(of12_handle_set_config(m))
                     /\ Handled(of10_handle_set_config(m))
           /\ \A m : Handled(of12_handle_table_mod(m)) /\ Handled(of10_handle_table_mod(m))
           /\ \A m : Handled(of13_handle_packet_out(m)) /\ Handled(of12_handle_packet_out(m))
                     /\ Handled(of10_handle_packet_out(m))
<1>1. \A s : Keeps(s) => Handled(Quietly(s))
  BY DEF Handled, LossFine, Quietly, Silent
<1>2. \A flags, len : Keeps(hal_driver_of1x_set_pipeline_config(sw, flags, len))
  BY DEF hal_driver_of1x_set_pipeline_config, Keeps, Sound, SwitchFine, IsSwitch, SwitchFields, Record
<1>3. \A t, config : Keeps(hal_driver_of1x_set_table_config(sw, t, config))
  BY DEF hal_driver_of1x_set_table_config, Keeps, Sound, SwitchFine, IsSwitch, SwitchFields, Record
<1>4. \A m, actions : Handled(packet_out(m, actions))
  <2>1. \A m, actions : Keeps(hal_driver_of1x_process_packet_out(sw, m.buffer_id, actions).sw)
    BY PacketOutKeeps
  <2>2. Handled(Error("eRofBase"))
    BY PlainAnswers, ReadsHandled
  <2> QED
    BY <1>1, <2>1, <2>2 DEF packet_out
<1>5. \A m : Handled(of13_handle_set_config(m)) /\ Handled(of12_handle_set_config(m))
             /\ Handled(of10_handle_set_config(m))
  BY <1>1, <1>2 DEF of13_handle_set_config, of12_handle_set_config, of10_handle_set_config
<1>6. \A m : Handled(of12_handle_table_mod(m)) /\ Handled(of10_handle_table_mod(m))
  BY <1>1, <1>3 DEF of12_handle_table_mod, of10_handle_table_mod
<1>7. \A m : Handled(of13_handle_packet_out(m)) /\ Handled(of12_handle_packet_out(m))
             /\ Handled(of10_handle_packet_out(m))
  BY <1>4 DEF of13_handle_packet_out, of12_handle_packet_out, of10_handle_packet_out
<1> QED
  BY <1>5, <1>6, <1>7

LEMMA GroupModSound ==
    ASSUME SwitchFine, version \in {12, 13}, NEW m, NEW group
    PROVE  Sound(group_mod(m, group).sw) /\ LossFine(group_mod(m, group))
<1>1. \A s : IsSwitch(s) /\ s.flows = sw.flows /\ s.stored = sw.stored /\ s.free = sw.free => Sound(s)
  BY DEF Sound, SwitchFine
<1>2. \A groups : Sound([sw EXCEPT !.groups = groups]) /\ Sound(sw)
  BY <1>1 DEF SwitchFine, IsSwitch, SwitchFields, Record
<1>3. \A r, e : Sound(r.sw) => Sound(Answered(r, e).sw) /\ LossFine(Answered(r, e))
  BY DEF Answered, LossFine, Quietly, Silent, Error
<1>4. LET o == [Error("eRofBase") EXCEPT !.lost = {"bucket list"}]
      IN  Sound(o.sw) /\ LossFine(o)
  BY <1>2 DEF LossFine, Losses, Error
<1>5. /\ Sound(hal_driver_of1x_group_mod_add(sw, m.gid, group).sw)
      /\ Sound(hal_driver_of1x_group_mod_modify(sw, m.gid, group).sw)
      /\ Sound(hal_driver_of1x_group_mod_delete(sw, m.gid).sw)
      /\ Sound([result |-> "BCOMMAND", sw |-> sw].sw)
  BY <1>2 DEF hal_driver_of1x_group_mod_add, hal_driver_of1x_group_mod_modify, hal_driver_of1x_group_mod_delete
<1> QED
  BY <1>3, <1>4, <1>5 DEF group_mod

-----------------------------------------------------------------------------
(* What a session keeps of tables, buffers and memory *)

ModFields == {"at", "m", "ports", "calls", "all", "snapshot"}

SwitchInv ==
    /\ version \in Versions /\ topic \in Topics
    /\ IsSwitch(sw) /\ FlowsFit(sw.flows)
    /\ sw.stored \subseteq Buffers /\ sw.free \in 0..NumBuffers
    /\ sw.free + Cardinality(sw.stored) + (IF packet = NoPacket THEN 0 ELSE 1) = NumBuffers
    /\ Record(filter, {"at", "ts"})
    /\ packet.at = (IF filter.at = "idle" THEN "none" ELSE "filter")
    /\ packet.at = "none" => packet = NoPacket
    /\ lost # {} => answer.what \in {"error", "crash"}
    /\ lost \subseteq Losses(version)
    /\ mod # Idle => Record(mod, ModFields) /\ (mod.snapshot => version = 13)

LEMMA SwitchInvFine == SwitchInv => SwitchFine
<1>1. IsFiniteSet(Buffers)
  <2>1. Buffers = ({} \cup {1}) \cup {2}
    BY DEF Buffers, NumBuffers
  <2> QED
    BY <2>1, FS_EmptySet, FS_AddElement
<1> QED
  BY <1>1, FS_Subset DEF SwitchInv, SwitchFine, NumBuffers

\* Who neither handles a message nor touches packets or tables keeps it.
LEMMA SwitchElsewhere ==
    ASSUME SwitchInv, lost' = {}, UNCHANGED <<version, topic, sw, packet, filter, mod>>
    PROVE  SwitchInv'
  BY DEF SwitchInv, IsSwitch, Record, FlowsFit

LEMMA SwitchByHandler ==
    ASSUME SwitchInv, NEW o, Sound(o.sw), LossFine(o), Sends(o),
           UNCHANGED <<version, topic, packet, filter, mod>>
    PROVE  SwitchInv'
<1> PICK s : s = o.sw
  OBVIOUS
<1>1. IsSwitch(s) /\ FlowsFit(s.flows) /\ sw' = s
  BY DEF Sound, Sends
<1>2. s.stored \subseteq Buffers /\ Cardinality(s.stored) \in Nat /\ Cardinality(sw.stored) \in Nat
      /\ Cardinality(s.stored) <= Cardinality(sw.stored)
  BY SwitchInvFine, FS_Subset, FS_CardinalityType DEF SwitchInv, Sound, SwitchFine
<1>3. s.free + Cardinality(s.stored) = sw.free + Cardinality(sw.stored) /\ s.free \in Int
  BY DEF Sound
<1>4. /\ s.free \in 0..NumBuffers
      /\ s.free + Cardinality(s.stored) + (IF packet = NoPacket THEN 0 ELSE 1) = NumBuffers
  BY <1>2, <1>3 DEF SwitchInv, NumBuffers
<1>5. lost' = o.lost /\ answer' = o.answer
  BY DEF Sends
<1> QED
  BY <1>1, <1>2, <1>4, <1>5 DEF SwitchInv, LossFine

\* And the groups stay the same.
SwitchKept == SwitchInv' /\ sw'.groups = sw.groups

LEMMA SwitchHandles ==
    ASSUME SwitchInv, NEW o, Handled(o), Handles(o)
    PROVE  SwitchKept
  BY SwitchByHandler DEF SwitchKept, Sends, Handled, Handles, Keeps, Takes, quietVars, portVars, pirlVars

LEMMA ReadersHandled ==
    ASSUME SwitchInv
    PROVE  /\ \A q : flow_stats_request(q) => SwitchKept
           /\ \A q : aggregate_stats_request(q) => SwitchKept
           /\ \A q : port_stats_request(q) => SwitchKept
           /\ \A q : queue_stats_request(q) => SwitchKept
           /\ \A q : queue_get_config_request(q) => SwitchKept
<1>1. SwitchFine /\ version \in {13, 12, 10}
  BY SwitchInvFine DEF SwitchInv, Versions
<1>2. \A o : Reads(o) /\ Handles(o) => SwitchKept
  BY <1>1, ReadsHandled, SwitchHandles
<1>3. ASSUME NEW q, flow_stats_request(q) PROVE SwitchKept
  <2>1. CASE version = 13
    BY <1>2, <1>3, <2>1, Readers13 DEF flow_stats_request
  <2>2. CASE version = 12
    BY <1>2, <1>3, <2>2, Readers12 DEF flow_stats_request
  <2>3. CASE version = 10
    BY <1>2, <1>3, <2>3, Readers10 DEF flow_stats_request
  <2> QED
    BY <1>1, <2>1, <2>2, <2>3
<1>4. ASSUME NEW q, aggregate_stats_request(q) PROVE SwitchKept
  <2>1. CASE version = 13
    BY <1>2, <1>4, <2>1, Readers13 DEF aggregate_stats_request
  <2>2. CASE version = 12
    BY <1>2, <1>4, <2>2, Readers12 DEF aggregate_stats_request
  <2>3. CASE version = 10
    BY <1>2, <1>4, <2>3, Readers10 DEF aggregate_stats_request
  <2> QED
    BY <1>1, <2>1, <2>2, <2>3
<1>5. ASSUME NEW q, port_stats_request(q) PROVE SwitchKept
  <2>1. CASE version = 13
    BY <1>2, <1>5, <2>1, Readers13 DEF port_stats_request
  <2>2. CASE version = 12
    BY <1>2, <1>5, <2>2, Readers12 DEF port_stats_request
  <2>3. CASE version = 10
    BY <1>2, <1>5, <2>3, Readers10 DEF port_stats_request
  <2> QED
    BY <1>1, <2>1, <2>2, <2>3
<1>6. ASSUME NEW q, queue_stats_request(q) PROVE SwitchKept
  <2>1. CASE version = 13
    BY <1>2, <1>6, <2>1, Readers13 DEF queue_stats_request
  <2>2. CASE version = 12
    BY <1>2, <1>6, <2>2, Readers12 DEF queue_stats_request
  <2>3. CASE version = 10
    BY <1>2, <1>6, <2>3, Readers10 DEF queue_stats_request
  <2> QED
    BY <1>1, <2>1, <2>2, <2>3
<1>7. ASSUME NEW q, queue_get_config_request(q) PROVE SwitchKept
  <2>1. CASE version = 13
    BY <1>2, <1>7, <2>1, Readers13 DEF queue_get_config_request
  <2>2. CASE version = 12
    BY <1>2, <1>7, <2>2, Readers12 DEF queue_get_config_request
  <2>3. CASE version = 10
    BY <1>2, <1>7, <2>3, Readers10 DEF queue_get_config_request
  <2> QED
    BY <1>1, <2>1, <2>2, <2>3
<1> QED
  BY <1>3, <1>4, <1>5, <1>6, <1>7

LEMMA RequestsHandled ==
    ASSUME SwitchInv, NEW what, what \in Requests(version), request(what)
    PROVE  SwitchKept
<1>1. SwitchFine /\ version \in {13, 12, 10}
  BY SwitchInvFine DEF SwitchInv, Versions
<1>2. Reads(Plain(what))
  <2>1. CASE version = 13
    <3>1. what \in {"get_config", "desc", "table_stats", "experimenter", "experimenter_stats", "barrier",
                    "features", "table_features", "group_desc", "group_features", "meter_stats",
                    "meter_config", "meter_features", "meter_mod"}
      BY <2>1 DEF Requests
    <3> QED
      BY <2>1, <3>1, Readers13 DEF Plain
  <2>2. CASE version = 12
    <3>1. what \in {"get_config", "desc", "table_stats", "experimenter", "experimenter_stats", "barrier",
                    "group_desc", "group_features"}
      BY <2>2 DEF Requests
    <3> QED
      BY <2>2, <3>1, Readers12 DEF Plain
  <2>3. CASE version = 10
    <3>1. what \in {"get_config", "desc", "table_stats", "experimenter", "experimenter_stats", "barrier"}
      BY <2>3 DEF Requests
    <3> QED
      BY <2>3, <3>1, Readers10 DEF Plain
  <2> QED
    BY <1>1, <2>1, <2>2, <2>3
<1> HIDE DEF SwitchInv
<1> QED
  BY <1>1, <1>2, ReadsHandled, SwitchHandles DEF request

LEMMA ChangersHandled ==
    ASSUME SwitchInv
    PROVE  /\ \A m : DOMAIN m.flow = FlowFields /\ m.table_id \in Nat /\ flow_mod(m) => SwitchKept
           /\ \A m : version # 10 /\ group_mod_message(m) => SwitchInv'
           /\ \A m : set_config(m) => SwitchKept
           /\ \A m : table_mod(m) => SwitchKept
           /\ \A m : packet_out_message(m) => SwitchKept
           /\ port_desc_request => SwitchKept
<1>1. SwitchFine /\ version \in {13, 12, 10}
  BY SwitchInvFine DEF SwitchInv, Versions
<1>2. \A o : Sound(o.sw) /\ LossFine(o) /\ Sends(o) /\ UNCHANGED <<version, topic, packet, filter, mod>>
             => SwitchInv' /\ sw' = o.sw
  BY SwitchByHandler DEF Sends
<1>3. ASSUME NEW m, DOMAIN m.flow = FlowFields /\ m.table_id \in Nat, flow_mod(m) PROVE SwitchKept
  <2> DEFINE o == CASE version = 13 -> of13_handle_flow_mod(m) [] version = 12 -> of12_handle_flow_mod(m)
                    [] version = 10 -> of10_handle_flow_mod(m)
  <2>1. Handled(o)
    BY <1>1, <1>3, FlowModsHandled
  <2>2. Sends(o) /\ UNCHANGED <<version, topic, packet, filter, mod>>
    BY <1>3 DEF flow_mod, quietVars, portVars, pirlVars
  <2> HIDE DEF o
  <2> QED
    BY <1>2, <2>1, <2>2 DEF Handled, Keeps, SwitchKept
<1>4. ASSUME NEW m, version # 10, group_mod_message(m) PROVE SwitchInv'
  <2> DEFINE o == IF version = 13 THEN of13_handle_group_mod(m) ELSE of12_handle_group_mod(m)
  <2>1. Sound(o.sw) /\ LossFine(o)
    BY <1>1, <1>4, GroupModSound DEF of13_handle_group_mod, of12_handle_group_mod
  <2>2. Sends(o) /\ UNCHANGED <<version, topic, packet, filter, mod>>
    BY <1>4 DEF group_mod_message, quietVars, portVars, pirlVars
  <2> HIDE DEF o
  <2> QED
    BY <1>2, <2>1, <2>2
<1>5. ASSUME NEW m, set_config(m) PROVE SwitchKept
  <2> DEFINE o == CASE version = 13 -> of13_handle_set_config(m) [] version = 12 -> of12_handle_set_config(m)
                    [] version = 10 -> of10_handle_set_config(m)
  <2>1. Handled(o)
    BY <1>1, ConfigurationHandled
  <2>2. Sends(o) /\ UNCHANGED <<version, topic, packet, filter, mod>>
    BY <1>5 DEF set_config, quietVars, portVars, pirlVars
  <2> HIDE DEF o
  <2> QED
    BY <1>2, <2>1, <2>2 DEF Handled, Keeps, SwitchKept
<1>6. ASSUME NEW m, table_mod(m) PROVE SwitchKept
  <2> DEFINE o == CASE version = 13 -> of13_handle_table_mod(m) [] version = 12 -> of12_handle_table_mod(m)
                    [] version = 10 -> of10_handle_table_mod(m)
  <2>1. Handled(o)
    BY <1>1, ConfigurationHandled, Readers13, ReadsHandled
  <2>2. Handles(o)
    BY <1>6 DEF table_mod
  <2> HIDE DEF o
  <2> QED
    BY <2>1, <2>2, SwitchHandles
<1>7. ASSUME NEW m, packet_out_message(m) PROVE SwitchKept
  <2> DEFINE o == CASE version = 13 -> of13_handle_packet_out(m) [] version = 12 -> of12_handle_packet_out(m)
                    [] version = 10 -> of10_handle_packet_out(m)
  <2>1. Handled(o)
    BY <1>1, ConfigurationHandled
  <2>2. Handles(o)
    BY <1>7 DEF packet_out_message
  <2> HIDE DEF o
  <2> QED
    BY <2>1, <2>2, SwitchHandles
<1>8. ASSUME port_desc_request PROVE SwitchKept
  <2> DEFINE o == CASE version = 13 -> of13_handle_port_desc_stats_request(0)
                    [] version = 12 -> of12_handle_features_request(0)
                    [] version = 10 -> of10_handle_features_request(0)
  <2>1. Handled(o)
    BY <1>1, Readers13, Readers12, Readers10, ReadsHandled
  <2>2. Sends(o) /\ UNCHANGED <<version, topic, packet, filter, mod>>
    BY <1>8 DEF port_desc_request, quietVars, portVars, pirlVars
  <2> HIDE DEF o
  <2> QED
    BY <1>2, <2>1, <2>2 DEF Handled, Keeps, SwitchKept
<1> QED
  BY <1>3, <1>4, <1>5, <1>6, <1>7, <1>8

LEMMA SwitchMessages ==
    ASSUME SwitchInv, ControllerSends
    PROVE  SwitchInv'
<1>1. version \in Versions /\ topic \in Topics
  BY DEF SwitchInv
<1>2. /\ \A m \in Asked("flow_mod") : DOMAIN m.flow = FlowFields /\ m.table_id \in Nat
      /\ version = 10 => Asked("group_mod") = {}
      /\ Asked("request") \subseteq Requests(version)
  BY <1>1, SamplesAssumption DEF Asked
<1>3. ASSUME NEW m \in Asked("port_mod"), port_mod(m) PROVE SwitchInv'
  <2> DEFINE r == CASE version = 13 -> of13_handle_port_mod(m) [] version = 12 -> of12_handle_port_mod(m)
                    [] version = 10 -> of10_handle_port_mod(m)
             new == [at |-> "set", m |-> m, ports |-> r.ports, calls |-> CallsOf(m), all |-> r.ports,
                     snapshot |-> r.snapshot]
  <2>1. r.snapshot => version = 13
    BY <1>1 DEF of13_handle_port_mod, of12_handle_port_mod, of10_handle_port_mod, Versions
  <2>2. mod' = mod \/ mod' = Idle \/ mod' = new
    BY <1>3 DEF port_mod
  <2> HIDE DEF r
  <2>3. Record(new, ModFields) /\ new.snapshot = r.snapshot
    BY DEF Record, ModFields
  <2> HIDE DEF new
  <2>4. lost' = {} /\ UNCHANGED <<version, topic, sw, packet, filter>>
    BY <1>3 DEF port_mod, quietVars, pirlVars
  <2> QED
    BY <2>1, <2>2, <2>3, <2>4 DEF SwitchInv, IsSwitch, Record, FlowsFit
<1>4. ASSUME NEW g, group_stats_request(g) PROVE SwitchInv'
  <2>1. Reads(group_stats(g)) /\ Handles(group_stats(g))
    BY <1>4, StatisticsRead DEF group_stats_request, of13_handle_group_stats_request, of12_handle_group_stats_request
  <2> QED
    BY <2>1, SwitchInvFine, ReadsHandled, SwitchHandles DEF SwitchKept
<1>5. ASSUME NEW m \in Asked("group_mod"), group_mod_message(m) PROVE SwitchInv'
  BY <1>2, <1>5, ChangersHandled
<1> QED
  BY <1>2, <1>3, <1>4, <1>5, ReadersHandled, RequestsHandled, ChangersHandled DEF ControllerSends, SwitchKept

\* A call of the driver that fails leaves the snapshot of the switch allocated, if there is one.
LEMMA SwitchCalls ==
    ASSUME SwitchInv, port_mod_call
    PROVE  SwitchInv'
<1>1. PICK p \in mod.ports, setting \in mod.calls : \E r \in Calls(p, setting) :
        /\ mod' = IF r.result = "SUCCESS" THEN StillToCall(p, setting) ELSE Idle
        /\ answer' = IF r.result = "SUCCESS" THEN Silent ELSE Error("ePortModBase").answer
        /\ lost' = IF r.result # "SUCCESS" /\ mod.snapshot THEN {"snapshot"} ELSE {}
  BY DEF port_mod_call
<1> PICK r \in Calls(p, setting) :
        /\ mod' = IF r.result = "SUCCESS" THEN StillToCall(p, setting) ELSE Idle
        /\ answer' = IF r.result = "SUCCESS" THEN Silent ELSE Error("ePortModBase").answer
        /\ lost' = IF r.result # "SUCCESS" /\ mod.snapshot THEN {"snapshot"} ELSE {}
  BY <1>1
<1>2. mod # Idle /\ UNCHANGED <<version, topic, sw, packet, filter>>
  BY DEF port_mod_call, quietVars, pirlVars
<1>3. Record(mod, ModFields) /\ (mod.snapshot => version = 13)
  BY <1>2 DEF SwitchInv
<1>4. mod' # Idle => Record(mod', ModFields) /\ (mod'.snapshot => version = 13)
  <2>1. ASSUME NEW x, mod' = [mod EXCEPT !.calls = x]
        PROVE  Record(mod', ModFields) /\ mod'.snapshot = mod.snapshot
    BY <1>3, <2>1 DEF Record, ModFields
  <2>2. ASSUME NEW x, NEW y, mod' = [mod EXCEPT !.ports = x, !.calls = y]
        PROVE  Record(mod', ModFields) /\ mod'.snapshot = mod.snapshot
    BY <1>3, <2>2 DEF Record, ModFields
  <2> QED
    BY <1>3, <2>1, <2>2 DEF StillToCall
<1>5. lost' # {} => answer'.what = "error"
  BY DEF Error
<1>6. lost' \subseteq Losses(version)
  BY <1>3 DEF Losses
<1> QED
  BY <1>2, <1>4, <1>5, <1>6 DEF SwitchInv, IsSwitch, Record, FlowsFit

LEMMA SwitchBuffers ==
    ASSUME SwitchInv, IsSwitch(sw'), sw'.flows = sw.flows, sw'.stored \subseteq Buffers, sw'.free \in Int,
           Cardinality(sw'.stored) \in Nat, sw'.free >= 0,
           sw'.free + Cardinality(sw'.stored) + (IF packet' = NoPacket THEN 0 ELSE 1) = NumBuffers,
           Record(filter', {"at", "ts"}), packet'.at = (IF filter'.at = "idle" THEN "none" ELSE "filter"),
           packet'.at = "none" => packet' = NoPacket,
           lost' = {}, UNCHANGED <<version, topic, mod>>
    PROVE  SwitchInv'
  BY DEF SwitchInv, NumBuffers

\* A packet takes a buffer, and gives it to the storage or back; what expires frees one.
LEMMA SwitchPackets ==
    ASSUME SwitchInv, PacketThread
    PROVE  SwitchInv'
<1> DEFINE cards == Cardinality(sw.stored)
<1>1. /\ SwitchFine /\ cards \in Nat /\ sw.free \in Nat /\ IsSwitch(sw)
      /\ sw.free + cards + (IF packet = NoPacket THEN 0 ELSE 1) = NumBuffers
      /\ packet = NoPacket <=> filter.at = "idle"
      /\ Record(filter, {"at", "ts"}) /\ sw.stored \subseteq Buffers
      /\ packet.at = (IF filter.at = "idle" THEN "none" ELSE "filter")
      /\ packet.at = "none" => packet = NoPacket
  BY SwitchInvFine, FS_CardinalityType DEF SwitchInv, SwitchFine, NoPacket, NumBuffers
<1>2. ASSUME NEW b \in Buffers, b \notin sw.stored
      PROVE  Cardinality(sw.stored \cup {b}) = cards + 1 /\ sw.stored \cup {b} \subseteq Buffers
  BY <1>2, SwitchInvFine, FS_AddElement DEF SwitchInv, SwitchFine
<1>3. ASSUME NEW b \in Buffers, b \in sw.stored
      PROVE  Cardinality(sw.stored \ {b}) = cards - 1 /\ sw.stored \ {b} \subseteq Buffers
  BY <1>3, SwitchInvFine, FS_RemoveElement DEF SwitchInv, SwitchFine
<1>4. ASSUME NEW b \in Buffers, NEW k, unlimited_packet_in(k, b) PROVE SwitchInv'
  <2>1. /\ sw' = [sw EXCEPT !.stored = @ \cup {b}, !.free = @ - 1] /\ b \notin sw.stored /\ sw.free > 0
        /\ packet = NoPacket /\ lost' = {} /\ UNCHANGED <<version, topic, mod, packet, filter>>
    BY <1>4 DEF unlimited_packet_in, Arrives, Announced, quietVars, portVars, pirlVars
  <2>2. /\ IsSwitch(sw') /\ sw'.flows = sw.flows
        /\ sw'.stored = sw.stored \cup {b} /\ sw'.free = sw.free - 1
    BY <1>1, <2>1 DEF IsSwitch, SwitchFields, Record
  <2> QED
    BY <1>1, <1>2, <2>1, <2>2, SwitchBuffers
<1>5. ASSUME NEW k, process_and_filter_packet_in(k) PROVE SwitchInv'
  <2>1. /\ sw' = [sw EXCEPT !.free = @ - 1] /\ sw.free > 0 /\ packet = NoPacket
        /\ packet' = [at |-> "filter", k |-> k] /\ filter'.at # "idle" /\ Record(filter', {"at", "ts"})
        /\ lost' = {} /\ UNCHANGED <<version, topic, mod>>
    BY <1>5 DEF process_and_filter_packet_in, filter_pkt, Arrives, Untold, quietVars, portVars, Record
  <2>2. /\ IsSwitch(sw') /\ sw'.flows = sw.flows
        /\ sw'.stored = sw.stored /\ sw'.free = sw.free - 1
    BY <1>1, <2>1 DEF IsSwitch, SwitchFields, Record
  <2>3. packet'.at = "filter" /\ packet' # NoPacket
    BY <2>1 DEF NoPacket
  <2> QED
    BY <1>1, <2>1, <2>2, <2>3, SwitchBuffers
<1>6. ASSUME fill_bucket PROVE SwitchInv'
  <2>1. /\ filter.at = "reset" /\ filter'.at = "dec" /\ Record(filter', {"at", "ts"})
        /\ UNCHANGED <<version, topic, sw, packet, mod, lost, answer>>
    BY <1>1, <1>6 DEF fill_bucket, reset_bucket, ofVars, quietVars, portVars, Record
  <2> QED
    BY <2>1 DEF SwitchInv, IsSwitch, FlowsFit
<1>7. ASSUME NEW b \in Buffers, packet_passes(b) PROVE SwitchInv'
  <2>1. /\ sw' = [sw EXCEPT !.stored = @ \cup {b}] /\ b \notin sw.stored
        /\ filter.at = "dec" /\ filter' = [filter EXCEPT !.at = "idle"]
        /\ packet' = NoPacket /\ lost' = {} /\ UNCHANGED <<version, topic, mod>>
    BY <1>7 DEF packet_passes, pirl_dec, Announced, quietVars, portVars
  <2>2. /\ IsSwitch(sw') /\ sw'.flows = sw.flows
        /\ sw'.stored = sw.stored \cup {b} /\ sw'.free = sw.free
    BY <1>1, <2>1 DEF IsSwitch, SwitchFields, Record
  <2>3. Record(filter', {"at", "ts"}) /\ filter'.at = "idle" /\ packet # NoPacket /\ packet'.at = "none"
    BY <1>1, <2>1 DEF Record, NoPacket
  <2> QED
    BY <1>1, <1>2, <2>1, <2>2, <2>3, SwitchBuffers
<1>8. ASSUME packet_filtered PROVE SwitchInv'
  <2>1. /\ sw' = [sw EXCEPT !.free = @ + 1]
        /\ filter.at = "dec" /\ filter' = [filter EXCEPT !.at = "idle"]
        /\ packet' = NoPacket /\ lost' = {} /\ UNCHANGED <<version, topic, mod>>
    BY <1>8 DEF packet_filtered, pirl_drop, Untold, quietVars, portVars
  <2>2. /\ IsSwitch(sw') /\ sw'.flows = sw.flows
        /\ sw'.stored = sw.stored /\ sw'.free = sw.free + 1
    BY <1>1, <2>1 DEF IsSwitch, SwitchFields, Record
  <2>3. Record(filter', {"at", "ts"}) /\ filter'.at = "idle" /\ packet # NoPacket /\ packet'.at = "none"
    BY <1>1, <2>1 DEF Record, NoPacket
  <2> QED
    BY <1>1, <2>1, <2>2, <2>3, SwitchBuffers
<1>9. ASSUME NEW b \in Buffers, BufferExpires(b) PROVE SwitchInv'
  <2>1. /\ sw' = [sw EXCEPT !.stored = @ \ {b}, !.free = @ + 1] /\ b \in sw.stored
        /\ lost' = {} /\ UNCHANGED <<version, topic, mod, packet, filter>>
    BY <1>9 DEF BufferExpires, Untold, quietVars, portVars, pirlVars
  <2>2. /\ IsSwitch(sw') /\ sw'.flows = sw.flows
        /\ sw'.stored = sw.stored \ {b} /\ sw'.free = sw.free + 1
    BY <1>1, <2>1 DEF IsSwitch, SwitchFields, Record
  <2>3. Cardinality(sw'.stored) \in Nat
    BY <1>1, <2>1, <2>2, FS_RemoveElement, FS_CardinalityType DEF SwitchFine
  <2> QED
    BY <1>1, <1>3, <2>1, <2>2, <2>3, SwitchBuffers
<1>10. ASSUME NEW f \in sw.flows, FlowExpires(f) PROVE SwitchInv'
  <2> DEFINE flows == sw.flows \ {f}
  <2>1. FlowsFit(flows)
    BY <1>1, FewerFit DEF SwitchFine
  <2>2. sw' = [sw EXCEPT !.flows = flows] /\ lost' = {} /\ UNCHANGED <<version, topic, mod, packet, filter>>
    BY <1>10 DEF FlowExpires, quietVars, portVars, pirlVars
  <2> HIDE DEF flows
  <2>3. IsSwitch(sw') /\ sw'.flows = flows /\ sw'.stored = sw.stored /\ sw'.free = sw.free
    BY <1>1, <2>2 DEF IsSwitch, SwitchFields, Record
  <2> QED
    BY <2>1, <2>2, <2>3 DEF SwitchInv
<1> QED
  BY <1>4, <1>5, <1>6, <1>7, <1>8, <1>9, <1>10 DEF PacketThread

\* Management and the background thread change ports, and nothing of this.
LEMMA ThreadsElsewhere ==
    /\ \A p : attach_port(p) \/ detach_port(p) => lost' = {} /\ UNCHANGED <<version, topic, sw, packet, filter, mod>>
    /\ attach_snapshot \/ notify_port_attached \/ notify_port_detached \/ detached_and_gone
          => lost' = {} /\ UNCHANGED <<version, topic, sw, packet, filter, mod>>
    /\ \A p, up : hal_driver_bring_port(p, up)
          => lost' = {} /\ UNCHANGED <<version, topic, sw, packet, filter, mod>>
    /\ Background => lost' = {} /\ UNCHANGED <<version, topic, sw, packet, filter, mod>>
<1>1. \A p : attach_port(p) \/ detach_port(p)
                => lost' = {} /\ UNCHANGED <<version, topic, sw, packet, filter, mod>>
  BY DEF attach_port, detach_port, Untold, quietVars, pirlVars
<1>2. attach_snapshot \/ notify_port_attached \/ notify_port_detached \/ detached_and_gone
          => lost' = {} /\ UNCHANGED <<version, topic, sw, packet, filter, mod>>
  BY DEF attach_snapshot, notify_port_attached, notify_port_detached, detached_and_gone, Told, Untold,
     quietVars, pirlVars
<1>3. \A p, up : hal_driver_bring_port(p, up)
          => lost' = {} /\ UNCHANGED <<version, topic, sw, packet, filter, mod>>
  BY DEF hal_driver_bring_port, quietVars, pirlVars
<1>4. Background => lost' = {} /\ UNCHANGED <<version, topic, sw, packet, filter, mod>>
  BY DEF Background, InterfaceChanges, InterfaceVanishes, InterfaceAppears, KernelChanges, BackgroundStep,
     read_netlink_message, update_physical_ports, notify_port_delete, remove_port, update_port_status,
     follow_flags, status_snapshot, notify_port_status_changed, Told, Untold, quietVars, pirlVars
<1> QED
  BY <1>1, <1>2, <1>3, <1>4

LEMMA SwitchStart == Init => SwitchInv
<1> SUFFICES ASSUME Init PROVE SwitchInv
  OBVIOUS
<1>1. IsSwitch(sw) /\ sw.flows = {} /\ Record(filter, {"at", "ts"}) /\ filter.at = "idle"
  BY DEF Init, PirlInit, IsSwitch, SwitchFields, Record
<1>2. FlowsFit(sw.flows)
  <2>1. \A t \in TableIds : Table(sw.flows, t) = {}
    BY <1>1 DEF Table
  <2> QED
    BY <1>1, <2>1, FS_EmptySet, SizesAssumption DEF FlowsFit
<1>3. /\ sw.stored \subseteq Buffers /\ sw.free \in 0..NumBuffers
      /\ sw.free + Cardinality(sw.stored) = NumBuffers
  <2>1. CASE topic = "flows"
    <3>1. sw.stored = {1} /\ sw.free = 1
      BY <2>1 DEF Init, NumBuffers
    <3>2. Cardinality({1}) = 1
      BY FS_Singleton
    <3> QED
      BY <3>1, <3>2 DEF Buffers, NumBuffers
  <2>2. CASE topic # "flows"
    <3>1. sw.stored = {} /\ sw.free = 2
      BY <2>2 DEF Init, NumBuffers
    <3> QED
      BY <3>1, FS_EmptySet DEF Buffers, NumBuffers
  <2> QED
    BY <2>1, <2>2
<1> QED
  BY <1>1, <1>2, <1>3 DEF Init, SwitchInv, NoPacket, NumBuffers

LEMMA SwitchSteps == SwitchInv /\ [Next]_vars => SwitchInv'
<1> SUFFICES ASSUME SwitchInv, [Next]_vars PROVE SwitchInv'
  BY Zenon
<1>1. CASE ControllerSends
  BY <1>1, SwitchMessages
<1>2. CASE port_mod_call
  BY <1>2, SwitchCalls
<1>3. CASE PacketThread
  BY <1>3, SwitchPackets
<1>4. CASE Background
  BY <1>4, ThreadsElsewhere, SwitchElsewhere
<1>5. ASSUME UNCHANGED <<version, topic, sw, packet, filter, mod, lost, answer>> PROVE SwitchInv'
  BY <1>5 DEF SwitchInv, IsSwitch, Record, FlowsFit
<1>6. CASE Management
  <2>1. ASSUME NEW rate, Reconfigure(rate) PROVE SwitchInv'
    BY <1>5, <2>1 DEF Reconfigure, reconfigure, ofVars, quietVars, portVars
  <2>2. ASSUME RateSet PROVE SwitchInv'
    BY <1>5, <2>2 DEF RateSet, set_rate, ofVars, quietVars, portVars
  <2> QED
    BY <1>6, <2>1, <2>2, ThreadsElsewhere, SwitchElsewhere DEF Management
<1>7. CASE Time
  BY <1>5, <1>7 DEF Time, Tick, ofVars, quietVars, portVars
<1>8. CASE UNCHANGED vars
  BY <1>5, <1>8 DEF vars, ofVars, quietVars, portVars, pirlVars
<1> QED
  BY <1>1, <1>2, <1>3, <1>4, <1>6, <1>7, <1>8 DEF Next

\* Whatever add_flow, modify_flow, packet_out and the others do with tables, groups and buffers, the
\* switch keeps its shape and its counts.
THEOREM SwitchSound == Spec => []SwitchInv
  BY SwitchStart, SwitchSteps, PTL DEF Spec

\* of13_endpoint.cc and its siblings lose memory only in the places NothingLost names, and only when
\* they answer an error or die; a packet's buffer is free, stored or being filtered.
THEOREM NothingEverLost == Spec => []NothingLost
<1>1. SwitchInv => NothingLost
  BY DEF SwitchInv, NothingLost
<1> QED
  BY <1>1, SwitchSound, PTL

-----------------------------------------------------------------------------
(* What the controller knows of the groups *)

BelievesFields == {"flows", "groups", "config", "ports"}

Knows(told, groups) ==
    DOMAIN told = DOMAIN groups /\ \A g \in DOMAIN groups : told[g].buckets = groups[g].sent

GroupInv == Record(believes, BelievesFields) /\ Knows(believes.groups, sw.groups)

LEMMA GroupStart == Init => GroupInv
<1> SUFFICES ASSUME Init PROVE GroupInv
  OBVIOUS
<1>1. sw.groups = <<>> /\ believes.groups = <<>> /\ Record(believes, BelievesFields)
  BY DEF Init, Record, BelievesFields
<1>2. Knows(<<>>, <<>>)
  BY DEF Knows
<1> QED
  BY <1>1, <1>2 DEF GroupInv

\* A handler of groups that is accepted does what the controller takes it to do, and one that
\* answers an error does nothing.
LEMMA GroupModKnown ==
    ASSUME IsSwitch(sw), NEW told, Knows(told, sw.groups), NEW m, NEW group, group.sent = m.buckets
    PROVE  LET o == group_mod(m, group)
           IN  Knows(IF Accepted(o) THEN AfterGroupMod(told, m) ELSE told, o.sw.groups)
<1> DEFINE as_sent == [type |-> m.type, buckets |-> m.buckets]
           added == [sw EXCEPT !.groups = Updated(sw.groups, m.gid, group)]
           left_over == IF m.gid = GROUP_ALL THEN {} ELSE DOMAIN sw.groups \ {m.gid}
           deleted == [sw EXCEPT !.groups = [g \in left_over |-> sw.groups[g]]]
<1>1. /\ added.groups = Updated(sw.groups, m.gid, group)
      /\ deleted.groups = [g \in left_over |-> sw.groups[g]]
  BY DEF IsSwitch, SwitchFields, Record
<1>2. Knows(Updated(told, m.gid, as_sent), added.groups)
  BY <1>1 DEF Knows, Updated
<1>3. m.command = "DELETE" => Knows(AfterGroupMod(told, m), deleted.groups)
  BY <1>1 DEF Knows, AfterGroupMod
<1>4. m.command \in {"ADD", "MODIFY"} => AfterGroupMod(told, m) = Updated(told, m.gid, as_sent)
  BY DEF AfterGroupMod
<1>5. \/ group_mod(m, group).sw = sw /\ ~Accepted(group_mod(m, group))
      \/ group_mod(m, group).sw = added /\ Accepted(group_mod(m, group)) /\ m.command \in {"ADD", "MODIFY"}
      \/ group_mod(m, group).sw = deleted /\ Accepted(group_mod(m, group)) /\ m.command = "DELETE"
  BY DEF group_mod, Answered, Accepted, Error, Quietly, Silent, hal_driver_of1x_group_mod_add,
     hal_driver_of1x_group_mod_modify, hal_driver_of1x_group_mod_delete
<1> HIDE DEF added, deleted, as_sent
<1> QED
  BY <1>2, <1>3, <1>4, <1>5

LEMMA GroupElsewhere ==
    ASSUME GroupInv, sw'.groups = sw.groups,
           \/ believes' = believes
           \/ \E x : \/ believes' = [believes EXCEPT !.flows = x]
                     \/ believes' = [believes EXCEPT !.config = x]
                     \/ believes' = [believes EXCEPT !.ports = x]
    PROVE  GroupInv'
<1>1. believes'.groups = believes.groups /\ Record(believes', BelievesFields)
  BY DEF GroupInv, Record, BelievesFields
<1> QED
  BY <1>1 DEF GroupInv

LEMMA GroupMessages ==
    ASSUME SwitchInv, GroupInv, ControllerSends
    PROVE  GroupInv'
<1>1. version \in Versions /\ topic \in Topics
  BY DEF SwitchInv
<1>2. /\ \A m \in Asked("flow_mod") : DOMAIN m.flow = FlowFields /\ m.table_id \in Nat
      /\ Asked("request") \subseteq Requests(version)
      /\ version = 10 => Asked("group_mod") = {}
  BY <1>1, SamplesAssumption DEF Asked
<1>3. ASSUME NEW o, Handles(o) PROVE believes' = believes
  BY <1>3 DEF Handles
<1>4. ASSUME NEW m, flow_mod(m) PROVE \E x : believes' = believes \/ believes' = [believes EXCEPT !.flows = x]
  BY <1>4 DEF flow_mod
<1>5. ASSUME NEW m, set_config(m) PROVE \E x : believes' = [believes EXCEPT !.config = x]
  BY <1>5 DEF set_config
<1>6. ASSUME port_desc_request PROVE \E x : believes' = [believes EXCEPT !.ports = x]
  BY <1>6 DEF port_desc_request
<1>7. ASSUME NEW m, port_mod(m) PROVE believes' = believes /\ sw' = sw
  BY <1>7 DEF port_mod
<1>8. ASSUME NEW g, group_stats_request(g) PROVE believes' = believes /\ sw' = sw
  BY <1>8, StatisticsRead DEF group_stats_request, of13_handle_group_stats_request,
     of12_handle_group_stats_request, Handles, Sends, Reads
<1>9. ASSUME NEW m \in Asked("group_mod"), group_mod_message(m) PROVE GroupInv'
  <2> DEFINE group == [type |-> m.type, sent |-> m.buckets, buckets |->
                        IF version = 13 THEN of13_map_bucket_list(m.buckets) ELSE of12_map_bucket_list(m.buckets)]
             o == group_mod(m, group)
  <2>1. /\ Sends(o)
        /\ believes' = IF Accepted(o) THEN [believes EXCEPT !.groups = AfterGroupMod(@, m)] ELSE believes
    BY <1>9 DEF group_mod_message, of13_handle_group_mod, of12_handle_group_mod
  <2>2. group.sent = m.buckets /\ IsSwitch(sw) /\ Knows(believes.groups, sw.groups)
    BY DEF SwitchInv, GroupInv
  <2> HIDE DEF group
  <2>3. Knows(IF Accepted(o) THEN AfterGroupMod(believes.groups, m) ELSE believes.groups, o.sw.groups)
    BY <2>2, GroupModKnown
  <2> HIDE DEF o
  <2>4. /\ believes'.groups = (IF Accepted(o) THEN AfterGroupMod(believes.groups, m) ELSE believes.groups)
        /\ Record(believes', BelievesFields)
    BY <2>1 DEF GroupInv, Record, BelievesFields
  <2> QED
    BY <2>1, <2>3, <2>4 DEF GroupInv, Sends
<1> QED
  BY <1>2, <1>3, <1>4, <1>5, <1>6, <1>7, <1>8, <1>9, ReadersHandled, RequestsHandled, ChangersHandled,
     GroupElsewhere
  DEF ControllerSends, SwitchKept, flow_stats_request, aggregate_stats_request, port_stats_request,
     queue_stats_request, queue_get_config_request, request, table_mod, packet_out_message

LEMMA GroupSteps == SwitchInv /\ GroupInv /\ [Next]_vars => GroupInv'
<1> SUFFICES ASSUME SwitchInv, GroupInv, [Next]_vars PROVE GroupInv'
  BY Zenon
<1>1. CASE ControllerSends
  BY <1>1, GroupMessages
<1>2. CASE port_mod_call
  BY <1>2, GroupElsewhere DEF port_mod_call
<1>3. CASE PacketThread
  <2>1. sw'.groups = sw.groups
    BY <1>3 DEF PacketThread, unlimited_packet_in, process_and_filter_packet_in, fill_bucket, packet_passes,
       packet_filtered, BufferExpires, FlowExpires, ofVars, SwitchInv, IsSwitch, SwitchFields, Record
  <2> QED
    BY <1>3, <2>1, GroupElsewhere
    DEF PacketThread, unlimited_packet_in, process_and_filter_packet_in, fill_bucket, packet_passes,
       packet_filtered, BufferExpires, FlowExpires, ofVars, Announced, Untold
<1>4. CASE Management
  BY <1>4, GroupElsewhere
  DEF Management, attach_port, detach_port, attach_snapshot, notify_port_attached, notify_port_detached,
     detached_and_gone, hal_driver_bring_port, Reconfigure, RateSet, ofVars, Told, Untold
<1>5. CASE Background
  BY <1>5, GroupElsewhere
  DEF Background, InterfaceChanges, InterfaceVanishes, InterfaceAppears, KernelChanges, BackgroundStep,
     read_netlink_message, update_physical_ports, notify_port_delete, remove_port, update_port_status,
     follow_flags, status_snapshot, notify_port_status_changed, Told, Untold
<1>6. CASE Time \/ UNCHANGED vars
  BY <1>6, GroupElsewhere DEF Time, vars, ofVars
<1> QED
  BY <1>1, <1>2, <1>3, <1>4, <1>5, <1>6 DEF Next

\* hal_driver_of1x_group_mod_add and its siblings: the groups the controller believes in are the
\* groups of the switch, with the buckets it sent, whatever was refused in between.
THEOREM GroupsAlwaysKnown == Spec => []GroupsKnown
<1>1. GroupInv => GroupsKnown
  BY DEF GroupInv, Knows, GroupsKnown
<1> QED
  BY <1>1, GroupStart, GroupSteps, SwitchSound, PTL DEF Spec

-----------------------------------------------------------------------------
(* What the controller knows of the ports *)

Reported == {"PORT_DOWN", "NO_RECV", "NO_FWD", "NO_PACKET_IN"}
NetFields == {"port", "attached", "running", "ports", "system", "kernel", "events"}
PortFields == {"up", "drop_received", "forward_packets", "of_generate_packet_in", "no_flood", "advertised"}
PortRecord(port) == Record(port, PortFields) /\ \A x \in PortFields : port[x] \in BOOLEAN

NetFine(n) ==
    /\ Record(n, NetFields)
    /\ DOMAIN n.port = Slots /\ \A p \in Slots : PortRecord(n.port[p])
    /\ DOMAIN n.kernel = Slots /\ \A p \in Slots : n.kernel[p] \in BOOLEAN
    /\ n.system \subseteq Slots /\ n.events \subseteq Slots /\ n.ports \subseteq Slots
    /\ n.running \subseteq n.attached /\ n.attached \subseteq n.ports

\* The settings of a port that the port modification in progress has not called for yet, and how
\* the port will be described to the controller when it has.
LeftFor(q) ==
    IF mod = Idle \/ q \notin mod.ports THEN {}
    ELSE IF Lowest(q, mod.ports) THEN mod.calls ELSE CallsOf(mod.m)
Expected(q) == IF Under(q) THEN Configured(q) ELSE believes.ports[q]

\* The background thread has a message about the port to read, or is at it.
Busy(q) == q \in net.events \/ (bg # Idle /\ bg.port = q)

MgmtShape ==
    /\ mgmt # Idle => mgmt.at \in {"attached", "snapshot", "detached"} /\ mgmt.port \in Slots
    /\ mgmt.at = "detached" => mgmt.port \notin net.attached

BgShape ==
    /\ bg # Idle => bg.at \in {"named", "scan", "remove", "apply", "snapshot", "notify"} /\ bg.port \in Slots
    /\ bg.at \in {"scan", "remove"} => /\ Record(bg, {"at", "port", "gone", "new"})
                                       /\ bg.gone \subseteq Slots /\ bg.new \subseteq Slots \ net.ports
    /\ bg.at \in {"named", "scan", "remove"} /\ bg.port \notin net.system => bg.port \in net.events
    /\ bg.at = "apply" => bg.up \in BOOLEAN

ThreadShape ==
    /\ mod # Idle => /\ mod.ports \subseteq mod.all /\ mod.all \subseteq Nat /\ mod.ports # {}
                     /\ mod.calls # {} /\ mod.calls \subseteq CallsOf(mod.m)
                     /\ mod.m.config \cup mod.m.mask \subseteq DOMAIN call_order
    /\ MgmtShape /\ BgShape

\* A port is known exactly when it is attached, but for the thread that is about to tell, or to act.
Leaving(p) == mgmt.at = "detached" /\ mgmt.port = p
Coming(p) == mgmt.at \in {"attached", "snapshot"} /\ mgmt.port = p
Going(p) == bg.at = "remove" /\ Lowest(p, bg.gone)

Domains ==
    /\ doubts \subseteq Slots \cup {AllFlows}
    /\ DOMAIN believes.ports \subseteq Slots
    /\ \A p \in Slots \ doubts :
          /\ p \in DOMAIN believes.ports => p \in net.attached \/ Leaving(p)
          /\ p \in net.attached => p \in DOMAIN believes.ports \/ Coming(p) \/ Going(p)

\* Every setting that is not being changed is described as it is; whether the port is up may still
\* be with the background thread.
Right(q) ==
    \A s \in Reported \ LeftFor(q) :
        \/ s \in Expected(q) <=> s \in notified_config(net.port[q])
        \/ s = "PORT_DOWN" /\ Busy(q)

Descriptions ==
    /\ \A p \in DOMAIN believes.ports : believes.ports[p] \subseteq Reported
    /\ \A p \in (net.attached \cap DOMAIN believes.ports) \ doubts : Right(p)

PortInv == NetFine(net) /\ ThreadShape /\ Domains /\ Descriptions

-----------------------------------------------------------------------------
(* What the functions of the driver do to a port *)

LEMMA ReportedOnly == \A port : notified_config(port) \subseteq Reported
  BY DEF notified_config, Reported

LEMMA ReportedAs ==
    ASSUME NEW port
    PROVE  /\ "PORT_DOWN" \in notified_config(port) <=> ~port.up
           /\ "NO_RECV" \in notified_config(port) <=> port.drop_received
           /\ "NO_FWD" \in notified_config(port) <=> ~port.forward_packets
           /\ "NO_PACKET_IN" \in notified_config(port) <=> ~port.of_generate_packet_in
  BY DEF notified_config

\* The outcome n of starting or stopping port p: at most its state, and what the kernel has of it.
Touched(n, p) ==
    /\ NetFine(n)
    /\ n.attached = net.attached /\ n.ports = net.ports /\ n.system = net.system
    /\ net.events \subseteq n.events
    /\ \A q \in Slots \ {p} : n.port[q] = net.port[q]
    /\ \A s \in Reported \ {"PORT_DOWN"} : s \in notified_config(n.port[p]) <=> s \in notified_config(net.port[p])

LEMMA UpTouched ==
    ASSUME NetFine(net), NEW p \in Slots, NEW up \in BOOLEAN
    PROVE  LET n == [net EXCEPT !.port[p].up = up]
           IN  Touched(n, p) /\ n.kernel = net.kernel /\ n.events = net.events /\ n.running = net.running
               /\ n.port[p].up = up
<1> DEFINE port == [net.port[p] EXCEPT !.up = up]
           n == [net EXCEPT !.port[p].up = up]
<1>1. PortRecord(port) /\ port.up = up /\ port.drop_received = net.port[p].drop_received
      /\ port.forward_packets = net.port[p].forward_packets
      /\ port.of_generate_packet_in = net.port[p].of_generate_packet_in
  <2>1. PICK old : old = net.port[p]
    OBVIOUS
  <2>2. PortRecord(old)
    BY <2>1 DEF NetFine
  <2>3. Record(old, PortFields) /\ \A x \in PortFields : old[x] \in BOOLEAN
    BY <2>2 DEF PortRecord
  <2> DEFINE new == [old EXCEPT !.up = up]
  <2>4. /\ Record(new, PortFields) /\ new.up = up /\ new.drop_received = old.drop_received
        /\ new.forward_packets = old.forward_packets /\ new.of_generate_packet_in = old.of_generate_packet_in
    BY <2>3 DEF PortFields, Record
  <2>5. \A x \in PortFields : new[x] \in BOOLEAN
    BY <2>3 DEF PortFields, Record
  <2> HIDE DEF new
  <2>6. PortRecord(new)
    BY <2>4, <2>5 DEF PortRecord
  <2> QED
    BY <2>1, <2>4, <2>6 DEF new
<1>2. /\ Record(n, NetFields) /\ DOMAIN n.port = Slots /\ n.port[p] = port
      /\ \A q \in Slots \ {p} : n.port[q] = net.port[q]
      /\ n.kernel = net.kernel /\ n.events = net.events /\ n.running = net.running
      /\ n.attached = net.attached /\ n.ports = net.ports /\ n.system = net.system
  BY DEF NetFine, NetFields, Record
<1> HIDE DEF port, n
<1>3. \A q \in Slots : PortRecord(n.port[q])
  BY <1>1, <1>2 DEF NetFine
<1>4. NetFine(n)
  BY <1>2, <1>3 DEF NetFine
<1>5. \A s \in Reported \ {"PORT_DOWN"} : s \in notified_config(n.port[p]) <=> s \in notified_config(net.port[p])
  BY <1>1, <1>2 DEF notified_config, Reported
<1> QED
  BY <1>1, <1>2, <1>4, <1>5 DEF Touched, n

LEMMA InterfaceTouched ==
    ASSUME NetFine(net), NEW p \in Slots, NEW up \in BOOLEAN, NEW n \in SetInterface(net, p, up)
    PROVE  /\ Touched(n, p) /\ n.running = net.running
           /\ \/ n = net
              \/ n.port[p].up = up /\ n.kernel = net.kernel
              \/ n.port[p].up = up /\ n.kernel[p] = up /\ (net.kernel[p] # up => p \in n.events)
<1> DEFINE events == IF net.kernel[p] = up THEN net.events ELSE net.events \cup {p}
           set == [net EXCEPT !.port[p].up = up]
           kernel == [net EXCEPT !.kernel[p] = up, !.port[p].up = up,
                                 !.events = IF net.kernel[p] = up THEN @ ELSE @ \cup {p}]
<1>1. Touched(net, p)
  BY DEF Touched
<1>2. Touched(set, p) /\ set.running = net.running /\ set.port[p].up = up /\ set.kernel = net.kernel
  BY UpTouched
<1>3. /\ Record(kernel, NetFields) /\ kernel.port = set.port
      /\ DOMAIN kernel.kernel = Slots /\ kernel.kernel[p] = up
      /\ \A q \in Slots : kernel.kernel[q] \in BOOLEAN
      /\ kernel.events = events /\ kernel.running = net.running
      /\ kernel.attached = net.attached /\ kernel.ports = net.ports /\ kernel.system = net.system
  BY DEF NetFine, NetFields, Record
<1>4. n \in {net, set, kernel}
  BY DEF SetInterface
<1> HIDE DEF set, kernel
<1>5. net.events \subseteq events /\ events \subseteq Slots /\ (net.kernel[p] # up => p \in events)
  BY DEF NetFine
<1>6. Touched(kernel, p)
  BY <1>2, <1>3, <1>5 DEF Touched, NetFine
<1> QED
  BY <1>1, <1>2, <1>3, <1>4, <1>5, <1>6

LEMMA RunningTouched ==
    ASSUME NEW n, NEW p \in Slots, Touched(n, p), NEW R, R \subseteq net.attached
    PROVE  LET r == [n EXCEPT !.running = R]
           IN  Touched(r, p) /\ r.port = n.port /\ r.kernel = n.kernel /\ r.events = n.events /\ r.running = R
<1> DEFINE r == [n EXCEPT !.running = R]
<1>1. /\ Record(r, NetFields) /\ r.port = n.port /\ r.kernel = n.kernel /\ r.events = n.events
      /\ r.running = R /\ r.attached = n.attached /\ r.ports = n.ports /\ r.system = n.system
  BY DEF Touched, NetFine, NetFields, Record
<1> HIDE DEF r
<1>2. Touched(r, p)
  BY <1>1 DEF Touched, NetFine
<1> QED
  BY <1>1, <1>2 DEF r

\* Where the port is neither doubted for a fault nor busy, it is up or down as was asked for.
LEMMA BringTouched ==
    ASSUME NetFine(net), NEW p \in Slots, NEW up \in BOOLEAN,
           NEW r \in IF up THEN bring_port_up(net, p) ELSE bring_port_down(net, p)
    PROVE  /\ Touched(r.net, p)
           /\ ~up => p \notin r.net.running
           /\ r.result = "SUCCESS" /\ ~Faulty(p, up, r.net) =>
                 /\ r.net.port[p].up = up
                 /\ net.kernel[p] # up \/ r.net = net => p \in r.net.events \/ r.net.port[p].up = net.port[p].up
<1>1. Touched(net, p)
  BY DEF Touched
<1>2. \A x \in BOOLEAN : /\ Touched([net EXCEPT !.port[p].up = x], p)
                         /\ [net EXCEPT !.port[p].up = x].running = net.running
  BY UpTouched
<1>3. CASE (p \in net.running) = up
  <2>1. CASE up = TRUE
    <3>1. r = [result |-> "SUCCESS", net |-> net]
      BY <1>3, <2>1 DEF bring_port_up
    <3> QED
      BY <1>1, <1>3, <2>1, <3>1 DEF Faulty, NetFine
  <2>2. CASE up = FALSE
    <3>1. r = [result |-> "FAILURE", net |-> [net EXCEPT !.port[p].up = FALSE]]
      BY <1>3, <2>2 DEF bring_port_down
    <3>2. Touched(r.net, p) /\ r.net.running = net.running /\ r.result = "FAILURE"
      BY <1>2, <3>1
    <3> QED
      BY <1>3, <2>2, <3>2
  <2> QED
    BY <2>1, <2>2
<1>4. CASE (p \in net.running) # up /\ up /\ p \notin net.attached
  <2>1. r = [result |-> "FAILURE", net |-> [net EXCEPT !.port[p].up = TRUE]]
    BY <1>4 DEF bring_port_up
  <2>2. Touched(r.net, p) /\ r.result = "FAILURE"
    BY <1>2, <2>1
  <2> QED
    BY <1>4, <2>2
<1>5. CASE (p \in net.running) # up /\ (up => p \in net.attached)
  <2> DEFINE R == IF up THEN net.running \cup {p} ELSE net.running \ {p}
  <2>0. \A n \in SetInterface(net, p, up) : n.running = net.running
    BY InterfaceTouched
  <2>1. PICK n \in SetInterface(net, p, up) : r = [result |-> "SUCCESS", net |-> [n EXCEPT !.running = R]]
    <3>1. CASE up = TRUE
      <4>1. PICK n \in SetInterface(net, p, up) :
               r = [result |-> "SUCCESS", net |-> [n EXCEPT !.running = @ \cup {p}]]
        BY <1>5, <3>1 DEF bring_port_up, ioport_mmap_up
      <4> QED
        BY <2>0, <3>1, <4>1
    <3>2. CASE up = FALSE
      <4>0. p \in net.running /\ r \in bring_port_down(net, p)
        BY <1>5, <3>2
      <4>1. PICK n \in SetInterface(net, p, up) :
               r = [result |-> "SUCCESS", net |-> [n EXCEPT !.running = @ \ {p}]]
        BY <3>2, <4>0 DEF bring_port_down, ioport_mmap_down
      <4> QED
        BY <2>0, <3>2, <4>1
    <3> QED
      BY <3>1, <3>2
  <2>2. R \subseteq net.attached /\ (~up => p \notin R)
    BY <1>5 DEF NetFine
  <2> HIDE DEF R
  <2>3. /\ Touched(n, p)
        /\ \/ n = net
           \/ n.port[p].up = up /\ n.kernel = net.kernel
           \/ n.port[p].up = up /\ n.kernel[p] = up /\ (net.kernel[p] # up => p \in n.events)
    BY InterfaceTouched
  <2>4. /\ Touched(r.net, p) /\ r.net.port = n.port /\ r.net.kernel = n.kernel /\ r.net.events = n.events
        /\ r.net.running = R
    BY <2>1, <2>2, <2>3, RunningTouched
  <2>5. ASSUME ~Faulty(p, up, r.net) PROVE r.net.port[p].up = up /\ r.net.kernel[p] = up
    BY <1>5, <2>5 DEF Faulty
  <2> QED
    BY <2>2, <2>3, <2>4, <2>5
<1> QED
  BY <1>3, <1>4, <1>5

LEMMA ConfigTouched ==
    ASSUME NetFine(net), NEW p \in net.attached, NEW setting \in Settings, NEW on \in BOOLEAN
    PROVE  LET r == set_port_config(net, p, setting, on)
           IN  /\ NetFine(r.net) /\ r.result = "SUCCESS"
               /\ r.net.attached = net.attached /\ r.net.ports = net.ports
               /\ r.net.system = net.system /\ r.net.events = net.events
               /\ \A q \in Slots \ {p} : r.net.port[q] = net.port[q]
               /\ \A s \in Reported \ {setting} :
                     s \in notified_config(r.net.port[p]) <=> s \in notified_config(net.port[p])
               /\ setting \in Reported => (setting \in notified_config(r.net.port[p]) <=> on)
<1>1. p \in Slots
  BY DEF NetFine
<1>2. PICK old : old = net.port[p]
  OBVIOUS
<1>3. Record(old, PortFields) /\ \A x \in PortFields : old[x] \in BOOLEAN
  BY <1>1, <1>2 DEF NetFine, PortRecord
<1> DEFINE new == CASE setting = "NO_RECV" -> [old EXCEPT !.drop_received = on]
                    [] setting = "NO_FWD" -> [old EXCEPT !.forward_packets = ~on]
                    [] setting = "NO_PACKET_IN" -> [old EXCEPT !.of_generate_packet_in = ~on]
                    [] setting = "NO_FLOOD" -> [old EXCEPT !.no_flood = on]
                    [] setting = "ADVERTISE" -> [old EXCEPT !.advertised = on]
           n == [net EXCEPT !.port[p] = new]
<1>4. set_port_config(net, p, setting, on) = [result |-> "SUCCESS", net |-> n]
  BY <1>2 DEF set_port_config
<1>5. /\ PortRecord(new)
      /\ \A s \in Reported \ {setting} : s \in notified_config(new) <=> s \in notified_config(old)
      /\ setting \in Reported => (setting \in notified_config(new) <=> on)
  <2>1. CASE setting = "NO_RECV"
    <3> DEFINE changed == [old EXCEPT !.drop_received = on]
    <3>1. new = changed
      BY <2>1
    <3>2. Record(changed, PortFields) /\ \A x \in PortFields : changed[x] \in BOOLEAN
      BY <1>3 DEF PortFields, Record
    <3>3. /\ \A x \in PortFields \ {"drop_received"} : changed[x] = old[x]
          /\ changed.drop_received = on
      BY <1>3 DEF PortFields, Record
    <3> HIDE DEF new, changed
    <3> QED
      BY <2>1, <3>1, <3>2, <3>3 DEF PortRecord, notified_config, Reported, PortFields
  <2>2. CASE setting = "NO_FWD"
    <3> DEFINE changed == [old EXCEPT !.forward_packets = ~on]
    <3>1. new = changed
      BY <2>2
    <3>2. Record(changed, PortFields) /\ \A x \in PortFields : changed[x] \in BOOLEAN
      BY <1>3 DEF PortFields, Record
    <3>3. /\ \A x \in PortFields \ {"forward_packets"} : changed[x] = old[x]
          /\ changed.forward_packets = ~on
      BY <1>3 DEF PortFields, Record
    <3> HIDE DEF new, changed
    <3> QED
      BY <2>2, <3>1, <3>2, <3>3 DEF PortRecord, notified_config, Reported, PortFields
  <2>3. CASE setting = "NO_PACKET_IN"
    <3> DEFINE changed == [old EXCEPT !.of_generate_packet_in = ~on]
    <3>1. new = changed
      BY <2>3
    <3>2. Record(changed, PortFields) /\ \A x \in PortFields : changed[x] \in BOOLEAN
      BY <1>3 DEF PortFields, Record
    <3>3. /\ \A x \in PortFields \ {"of_generate_packet_in"} : changed[x] = old[x]
          /\ changed.of_generate_packet_in = ~on
      BY <1>3 DEF PortFields, Record
    <3> HIDE DEF new, changed
    <3> QED
      BY <2>3, <3>1, <3>2, <3>3 DEF PortRecord, notified_config, Reported, PortFields
  <2>4. CASE setting = "NO_FLOOD"
    <3> DEFINE changed == [old EXCEPT !.no_flood = on]
    <3>1. new = changed
      BY <2>4
    <3>2. Record(changed, PortFields) /\ \A x \in PortFields : changed[x] \in BOOLEAN
      BY <1>3 DEF PortFields, Record
    <3>3. /\ \A x \in PortFields \ {"no_flood"} : changed[x] = old[x]
          /\ changed.no_flood = on
      BY <1>3 DEF PortFields, Record
    <3> HIDE DEF new, changed
    <3> QED
      BY <2>4, <3>1, <3>2, <3>3 DEF PortRecord, notified_config, Reported, PortFields
  <2>5. CASE setting = "ADVERTISE"
    <3> DEFINE changed == [old EXCEPT !.advertised = on]
    <3>1. new = changed
      BY <2>5
    <3>2. Record(changed, PortFields) /\ \A x \in PortFields : changed[x] \in BOOLEAN
      BY <1>3 DEF PortFields, Record
    <3>3. /\ \A x \in PortFields \ {"advertised"} : changed[x] = old[x]
          /\ changed.advertised = on
      BY <1>3 DEF PortFields, Record
    <3> HIDE DEF new, changed
    <3> QED
      BY <2>5, <3>1, <3>2, <3>3 DEF PortRecord, notified_config, Reported, PortFields
  <2> QED
    BY <2>1, <2>2, <2>3, <2>4, <2>5 DEF Settings
<1> HIDE DEF new
<1>6. /\ Record(n, NetFields) /\ DOMAIN n.port = Slots /\ n.port[p] = new
      /\ \A q \in Slots \ {p} : n.port[q] = net.port[q]
      /\ n.kernel = net.kernel /\ n.events = net.events /\ n.running = net.running
      /\ n.attached = net.attached /\ n.ports = net.ports /\ n.system = net.system
  BY <1>1 DEF NetFine, NetFields, Record
<1> HIDE DEF n
<1>7. NetFine(n)
  BY <1>1, <1>5, <1>6 DEF NetFine
<1> QED
  BY <1>1, <1>2, <1>4, <1>5, <1>6, <1>7

LEMMA DetachTouched ==
    ASSUME NetFine(net), NEW p \in Slots, NEW n \in hal_driver_detach_port_from_switch(net, p)
    PROVE  /\ NetFine(n) /\ n.attached = net.attached \ {p} /\ n.ports = net.ports
           /\ n.system = net.system /\ net.events \subseteq n.events
           /\ \A q \in Slots \ {p} : n.port[q] = net.port[q]
<1>1. PICK r \in bring_port_down(net, p) : n = [r.net EXCEPT !.attached = @ \ {p}]
  BY DEF hal_driver_detach_port_from_switch
<1>2. Touched(r.net, p) /\ p \notin r.net.running
  BY BringTouched
<1>3. PICK stopped : stopped = r.net
  OBVIOUS
<1>4. /\ Record(n, NetFields) /\ n.attached = stopped.attached \ {p} /\ n.ports = stopped.ports
      /\ n.running = stopped.running /\ n.system = stopped.system /\ n.events = stopped.events
      /\ n.port = stopped.port /\ n.kernel = stopped.kernel
  BY <1>1, <1>2, <1>3 DEF Touched, NetFine, NetFields, Record
<1> QED
  BY <1>2, <1>3, <1>4 DEF Touched, NetFine

LEMMA DestroyTouched ==
    ASSUME NEW n, NetFine(n), NEW p \in Slots, p \notin n.attached
    PROVE  LET d == destroy_port(n, p)
           IN  /\ NetFine(d) /\ d.attached = n.attached /\ d.ports = n.ports \ {p}
               /\ d.system = n.system /\ d.events = n.events
               /\ \A q \in Slots \ {p} : d.port[q] = n.port[q]
<1> DEFINE d == destroy_port(n, p)
<1>1. /\ Record(d, NetFields) /\ d.attached = n.attached /\ d.ports = n.ports \ {p}
      /\ d.running = n.running /\ d.system = n.system /\ d.events = n.events /\ d.kernel = n.kernel
      /\ DOMAIN d.port = Slots /\ d.port[p] = fill_port(FALSE)
      /\ \A q \in Slots \ {p} : d.port[q] = n.port[q]
  BY DEF destroy_port, NetFine, NetFields, Record
<1>2. PortRecord(fill_port(FALSE))
  BY DEF fill_port, PortRecord, PortFields, Record
<1> HIDE DEF d
<1>3. NetFine(d)
  BY <1>1, <1>2 DEF NetFine
<1> QED
  BY <1>1, <1>3 DEF d

-----------------------------------------------------------------------------
(* Ports stay known *)

LEMMA PortStart == Init => PortInv
<1> SUFFICES ASSUME Init PROVE PortInv
  OBVIOUS
<1>1. 1 \in Slots
  BY SizesAssumption DEF Slots
<1>2. \A p \in Slots : PortRecord(fill_port(p = 1))
  BY DEF fill_port, PortRecord, PortFields, Record
<1>3. /\ Record(net, NetFields) /\ net.port = [p \in Slots |-> fill_port(p = 1)] /\ net.attached = {1}
      /\ net.running = {1} /\ net.ports = Slots /\ net.system = Slots /\ net.events = {}
      /\ net.kernel = [p \in Slots |-> p = 1]
  BY DEF Init, NetFields, Record
<1>4. NetFine(net)
  BY <1>1, <1>2, <1>3 DEF NetFine
<1>5. /\ mod = Idle /\ mgmt = Idle /\ bg = Idle /\ Idle.at = "idle" /\ doubts = {}
      /\ believes.ports = [p \in {1} |-> notified_config(net.port[p])]
  BY <1>3 DEF Init, Idle, port_descriptions
<1>6. ThreadShape
  BY <1>5 DEF ThreadShape, MgmtShape, BgShape
<1>7. Domains
  BY <1>1, <1>3, <1>5 DEF Domains
<1>8. Descriptions
  BY <1>5, ReportedOnly DEF Descriptions, Right, Expected, Under
<1> QED
  BY <1>4, <1>6, <1>7, <1>8 DEF PortInv

\* The calls left and what they are to leave depend on the modification alone.
LEMMA CallsKept ==
    ASSUME UNCHANGED <<version, mod>>
    PROVE  \A q : LeftFor(q)' = LeftFor(q) /\ Under(q)' = Under(q)
  BY DEF LeftFor, Under, CallsOf, Lowest, of13_port_set_config, of12_port_settings, of10_port_settings, Idle

LEMMA RightKept ==
    ASSUME NEW q, Right(q), UNCHANGED <<version, mod>>, believes'.ports[q] = believes.ports[q],
           Busy(q) => Busy(q)',
           \A s \in Reported : \/ s \in notified_config(net'.port[q]) <=> s \in notified_config(net.port[q])
                               \/ s = "PORT_DOWN" /\ Busy(q)'
    PROVE  Right(q)'
<1>1. Expected(q)' = Expected(q)
  BY CallsKept DEF Expected, Configured
<1>2. LeftFor(q)' = LeftFor(q)
  BY CallsKept
<1>3. notified_config(net.port[q])' = notified_config(net'.port[q])
  BY DEF notified_config
<1> QED
  BY <1>1, <1>2, <1>3 DEF Right

\* Who changes neither ports nor what is known of them.
LEMMA PortElsewhere ==
    ASSUME PortInv, UNCHANGED <<version, net, mod, mgmt, bg>>, believes'.ports = believes.ports,
           doubts' \in {doubts, doubts \cup {AllFlows}}
    PROVE  PortInv'
<1>1. NetFine(net)' /\ ThreadShape'
  BY DEF PortInv, NetFine, ThreadShape, MgmtShape, BgShape, PortRecord, Record, CallsOf, of13_port_set_config,
     of12_port_settings, of10_port_settings
<1>2. AllFlows \notin Slots
  BY DEF AllFlows, Slots
<1>3. Domains'
  BY <1>2 DEF PortInv, Domains, Leaving, Coming, Going, Lowest
<1>4. Descriptions'
  <2>1. ASSUME NEW q, Right(q) PROVE Right(q)'
    BY <2>1, RightKept DEF Busy
  <2> QED
    BY <1>2, <2>1 DEF PortInv, Descriptions
<1> QED
  BY <1>1, <1>3, <1>4 DEF PortInv

LEMMA PortQuiet ==
    ASSUME SwitchInv, PortInv, GroupInv
    PROVE  /\ \A o : Handles(o) => PortInv'
           /\ \A m : flow_mod(m) => PortInv'
           /\ \A m : group_mod_message(m) => PortInv'
           /\ \A m : set_config(m) => PortInv'
           /\ PacketThread => PortInv'
<1>1. ASSUME UNCHANGED <<version, portVars>>, believes'.ports = believes.ports,
             doubts' \in {doubts, doubts \cup {AllFlows}}
      PROVE  PortInv'
  BY <1>1, PortElsewhere DEF portVars
<1>2. \A x : /\ [believes EXCEPT !.flows = x].ports = believes.ports
             /\ [believes EXCEPT !.groups = x].ports = believes.ports
             /\ [believes EXCEPT !.config = x].ports = believes.ports
  BY DEF GroupInv, Record, BelievesFields
<1>3. ASSUME NEW o, Handles(o) PROVE PortInv'
  BY <1>1, <1>3 DEF Handles, quietVars
<1>4. ASSUME NEW m, flow_mod(m) PROVE PortInv'
  BY <1>1, <1>2, <1>4 DEF flow_mod, quietVars
<1>5. ASSUME NEW m, group_mod_message(m) PROVE PortInv'
  BY <1>1, <1>2, <1>5 DEF group_mod_message, quietVars
<1>6. ASSUME NEW m, set_config(m) PROVE PortInv'
  BY <1>1, <1>2, <1>6 DEF set_config, quietVars
<1>7. ASSUME PacketThread PROVE PortInv'
  <2>1. ASSUME NEW f, FlowExpires(f) PROVE PortInv'
    BY <1>1, <1>2, <2>1 DEF FlowExpires, quietVars
  <2> QED
    BY <1>1, <1>7, <2>1
    DEF PacketThread, unlimited_packet_in, process_and_filter_packet_in, fill_bucket, packet_passes,
       packet_filtered, BufferExpires, Announced, Untold, ofVars, quietVars
<1> QED
  BY <1>3, <1>4, <1>5, <1>6, <1>7

\* of13_handle_port_desc_stats_request and its siblings describe the ports there are as they are.
LEMMA PortsTold ==
    ASSUME SwitchInv, PortInv, GroupInv, port_desc_request
    PROVE  PortInv'
<1> DEFINE o == CASE version = 13 -> of13_handle_port_desc_stats_request(0)
                  [] version = 12 -> of12_handle_features_request(0)
                  [] version = 10 -> of10_handle_features_request(0)
           told == IF version = 13 THEN o.answer.body ELSE o.answer.body.ports
           ports == [p \in DOMAIN told |-> told[p] \ {"NO_FLOOD"}]
<1>1. /\ believes' = [believes EXCEPT !.ports = ports] /\ doubts' = doubts \ Slots
      /\ mod = Idle /\ UNCHANGED <<version, net, mod, mgmt, bg>>
  BY DEF port_desc_request, Takes, quietVars, portVars
<1>2. DOMAIN told = net.attached /\ \A p \in net.attached : told[p] \ {"NO_FLOOD"} = notified_config(net.port[p])
  <2>1. \A p : notified_config(net.port[p]) \ {"NO_FLOOD"} = notified_config(net.port[p])
    BY DEF notified_config
  <2>2. CASE version = 13
    <3>1. told = port_descriptions
      BY <2>2 DEF of13_handle_port_desc_stats_request, Reply
    <3> QED
      BY <2>1, <3>1 DEF port_descriptions
  <2>3. CASE version = 12
    <3>1. told = port_descriptions
      BY <2>3 DEF of12_handle_features_request, Reply
    <3> QED
      BY <2>1, <3>1 DEF port_descriptions
  <2>4. CASE version = 10
    <3>1. told = of10_port_descriptions
      BY <2>4 DEF of10_handle_features_request, Reply
    <3>2. \A p : (notified_config(net.port[p]) \cup (IF net.port[p].no_flood THEN {"NO_FLOOD"} ELSE {})) \ {"NO_FLOOD"}
                    = notified_config(net.port[p])
      BY <2>1
    <3> QED
      BY <3>1, <3>2 DEF of10_port_descriptions
  <2> QED
    BY <2>2, <2>3, <2>4 DEF SwitchInv, Versions
<1>3. ports = [p \in net.attached |-> notified_config(net.port[p])]
  BY <1>2
<1> HIDE DEF ports
<1>4. believes'.ports = [p \in net.attached |-> notified_config(net.port[p])]
  BY <1>1, <1>3 DEF GroupInv, Record, BelievesFields
<1>5. NetFine(net)' /\ ThreadShape'
  BY <1>1 DEF PortInv, NetFine, ThreadShape, MgmtShape, BgShape, PortRecord, Record
<1>6. Domains'
  BY <1>1, <1>4 DEF PortInv, Domains, NetFine
<1>7. Descriptions'
  <2>1. \A p \in net.attached : believes'.ports[p] = notified_config(net.port[p])
    BY <1>4
  <2>2. \A p \in net.attached : Right(p)'
    BY <1>1, <2>1 DEF Right, Expected, Under, notified_config
  <2> QED
    BY <1>1, <1>4, <2>2, ReportedOnly DEF Descriptions
<1> QED
  BY <1>5, <1>6, <1>7 DEF PortInv

\* A port modification begins: what it does not touch is described as before.
LEMMA PortModBegins ==
    ASSUME SwitchInv, PortInv, NEW m \in Asked("port_mod"), port_mod(m)
    PROVE  PortInv'
<1> DEFINE r == CASE version = 13 -> of13_handle_port_mod(m) [] version = 12 -> of12_handle_port_mod(m)
                  [] version = 10 -> of10_handle_port_mod(m)
           new == [at |-> "set", m |-> m, ports |-> r.ports, calls |-> CallsOf(m), all |-> r.ports,
                   snapshot |-> r.snapshot]
<1>1. /\ mod = Idle /\ UNCHANGED <<version, net, mgmt, bg, believes, doubts>>
      /\ mod' = Idle \/ (mod' = new /\ r.ports # {} /\ CallsOf(m) # {})
  BY DEF port_mod, Takes, quietVars
<1>2. m.port \in Nat /\ m.config \cup m.mask \subseteq DOMAIN call_order
  BY SamplesAssumption DEF SwitchInv, Asked
<1>3. r.ports = net.attached \/ r.ports = {m.port} \/ r.ports = {}
  BY DEF SwitchInv, Versions, of13_handle_port_mod, of12_handle_port_mod, of10_handle_port_mod
<1>4. r.ports \subseteq Nat
  <2>1. Slots \subseteq Nat
    BY SizesAssumption DEF Slots
  <2>2. net.attached \subseteq Slots
    BY DEF PortInv, NetFine
  <2> HIDE DEF r
  <2> QED
    BY <1>2, <1>3, <2>1, <2>2
<1>5. CASE mod' = Idle
  BY <1>1, <1>5, PortElsewhere
<1>6. CASE mod' = new /\ r.ports # {} /\ CallsOf(m) # {}
  <2>1. PICK ports : ports = r.ports
    OBVIOUS
  <2>2. mod'.ports = ports /\ mod'.all = ports /\ mod'.calls = CallsOf(m) /\ mod'.m = m /\ mod' # Idle
    BY <1>6, <2>1 DEF Idle
  <2> HIDE DEF new, r
  <2>3. CallsOf(mod.m)' = CallsOf(m) /\ CallsOf(m) \cap Reported = m.mask \cap Reported
    BY <1>1, <2>2 DEF CallsOf, of13_port_set_config, of12_port_settings, of10_port_settings, SwitchInv,
       Versions, Reported
  <2>4. NetFine(net)' /\ ThreadShape'
    BY <1>1, <1>2, <1>4, <1>6, <2>1, <2>2, <2>3
    DEF PortInv, NetFine, ThreadShape, MgmtShape, BgShape, PortRecord, Record
  <2>5. Domains'
    BY <1>1 DEF PortInv, Domains, Leaving, Coming, Going, Lowest
  <2>6. ASSUME NEW q, Right(q) PROVE Right(q)'
    <3>1. LeftFor(q) = {} /\ Expected(q) = believes.ports[q] /\ Busy(q)' = Busy(q)
      BY <1>1 DEF LeftFor, Expected, Under, Busy
    <3>2. notified_config(net.port[q])' = notified_config(net.port[q])
      BY <1>1 DEF notified_config
    <3>3. CASE q \in ports
      <4>1. LeftFor(q)' = CallsOf(m)
        BY <2>2, <2>3, <3>3 DEF LeftFor
      <4>2. Expected(q)' = Configured(q)'
        BY <2>2, <3>3 DEF Expected, Under
      <4>3. \A s \in Reported \ CallsOf(m) : s \in Configured(q)' <=> s \in believes.ports[q]
        BY <1>1, <2>2, <2>3 DEF Configured
      <4> QED
        BY <2>6, <3>1, <3>2, <4>1, <4>2, <4>3 DEF Right
    <3>4. CASE q \notin ports
      BY <1>1, <2>2, <2>6, <3>1, <3>2, <3>4 DEF Right, LeftFor, Expected, Under
    <3> QED
      BY <3>3, <3>4
  <2>7. Descriptions'
    BY <1>1, <2>6 DEF PortInv, Descriptions
  <2> QED
    BY <2>4, <2>5, <2>7 DEF PortInv
<1> QED
  BY <1>1, <1>5, <1>6

\* A call of the driver changes the setting it is for, as it was asked, or fails.
LEMMA CallTouched ==
    ASSUME NetFine(net), NEW p, NEW setting \in DOMAIN call_order, NEW r \in Calls(p, setting)
    PROVE  /\ NetFine(r.net) /\ r.net.attached = net.attached /\ r.net.ports = net.ports
           /\ r.net.system = net.system /\ net.events \subseteq r.net.events
           /\ \A q \in Slots \ {p} : r.net.port[q] = net.port[q]
           /\ p \in Slots => \A s \in Reported \ {setting} :
                 s \in notified_config(r.net.port[p]) <=> s \in notified_config(net.port[p])
           /\ /\ r.result = "SUCCESS" /\ setting \in Reported
              /\ ~(setting = "PORT_DOWN" /\ Faulty(p, setting \notin mod.m.config, r.net))
              => (setting \in notified_config(r.net.port[p]) <=> setting \in mod.m.config)
<1>1. p \in net.attached => p \in Slots
  BY DEF NetFine
<1>2. CASE p \notin net.attached
  <2>1. r.result = "FAILURE" /\ r.net = net
    BY <1>2 DEF Calls, set_port_config, hal_driver_bring_port_by_num
  <2> QED
    BY <2>1
<1>3. CASE p \in net.attached /\ setting # "PORT_DOWN"
  <2> DEFINE on == setting \in mod.m.config
  <2>1. r = set_port_config(net, p, setting, on) /\ on \in BOOLEAN /\ setting \in Settings
    BY <1>3 DEF Calls, call_order, Settings
  <2> HIDE DEF on
  <2>2. /\ NetFine(r.net) /\ r.net.attached = net.attached /\ r.net.ports = net.ports
        /\ r.net.system = net.system /\ r.net.events = net.events
        /\ \A q \in Slots \ {p} : r.net.port[q] = net.port[q]
        /\ \A s \in Reported \ {setting} :
              s \in notified_config(r.net.port[p]) <=> s \in notified_config(net.port[p])
        /\ setting \in Reported => (setting \in notified_config(r.net.port[p]) <=> on)
    BY <1>3, <2>1, ConfigTouched
  <2> QED
    BY <2>2 DEF on
<1>4. CASE p \in net.attached /\ setting = "PORT_DOWN"
  <2> DEFINE up == setting \notin mod.m.config
  <2>1. up \in BOOLEAN /\ r \in IF up THEN bring_port_up(net, p) ELSE bring_port_down(net, p)
    BY <1>4 DEF Calls, hal_driver_bring_port_by_num
  <2> HIDE DEF up
  <2>2. /\ Touched(r.net, p)
        /\ r.result = "SUCCESS" /\ ~Faulty(p, up, r.net) => r.net.port[p].up = up
    BY <1>1, <1>4, <2>1, BringTouched
  <2>3. setting \in notified_config(r.net.port[p]) <=> ~r.net.port[p].up
    BY <1>4, ReportedAs
  <2>4. r.result = "SUCCESS" /\ ~Faulty(p, up, r.net) => (setting \in notified_config(r.net.port[p]) <=> ~up)
    BY <2>2, <2>3
  <2> QED
    BY <1>4, <2>2, <2>4 DEF Touched, up
<1> QED
  BY <1>2, <1>3, <1>4

\* The settings a modification has called for are as it asked, at every port it has been at.
LEMMA PortCalls ==
    ASSUME SwitchInv, PortInv, GroupInv, port_mod_call
    PROVE  PortInv'
<1>1. PICK p \in mod.ports, setting \in mod.calls :
         /\ Lowest(p, mod.ports)
         /\ \E r \in Calls(p, setting) :
            /\ net' = r.net
            /\ mod' = IF r.result = "SUCCESS" THEN StillToCall(p, setting) ELSE Idle
            /\ believes' = IF mod' # Idle \/ r.result # "SUCCESS" THEN believes
                           ELSE [believes EXCEPT !.ports = [q \in DOMAIN @ |->
                                     IF q \in mod.all THEN Configured(q) ELSE @[q]]]
            /\ doubts' = IF r.result # "SUCCESS" THEN doubts \cup (mod.all \cap Slots)
                         ELSE IF setting = "PORT_DOWN" /\ Faulty(p, setting \notin mod.m.config, net')
                         THEN doubts \cup {p} ELSE doubts
  BY DEF port_mod_call
<1>2. PICK r \in Calls(p, setting) :
            /\ net' = r.net
            /\ mod' = IF r.result = "SUCCESS" THEN StillToCall(p, setting) ELSE Idle
            /\ believes' = IF mod' # Idle \/ r.result # "SUCCESS" THEN believes
                           ELSE [believes EXCEPT !.ports = [q \in DOMAIN @ |->
                                     IF q \in mod.all THEN Configured(q) ELSE @[q]]]
            /\ doubts' = IF r.result # "SUCCESS" THEN doubts \cup (mod.all \cap Slots)
                         ELSE IF setting = "PORT_DOWN" /\ Faulty(p, setting \notin mod.m.config, net')
                         THEN doubts \cup {p} ELSE doubts
  BY <1>1
<1>3. mod # Idle /\ UNCHANGED <<version, mgmt, bg>>
  BY DEF port_mod_call, quietVars
<1>4. /\ Record(mod, ModFields) /\ mod.ports \subseteq mod.all /\ mod.all \subseteq Nat
      /\ mod.calls \subseteq CallsOf(mod.m)
      /\ mod.m.config \cup mod.m.mask \subseteq DOMAIN call_order
      /\ CallsOf(mod.m) \subseteq mod.m.mask /\ setting \in DOMAIN call_order
  <2>1. CallsOf(mod.m) \subseteq mod.m.mask
    BY DEF SwitchInv, Versions, CallsOf, of13_port_set_config, of12_port_settings, of10_port_settings
  <2> QED
    BY <1>3, <2>1 DEF SwitchInv, PortInv, ThreadShape
<1>5. /\ NetFine(net') /\ net'.attached = net.attached /\ net'.ports = net.ports
      /\ net'.system = net.system /\ net.events \subseteq net'.events
      /\ \A q \in Slots \ {p} : net'.port[q] = net.port[q]
      /\ p \in Slots => \A s \in Reported \ {setting} :
            s \in notified_config(net'.port[p]) <=> s \in notified_config(net.port[p])
      /\ r.result = "SUCCESS" /\ setting \in Reported /\ p \notin doubts' =>
            (setting \in notified_config(net'.port[p]) <=> setting \in mod.m.config)
  <2>1. NetFine(net)
    BY DEF PortInv
  <2> QED
    BY <1>2, <1>4, <2>1, CallTouched
<1>6. NetFine(net)'
  BY <1>5 DEF NetFine, PortRecord, Record
<1>7. doubts \subseteq doubts' /\ doubts' \subseteq Slots \cup {AllFlows}
  <2>1. r.result = "SUCCESS" /\ setting = "PORT_DOWN" => p \in Slots
    <3>1. r.result = "SUCCESS" /\ setting = "PORT_DOWN" => p \in net.attached
      BY DEF Calls, hal_driver_bring_port_by_num
    <3> QED
      BY <3>1 DEF PortInv, NetFine
  <2> QED
    BY <1>2, <2>1 DEF PortInv, Domains
<1>8. \A q : Busy(q) => Busy(q)'
  BY <1>3, <1>5 DEF Busy
<1>9. \A q \in Slots \ {p} : \A s : s \in notified_config(net.port[q])' <=> s \in notified_config(net.port[q])
  BY <1>5 DEF notified_config
<1>10. DOMAIN believes'.ports = DOMAIN believes.ports
  BY <1>2 DEF GroupInv, Record, BelievesFields
<1>11. Domains'
  BY <1>3, <1>5, <1>7, <1>10 DEF PortInv, Domains, Leaving, Coming, Going, Lowest
<1>12. CASE r.result # "SUCCESS"
  <2>1. mod' = Idle /\ believes' = believes /\ doubts' = doubts \cup (mod.all \cap Slots)
    BY <1>2, <1>12
  <2>2. ThreadShape'
    BY <1>3, <1>5, <2>1 DEF PortInv, ThreadShape, MgmtShape, BgShape
  <2>3. ASSUME NEW q \in (net.attached \cap DOMAIN believes.ports) \ doubts' PROVE Right(q)'
    <3>1. q \in Slots /\ q \notin mod.all /\ q # p /\ Right(q)
      BY <1>4, <1>7, <2>1 DEF PortInv, NetFine, Descriptions
    <3>2. LeftFor(q) = {} /\ Expected(q) = believes.ports[q]
      BY <1>4, <3>1 DEF LeftFor, Expected, Under
    <3>3. Expected(q)' = believes.ports[q]
      BY <2>1 DEF Expected, Under
    <3> QED
      BY <1>8, <1>9, <3>1, <3>2, <3>3 DEF Right
  <2>4. Descriptions'
    BY <1>5, <2>1, <2>3 DEF PortInv, Descriptions
  <2> QED
    BY <1>6, <1>11, <2>2, <2>4 DEF PortInv
<1>13. CASE r.result = "SUCCESS"
  \* It is enough that the modification is not at its end, or is, and keeps its promise for the
  \* other ports.
  <2>1. ASSUME ThreadShape', \A q : Expected(q)' = Expected(q) \/ q \notin DOMAIN believes.ports,
               \A q : LeftFor(q) \ (IF q = p THEN {setting} ELSE {}) \subseteq LeftFor(q)',
               \A q \in DOMAIN believes'.ports : believes'.ports[q] \subseteq Reported
        PROVE  PortInv'
    <3>1. ASSUME NEW q \in (net.attached \cap DOMAIN believes.ports) \ doubts' PROVE Right(q)'
      <4>1. q \in Slots /\ Right(q)
        BY <1>7 DEF PortInv, NetFine, Descriptions
      <4>2. CASE q # p
        BY <1>8, <1>9, <2>1, <4>1, <4>2 DEF Right
      <4>3. CASE q = p
        <5>1. ASSUME NEW s \in Reported \ LeftFor(p)'
              PROVE  \/ s \in Expected(p)' <=> s \in notified_config(net.port[p])'
                     \/ s = "PORT_DOWN" /\ Busy(p)'
          <6>1. notified_config(net.port[p])' = notified_config(net'.port[p]) /\ Expected(p)' = Expected(p)
            BY <2>1, <4>3 DEF notified_config
          <6>2. CASE s = setting
            <7>1. s \in notified_config(net'.port[p]) <=> setting \in mod.m.config
              BY <1>5, <1>13, <4>3, <6>2
            <7>2. s \in Expected(p) <=> setting \in mod.m.config
              BY <1>3, <1>4, <6>2 DEF Expected, Under, Configured, Reported
            <7> QED
              BY <6>1, <7>1, <7>2
          <6>3. CASE s # setting
            <7>1. s \notin LeftFor(p)
              BY <2>1, <6>3
            <7> QED
              BY <1>5, <1>8, <4>1, <4>3, <6>1, <6>3, <7>1 DEF Right
          <6> QED
            BY <6>2, <6>3
        <5> QED
          BY <4>3, <5>1 DEF Right
      <4> QED
        BY <4>2, <4>3
    <3>2. Descriptions'
      BY <1>5, <1>10, <2>1, <3>1 DEF Descriptions
    <3> QED
      BY <1>6, <1>11, <2>1, <3>2 DEF PortInv
  <2>2. mod' = StillToCall(p, setting)
    BY <1>2, <1>13
  <2>3. LeftFor(p) = mod.calls /\ \A q \in mod.ports : q # p => LeftFor(q) = CallsOf(mod.m)
    BY <1>1, <1>3, <1>4 DEF LeftFor, Lowest
  <2>4. \A m : CallsOf(m)' = CallsOf(m)
    BY <1>3 DEF CallsOf, of13_port_set_config, of12_port_settings, of10_port_settings
  <2>5. CASE mod.calls # {setting} \/ mod.ports # {p}
    <3>1. /\ mod' # Idle /\ believes' = believes /\ mod'.m = mod.m /\ mod'.all = mod.all
          /\ \/ mod'.calls = mod.calls \ {setting} /\ mod'.ports = mod.ports /\ mod.calls # {setting}
             \/ mod'.calls = CallsOf(mod.m) /\ mod'.ports = mod.ports \ {p} /\ mod.calls = {setting} /\ mod.ports # {p}
      <4>1. CASE mod.calls # {setting}
        <5>1. mod' = [mod EXCEPT !.calls = mod.calls \ {setting}]
          BY <2>2, <4>1 DEF StillToCall
        <5>2. Record(mod', ModFields) /\ mod'.m = mod.m /\ mod'.all = mod.all
              /\ mod'.calls = mod.calls \ {setting} /\ mod'.ports = mod.ports
          BY <1>4, <5>1 DEF Record, ModFields
        <5>3. mod' # Idle
          BY <5>2 DEF Record, ModFields, Idle
        <5> QED
          BY <1>2, <4>1, <5>2, <5>3
      <4>2. CASE mod.calls = {setting} /\ mod.ports # {p}
        <5>1. mod' = [mod EXCEPT !.ports = mod.ports \ {p}, !.calls = CallsOf(mod.m)]
          BY <2>2, <4>2 DEF StillToCall
        <5>2. Record(mod', ModFields) /\ mod'.m = mod.m /\ mod'.all = mod.all
              /\ mod'.calls = CallsOf(mod.m) /\ mod'.ports = mod.ports \ {p}
          BY <1>4, <5>1 DEF Record, ModFields
        <5>3. mod' # Idle
          BY <5>2 DEF Record, ModFields, Idle
        <5> QED
          BY <1>2, <4>2, <5>2, <5>3
      <4> QED
        BY <2>5, <4>1, <4>2
    <3>2. ThreadShape'
      <4>1. CallsOf(mod.m)' = CallsOf(mod.m)
        BY <2>4, <3>1
      <4> QED
        BY <1>3, <1>4, <1>5, <3>1, <4>1 DEF PortInv, ThreadShape, MgmtShape, BgShape
    <3>3. \A q : Expected(q)' = Expected(q)
      BY <1>3, <3>1 DEF Expected, Under, Configured
    <3>4. \A q : LeftFor(q) \ (IF q = p THEN {setting} ELSE {}) \subseteq LeftFor(q)'
      <4>1. CallsOf(mod.m)' = CallsOf(mod.m)
        BY <2>4, <3>1
      <4>2. \A q : q \notin mod.ports => LeftFor(q) = {}
        BY DEF LeftFor
      <4>3. CASE mod'.calls = mod.calls \ {setting} /\ mod'.ports = mod.ports
        <5>1. \A q : q = p => LeftFor(q)' = mod.calls \ {setting}
          BY <1>1, <3>1, <4>3 DEF LeftFor
        <5>2. \A q \in mod.ports : q # p => LeftFor(q)' = CallsOf(mod.m)
          BY <1>1, <1>4, <3>1, <4>1, <4>3 DEF LeftFor, Lowest
        <5>3. ASSUME NEW q PROVE LeftFor(q) \ (IF q = p THEN {setting} ELSE {}) \subseteq LeftFor(q)'
          <6>1. CASE q = p
            BY <2>3, <5>1, <6>1
          <6>2. CASE q \in mod.ports /\ q # p
            BY <2>3, <5>2, <6>2
          <6>3. CASE q \notin mod.ports
            BY <4>2, <6>3
          <6> QED
            BY <6>1, <6>2, <6>3
        <5> QED
          BY <5>3
      <4>4. CASE mod'.calls = CallsOf(mod.m) /\ mod'.ports = mod.ports \ {p} /\ mod.calls = {setting}
        <5>1. \A q \in mod.ports : q # p => LeftFor(q)' = CallsOf(mod.m)
          BY <3>1, <4>1, <4>4 DEF LeftFor
        <5>2. ASSUME NEW q PROVE LeftFor(q) \ (IF q = p THEN {setting} ELSE {}) \subseteq LeftFor(q)'
          <6>1. CASE q = p
            BY <2>3, <4>4, <6>1
          <6>2. CASE q \in mod.ports /\ q # p
            BY <2>3, <5>1, <6>2
          <6>3. CASE q \notin mod.ports
            BY <4>2, <6>3
          <6> QED
            BY <6>1, <6>2, <6>3
        <5> QED
          BY <5>2
      <4> QED
        BY <3>1, <4>3, <4>4
    <3>5. \A q \in DOMAIN believes'.ports : believes'.ports[q] \subseteq Reported
      BY <3>1 DEF PortInv, Descriptions
    <3> QED
      BY <2>1, <3>2, <3>3, <3>4, <3>5
  <2>6. CASE mod.calls = {setting} /\ mod.ports = {p}
    <3>1. mod' = Idle
      BY <2>2, <2>6 DEF StillToCall
    <3>2. believes'.ports = [q \in DOMAIN believes.ports |->
                                IF q \in mod.all THEN Configured(q) ELSE believes.ports[q]]
      BY <1>2, <1>13, <3>1 DEF GroupInv, Record, BelievesFields
    <3>3. ThreadShape'
      BY <1>3, <1>5, <3>1 DEF PortInv, ThreadShape, MgmtShape, BgShape
    <3>4. \A q \in DOMAIN believes.ports : Expected(q)' = Expected(q)
      BY <1>3, <3>1, <3>2 DEF Expected, Under
    <3>5. \A q : LeftFor(q) \ (IF q = p THEN {setting} ELSE {}) \subseteq LeftFor(q)'
      <4>1. \A q : q # p => LeftFor(q) = {}
        BY <2>6 DEF LeftFor
      <4> QED
        BY <2>3, <2>6, <4>1
    <3>6. \A q \in DOMAIN believes'.ports : believes'.ports[q] \subseteq Reported
      <4>1. \A q \in DOMAIN believes.ports : Configured(q) \subseteq Reported
        BY <1>4 DEF PortInv, Descriptions, Configured, Reported, call_order
      <4> QED
        BY <3>2, <4>1 DEF PortInv, Descriptions
    <3> QED
      BY <2>1, <3>3, <3>4, <3>5, <3>6
  <2> QED
    BY <2>5, <2>6
<1> QED
  BY <1>12, <1>13

-----------------------------------------------------------------------------
(* The threads that change ports *)

\* A port that was known stays as it is described, or leaves a message to the background thread;
\* or it has just been described as it is.
Stays(q) ==
    /\ q \in (net.attached \cap DOMAIN believes.ports) \ doubts
    /\ believes'.ports[q] = believes.ports[q]
    /\ Busy(q) => Busy(q)'
    /\ \A s \in Reported : \/ s \in notified_config(net'.port[q]) <=> s \in notified_config(net.port[q])
                           \/ s = "PORT_DOWN" /\ Busy(q)'
Described(q) == ~Under(q) /\ believes'.ports[q] = notified_config(net'.port[q])

LEMMA PortStep ==
    ASSUME PortInv, UNCHANGED <<version, mod>>, NetFine(net'), MgmtShape', BgShape', Domains',
           \A q \in DOMAIN believes'.ports : believes'.ports[q] \subseteq Reported,
           \A q \in (net'.attached \cap DOMAIN believes'.ports) \ doubts' : Stays(q) \/ Described(q)
    PROVE  PortInv'
<1>1. NetFine(net)'
  BY DEF NetFine, PortRecord, Record
<1>2. ThreadShape'
  BY DEF PortInv, ThreadShape, CallsOf, of13_port_set_config, of12_port_settings, of10_port_settings
<1>3. ASSUME NEW q, Stays(q) PROVE Right(q)'
  BY <1>3, RightKept DEF PortInv, Descriptions, Stays
<1>4. ASSUME NEW q, Described(q) PROVE Right(q)'
  <2>1. Expected(q)' = notified_config(net.port[q])'
    BY <1>4, CallsKept DEF Described, Expected, notified_config
  <2> QED
    BY <2>1 DEF Right
<1>5. Descriptions'
  BY <1>3, <1>4 DEF Descriptions
<1> QED
  BY <1>1, <1>2, <1>5 DEF PortInv

\* The port that has been told about is described as it is, or the controller has reason to ask.
LEMMA PortTold ==
    ASSUME PortInv, GroupInv, NEW p \in Slots, NEW shot, UNCHANGED <<version, mod, net>>,
           Told(p, notified_config(shot), Current(p, shot)), MgmtShape', BgShape',
           \A q \in Slots \ {p} : /\ Leaving(q) => Leaving(q)'
                                  /\ Coming(q) => Coming(q)'
                                  /\ Going(q) => Going(q)'
                                  /\ Busy(q) => Busy(q)'
    PROVE  PortInv'
<1>1. believes'.ports = Updated(believes.ports, p, notified_config(shot))
  BY DEF Told, GroupInv, Record, BelievesFields
<1>2. /\ DOMAIN believes'.ports = DOMAIN believes.ports \cup {p}
      /\ believes'.ports[p] = notified_config(shot)
      /\ \A q \in DOMAIN believes.ports \ {p} : believes'.ports[q] = believes.ports[q]
  BY <1>1 DEF Updated
<1>3. /\ doubts' \subseteq doubts \cup {p} /\ doubts \ {p} \subseteq doubts'
      /\ p \notin doubts' => Current(p, shot) /\ ~Under(p)
  BY DEF Told
<1>4. NetFine(net')
  BY DEF PortInv
<1>5. Domains'
  BY <1>2, <1>3 DEF PortInv, Domains, Current
<1>6. \A q \in DOMAIN believes'.ports : believes'.ports[q] \subseteq Reported
  BY <1>2, ReportedOnly DEF PortInv, Descriptions
<1>7. ASSUME NEW q \in (net'.attached \cap DOMAIN believes'.ports) \ doubts'
      PROVE  Stays(q) \/ Described(q)
  <2>1. CASE q = p
    BY <1>2, <1>3, <1>7, <2>1 DEF Described, Current
  <2>2. CASE q # p
    BY <1>2, <1>3, <1>4, <1>7, <2>2 DEF Stays, NetFine
  <2> QED
    BY <2>1, <2>2
<1> QED
  BY <1>4, <1>5, <1>6, <1>7, PortStep

\* attach_port and the notification that follows.
LEMMA PortAttaches ==
    ASSUME SwitchInv, PortInv, GroupInv
    PROVE  /\ \A p \in Slots : attach_port(p) => PortInv'
           /\ attach_snapshot \/ notify_port_attached => PortInv'
<1>1. ASSUME NEW p \in Slots, attach_port(p) PROVE PortInv'
  <2>1. /\ net' = [net EXCEPT !.attached = @ \cup {p}] /\ p \in net.ports /\ p \notin net.attached
        /\ mgmt = Idle /\ mgmt' = [at |-> "attached", port |-> p]
        /\ UNCHANGED <<version, mod, bg, believes, doubts>>
    BY <1>1 DEF attach_port, Begins, hal_driver_attach_port_to_switch, Untold, quietVars
  <2>2. /\ Record(net', NetFields) /\ net'.attached = net.attached \cup {p} /\ net'.port = net.port
        /\ net'.running = net.running /\ net'.ports = net.ports /\ net'.system = net.system
        /\ net'.kernel = net.kernel /\ net'.events = net.events
    BY <2>1 DEF PortInv, NetFine, NetFields, Record
  <2>3. NetFine(net')
    BY <2>1, <2>2 DEF PortInv, NetFine
  <2>4. MgmtShape' /\ BgShape'
    BY <2>1, <2>2 DEF PortInv, ThreadShape, MgmtShape, BgShape, Record
  <2>5. ~Leaving(p)
    BY <2>1 DEF Leaving, Idle
  <2>6. Domains'
    BY <2>1, <2>2 DEF PortInv, Domains, Leaving, Coming, Going, Lowest, Idle
  <2>7. ASSUME NEW q \in (net'.attached \cap DOMAIN believes'.ports) \ doubts' PROVE Stays(q)
    <3>1. q \in net.attached
      BY <2>1, <2>2, <2>5, <2>7 DEF PortInv, Domains
    <3> QED
      BY <2>1, <2>2, <2>7, <3>1 DEF Stays, Busy
  <2> QED
    BY <2>1, <2>3, <2>4, <2>6, <2>7, PortStep DEF PortInv, Descriptions
<1>2. ASSUME attach_snapshot PROVE PortInv'
  <2>1. /\ mgmt.at = "attached" /\ UNCHANGED <<version, mod, net, bg, believes, doubts>>
        /\ \/ mgmt' = Idle /\ mgmt.port \notin net.ports
           \/ mgmt' = [at |-> "snapshot", port |-> mgmt.port, shot |-> net.port[mgmt.port]]
    BY <1>2 DEF attach_snapshot, Untold, quietVars
  <2>2. mgmt # Idle
    BY <2>1 DEF Idle
  <2>3. MgmtShape' /\ BgShape'
    BY <2>1, <2>2 DEF PortInv, ThreadShape, MgmtShape, BgShape, Record, Idle
  <2>4. Domains'
    BY <2>1 DEF PortInv, NetFine, Domains, Leaving, Coming, Going, Lowest, Idle
  <2>5. NetFine(net')
    BY <2>1 DEF PortInv
  <2>6. \A q \in (net'.attached \cap DOMAIN believes'.ports) \ doubts' : Stays(q)
    BY <2>1 DEF Stays, Busy
  <2> QED
    BY <2>1, <2>3, <2>4, <2>5, <2>6, PortStep DEF PortInv, Descriptions
<1>3. ASSUME notify_port_attached PROVE PortInv'
  <2> DEFINE p == mgmt.port
             shot == mgmt.shot
  <2>1. /\ mgmt.at = "snapshot" /\ mgmt' = Idle /\ UNCHANGED <<version, mod, net, bg>>
        /\ Told(p, Introduces(shot), Current(p, shot))
    BY <1>3 DEF notify_port_attached, quietVars
  <2>2. mgmt # Idle
    BY <2>1 DEF Idle
  <2>3. p \in Slots
    BY <2>2 DEF PortInv, ThreadShape, MgmtShape
  <2>4. Introduces(shot) = notified_config(shot)
    BY DEF SwitchInv, Versions, Introduces, of13_notify_port_attached, of12_notify_port_attached,
       of10_notify_port_attached
  <2>5. MgmtShape' /\ BgShape'
    BY <2>1 DEF PortInv, ThreadShape, MgmtShape, BgShape, Record, Idle
  <2>6. \A q \in Slots \ {p} : /\ Leaving(q) => Leaving(q)'
                               /\ Coming(q) => Coming(q)'
                               /\ Going(q) => Going(q)'
                               /\ Busy(q) => Busy(q)'
    BY <2>1 DEF Leaving, Coming, Going, Lowest, Busy
  <2> HIDE DEF p, shot
  <2> QED
    BY <2>1, <2>3, <2>4, <2>5, <2>6, PortTold
<1> QED
  BY <1>1, <1>2, <1>3

\* detach_port, its notification, and what becomes of it when the port is gone before.
LEMMA PortDetaches ==
    ASSUME PortInv, GroupInv
    PROVE  /\ \A p \in Slots : detach_port(p) => PortInv'
           /\ notify_port_detached \/ detached_and_gone => PortInv'
<1>1. ASSUME NEW p \in Slots, detach_port(p) PROVE PortInv'
  <2>1. /\ net' \in hal_driver_detach_port_from_switch(net, p)
        /\ mgmt = Idle /\ mgmt' = [at |-> "detached", port |-> p]
        /\ UNCHANGED <<version, mod, bg, believes, doubts>>
    BY <1>1 DEF detach_port, Begins, Untold, quietVars
  <2>2. PICK n : n = net'
    OBVIOUS
  <2>3. n \in hal_driver_detach_port_from_switch(net, p) /\ NetFine(net)
    BY <2>1, <2>2 DEF PortInv
  <2>4. /\ NetFine(n) /\ n.attached = net.attached \ {p} /\ n.ports = net.ports
        /\ n.system = net.system /\ net.events \subseteq n.events
        /\ \A q \in Slots \ {p} : n.port[q] = net.port[q]
    BY <2>3, DetachTouched
  <2>5. MgmtShape' /\ BgShape'
    BY <2>1, <2>2, <2>4 DEF PortInv, ThreadShape, MgmtShape, BgShape, Record
  <2>6. Domains'
    BY <2>1, <2>2, <2>4 DEF PortInv, Domains, Leaving, Coming, Going, Lowest, Idle
  <2>7. ASSUME NEW q \in (net'.attached \cap DOMAIN believes'.ports) \ doubts' PROVE Stays(q)
    <3>1. q \in net.attached /\ q \in Slots \ {p}
      BY <2>2, <2>4, <2>7 DEF PortInv, NetFine
    <3> QED
      BY <2>1, <2>2, <2>4, <2>7, <3>1 DEF Stays, Busy
  <2> QED
    BY <2>1, <2>2, <2>4, <2>5, <2>6, <2>7, PortStep DEF PortInv, Descriptions
<1>2. ASSUME notify_port_detached \/ detached_and_gone PROVE PortInv'
  <2>1. /\ mgmt.at = "detached" /\ mgmt' = Idle /\ UNCHANGED <<version, mod, net, bg>>
        /\ \/ /\ believes' = [believes EXCEPT !.ports = [q \in DOMAIN @ \ {mgmt.port} |-> @[q]]]
              /\ doubts' = doubts \ {mgmt.port}
           \/ /\ believes' = believes
              /\ doubts' = Missed(mgmt.port)
    BY <1>2 DEF notify_port_detached, detached_and_gone, quietVars
  <2>2. mgmt # Idle
    BY <2>1 DEF Idle
  <2>3. mgmt.port \in Slots /\ mgmt.port \notin net.attached
    BY <2>1, <2>2 DEF PortInv, ThreadShape, MgmtShape
  <2>4. /\ DOMAIN believes'.ports \subseteq DOMAIN believes.ports
        /\ DOMAIN believes.ports \ {mgmt.port} \subseteq DOMAIN believes'.ports
        /\ \A q \in DOMAIN believes'.ports : believes'.ports[q] = believes.ports[q]
        /\ mgmt.port \in DOMAIN believes'.ports => mgmt.port \in doubts'
        /\ doubts \ {mgmt.port} \subseteq doubts' /\ doubts' \subseteq doubts \cup {mgmt.port}
    <3>1. CASE /\ believes' = [believes EXCEPT !.ports = [q \in DOMAIN @ \ {mgmt.port} |-> @[q]]]
               /\ doubts' = doubts \ {mgmt.port}
      <4>1. believes'.ports = [q \in DOMAIN believes.ports \ {mgmt.port} |-> believes.ports[q]]
        BY <3>1 DEF GroupInv, Record, BelievesFields
      <4> QED
        BY <3>1, <4>1
    <3>2. CASE believes' = believes /\ doubts' = Missed(mgmt.port)
      BY <3>2 DEF Missed
    <3> QED
      BY <2>1, <3>1, <3>2
  <2>5. MgmtShape' /\ BgShape' /\ NetFine(net')
    BY <2>1 DEF PortInv, ThreadShape, MgmtShape, BgShape, Record, Idle
  <2>6. Domains'
    BY <2>1, <2>3, <2>4 DEF PortInv, Domains, Leaving, Coming, Going, Lowest, Idle
  <2>7. \A q \in (net'.attached \cap DOMAIN believes'.ports) \ doubts' : Stays(q)
    BY <2>1, <2>3, <2>4 DEF Stays, Busy
  <2> QED
    BY <2>1, <2>4, <2>5, <2>6, <2>7, PortStep DEF PortInv, Descriptions
<1> QED
  BY <1>1, <1>2

\* Management starts or stops a port, and the background thread will see it unless the port is
\* doubted.
LEMMA PortBrought ==
    ASSUME PortInv, NEW p \in Slots, NEW up \in BOOLEAN, hal_driver_bring_port(p, up)
    PROVE  PortInv'
<1>1. PICK r \in IF p \notin net.attached
                 THEN {[result |-> "SUCCESS", net |-> n] : n \in SetInterface(net, p, up)}
                 ELSE IF up THEN bring_port_up(net, p) ELSE bring_port_down(net, p) :
         /\ net' = r.net
         /\ doubts' = IF p \in net.attached /\ (r.result # "SUCCESS" \/ Faulty(p, up, net')
                             \/ (net.kernel[p] = up /\ net.port[p].up # up))
                      THEN doubts \cup {p} ELSE doubts
  BY DEF hal_driver_bring_port
<1>2. UNCHANGED <<version, mod, mgmt, bg, believes>>
  BY DEF hal_driver_bring_port, quietVars
<1>3. NetFine(net)
  BY DEF PortInv
<1>4. Touched(r.net, p)
  <2>1. CASE p \notin net.attached
    <3>1. r.net \in SetInterface(net, p, up)
      BY <2>1
    <3> QED
      BY <1>3, <3>1, InterfaceTouched
  <2>2. CASE p \in net.attached
    <3>1. r \in IF up THEN bring_port_up(net, p) ELSE bring_port_down(net, p)
      BY <2>2
    <3> QED
      BY <1>3, <3>1, BringTouched
  <2> QED
    BY <2>1, <2>2
<1>5. PICK n : n = r.net
  OBVIOUS
<1>6. /\ NetFine(n) /\ n.attached = net.attached /\ n.ports = net.ports /\ n.system = net.system
      /\ net.events \subseteq n.events
      /\ \A q \in Slots \ {p} : n.port[q] = net.port[q]
      /\ \A s \in Reported \ {"PORT_DOWN"} : s \in notified_config(n.port[p]) <=> s \in notified_config(net.port[p])
  BY <1>4, <1>5 DEF Touched
<1>7. ASSUME p \in net.attached, p \notin doubts'
      PROVE  p \in n.events \/ n.port[p].up = net.port[p].up
  <2>1. r.result = "SUCCESS" /\ ~Faulty(p, up, n) /\ (net.kernel[p] # up \/ net.port[p].up = up)
    BY <1>1, <1>5, <1>7
  <2>2. r \in IF up THEN bring_port_up(net, p) ELSE bring_port_down(net, p)
    BY <1>7
  <2>3. r.result = "SUCCESS" /\ ~Faulty(p, up, r.net) =>
           /\ r.net.port[p].up = up
           /\ net.kernel[p] # up \/ r.net = net => p \in r.net.events \/ r.net.port[p].up = net.port[p].up
    BY <1>3, <2>2, BringTouched
  <2> QED
    BY <1>5, <2>1, <2>3
<1>8. doubts \subseteq doubts' /\ doubts' \subseteq doubts \cup {p} /\ net' = n
  BY <1>1, <1>5
<1>9. MgmtShape' /\ BgShape'
  BY <1>2, <1>6, <1>8 DEF PortInv, ThreadShape, MgmtShape, BgShape, Record
<1>10. Domains'
  BY <1>2, <1>6, <1>8 DEF PortInv, Domains, Leaving, Coming, Going, Lowest
<1>11. ASSUME NEW q \in (net'.attached \cap DOMAIN believes'.ports) \ doubts' PROVE Stays(q)
  <2>1. Busy(q) => Busy(q)'
    BY <1>2, <1>6, <1>8 DEF Busy
  <2>2. CASE q = p
    <3>1. Busy(p)' \/ ("PORT_DOWN" \in notified_config(n.port[p]) <=> "PORT_DOWN" \in notified_config(net.port[p]))
      BY <1>6, <1>7, <1>8, <1>11, <2>2, ReportedAs DEF Busy
    <3> QED
      BY <1>2, <1>6, <1>8, <1>11, <2>1, <2>2, <3>1 DEF Stays
  <2>3. CASE q # p
    BY <1>2, <1>6, <1>8, <1>11, <2>1, <2>3 DEF Stays, NetFine
  <2> QED
    BY <2>2, <2>3
<1> QED
  BY <1>2, <1>6, <1>8, <1>9, <1>10, <1>11, PortStep DEF PortInv, Descriptions

-----------------------------------------------------------------------------
(* The background thread *)

\* The operating system changes an interface, and there is a message to read.
LEMMA PortKernel ==
    ASSUME PortInv, NEW p \in Slots,
           InterfaceChanges(p) \/ InterfaceVanishes(p) \/ InterfaceAppears(p)
    PROVE  PortInv'
<1>1. UNCHANGED <<version, mod, mgmt, bg, believes, doubts>>
  BY DEF InterfaceChanges, InterfaceVanishes, InterfaceAppears, KernelChanges, Untold, quietVars
<1>2. /\ Record(net', NetFields) /\ net'.attached = net.attached /\ net'.ports = net.ports
      /\ net'.port = net.port /\ net'.running = net.running /\ net'.events = net.events \cup {p}
      /\ net.system \ {p} \subseteq net'.system /\ net'.system \subseteq net.system \cup {p}
      /\ DOMAIN net'.kernel = Slots /\ \A q \in Slots : net'.kernel[q] \in BOOLEAN
  <2>1. CASE InterfaceChanges(p)
    BY <2>1 DEF InterfaceChanges, KernelChanges, PortInv, NetFine, NetFields, Record
  <2>2. CASE InterfaceVanishes(p)
    BY <2>2 DEF InterfaceVanishes, KernelChanges, PortInv, NetFine, NetFields, Record
  <2>3. CASE InterfaceAppears(p)
    BY <2>3 DEF InterfaceAppears, KernelChanges, PortInv, NetFine, NetFields, Record
  <2> QED
    BY <2>1, <2>2, <2>3
<1>3. NetFine(net')
  BY <1>2 DEF PortInv, NetFine
<1>4. MgmtShape' /\ BgShape'
  BY <1>1, <1>2 DEF PortInv, ThreadShape, MgmtShape, BgShape, Record
<1>5. Domains'
  BY <1>1, <1>2 DEF PortInv, Domains, Leaving, Coming, Going, Lowest
<1>6. \A q \in (net'.attached \cap DOMAIN believes'.ports) \ doubts' : Stays(q)
  BY <1>1, <1>2 DEF Stays, Busy
<1> QED
  BY <1>1, <1>3, <1>4, <1>5, <1>6, PortStep DEF PortInv, Descriptions

\* update_port_status up to the first port that is gone.
LEMMA PortRead ==
    ASSUME PortInv
    PROVE  /\ \A p \in Slots : read_netlink_message(p) => PortInv'
           /\ update_physical_ports => PortInv'
<1>1. ASSUME NEW p \in Slots, read_netlink_message(p) PROVE PortInv'
  <2>1. /\ UNCHANGED <<version, mod, mgmt, believes>> /\ bg = Idle /\ p \in net.events
        /\ bg' = IF p \in net.system THEN [at |-> "named", port |-> p] ELSE Idle
        /\ net' = [net EXCEPT !.events = @ \ {p}]
        /\ doubts' = IF p \in net.system THEN doubts ELSE Missed(p)
    BY <1>1 DEF read_netlink_message, BackgroundStep, quietVars
  <2>2. /\ Record(net', NetFields) /\ net'.attached = net.attached /\ net'.ports = net.ports
        /\ net'.port = net.port /\ net'.running = net.running /\ net'.events = net.events \ {p}
        /\ net'.system = net.system /\ net'.kernel = net.kernel
    BY <2>1 DEF PortInv, NetFine, NetFields, Record
  <2>3. NetFine(net')
    BY <2>2 DEF PortInv, NetFine
  <2>4. /\ bg.at = "idle" /\ bg'.at \in {"idle", "named"}
        /\ p \in net.system => bg' # Idle /\ bg'.port = p /\ bg'.at = "named"
        /\ p \notin net.system => bg' = Idle
    <3>1. p \in net.system => bg'.at = "named" /\ bg'.port = p
      BY <2>1
    <3> QED
      BY <2>1, <3>1 DEF Idle
  <2>5. /\ doubts \subseteq doubts' /\ doubts' \subseteq doubts \cup {p}
        /\ p \notin net.system /\ p \in DOMAIN believes.ports => p \in doubts'
    BY <2>1 DEF Missed
  <2>6. BgShape'
    BY <2>2, <2>4 DEF BgShape, Idle
  <2>7. MgmtShape'
    BY <2>1, <2>2 DEF PortInv, ThreadShape, MgmtShape
  <2>8. Domains'
    BY <2>1, <2>2, <2>4, <2>5 DEF PortInv, Domains, Leaving, Coming, Going
  <2>9. ASSUME NEW q \in (net'.attached \cap DOMAIN believes'.ports) \ doubts' PROVE Stays(q)
    <3>1. Busy(q) => Busy(q)'
      BY <2>1, <2>2, <2>4, <2>5, <2>9 DEF Busy
    <3> QED
      BY <2>1, <2>2, <2>5, <2>9, <3>1 DEF Stays
  <2> QED
    BY <2>1, <2>3, <2>6, <2>7, <2>8, <2>9, PortStep DEF PortInv, Descriptions
<1>2. ASSUME update_physical_ports PROVE PortInv'
  <2>1. /\ UNCHANGED <<version, net, mod, mgmt, believes, doubts>> /\ bg.at = "named"
        /\ bg' = [at |-> "scan", port |-> bg.port, gone |-> net.ports \ net.system,
                  new |-> net.system \ net.ports]
    BY <1>2 DEF update_physical_ports, BackgroundStep, Untold, quietVars
  <2>2. /\ bg # Idle /\ bg' # Idle /\ bg'.at = "scan" /\ bg'.port = bg.port
        /\ bg'.gone = net.ports \ net.system /\ bg'.new = net.system \ net.ports
        /\ Record(bg', {"at", "port", "gone", "new"})
    <3>1. bg'.at = "scan" /\ Idle.at = "idle"
      BY <2>1 DEF Idle
    <3> QED
      BY <2>1, <3>1 DEF Record
  <2>3. BgShape'
    BY <2>1, <2>2 DEF PortInv, ThreadShape, BgShape, NetFine, Record
  <2>4. MgmtShape' /\ NetFine(net')
    BY <2>1 DEF PortInv, ThreadShape, MgmtShape
  <2>5. Domains'
    BY <2>1, <2>2 DEF PortInv, Domains, Leaving, Coming, Going
  <2>6. \A q \in (net'.attached \cap DOMAIN believes'.ports) \ doubts' : Stays(q)
    BY <2>1, <2>2 DEF Stays, Busy
  <2> QED
    BY <2>1, <2>3, <2>4, <2>5, <2>6, PortStep DEF PortInv, Descriptions
<1> QED
  BY <1>1, <1>2

\* The port that is gone is announced, then removed: between the two it is no longer known.
LEMMA PortGoes ==
    ASSUME PortInv, GroupInv
    PROVE  notify_port_delete \/ remove_port => PortInv'
<1>1. ASSUME notify_port_delete PROVE PortInv'
  <2>1. /\ UNCHANGED <<version, net, mod, mgmt>> /\ bg.at = "scan" /\ bg' = [bg EXCEPT !.at = "remove"]
        /\ \E p \in bg.gone : Lowest(p, bg.gone) /\
             IF p \in net.attached
             THEN /\ believes' = [believes EXCEPT !.ports = [q \in DOMAIN @ \ {p} |-> @[q]]]
                  /\ doubts' = doubts \ {p}
             ELSE believes' = believes /\ doubts' = doubts
    BY <1>1 DEF notify_port_delete, BackgroundStep, Untold, quietVars
  <2>2. PICK p \in bg.gone : Lowest(p, bg.gone) /\
             IF p \in net.attached
             THEN /\ believes' = [believes EXCEPT !.ports = [q \in DOMAIN @ \ {p} |-> @[q]]]
                  /\ doubts' = doubts \ {p}
             ELSE believes' = believes /\ doubts' = doubts
    BY <2>1
  <2>3. bg # Idle /\ Record(bg, {"at", "port", "gone", "new"}) /\ p \in Slots
    BY <2>1, <2>2 DEF PortInv, ThreadShape, BgShape, Idle
  <2>4. /\ bg'.at = "remove" /\ bg'.port = bg.port /\ bg'.gone = bg.gone /\ bg'.new = bg.new
        /\ Record(bg', {"at", "port", "gone", "new"}) /\ bg' # Idle
    <3>1. /\ bg'.at = "remove" /\ bg'.port = bg.port /\ bg'.gone = bg.gone /\ bg'.new = bg.new
          /\ Record(bg', {"at", "port", "gone", "new"})
      BY <2>1, <2>3 DEF Record
    <3> QED
      BY <3>1 DEF Idle
  <2>5. /\ \A q \in DOMAIN believes'.ports : q \in DOMAIN believes.ports /\ believes'.ports[q] = believes.ports[q]
        /\ DOMAIN believes.ports \ {p} \subseteq DOMAIN believes'.ports
        /\ p \in net.attached => p \notin DOMAIN believes'.ports
        /\ p \notin net.attached => doubts' = doubts
        /\ doubts \ {p} \subseteq doubts' /\ doubts' \subseteq doubts
    <3>1. CASE p \in net.attached
      <4>1. believes'.ports = [q \in DOMAIN believes.ports \ {p} |-> believes.ports[q]]
        BY <2>2, <3>1 DEF GroupInv, Record, BelievesFields
      <4> QED
        BY <2>2, <3>1, <4>1
    <3>2. CASE p \notin net.attached
      BY <2>2, <3>2
    <3> QED
      BY <3>1, <3>2
  <2>6. BgShape'
    BY <2>1, <2>3, <2>4 DEF PortInv, ThreadShape, BgShape, Record
  <2>7. MgmtShape' /\ NetFine(net')
    BY <2>1 DEF PortInv, ThreadShape, MgmtShape
  <2>8. Going(p)'
    BY <2>2, <2>4 DEF Going, Lowest
  <2>9. Domains'
    <3>1. \A q : Leaving(q)' = Leaving(q) /\ Coming(q)' = Coming(q) /\ ~Going(q)
      BY <2>1 DEF Leaving, Coming, Going
    <3> QED
      BY <2>1, <2>5, <2>8, <3>1 DEF PortInv, Domains
  <2>10. \A q \in (net'.attached \cap DOMAIN believes'.ports) \ doubts' : Stays(q)
    BY <2>1, <2>3, <2>4, <2>5 DEF Stays, Busy
  <2> QED
    BY <2>1, <2>5, <2>6, <2>7, <2>9, <2>10, PortStep DEF PortInv, Descriptions
<1>2. ASSUME remove_port PROVE PortInv'
  <2>1. /\ UNCHANGED <<version, mod, mgmt, believes>> /\ bg.at = "remove"
        /\ \E p \in bg.gone :
             /\ Lowest(p, bg.gone)
             /\ \E n \in IF p \in net.attached THEN hal_driver_detach_port_from_switch(net, p) ELSE {net} :
                   net' = destroy_port(n, p)
             /\ bg' = [bg EXCEPT !.at = "scan", !.gone = @ \ {p}]
             /\ doubts' = IF mgmt.at = "detached" /\ mgmt.port = p THEN doubts ELSE Missed(p)
    BY <1>2 DEF remove_port, BackgroundStep, quietVars
  <2>2. PICK p \in bg.gone :
             /\ Lowest(p, bg.gone)
             /\ \E n \in IF p \in net.attached THEN hal_driver_detach_port_from_switch(net, p) ELSE {net} :
                   net' = destroy_port(n, p)
             /\ bg' = [bg EXCEPT !.at = "scan", !.gone = @ \ {p}]
             /\ doubts' = IF mgmt.at = "detached" /\ mgmt.port = p THEN doubts ELSE Missed(p)
    BY <2>1
  <2>3. PICK n \in IF p \in net.attached THEN hal_driver_detach_port_from_switch(net, p) ELSE {net} :
                   net' = destroy_port(n, p)
    BY <2>2
  <2>4. bg # Idle /\ Record(bg, {"at", "port", "gone", "new"}) /\ bg.gone \subseteq Slots /\ p \in Slots
        /\ NetFine(net)
    BY <2>1, <2>2 DEF PortInv, ThreadShape, BgShape, Idle
  <2>5. /\ NetFine(n) /\ n.attached = net.attached \ {p} /\ n.ports = net.ports
        /\ n.system = net.system /\ net.events \subseteq n.events
        /\ \A q \in Slots \ {p} : n.port[q] = net.port[q]
    <3>1. CASE p \in net.attached
      <4>1. n \in hal_driver_detach_port_from_switch(net, p)
        BY <3>1
      <4> QED
        BY <2>4, <4>1, DetachTouched
    <3>2. CASE p \notin net.attached
      BY <2>4, <3>2
    <3> QED
      BY <3>1, <3>2
  <2>6. PICK d : d = net'
    OBVIOUS
  <2>7. /\ NetFine(d) /\ d.attached = net.attached \ {p} /\ d.ports = net.ports \ {p}
        /\ d.system = net.system /\ net.events \subseteq d.events
        /\ \A q \in Slots \ {p} : d.port[q] = net.port[q]
    BY <2>3, <2>4, <2>5, <2>6, DestroyTouched
  <2>8. /\ bg'.at = "scan" /\ bg'.port = bg.port /\ bg'.gone = bg.gone \ {p} /\ bg'.new = bg.new
        /\ Record(bg', {"at", "port", "gone", "new"}) /\ bg' # Idle
    <3>1. /\ bg'.at = "scan" /\ bg'.port = bg.port /\ bg'.gone = bg.gone \ {p} /\ bg'.new = bg.new
          /\ Record(bg', {"at", "port", "gone", "new"})
      BY <2>2, <2>4 DEF Record
    <3> QED
      BY <3>1 DEF Idle
  <2>9. BgShape'
    BY <2>1, <2>4, <2>6, <2>7, <2>8 DEF PortInv, ThreadShape, BgShape, Record
  <2>10. MgmtShape'
    BY <2>1, <2>6, <2>7 DEF PortInv, ThreadShape, MgmtShape
  <2>11. /\ doubts \subseteq doubts' /\ doubts' \subseteq doubts \cup {p}
         /\ p \in DOMAIN believes.ports => p \in doubts' \/ Leaving(p)
    BY <2>2 DEF Missed, Leaving
  <2>12. Domains'
    <3>1. \A q : Leaving(q)' = Leaving(q) /\ Coming(q)' = Coming(q)
      BY <2>1 DEF Leaving, Coming
    <3>2. \A q \in Slots \ {p} : ~Going(q)
      <4>1. ASSUME NEW q \in Slots, Going(q) PROVE q = p
        <5>1. p <= q /\ q <= p
          BY <2>2, <4>1 DEF Going, Lowest
        <5> QED
          BY <2>4, <5>1 DEF Slots
      <4> QED
        BY <4>1
    <3> QED
      BY <2>1, <2>4, <2>6, <2>7, <2>11, <3>1, <3>2 DEF PortInv, Domains
  <2>13. ASSUME NEW q \in (net'.attached \cap DOMAIN believes'.ports) \ doubts' PROVE Stays(q)
    <3>1. q \in net.attached /\ q \in Slots \ {p}
      BY <2>4, <2>6, <2>7, <2>13 DEF NetFine
    <3> QED
      BY <2>1, <2>4, <2>6, <2>7, <2>8, <2>11, <2>13, <3>1 DEF Stays, Busy
  <2> QED
    BY <2>1, <2>6, <2>7, <2>9, <2>10, <2>12, <2>13, PortStep DEF PortInv, Descriptions
<1> QED
  BY <1>1, <1>2

\* The port the message was about follows its interface, and the controller is told.
LEMMA PortFollows ==
    ASSUME SwitchInv, PortInv, GroupInv
    PROVE  update_port_status \/ follow_flags \/ status_snapshot \/ notify_port_status_changed => PortInv'
<1>1. ASSUME update_port_status PROVE PortInv'
  <2> DEFINE found == bg.new \cap net.system
  <2>1. /\ UNCHANGED <<version, mod, mgmt, believes, doubts>> /\ bg.at = "scan"
        /\ net' = [net EXCEPT !.ports = @ \cup found,
                              !.port = [p \in Slots |-> IF p \in found THEN fill_port(net.kernel[p]) ELSE @[p]]]
        /\ bg' = IF bg.port \in net'.ports \cap net.system
                 THEN [at |-> "apply", port |-> bg.port, up |-> net.kernel[bg.port]] ELSE Idle
    BY <1>1 DEF update_port_status, BackgroundStep, Untold, quietVars
  <2>2. bg # Idle /\ bg.port \in Slots /\ found \subseteq Slots \ net.ports /\ NetFine(net)
        /\ (bg.port \notin net.system => bg.port \in net.events)
    BY <2>1 DEF PortInv, ThreadShape, BgShape, Idle
  <2> HIDE DEF found
  <2>3. /\ Record(net', NetFields) /\ net'.attached = net.attached /\ net'.ports = net.ports \cup found
        /\ net'.port = [p \in Slots |-> IF p \in found THEN fill_port(net.kernel[p]) ELSE net.port[p]]
        /\ net'.running = net.running /\ net'.events = net.events
        /\ net'.system = net.system /\ net'.kernel = net.kernel
    BY <2>1, <2>2 DEF NetFine, NetFields, Record
  <2>4. \A up \in BOOLEAN : PortRecord(fill_port(up))
    BY DEF fill_port, PortRecord, PortFields, Record
  <2>5. \A p \in Slots : PortRecord(net'.port[p])
    BY <2>2, <2>3, <2>4 DEF NetFine
  <2>6. NetFine(net')
    BY <2>2, <2>3, <2>5 DEF NetFine
  <2>7. \/ bg' = Idle /\ bg.port \notin net'.ports \cap net.system
        \/ bg' # Idle /\ bg'.at = "apply" /\ bg'.port = bg.port /\ bg'.up \in BOOLEAN
    <3>1. CASE bg.port \in net'.ports \cap net.system
      <4>1. bg' = [at |-> "apply", port |-> bg.port, up |-> net.kernel[bg.port]]
        BY <2>1, <3>1
      <4>2. bg'.at = "apply" /\ bg'.port = bg.port /\ bg'.up \in BOOLEAN
        BY <2>2, <4>1 DEF NetFine
      <4> QED
        BY <4>2 DEF Idle
    <3>2. CASE bg.port \notin net'.ports \cap net.system
      BY <2>1, <3>2
    <3> QED
      BY <3>1, <3>2
  <2>8. BgShape'
    BY <2>2, <2>7 DEF BgShape, Idle
  <2>9. MgmtShape'
    BY <2>1, <2>3 DEF PortInv, ThreadShape, MgmtShape
  <2>10. Domains'
    <3>1. \A q : Leaving(q)' = Leaving(q) /\ Coming(q)' = Coming(q) /\ ~Going(q)
      BY <2>1 DEF Leaving, Coming, Going
    <3> QED
      BY <2>1, <2>3, <3>1 DEF PortInv, Domains
  <2>11. ASSUME NEW q \in (net'.attached \cap DOMAIN believes'.ports) \ doubts' PROVE Stays(q)
    <3>1. q \in net.attached /\ q \in net.ports /\ q \in Slots /\ q \notin found
      BY <2>2, <2>3, <2>11 DEF NetFine
    <3>2. net'.port[q] = net.port[q]
      BY <2>3, <3>1
    <3>3. Busy(q) => Busy(q)'
      BY <2>2, <2>3, <2>7, <3>1 DEF Busy
    <3> QED
      BY <2>1, <2>11, <3>1, <3>2, <3>3 DEF Stays
  <2> QED
    BY <2>1, <2>6, <2>8, <2>9, <2>10, <2>11, PortStep DEF PortInv, Descriptions
<1>2. ASSUME follow_flags PROVE PortInv'
  <2>1. /\ UNCHANGED <<version, mod, mgmt, believes, doubts>> /\ bg.at = "apply"
        /\ bg' = [at |-> "snapshot", port |-> bg.port]
        /\ \E r \in IF bg.up THEN bring_port_up(net, bg.port) ELSE bring_port_down(net, bg.port) : net' = r.net
    BY <1>2 DEF follow_flags, Untold, quietVars
  <2>2. bg # Idle /\ bg.port \in Slots /\ bg.up \in BOOLEAN /\ NetFine(net)
    BY <2>1 DEF PortInv, ThreadShape, BgShape, Idle
  <2>3. PICK r \in IF bg.up THEN bring_port_up(net, bg.port) ELSE bring_port_down(net, bg.port) : net' = r.net
    BY <2>1
  <2>4. PICK n : n = r.net
    OBVIOUS
  <2>5. Touched(n, bg.port)
    BY <2>2, <2>4, BringTouched
  <2>6. /\ NetFine(n) /\ n.attached = net.attached /\ n.ports = net.ports /\ n.system = net.system
        /\ net.events \subseteq n.events /\ net' = n
        /\ \A q \in Slots \ {bg.port} : n.port[q] = net.port[q]
        /\ \A s \in Reported \ {"PORT_DOWN"} :
              s \in notified_config(n.port[bg.port]) <=> s \in notified_config(net.port[bg.port])
    BY <2>3, <2>4, <2>5 DEF Touched
  <2>7. bg'.at = "snapshot" /\ bg'.port = bg.port /\ bg' # Idle
    <3>1. bg'.at = "snapshot" /\ bg'.port = bg.port
      BY <2>1
    <3> QED
      BY <3>1 DEF Idle
  <2>8. BgShape'
    BY <2>2, <2>7 DEF BgShape
  <2>9. MgmtShape'
    BY <2>1, <2>6 DEF PortInv, ThreadShape, MgmtShape
  <2>10. Domains'
    <3>1. \A q : Leaving(q)' = Leaving(q) /\ Coming(q)' = Coming(q) /\ ~Going(q)
      BY <2>1 DEF Leaving, Coming, Going
    <3> QED
      BY <2>1, <2>6, <3>1 DEF PortInv, Domains
  <2>11. ASSUME NEW q \in (net'.attached \cap DOMAIN believes'.ports) \ doubts' PROVE Stays(q)
    <3>1. Busy(q) => Busy(q)'
      BY <2>6, <2>7 DEF Busy
    <3>2. q = bg.port => Busy(q)'
      BY <2>7 DEF Busy
    <3>3. q # bg.port => net'.port[q] = net.port[q]
      BY <2>2, <2>6, <2>11 DEF NetFine
    <3> QED
      BY <2>1, <2>6, <2>11, <3>1, <3>2, <3>3 DEF Stays
  <2> QED
    BY <2>1, <2>6, <2>8, <2>9, <2>10, <2>11, PortStep DEF PortInv, Descriptions
<1>3. ASSUME status_snapshot PROVE PortInv'
  <2>1. /\ UNCHANGED <<version, net, mod, mgmt, believes, doubts>> /\ bg.at = "snapshot"
        /\ \/ bg' = Idle /\ bg.port \notin net.attached
           \/ bg' = [at |-> "notify", port |-> bg.port, shot |-> net.port[bg.port]]
    BY <1>3 DEF status_snapshot, Untold, quietVars
  <2>2. bg # Idle /\ bg.port \in Slots
    BY <2>1 DEF PortInv, ThreadShape, BgShape, Idle
  <2>3. \/ bg' = Idle /\ bg.port \notin net.attached
        \/ bg'.at = "notify" /\ bg'.port = bg.port /\ bg' # Idle
    <3>1. CASE bg' = [at |-> "notify", port |-> bg.port, shot |-> net.port[bg.port]]
      <4>1. bg'.at = "notify" /\ bg'.port = bg.port
        BY <3>1
      <4> QED
        BY <4>1 DEF Idle
    <3> QED
      BY <2>1, <3>1
  <2>4. BgShape' /\ MgmtShape' /\ NetFine(net')
    BY <2>1, <2>2, <2>3 DEF PortInv, ThreadShape, BgShape, MgmtShape, Idle
  <2>5. Domains'
    <3>1. \A q : Leaving(q)' = Leaving(q) /\ Coming(q)' = Coming(q) /\ ~Going(q)
      BY <2>1 DEF Leaving, Coming, Going
    <3> QED
      BY <2>1, <3>1 DEF PortInv, Domains
  <2>6. \A q \in (net'.attached \cap DOMAIN believes'.ports) \ doubts' : Stays(q)
    BY <2>1, <2>3 DEF Stays, Busy
  <2> QED
    BY <2>1, <2>4, <2>5, <2>6, PortStep DEF PortInv, Descriptions
<1>4. ASSUME notify_port_status_changed PROVE PortInv'
  <2> DEFINE p == bg.port
             shot == bg.shot
  <2>1. /\ bg.at = "notify" /\ bg' = Idle /\ UNCHANGED <<version, mod, net, mgmt>>
        /\ Told(p, Describes(shot), Current(p, shot))
    BY <1>4 DEF notify_port_status_changed, quietVars
  <2>2. p \in Slots
    BY <2>1 DEF PortInv, ThreadShape, BgShape, Idle
  <2>3. Describes(shot) = notified_config(shot)
    BY DEF SwitchInv, Versions, Describes, of13_notify_port_status_changed, of12_notify_port_status_changed,
       of10_notify_port_status_changed
  <2>4. MgmtShape' /\ BgShape'
    BY <2>1 DEF PortInv, ThreadShape, MgmtShape, BgShape, Idle
  <2>5. \A q \in Slots \ {p} : /\ Leaving(q) => Leaving(q)'
                               /\ Coming(q) => Coming(q)'
                               /\ Going(q) => Going(q)'
                               /\ Busy(q) => Busy(q)'
    BY <2>1 DEF Leaving, Coming, Going, Busy
  <2> HIDE DEF p, shot
  <2> QED
    BY <2>1, <2>2, <2>3, <2>4, <2>5, PortTold
<1> QED
  BY <1>1, <1>2, <1>3, <1>4

LEMMA PortManagement ==
    ASSUME SwitchInv, PortInv, GroupInv, Management
    PROVE  PortInv'
<1>1. CASE \/ \E p \in Slots : attach_port(p) \/ detach_port(p)
           \/ attach_snapshot \/ notify_port_attached \/ notify_port_detached \/ detached_and_gone
  BY <1>1, PortAttaches, PortDetaches
<1>2. CASE \E p \in Slots, up \in BOOLEAN : hal_driver_bring_port(p, up)
  BY <1>2, PortBrought
<1>3. CASE (\E rate \in Rates : Reconfigure(rate)) \/ RateSet
  BY <1>3, PortElsewhere DEF Reconfigure, RateSet, ofVars, quietVars, portVars
<1> QED
  BY <1>1, <1>2, <1>3 DEF Management

LEMMA PortBackground ==
    ASSUME SwitchInv, PortInv, GroupInv, Background
    PROVE  PortInv'
BY PortKernel, PortRead, PortGoes, PortFollows DEF Background

LEMMA PortMessages ==
    ASSUME SwitchInv, PortInv, GroupInv, ControllerSends
    PROVE  PortInv'
<1>1. CASE \/ \E m \in Asked("flow_mod") : flow_mod(m)
           \/ \E m \in Asked("group_mod") : group_mod_message(m)
           \/ \E m \in Asked("set_config") : set_config(m)
  BY <1>1, PortQuiet
<1>2. CASE \/ \E q \in Asked("flow_stats") : flow_stats_request(q)
           \/ \E q \in Asked("flow_stats") : aggregate_stats_request(q)
           \/ \E g \in Asked("group_stats") : group_stats_request(g)
           \/ \E m \in Asked("table_mod") : table_mod(m)
           \/ \E m \in Asked("packet_out") : packet_out_message(m)
           \/ \E q \in Asked("port_stats") : port_stats_request(q)
           \/ \E q \in Asked("queue_stats") : queue_stats_request(q)
           \/ \E q \in Asked("port_stats") : queue_get_config_request(q)
           \/ \E w \in Asked("request") : request(w)
  BY <1>2, PortQuiet
  DEF flow_stats_request, aggregate_stats_request, group_stats_request, table_mod, packet_out_message,
     port_stats_request, queue_stats_request, queue_get_config_request, request
<1>3. CASE \E m \in Asked("port_mod") : port_mod(m)
  BY <1>3, PortModBegins
<1>4. CASE port_desc_request
  BY <1>4, PortsTold
<1> QED
  BY <1>1, <1>2, <1>3, <1>4 DEF ControllerSends

LEMMA PortSteps == SwitchInv /\ GroupInv /\ PortInv /\ [Next]_vars => PortInv'
<1> SUFFICES ASSUME SwitchInv, GroupInv, PortInv, [Next]_vars PROVE PortInv'
  BY Zenon
<1>1. CASE ControllerSends
  BY <1>1, PortMessages
<1>2. CASE port_mod_call
  BY <1>2, PortCalls
<1>3. CASE PacketThread
  BY <1>3, PortQuiet
<1>4. CASE Management
  BY <1>4, PortManagement
<1>5. CASE Background
  BY <1>5, PortBackground
<1>6. CASE Time \/ UNCHANGED vars
  BY <1>6, PortElsewhere DEF Time, vars, ofVars, quietVars, portVars
<1> QED
  BY <1>1, <1>2, <1>3, <1>4, <1>5, <1>6 DEF Next

\* The invariants of the switch, of the groups and of the ports, together.
THEOREM PortsSound == Spec => [](SwitchInv /\ GroupInv /\ PortInv)
  BY SwitchStart, SwitchSteps, GroupStart, GroupSteps, PortStart, PortSteps, PTL DEF Spec

\* of13_notify_port_status_changed, of13_handle_port_mod and their siblings: once the threads are at
\* rest every port is described to the controller as it is, and no port is that it does not know of,
\* unless it has reason to ask again.
THEOREM PortsAlwaysKnown == Spec => []PortsKnown
<1>1. PortInv => PortsKnown
  <2> SUFFICES ASSUME PortInv, AtRest, NEW p \in Slots \ doubts
               PROVE  /\ p \in DOMAIN believes.ports <=> p \in net.attached
                      /\ p \in net.attached => believes.ports[p] = notified_config(net.port[p])
    BY DEF PortsKnown
  <2>1. mod = Idle /\ mgmt = Idle /\ bg = Idle /\ net.events = {} /\ Idle.at = "idle"
    BY DEF AtRest, Idle
  <2>2. p \in DOMAIN believes.ports <=> p \in net.attached
    BY <2>1 DEF PortInv, Domains, Leaving, Coming, Going
  <2>3. ASSUME p \in net.attached PROVE believes.ports[p] = notified_config(net.port[p])
    <3>1. Right(p) /\ believes.ports[p] \subseteq Reported
      BY <2>2, <2>3 DEF PortInv, Descriptions
    <3>2. \A s \in Reported : s \in believes.ports[p] <=> s \in notified_config(net.port[p])
      BY <2>1, <3>1 DEF Right, LeftFor, Expected, Under, Busy
    <3>3. notified_config(net.port[p]) \subseteq Reported
      BY ReportedOnly
    <3> QED
      BY <3>1, <3>2, <3>3
  <2> QED
    BY <2>2, <2>3
<1> QED
  BY <1>1, PortsSound, PTL

\* What of13_endpoint.cc and its siblings tell a controller, and what they leave unsaid, never misleads
\* it about groups or ports, in any order of messages, changes of interfaces and management's calls.
THEOREM ViewAlwaysTrue == Spec => []ControllerView
  BY GroupsAlwaysKnown, PortsAlwaysKnown, PTL DEF ControllerView

\* Flows, groups, ports and the steps of the threads have their shape; in particular no table has
\* more flows than it can hold, and no port runs that is not attached.
THEOREM TypeCorrect == Spec => []TypeOK
<1>1. SwitchInv /\ PortInv => TypeOK
  <2> SUFFICES ASSUME SwitchInv, PortInv PROVE TypeOK
    OBVIOUS
  <2>1. \A f \in sw.flows : f.tid \in TableIds /\ DOMAIN f.entry.sent = FlowFields
    BY DEF SwitchInv, FlowsFit, IsFlow, IsEntry
  <2>2. \A t \in TableIds : Cardinality({f \in sw.flows : f.tid = t}) <= MaxFlows
    BY DEF SwitchInv, FlowsFit, Table
  <2>3. /\ sw.stored \subseteq Buffers /\ sw.free \in 0..NumBuffers
        /\ packet.at = (IF filter.at = "idle" THEN "none" ELSE "filter")
    BY DEF SwitchInv
  <2>4. /\ net.running \subseteq net.attached /\ net.attached \subseteq Slots /\ net.events \subseteq Slots
        /\ doubts \subseteq Slots \cup {AllFlows}
        /\ net.attached \subseteq net.ports /\ net.ports \subseteq Slots
    BY DEF PortInv, NetFine, Domains
  <2>5. /\ mgmt.at \in {"idle", "attached", "snapshot", "detached"}
        /\ bg.at \in {"idle", "named", "scan", "remove", "apply", "snapshot", "notify"}
    BY DEF PortInv, ThreadShape, MgmtShape, BgShape, Idle
  <2> QED
    BY <2>1, <2>2, <2>3, <2>4, <2>5 DEF TypeOK
<1> QED
  BY <1>1, PortsSound, PTL

==============================================================================
