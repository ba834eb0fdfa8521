----------------------------- MODULE Translation -----------------------------
(***************************************************************************)
(* What the translations between the OpenFlow messages (the objects of      *)
(* rofl, external) and the pipeline's own structures (of1x_*, external)     *)
(* have in common.                                                          *)
(*                                                                         *)
(* A match is a function from field names to a value and a mask; the mask   *)
(* FULL stands for "all bits".  An action is a name, a value and, for an    *)
(* output, the number of bytes to send.  The pipeline keeps the value of an *)
(* action in a union (wrap_uint_t): it is zeroed, one member is written,    *)
(* and what is read back depends on the member that is read.                *)
(***************************************************************************)
EXTENDS Integers, SequencesExt, FiniteSetsExt

FULL == 65535
PRESENT == 4096     \* OFPVID_PRESENT
OFPTT_ALL == 255    \* also OF1X_FLOW_TABLE_ALL

\* Stands for the 16 ones above the number of a reserved port in the pipeline and since
\* OpenFlow 1.2, which TLC's integers do not hold.
Upper == 1048576
PORT_ANY == 65535 + Upper

Each(S, w) == [a \in S |-> w]

\* The low w bits; TLC's integers hold less than 31.
Narrow(v, w) == IF w > 30 THEN v ELSE v % 2^w

\* The fields that only have a value, and those that have a mask too.
Exact(m, S) == [f \in DOMAIN m \cap S |-> [value |-> m[f].value, mask |-> FULL]]
Masked(m, S) == [f \in DOMAIN m \cap S |-> m[f]]

\* The accessors of a packet's fields are zero for a field it does not have.
NonZero(pm, S) == [f \in {g \in DOMAIN pm \cap S : pm[g] # 0} |-> [value |-> pm[f], mask |-> FULL]]

\* of1x_init_packet_action after a write of the member the table names.
WriteUnion(a, width) ==
    [name |-> a.name, u |-> Narrow(a.value, width[a.name]), len |-> a.len]

\* of1x_get_packet_action_fieldN, N as the table says; 0 for an action without field.
ReadUnion(h, width) ==
    [name |-> h.name, value |-> Narrow(h.u, width[h.name]), len |-> h.len]

\* An action the switch statement does not know stays NULL and is not added.
MapActions(actions, width) ==
    LET known == SelectSeq(actions, LAMBDA a : a.name \in DOMAIN width)
    IN [i \in DOMAIN known |-> WriteUnion(known[i], width)]

MapReverseActions(actions, width) ==
    LET known == SelectSeq(actions, LAMBDA h : h.name \in DOMAIN width)
    IN [i \in DOMAIN known |-> ReadUnion(known[i], width)]

\* of1x_set_packet_action_on_write_actions: one action of each type.
ActionSet(actions) ==
    {actions[i] : i \in {j \in DOMAIN actions : \A k \in DOMAIN actions :
                            k > j => actions[k].name # actions[j].name}}

\* The pipeline keeps the 12 bits of a VLAN identifier.
of1x_init_vlan_vid_match(value, mask, present) ==
    [value |-> value % PRESENT, mask |-> mask % PRESENT, present |-> present]

WithPresent(vid) == (vid % PRESENT) + PRESENT

==============================================================================
