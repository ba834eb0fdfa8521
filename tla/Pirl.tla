-------------------------------- MODULE Pirl ---------------------------------
(***************************************************************************)
(* The packet-in rate limiter (pirl.h, pirl.cc): one bucket of tokens per   *)
(* tenth of a second, filled when the first packet of the tenth is seen.    *)
(* The thread that carries packets to the controller filters; management    *)
(* reconfigures at the same time, without a lock.                           *)
(***************************************************************************)
EXTENDS Integers

CONSTANTS
    IntHalf,        \* half the range of an int, which the time is passed as: 2^31 in the code
    MaxClock,       \* bound: tenths of a second that pass
    Rates,          \* rates management asks for
    MaxReconf       \* bound: reconfigurations

ASSUME IntAssumption == IntHalf \in Nat \ {0}
ASSUME RatesAssumption == Rates \subseteq Int

VARIABLES
    pirl,       \* max_rate and the bucket: last_seen_ts and tokens
    clock,      \* the monotonic clock, in tenths of a second
    filter,     \* where filter_pkt is, and the time it read
    conf,       \* where reconfigure is, the rate, and how often it was called
    seen        \* history: the tenth of the last packet, what passed in it and what was dropped

pirlVars == <<pirl, clock, filter, conf, seen>>

PIRL_DISABLED == -1
PIRL_NUMBER_OF_BUCKETS_PER_S == 10
PIRL_MIN_RATE == PIRL_NUMBER_OF_BUCKETS_PER_S

\* The constructor.
PirlInit(rate) ==
    /\ pirl = [max_rate |-> rate, last_seen_ts |-> 0, tokens |-> 0]
    /\ clock = 1
    /\ filter = [at |-> "idle", ts |-> 0]
    /\ conf = [at |-> "idle", rate |-> 0, calls |-> 0]
    /\ seen = [ts |-> 0, passed |-> 0, dropped |-> 0, disturbed |-> FALSE]

\* A positive time keeps its value in an int up to a point; then it becomes another one.
AsInt(t) == LET r == t % (2 * IntHalf) IN IF r < IntHalf THEN r ELSE r - 2 * IntHalf

Tokens(rate) == IF rate < 0 THEN 0 ELSE rate \div PIRL_NUMBER_OF_BUCKETS_PER_S

Tick == /\ clock < MaxClock /\ clock' = clock + 1
        /\ UNCHANGED <<pirl, filter, conf, seen>>

-----------------------------------------------------------------------------
(* filter_pkt *)

Tenth(ts) == IF seen.ts = ts THEN seen
             ELSE [ts |-> ts, passed |-> 0, dropped |-> 0, disturbed |-> conf.at # "idle"]

filter_pkt ==
    /\ filter.at = "idle" /\ pirl.max_rate # PIRL_DISABLED
    /\ filter' = [at |-> IF pirl.last_seen_ts # clock THEN "reset" ELSE "dec", ts |-> clock]
    /\ seen' = Tenth(clock)
    /\ UNCHANGED <<pirl, clock, conf>>

\* Mutant of reset_bucket: the bucket is filled, and when is not remembered.
reset_tokens ==
    /\ filter.at = "reset"
    /\ pirl' = [pirl EXCEPT !.tokens = Tokens(pirl.max_rate)]
    /\ filter' = [filter EXCEPT !.at = "dec"]
    /\ UNCHANGED <<clock, conf, seen>>

reset_bucket ==
    /\ filter.at = "reset"
    /\ pirl' = [pirl EXCEPT !.last_seen_ts = AsInt(filter.ts), !.tokens = Tokens(pirl.max_rate)]
    /\ filter' = [filter EXCEPT !.at = "dec"]
    /\ UNCHANGED <<clock, conf, seen>>

\* The packet passes ...
pirl_dec ==
    /\ filter.at = "dec" /\ pirl.tokens > 0
    /\ pirl' = [pirl EXCEPT !.tokens = @ - 1]
    /\ filter' = [filter EXCEPT !.at = "idle"]
    /\ seen' = [seen EXCEPT !.passed = @ + 1]
    /\ UNCHANGED <<clock, conf>>

\* ... or is filtered.
pirl_drop ==
    /\ filter.at = "dec" /\ pirl.tokens <= 0
    /\ filter' = [filter EXCEPT !.at = "idle"]
    /\ seen' = [seen EXCEPT !.dropped = 1]
    /\ UNCHANGED <<pirl, clock, conf>>

-----------------------------------------------------------------------------
(* reconfigure: the bucket's time is cleared, then the rate is set *)

reconfigure(rate) ==
    /\ conf.at = "idle" /\ conf.calls < MaxReconf
    /\ IF rate < PIRL_MIN_RATE /\ rate # PIRL_DISABLED
       THEN conf' = [conf EXCEPT !.calls = @ + 1] /\ UNCHANGED <<pirl, seen>>
       ELSE /\ pirl' = [pirl EXCEPT !.last_seen_ts = 0]
            /\ conf' = [at |-> "rate", rate |-> rate, calls |-> conf.calls + 1]
            /\ seen' = [seen EXCEPT !.disturbed = TRUE]
    /\ UNCHANGED <<clock, filter>>

set_rate ==
    /\ conf.at = "rate"
    /\ pirl' = [pirl EXCEPT !.max_rate = conf.rate]
    /\ conf' = [conf EXCEPT !.at = "idle"]
    /\ seen' = [seen EXCEPT !.disturbed = TRUE]
    /\ UNCHANGED <<clock, filter>>

-----------------------------------------------------------------------------
(* The limiter alone, with nobody but management and the packets, from a     *)
(* rate the constructor accepts.                                             *)
PirlNext == Tick \/ filter_pkt \/ reset_bucket \/ pirl_dec \/ pirl_drop
            \/ (\E rate \in Rates : reconfigure(rate)) \/ set_rate

AcceptedRates == {rate \in Rates : rate >= PIRL_MIN_RATE \/ rate = PIRL_DISABLED}

PirlSpec == (\E rate \in AcceptedRates : PirlInit(rate)) /\ [][PirlNext]_pirlVars

(* In a tenth of a second in which nobody reconfigures the limiter, and as   *)
(* long as an int holds the time, at most a tenth of the rate passes, and a  *)
(* packet is filtered only when a tenth of the rate has passed.              *)
PacketInsLimited ==
    ~seen.disturbed /\ seen.ts < IntHalf =>
        /\ seen.passed <= Tokens(pirl.max_rate)
        /\ seen.dropped > 0 => seen.passed = Tokens(pirl.max_rate)

==============================================================================
