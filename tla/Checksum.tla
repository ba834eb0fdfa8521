------------------------------ MODULE Checksum -------------------------------
(***************************************************************************)
(* The checksums of the headers (cpc_*.h), on bytes with ByteSize values, and *)
(* what a receiver makes of them.                                           *)
(*                                                                         *)
(* A body is what the checksum of a header covers: bytes, the header's own   *)
(* with the checksum zero and what follows it; pseudo, the sum of addresses  *)
(* and protocol; pad, the zero bytes that fill the frame behind it.          *)
(***************************************************************************)
EXTENDS Integers, Sequences

CONSTANT ByteSize       \* the values of a byte, 256 in the code

ASSUME ByteAssumption == ByteSize \in Nat /\ ByteSize > 1

Word == ByteSize * ByteSize       \* words are stored with the low byte first
Body == [bytes : Seq(0..(ByteSize - 1)), pseudo : Nat, pad : Nat]
Zeros(n) == [i \in 1..n |-> 0]

\* get_pkt_len: up to the end of the frame.
ToEndOfFrame(b) == b.bytes \o Zeros(b.pad)

SumWords(s) ==
    LET sum[i \in 0..(Len(s) \div 2)] ==
          IF i = 0 THEN 0 ELSE sum[i - 1] + s[2 * i - 1] + s[2 * i] * ByteSize
    IN  sum[Len(s) \div 2]
LastByte(s) == IF Len(s) % 2 = 1 THEN s[Len(s)] ELSE 0
FoldOnce(sum) == (sum % Word) + (sum \div Word)
FoldAll[sum \in Nat] == IF FoldOnce(sum) < Word THEN FoldOnce(sum) ELSE FoldAll[FoldOnce(sum)]
Complement(sum) == Word - 1 - sum

-----------------------------------------------------------------------------
\* A second carry is cut off.
ipv4_calc_checksum(b) == Complement(FoldOnce(SumWords(b.bytes)) % Word)

\* ... here, too, and the last byte of an odd number is left out.
icmpv4_calc_checksum(b) == Complement(FoldOnce(SumWords(ToEndOfFrame(b))) % Word)

tcp_calc_checksum(b) ==
    LET s == ToEndOfFrame(b)
    IN Complement(FoldAll[b.pseudo + Len(s) + SumWords(s) + LastByte(s)])

udp_calc_checksum(b) == tcp_calc_checksum(b)

icmpv6_calc_checksum(b) == tcp_calc_checksum(b)

\* Without a pseudo header.
gre_calc_checksum(b) ==
    LET s == ToEndOfFrame(b) IN Complement(FoldAll[SumWords(s) + LastByte(s)])

\* A CRC stands for the bytes it is taken of.
sctp_calc_checksum(b) == ToEndOfFrame(b)

-----------------------------------------------------------------------------
(* A receiver adds all words, the checksum and, except for IPv4, ICMPv4 and  *)
(* GRE, the pseudo header with the length of the body: the result is zero in *)
(* one's complement.  A UDP checksum of zero means that there is none, which *)
(* IPv6 does not admit.                                                      *)
Verifies(c, pseudo, b) == (c + pseudo + SumWords(b.bytes) + LastByte(b.bytes)) % (Word - 1) = 0
WithLength(b) == b.pseudo + Len(b.bytes)

EvenPart(b) == [b EXCEPT !.bytes = SubSeq(@, 1, 2 * (Len(@) \div 2))]

\* Of the body an IPv4 header has whole words.
Right(h, b, ipv6) ==
    CASE h = "IPV4" -> Verifies(ipv4_calc_checksum(b), 0, EvenPart(b))
      [] h = "ICMPV4" -> Verifies(icmpv4_calc_checksum(b), 0, b)
      [] h = "TCP" -> Verifies(tcp_calc_checksum(b), WithLength(b), b)
      [] h = "UDP" -> LET c == udp_calc_checksum(b) IN
                        IF c = 0 THEN ~ipv6 ELSE Verifies(c, WithLength(b), b)
      [] h = "ICMPV6" -> Verifies(icmpv6_calc_checksum(b), WithLength(b), b)
      [] h = "GRE" -> Verifies(gre_calc_checksum(b), 0, b)
      [] h = "SCTP" -> sctp_calc_checksum(b) = b.bytes

\* Where the functions above go wrong: a second carry or an odd length for the simple ones, a
\* filled frame for those that cover the length, and zero for UDP.
KnownWrong(h, b) ==
    CASE h = "IPV4" -> FoldOnce(SumWords(b.bytes)) >= Word
      [] h = "ICMPV4" -> LET s == ToEndOfFrame(b) IN FoldOnce(SumWords(s)) >= Word \/ LastByte(s) # 0
      [] h \in {"TCP", "ICMPV6", "SCTP"} -> b.pad > 0
      [] h = "UDP" -> b.pad > 0 \/ udp_calc_checksum(b) = 0
      [] OTHER -> FALSE
==============================================================================
