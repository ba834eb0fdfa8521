----------------------------- MODULE MCClassifier -----------------------------
EXTENDS Classifier

H(h, next) == Piece(h, 0, next)
Data == H("PAYLOAD", "OTHER")
Tcp == <<H("IPV4", "TCP"), H("TCP", "OTHER"), Data>>
Udp(n) == <<Piece("IPV4", n, "UDP"), H("UDP", "OTHER"), Data>>
Gtp(n, m) == <<Piece("IPV4", n, "UDP"), H("UDP", "GTPU"), Piece("GTPU", m, "OTHER")>>
Gre(n) == <<Piece("IPV4", n, "GRE"), Piece("GRE", 2, "ETHERNET")>>
Eth(next) == <<H("ETHERNET", next)>>
Vlan(next) == <<H("ETHERNET", "VLAN"), H("VLAN", next)>>
Nd == <<H("IPV6", "ICMPV6"), H("ICMPV6", "ICMPV6_NEIGH_SOL"),
        H("ICMPV6_NEIGH_SOL", "ICMPV6_NEIGH_SOL_OPTS_LLADR_SRC"),
        H("ICMPV6_NEIGH_SOL_OPTS_LLADR_SRC", "OTHER")>>

\* Bytes of two bits: no carry, two carries, an odd number, a sum of all ones; filled up.
MCBodies == {[bytes |-> b, pseudo |-> 3, pad |-> 0] :
                b \in {<<1, 0>>, <<3, 3, 3, 3, 3, 3, 3, 3, 2, 0>>, <<1, 2, 3>>, <<2, 2>>}}
            \cup {[bytes |-> <<1, 2, 3>>, pseudo |-> 0, pad |-> 2]}

\* One frame of each shape the classifier tells apart.
MCReceived == {
    Eth("IPV4") \o Tcp,
    Vlan("IPV4") \o Udp(1),
    Vlan("VLAN") \o <<H("VLAN", "VLAN"), H("VLAN", "IPV4")>> \o Tcp,
    Eth("IPV6") \o Nd,
    Eth("IPV6") \o <<H("IPV6", "UDP"), H("UDP", "GTPU"), H("GTPU", "OTHER")>> \o Tcp,
    Eth("IPV4") \o <<Piece("IPV4", 0, "FRAGMENT"), Data>>,
    Eth("MPLS") \o <<H("MPLS", "MPLS"), H("MPLS", "BOTTOM")>> \o Tcp,
    Vlan("MPLS") \o <<H("MPLS", "BOTTOM")>> \o Tcp,
    Eth("PPPOE") \o <<H("PPPOE", "PPP"), H("PPP", "OTHER")>> \o Tcp,
    Eth("ISID") \o <<H("ISID", "ETHERNET")>> \o Vlan("IPV4") \o Tcp,
    Vlan("ISID") \o <<H("ISID", "ETHERNET")>> \o Eth("ARPV4") \o <<H("ARPV4", "OTHER")>>,
    Eth("IPV4") \o Gtp(0, 0) \o Udp(0),
    Eth("IPV4") \o Gtp(1, 0) \o Tcp,
    Eth("IPV4") \o Gre(0) \o Vlan("IPV4") \o Tcp,
    <<H("8023", "IPV4")>> \o Tcp,
    Eth("IPV4") \o <<H("IPV4", "ICMPV4"), H("ICMPV4", "OTHER")>>,
    Eth("IPV4") \o <<H("IPV4", "SCTP"), H("SCTP", "OTHER"), Data>>}
=============================================================================
