----------------------------- MODULE RawTargets -----------------------------
(***************************************************************************)
(* Where the field engine templates find the headers of a raw packet       *)
(* (rawPacketModel.ts): each target function walks the bytes on its own    *)
(* and gives the offset of a header or an option, or nothing.  The packet  *)
(* of a stream without bytes is the empty function, in which nothing       *)
(* starts anywhere.                                                        *)
(***************************************************************************)
EXTENDS PacketRows

NoBytes == << >>

\* Checksum fixups of a field engine program.
Hw(l2, l3, l4) == [type |-> "fix_checksum_hw", l2 |-> l2, l3 |-> l3, l4 |-> l4]
FixIpv4(ip) == [type |-> "fix_checksum_ipv4", l2 |-> ip, l3 |-> 0, l4 |-> 0]
FixIcmpv6(l2, l3) == [type |-> "fix_checksum_icmpv6", l2 |-> l2, l3 |-> l3, l4 |-> 0]
NoFix == [type |-> "none", l2 |-> 0, l3 |-> 0, l4 |-> 0]

UdpType == 11
TcpType == 13
IpType == 17

\* The smallest of a set of offsets.
First(offsets) ==
  IF offsets = {} THEN None ELSE CHOOSE o \in offsets : \A other \in offsets : o <= other

-----------------------------------------------------------------------------
(***************************************************************************)
(* Layers 2 and 3.                                                         *)
(***************************************************************************)

RawMacAddress(p) == IF At(p, 0) = "eth" THEN 0 ELSE None

\* A tagged frame has no EtherType of its own to write.
RawEtherType(p) == IF At(p, 0) = "eth" /\ At(p, 14) # "vlan" THEN 12 ELSE None

RawVlanTag(p, index) ==
  IF \A i \in 1..index : At(p, 14 + 4*(i - 1)) = "vlan" THEN 14 + 4*(index - 1) ELSE None

RawMplsLabel(p, index) ==
  LET first == Skip(p, 14, "vlan", MaxTags) IN
  IF \A i \in 1..index : At(p, first + 4*(i - 1)) = "mpls" THEN first + 4*(index - 1) ELSE None

\* ARP of Ethernet and IPv4, behind tags only.
RawArp(p) ==
  LET arp == Skip(p, 14, "vlan", MaxTags) IN
  IF At(p, arp) = "arp" /\ ~ Flag(p, arp, "foreign") THEN arp ELSE None

RawIpv4(p) == LET l3 == EthernetL3(p, 0) IN IF At(p, l3) = "ip4" THEN l3 ELSE None
RawIpv6(p) == LET l3 == EthernetL3(p, 0) IN IF At(p, l3) = "ip6" THEN l3 ELSE None

\* The first option of a header of one of some kinds.
FirstOption(p, header, kinds) ==
  IF ~ Found(header) THEN None
  ELSE First({ o \in Options(p, header) : At(p, o) \in kinds })

-----------------------------------------------------------------------------
(***************************************************************************)
(* Transports of the outermost IP header, with the fixup that follows a    *)
(* write into them.                                                        *)
(***************************************************************************)

RawIpv4L4(p, ip, kind) ==
  IF Found(ip) /\ At(p, ip + Ipv4HeaderLength(p, ip)) = kind
  THEN ip + Ipv4HeaderLength(p, ip) ELSE None

RawIpv6L4(p, ip, kind) == IF Found(ip) THEN Ipv6L4(p, ip, kind) ELSE None

\* The bytes of a packet with the IP header and the transports found in them,
\* which is what the functions below look for first.
Headers(p) ==
  LET Transports == { "udp", "tcp", "sctp", "icmp6", "gre" } IN
  [ bytes |-> p, ip4 |-> RawIpv4(p), ip6 |-> RawIpv6(p),
    v4 |-> [kind \in Transports |-> RawIpv4L4(p, RawIpv4(p), kind)],
    v6 |-> [kind \in Transports |-> RawIpv6L4(p, RawIpv6(p), kind)] ]

RawL4(h, kind) == IF Found(h.v4[kind]) THEN h.v4[kind] ELSE h.v6[kind]

\* rawOuterTransportTarget: over IPv6 the program is told a network header of
\* forty bytes, whatever extension headers there are.
RawIpv6TransportFix(h, l4) == Hw(h.ip6, 40, l4)
RawTransportFix(h, kind, l4) ==
  IF Found(h.v4[kind]) THEN Hw(h.ip4, Ipv4HeaderLength(h.bytes, h.ip4), l4)
  ELSE RawIpv6TransportFix(h, l4)

RawUdp(h)  == RawL4(h, "udp")
RawTcp(h)  == RawL4(h, "tcp")
RawSctp(h) == RawL4(h, "sctp")
RawIcmpv6Flagged(h, flags) ==
  IF \E flag \in flags : Flag(h.bytes, h.v6["icmp6"], flag) THEN h.v6["icmp6"] ELSE None

\* The first option of a kind; the block of a SACK option in the first that
\* has so many.
RawTcpOption(h, kind) == FirstOption(h.bytes, RawTcp(h), { kind })
RawSackBlock(h, n) ==
  IF ~ Found(RawTcp(h)) THEN None
  ELSE First({ o \in Options(h.bytes, RawTcp(h)) :
                 At(h.bytes, o) = "sack" /\ h.bytes[o].bytes >= 2 + 8*n })

-----------------------------------------------------------------------------
(***************************************************************************)
(* Options and extension headers of the outermost IP header.               *)
(***************************************************************************)

RawIpv4RouterAlert(h) == FirstOption(h.bytes, h.ip4, { "ip4alert" })
RawIpv4OptionType(h)  == FirstOption(h.bytes, h.ip4, { "ip4opt", "ip4alert" })

RECURSIVE Extensions(_, _, _)
\* The extension headers from an offset, at most `left' of them.
Extensions(p, o, left) ==
  IF left = 0 \/ At(p, o) \notin Extension THEN {}
  ELSE {o} \cup Extensions(p, After(p, o), left - 1)

RawExtensions(h) ==
  IF Found(h.ip6) THEN Extensions(h.bytes, h.ip6 + 40, MaxExtensions) ELSE {}

RawIpv6ExtensionHeader(h, kind) == First({ o \in RawExtensions(h) : At(h.bytes, o) = kind })

\* Options of any extension header that has some.
RawIpv6ExtensionOption(h, kinds) ==
  First(UNION { { o \in Options(h.bytes, x) : At(h.bytes, o) \in kinds } : x \in RawExtensions(h) })
=============================================================================
