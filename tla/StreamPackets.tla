---------------------------- MODULE StreamPackets ----------------------------
(***************************************************************************)
(* The packet the server builds for a stream that is edited field by field *)
(* (workbench_packet_build.py), and the offsets at which the web client    *)
(* expects the headers of that packet without having seen it               *)
(* (packetLayoutModel.ts and the offset functions beside the templates).   *)
(* The two are written in two languages and know nothing of each other.    *)
(*                                                                         *)
(* A stream is the switches of it that decide the layout: the network and  *)
(* transport protocols, how many VLAN tags and MPLS labels, what its UDP   *)
(* payload or its ICMPv6 message is, the IP version inside a tunnel, and   *)
(* the options that are on.                                                *)
(***************************************************************************)
EXTENDS RawTargets

Stream(l3, l4, app, inner, with, vlan, mpls) ==
  [ l3 |-> l3, l4 |-> l4, app |-> app, inner |-> inner, with |-> with,
    vlan |-> vlan, mpls |-> mpls ]

Tunnels == { "vxlan", "gtpu" }

-----------------------------------------------------------------------------
(***************************************************************************)
(* The packet of a stream.                                                 *)
(***************************************************************************)

Plain(kind, bytes) == << Part(kind, bytes, {}) >>
If(condition, parts) == IF condition THEN parts ELSE << >>

TagParts(s)   == [n \in 1..s.vlan |-> Part("vlan", 4, {})]
LabelParts(s) == [n \in 1..s.mpls |-> Part("mpls", 4, {})]
EthernetParts(s) == Plain("eth", 14) \o TagParts(s) \o LabelParts(s)

IpPart(version) == IF version = 4 THEN Plain("ip4", 20) ELSE Plain("ip6", 40)

\* UDP over IPv4 is built without a checksum, over IPv6 with one.
UdpPart(version) == << Part("udp", 8, IF version = 4 THEN { "unsummed" } ELSE {}) >>

\* What every tunnel carries: an IP header, UDP and payload.
InnerParts(s) == IpPart(s.inner) \o UdpPart(s.inner) \o Plain("data", 4)

VxlanParts(s) == Plain("vxlan", 8) \o Plain("eth", 14) \o InnerParts(s)

\* The optional word is there as soon as one of its fields is on.
GtpuParts(s) ==
  Plain("gtpu", 8)
    \o If(s.with \cap { "seq", "npdu", "ext" } # {}, Plain("gtpword", 4))
    \o If("ext" \in s.with, Plain("gtpudp", 4))
    \o InnerParts(s)

GreParts(s) ==
  Plain("gre", 4)
    \o If("grecsum" \in s.with, Plain("grecsum", 4))
    \o If("grekey" \in s.with, Plain("grekey", 4))
    \o If("greseq" \in s.with, Plain("greseq", 4))
    \o InnerParts(s)

\* A query name of eleven bytes; an answer refers to it in two.
DnsParts(s) == Plain("dns", 12) \o Plain("question", 15) \o If("answer" \in s.with, Plain("answer", 16))

DhcpOption(field, bytes) == << Part("dhcpopt", 2 + bytes, { field }) >>
DhcpParts(s) ==
  Plain("dhcp", 240)
    \o DhcpOption("message", 1)
    \o If("params" \in s.with, DhcpOption("params", 3))
    \o If("hostname" \in s.with, DhcpOption("hostname", 5))
    \o If("requested" \in s.with, DhcpOption("requested", 4))
    \o If("server" \in s.with, DhcpOption("server", 4))
    \o If("lease" \in s.with, DhcpOption("lease", 4))
    \o If("renewal" \in s.with, DhcpOption("renewal", 4))
    \o If("rebinding" \in s.with, DhcpOption("rebinding", 4))
    \o Plain("data", 1)

UdpPayload(s) ==
  CASE s.app = "dns"  -> DnsParts(s)
    [] s.app = "dhcp" -> DhcpParts(s)
    [] s.app = "vxlan" -> VxlanParts(s)
    [] s.app = "gtpu" -> GtpuParts(s)
    [] OTHER -> Plain("data", 18)

RECURSIVE Nops(_)
Nops(n) == IF n = 0 THEN << >> ELSE Plain("nop", 1) \o Nops(n - 1)

\* TCP options in a fixed order, padded to four bytes.
TcpParts(s) ==
  LET options ==
        If("mss" \in s.with, Plain("mss", 4))
          \o If("sackok" \in s.with, Plain("sackok", 2))
          \o If("sack" \in s.with, Plain("sack", 10))
          \o If("stamp" \in s.with, Nops(2) \o Plain("stamp", 10))
          \o If("scale" \in s.with, Nops(1) \o Plain("scale", 3))
  IN  Plain("tcp", 20) \o options \o Nops((4 - (Bytes(options) % 4)) % 4) \o Plain("data", 6)

SctpParts == Plain("sctp", 12) \o << Part("chunk", 16, { "data" }) >> \o Plain("data", 6)

Icmpv6Bytes == [ echo |-> 8, rs |-> 8, ra |-> 16, ns |-> 24, na |-> 24 ]
Icmpv6Parts(s) ==
  << Part("icmp6", Icmpv6Bytes[s.app], { s.app }) >>
    \o If("link" \in s.with, Plain("ndlink", 8))
    \o If("prefix" \in s.with, Plain("ndprefix", 32))
    \o Plain("data", 4)

L4Parts(s, version) ==
  CASE s.l4 = "UDP"    -> UdpPart(version) \o UdpPayload(s)
    [] s.l4 = "TCP"    -> TcpParts(s)
    [] s.l4 = "SCTP"   -> SctpParts
    [] s.l4 = "ICMP"   -> << Part("icmp4", 8, { "echo" }) >> \o Plain("data", 18)
    [] s.l4 = "ICMPv6" -> Icmpv6Parts(s)
    [] s.l4 = "GRE"    -> GreParts(s)
    [] OTHER           -> Plain("data", 26)

\* _build_profile_packet without bytes of its own.
BuiltPacket(s) ==
  Packet(EthernetParts(s)
           \o CASE s.l3 = "ARP"  -> Plain("arp", 28) \o Plain("data", 18)
                [] s.l3 = "IPv4" -> IpPart(4) \o L4Parts(s, 4)
                [] s.l3 = "IPv6" -> IpPart(6) \o L4Parts(s, 6)
                [] OTHER         -> Plain("data", 46), 0)

-----------------------------------------------------------------------------
(***************************************************************************)
(* Where the client expects the headers.                                   *)
(***************************************************************************)

workbenchOuterL2HeaderLength(s) == 14 + 4*s.vlan + 4*s.mpls
outerMplsOffset(s) == 14 + 4*s.vlan
outerIpv4Offset(s) == workbenchOuterL2HeaderLength(s)
outerIpv6Offset(s) == workbenchOuterL2HeaderLength(s)
outerL4Offset(s) == outerIpv4Offset(s) + 20
outerIpv6L4Offset(s) == outerIpv6Offset(s) + 40
outerSctpOffset(s) == IF s.l3 = "IPv6" /\ s.l4 = "SCTP" THEN outerIpv6L4Offset(s) ELSE outerL4Offset(s)
outerTcpOffset(s) == IF s.l3 = "IPv6" /\ s.l4 = "TCP" THEN outerIpv6L4Offset(s) ELSE outerL4Offset(s)
outerUdpPayloadOffset(s) == (IF s.l3 = "IPv6" THEN outerIpv6L4Offset(s) ELSE outerL4Offset(s)) + 8

\* The fixups that go with them.
outerIpv6ChecksumInstruction(s, l4) == Hw(outerIpv6Offset(s), 40, l4)
outerIpv4TransportFix(s, l4) == Hw(outerIpv4Offset(s), 20, l4)
outerUdpChecksumInstruction(s) ==
  IF s.l3 = "IPv6" THEN outerIpv6ChecksumInstruction(s, UdpType) ELSE outerIpv4TransportFix(s, UdpType)
outerTcpChecksumInstruction(s) ==
  IF s.l3 = "IPv6" /\ s.l4 = "TCP" THEN outerIpv6ChecksumInstruction(s, TcpType)
  ELSE outerIpv4TransportFix(s, TcpType)
outerIpv4ChecksumRepairInstruction(s) ==
  CASE s.l3 = "IPv4" /\ s.l4 = "UDP" -> outerIpv4TransportFix(s, UdpType)
    [] s.l3 = "IPv4" /\ s.l4 = "TCP" -> outerIpv4TransportFix(s, TcpType)
    [] OTHER -> FixIpv4(outerIpv4Offset(s))

\* The bytes of a TCP option's value behind the fixed header, from the
\* switches of the options in front of it.
TcpOptionSizes == << <<"mss", 4>>, <<"sackok", 2>>, <<"sack", 10>>, <<"stamp", 12>>, <<"scale", 4>> >>
TcpOptionValue == [ mss |-> 2, sack |-> 2, stamp |-> 4, scale |-> 3 ]

\* Mutant: the options in front are counted without their padding.
tcpOptionValueOffsetUnpadded(s, option) ==
  LET place == CHOOSE n \in 1..5 : TcpOptionSizes[n][1] = option
      before == { n \in 1..(place - 1) : TcpOptionSizes[n][1] \in s.with }
      Size(n) == IF TcpOptionSizes[n][1] = "stamp" THEN 10 ELSE TcpOptionSizes[n][2]
  IN  20 + MapThenSumSet(Size, before) + TcpOptionValue[option]

tcpOptionValueOffset(s, option) ==
  LET place == CHOOSE n \in 1..5 : TcpOptionSizes[n][1] = option
      before == { n \in 1..(place - 1) : TcpOptionSizes[n][1] \in s.with }
  IN  20 + MapThenSumSet(LAMBDA n : TcpOptionSizes[n][2], before) + TcpOptionValue[option]

\* A DHCP option's value in the UDP payload, in the order the options are
\* built in.
DhcpOptionSizes ==
  << <<"message", 3>>, <<"params", 5>>, <<"hostname", 7>>, <<"requested", 6>>, <<"server", 6>>,
     <<"lease", 6>>, <<"renewal", 6>>, <<"rebinding", 6>> >>
dhcpOptionValueOffset(s, option) ==
  LET place == CHOOSE n \in 1..8 : DhcpOptionSizes[n][1] = option
      before == { n \in 1..(place - 1) : DhcpOptionSizes[n][1] \in s.with \cup { "message" } }
  IN  240 + MapThenSumSet(LAMBDA n : DhcpOptionSizes[n][2], before) + 2

\* What the tunnels add in front of their inner headers.
gtpuOptionalHeaderLength(s) == IF s.with \cap { "seq", "npdu", "ext" } # {} THEN 4 ELSE 0
gtpuExtensionHeaderLength(s) == IF "ext" \in s.with THEN 4 ELSE 0
gtpuInnerOffset(s) ==
  workbenchOuterL2HeaderLength(s) + 36 + gtpuOptionalHeaderLength(s) + gtpuExtensionHeaderLength(s)
greOptionLength(s) == 4*Cardinality(s.with \cap { "grecsum", "grekey", "greseq" })
greInnerIpv4Offset(s) == workbenchOuterL2HeaderLength(s) + 24 + greOptionLength(s)
vxlanInnerOffset(s) == workbenchOuterL2HeaderLength(s) + 36
=============================================================================
