--------------------------- MODULE TemplateTargets ---------------------------
(***************************************************************************)
(* Where the field engine templates write into a packet                    *)
(* (advancedVmTemplates.ts and the advancedVm models of its families).     *)
(* A template is offered for a candidate: a stream with the bytes of its   *)
(* packet, which the raw targets are looked up in, or one that is edited   *)
(* field by field, for which the templates compute the offsets.  One       *)
(* operator per family of templates, which is the writes of those of the   *)
(* family that are offered; what is written, how many values and in which  *)
(* order, is left out.  The headers inside a tunnel are in TunnelTargets.  *)
(***************************************************************************)
EXTENDS StreamPackets

\* A stream and its packet.  The stream a raw draft is shown as is of packet
\* type "Ethernet" and keeps the switches of the one it was made from.
Candidate(stream, bytes) == Headers(bytes) @@ [stream |-> stream]
RawDraft(stream, bytes) == Candidate([stream EXCEPT !.l3 = "Ethernet", !.l4 = "none"], bytes)

\* The packet type of the candidate.
Is(c, l3, l4) == c.stream.l3 = l3 /\ c.stream.l4 = l4
On(c, switch) == switch \in c.stream.with
Tunnelled(c) == c.stream.app \in Tunnels

\* What a family aims at: an offset and the fixup after the write.
Target(at, fix) == [at |-> at, fix |-> fix]
Absent == Target(None, NoFix)
When(condition, target) == IF condition THEN target ELSE Absent
Raw(at, fix) == When(Found(at), Target(at, fix))
Either(raw, built) == IF Found(raw.at) THEN raw ELSE built

\* The writes at a target, from a table of <<field, offset, bytes>>.
WritesOf(layer, target, table) ==
  IF target.at = None THEN {}
  ELSE { [ layer |-> layer, field |-> entry[1], at |-> target.at + entry[2],
           bytes |-> entry[3], fix |-> target.fix ] : entry \in table }

\* An address is counted up in its last bytes, as many as the values need.
LastBytes(field, offset, width, sizes) ==
  { <<field, offset + width - size, size>> : size \in sizes }
Ipv4Suffixes(field, offset) == LastBytes(field, offset, 4, { 1, 2, 4 })
Ipv6Suffixes(field, offset) == LastBytes(field, offset, 16, { 1, 2, 4, 8 })
MacSuffixes(field, offset)  == LastBytes(field, offset, 6, { 1, 2, 4 })

Ports == { <<"sport", 0, 2>>, <<"dport", 2, 2>> }
Ipv4Addresses == Ipv4Suffixes("src", 12) \cup Ipv4Suffixes("dst", 16)
Ipv6Addresses == Ipv6Suffixes("src", 8) \cup Ipv6Suffixes("dst", 24)
Ipv4Numbers ==
  { <<"id", 4, 2>>, <<"dscp", 1, 1>>, <<"ecn", 1, 1>>, <<"offset", 6, 2>>,
    <<"reserved", 6, 2>>, <<"df", 6, 2>>, <<"mf", 6, 2>> }
Ipv4Ttl == { <<"ttl", 8, 1>> }
Ipv6Labels == { <<"class", 0, 4>>, <<"flow", 0, 4>> }
Ipv6HopLimit == { <<"hops", 7, 1>> }

-----------------------------------------------------------------------------
(***************************************************************************)
(* Layer 2 and ARP.                                                        *)
(***************************************************************************)

MacFields == MacSuffixes("dst", 0) \cup MacSuffixes("src", 6)
MacWrites(c) ==
  WritesOf(Layer("", "eth", 0), Either(Raw(RawMacAddress(c.bytes), NoFix), Target(0, NoFix)), MacFields)

\* A packet with bytes has its EtherType where they say, one without has it
\* as long as no tag and no label takes its place.
EtherTypeWrites(c) ==
  WritesOf(Layer("", "eth", 0),
           When(IF c.bytes # NoBytes THEN Found(RawEtherType(c.bytes))
                ELSE c.stream.vlan = 0 /\ c.stream.mpls = 0,
                Target(0, NoFix)),
           { <<"type", 12, 2>> })

ArpFields ==
  { <<"op", 6, 2>> } \cup MacSuffixes("smac", 8) \cup Ipv4Suffixes("sip", 14)
    \cup MacSuffixes("tmac", 18) \cup Ipv4Suffixes("tip", 24)
ArpTarget(c) ==
  Either(Raw(RawArp(c.bytes), NoFix),
         When(c.stream.l3 = "ARP", Target(workbenchOuterL2HeaderLength(c.stream), NoFix)))
ArpWrites(c) == WritesOf(Layer("", "arp", 0), ArpTarget(c), ArpFields)

TagFields == { <<"id", 0, 2>>, <<"priority", 0, 2>>, <<"cfi", 0, 2>> }
VlanTarget(c, n) ==
  Either(Raw(RawVlanTag(c.bytes, n), NoFix),
         When(c.stream.vlan >= n, Target(14 + 4*(n - 1), NoFix)))
VlanWrites(c) ==
  UNION { WritesOf(Layer("", "vlan", n), VlanTarget(c, n),
                   TagFields) : n \in 1..2 }

\* A label that is counted far enough is written with the bytes before it.
MplsTarget(c, n) ==
  Either(Raw(RawMplsLabel(c.bytes, n), NoFix),
         When(c.stream.mpls >= n, Target(outerMplsOffset(c.stream) + 4*(n - 1), NoFix)))
MplsWrites(c) ==
  UNION { WritesOf(Layer("", "mpls", n), MplsTarget(c, n),
                   { <<"label", 0, 4>>, <<"class", 0, 4>>, <<"ttl", 3, 1>> }) : n \in 1..3 }

-----------------------------------------------------------------------------
(***************************************************************************)
(* The outermost IP header.                                                *)
(***************************************************************************)

\* Mutant: a header without options, whatever its length says.
RawIpv4FixOfTwenty(p, ip) ==
  CASE At(p, ip + Ipv4HeaderLength(p, ip)) = "udp" -> Hw(ip, 20, UdpType)
    [] At(p, ip + Ipv4HeaderLength(p, ip)) = "tcp" -> Hw(ip, 20, TcpType)
    [] OTHER -> FixIpv4(ip)

\* rawIpv4ChecksumRepairInstruction.
RawIpv4Fix(p, ip) ==
  LET length == Ipv4HeaderLength(p, ip) IN
  CASE At(p, ip + length) = "udp" -> Hw(ip, length, UdpType)
    [] At(p, ip + length) = "tcp" -> Hw(ip, length, TcpType)
    [] OTHER -> FixIpv4(ip)

OuterIpv4Target(c) ==
  Either(Raw(c.ip4, RawIpv4Fix(c.bytes, c.ip4)),
         When(c.stream.l3 = "IPv4" /\ ~ Tunnelled(c),
              Target(outerIpv4Offset(c.stream), outerIpv4ChecksumRepairInstruction(c.stream))))

OuterIpv4Writes(c) ==
  WritesOf(Layer("", "ip4", 0), OuterIpv4Target(c), Ipv4Addresses \cup Ipv4Numbers \cup Ipv4Ttl)

\* Options, in bytes only.
KindOf(c, o) == IF Found(o) THEN At(c.bytes, o) ELSE "none"
Ipv4RouterAlertWrites(c) ==
  WritesOf(Layer("", "ip4alert", 0),
           Raw(RawIpv4RouterAlert(c), FixIpv4(c.ip4)), { <<"alert", 2, 2>> })
Ipv4OptionTypeWrites(c) ==
  LET option == RawIpv4OptionType(c) IN
  WritesOf(Layer("", KindOf(c, option), 0),
           Raw(option, FixIpv4(c.ip4)), { <<"kind", 0, 1>> })

\* rawOuterIpv6ChecksumRepairInstruction.
RawIpv6Fix(c) ==
  CASE Found(c.v6["udp"])   -> RawIpv6TransportFix(c, UdpType)
    [] Found(c.v6["tcp"])   -> RawIpv6TransportFix(c, TcpType)
    [] Found(c.v6["icmp6"]) -> FixIcmpv6(c.ip6, 40)
    [] OTHER -> NoFix

OuterIpv6Target(c, rawFix) ==
  Either(Raw(c.ip6, rawFix),
         When(c.stream.l3 = "IPv6", Target(outerIpv6Offset(c.stream), NoFix)))

OuterIpv6Writes(c) ==
  WritesOf(Layer("", "ip6", 0), OuterIpv6Target(c, RawIpv6Fix(c)), Ipv6Addresses)
    \cup WritesOf(Layer("", "ip6", 0), OuterIpv6Target(c, NoFix), Ipv6Labels \cup Ipv6HopLimit)

\* Extension headers and their options, in bytes only and without a fixup.
ExtensionOptionWrites(c) ==
  LET Option(kinds, table) ==
        LET option == RawIpv6ExtensionOption(c, kinds) IN
        WritesOf(Layer("", KindOf(c, option), 0), Raw(option, NoFix), table)
  IN  Option({ "ip6alert" }, { <<"alert", 2, 2>> })
        \cup Option({ "ip6jumbo" }, { <<"jumbo", 2, 4>> })
        \cup Option({ "ip6opt", "ip6alert", "ip6jumbo" }, { <<"kind", 0, 1>> })
ExtensionHeaderWrites(c) ==
  LET Header(kind, table) ==
        WritesOf(Layer("", kind, 0), Raw(RawIpv6ExtensionHeader(c, kind), NoFix), table)
  IN  Header("routing", { <<"type", 2, 1>>, <<"left", 3, 1>> })
        \cup Header("fragment", { <<"id", 4, 4>>, <<"offset", 2, 2>>, <<"bits", 2, 2>>, <<"more", 2, 2>> })
        \cup Header("auth", { <<"spi", 4, 4>>, <<"seq", 8, 4>> })
ExtensionWrites(c) == ExtensionOptionWrites(c) \cup ExtensionHeaderWrites(c)

-----------------------------------------------------------------------------
(***************************************************************************)
(* Its transport.                                                          *)
(***************************************************************************)

Ipv4UdpTarget(c) ==
  Either(Raw(c.v4["udp"], RawTransportFix(c, "udp", UdpType)),
         When(c.bytes = NoBytes /\ Is(c, "IPv4", "UDP") /\ ~ Tunnelled(c),
              Target(outerL4Offset(c.stream), outerIpv4TransportFix(c.stream, UdpType))))
Ipv6UdpTarget(c) ==
  Either(Raw(c.v6["udp"], RawIpv6TransportFix(c, UdpType)),
         When(c.bytes = NoBytes /\ Is(c, "IPv6", "UDP"),
              Target(outerIpv6L4Offset(c.stream), outerIpv6ChecksumInstruction(c.stream, UdpType))))
Ipv4TcpTarget(c) ==
  Either(Raw(c.v4["tcp"], RawTransportFix(c, "tcp", TcpType)),
         When(c.bytes = NoBytes /\ Is(c, "IPv4", "TCP") /\ ~ Tunnelled(c),
              Target(outerL4Offset(c.stream), outerIpv4TransportFix(c.stream, TcpType))))
Ipv6TcpTarget(c) ==
  Either(Raw(c.v6["tcp"], RawIpv6TransportFix(c, TcpType)),
         When(c.bytes = NoBytes /\ Is(c, "IPv6", "TCP"),
              Target(outerIpv6L4Offset(c.stream), outerIpv6ChecksumInstruction(c.stream, TcpType))))

\* The ports, and the five-tuple: the addresses in front of them as well, with
\* the fixup of the transport.
PortWrites(kind, transport) == WritesOf(Layer("", kind, 0), transport, Ports)
Ipv4FiveTuple(c, kind, transport) ==
  PortWrites(kind, transport)
    \cup WritesOf(Layer("", "ip4", 0),
                  When(Found(transport.at),
                       Target(IF c.bytes # NoBytes THEN c.ip4 ELSE outerIpv4Offset(c.stream),
                              transport.fix)),
                  Ipv4Addresses)
Ipv6FiveTuple(c, kind, transport) ==
  PortWrites(kind, transport)
    \cup WritesOf(Layer("", "ip6", 0),
                  When(Found(transport.at),
                       Target(IF c.bytes # NoBytes THEN c.ip6 ELSE outerIpv6Offset(c.stream),
                              transport.fix)),
                  Ipv6Addresses)
OuterIpv4TransportWrites(c) ==
  Ipv4FiveTuple(c, "udp", Ipv4UdpTarget(c)) \cup Ipv4FiveTuple(c, "tcp", Ipv4TcpTarget(c))
OuterIpv6TransportWrites(c) ==
  Ipv6FiveTuple(c, "udp", Ipv6UdpTarget(c)) \cup Ipv6FiveTuple(c, "tcp", Ipv6TcpTarget(c))

\* The length of UDP is written with a fixup, its checksum of course without.
UdpTarget(c) == Either(Ipv4UdpTarget(c), Ipv6UdpTarget(c))
UdpHeaderWrites(c) ==
  WritesOf(Layer("", "udp", 0), UdpTarget(c), { <<"length", 4, 2>> })
    \cup WritesOf(Layer("", "udp", 0), Target(UdpTarget(c).at, NoFix), { <<"checksum", 6, 2>> })

TcpTarget(c) == Either(Ipv4TcpTarget(c), Ipv6TcpTarget(c))
TcpNumbers == { <<"seq", 4, 4>>, <<"ack", 8, 4>>, <<"window", 14, 2>>, <<"urgent", 18, 2>> }
TcpFlags == { <<"flags", 13, 1>>, <<"reserved", 12, 1>> }
TcpHeaderWrites(c) ==
  WritesOf(Layer("", "tcp", 0), TcpTarget(c), TcpNumbers \cup TcpFlags)
    \cup WritesOf(Layer("", "tcp", 0), Target(TcpTarget(c).at, NoFix), { <<"checksum", 16, 2>> })

\* The value of a TCP option: where the bytes have it, or behind the header
\* of a TCP stream with the switch of the option.
TcpOptionTarget(c, kind, raw) ==
  Either(Raw(raw, RawTransportFix(c, "tcp", TcpType)),
         When(Found(TcpTarget(c).at) /\ On(c, kind),
              Target(outerTcpOffset(c.stream) + tcpOptionValueOffset(c.stream, kind) - 2,
                     outerTcpChecksumInstruction(c.stream))))
TcpOptionWrites(c, kind, table) ==
  WritesOf(Layer("", kind, 0), TcpOptionTarget(c, kind, RawTcpOption(c, kind)), table)

\* The edges of a SACK block; further blocks are in bytes only.
SackWrites(c) ==
  WritesOf(Layer("", "sack", 0), TcpOptionTarget(c, "sack", RawSackBlock(c, 1)), SackEdges(1))
    \cup UNION { WritesOf(Layer("", "sack", 0),
                          Raw(RawSackBlock(c, n), RawTransportFix(c, "tcp", TcpType)),
                          SackEdges(n)) : n \in 2..4 }
TcpOptionsWrites(c) ==
  TcpOptionWrites(c, "mss", { <<"mss", 2, 2>> })
    \cup TcpOptionWrites(c, "scale", { <<"scale", 2, 1>> })
    \cup TcpOptionWrites(c, "stamp", { <<"value", 2, 4>>, <<"echo", 6, 4>> })
    \cup SackWrites(c)

SctpTarget(c) ==
  Either(Raw(RawSctp(c), NoFix),
         When(c.bytes = NoBytes /\ c.stream.l4 = "SCTP", Target(outerSctpOffset(c.stream), NoFix)))
\* The DATA chunk is the first behind the header.
ChunkFlags == { <<"flags", 13, 1>> }
ChunkNumbers == { <<"tsn", 16, 4>>, <<"stream", 20, 2>>, <<"order", 22, 2>>, <<"ppid", 24, 4>> }
SctpWrites(c) ==
  WritesOf(Layer("", "sctp", 0), SctpTarget(c), Ports \cup { <<"tag", 4, 4>> })
    \cup WritesOf(Layer("", "chunk", 0), SctpTarget(c), ChunkFlags \cup ChunkNumbers)

-----------------------------------------------------------------------------
(***************************************************************************)
(* ICMP.                                                                   *)
(***************************************************************************)

RECURSIVE FirstEcho(_, _)
\* The first ICMPv4 echo, whatever carries it, of a packet with that.
FirstEcho(p, ip) ==
  IF At(p, ip) \notin Ip \/ Flag(p, ip, "fragmented") THEN None
  ELSE LET l4 == IF At(p, ip) = "ip4" THEN ip + Ipv4HeaderLength(p, ip) ELSE PastAll(p, ip + 40, MaxExtensions)
       IN  CASE At(p, l4) = "icmp4" /\ Flag(p, l4, "echo") -> l4
             [] At(p, l4) = "gre" -> FirstEcho(p, GrePayload(p, l4))
             [] At(p, l4) = "udp" /\ At(p, l4 + 8) = "vxlan" -> FirstEcho(p, EthernetL3(p, l4 + 16))
             [] At(p, l4) = "udp" /\ At(p, l4 + 8) = "gtpu" -> FirstEcho(p, GtpuPayload(p, l4 + 8))
             [] OTHER -> None

\* Its fields are counted up while its checksum is counted down.
Anywhere == "*"
Icmpv4EchoWrites(c) ==
  WritesOf(Layer(Anywhere, "icmp4", 0), Raw(FirstEcho(c.bytes, EthernetL3(c.bytes, 0)), NoFix),
           { <<"type", 0, 1>>, <<"code", 1, 1>>, <<"id", 4, 2>>, <<"seq", 6, 2>>, <<"checksum", 2, 2>> })

RawIcmpv6Target(c, flags) ==
  Raw(RawIcmpv6Flagged(c, flags), FixIcmpv6(c.ip6, 40))

Icmpv6EchoWrites(c) ==
  WritesOf(Layer("", "icmp6", 0),
           Either(RawIcmpv6Target(c, { "echo" }),
                  When(Is(c, "IPv6", "ICMPv6") /\ c.stream.app = "echo",
                       Target(outerIpv6L4Offset(c.stream), FixIcmpv6(outerIpv6Offset(c.stream), 40)))),
           { <<"type", 0, 1>>, <<"code", 1, 1>>, <<"id", 4, 2>>, <<"seq", 6, 2>> })

\* Neighbour discovery, in bytes only.
NeighbourWrites(c) ==
  WritesOf(Layer("", "icmp6", 0), RawIcmpv6Target(c, { "ns", "na" }), Ipv6Suffixes("target", 8))
    \cup WritesOf(Layer("", "icmp6", 0), RawIcmpv6Target(c, { "na" }), { <<"flags", 4, 4>> })
AdvertisementWrites(c) ==
  WritesOf(Layer("", "icmp6", 0), RawIcmpv6Target(c, { "ra" }),
           { <<"hops", 4, 1>>, <<"flags", 5, 1>>, <<"lifetime", 6, 2>>, <<"reachable", 8, 4>>,
             <<"retrans", 12, 4>> })

\* The first option of a kind behind a message that may have it.
NdOptionTarget(c, flags, kind) ==
  LET header == RawIcmpv6Flagged(c, flags) IN
  Raw(FirstOption(c.bytes, header, { kind }), FixIcmpv6(c.ip6, 40))
LinkAddressWrites(c) ==
  WritesOf(Layer("", "ndlink", 0), NdOptionTarget(c, { "rs", "ra", "ns", "na" }, "ndlink"),
           MacSuffixes("mac", 2))
PrefixWrites(c) ==
  WritesOf(Layer("", "ndprefix", 0), NdOptionTarget(c, { "ra" }, "ndprefix"),
           { <<"plen", 2, 1>>, <<"onlink", 3, 1>>, <<"auto", 3, 1>>, <<"valid", 4, 4>>,
             <<"preferred", 8, 4>> } \cup Ipv6Suffixes("prefix", 16))
Icmpv6Writes(c) ==
  Icmpv6EchoWrites(c) \cup NeighbourWrites(c) \cup AdvertisementWrites(c)
    \cup LinkAddressWrites(c) \cup PrefixWrites(c)

-----------------------------------------------------------------------------
(***************************************************************************)
(* DNS and DHCP over UDP.                                                  *)
(***************************************************************************)

RawUdpPayload(c, kind) ==
  LET udp == RawUdp(c) IN IF Found(udp) /\ At(c.bytes, udp + 8) = kind THEN udp + 8 ELSE None
RawUdpFix(c) == RawTransportFix(c, "udp", UdpType)
PayloadTarget(c, at) == Target(at, outerUdpChecksumInstruction(c.stream))
RawPart(c, kind, part) ==
  Raw(FirstOption(c.bytes, RawUdpPayload(c, kind), { part }), RawUdpFix(c))

IsDns(c) == c.stream.l4 = "UDP" /\ c.stream.app = "dns"
DnsPayload(c) == outerUdpPayloadOffset(c.stream)
QueryName == 11
DnsNumbers ==
  { <<"id", 0, 2>>, <<"qdcount", 4, 2>>, <<"ancount", 6, 2>>, <<"nscount", 8, 2>>, <<"arcount", 10, 2>> }
DnsFlags ==
  { <<flag, 2, 2>> : flag \in { "flags", "qr", "opcode", "aa", "tc", "rd", "ra", "z", "rcode" } }
\* The bytes of a record's name, where the bytes say how long it is.
NameLength(c, record, fixed, built) == IF Found(record) THEN c.bytes[record].bytes - fixed ELSE built
DnsHeaderWrites(c) ==
  WritesOf(Layer("", "dns", 0),
           Either(Raw(RawUdpPayload(c, "dns"), RawUdpFix(c)),
                  When(IsDns(c), PayloadTarget(c, DnsPayload(c)))),
           DnsNumbers \cup DnsFlags)
DnsQuestionWrites(c) ==
  LET name == NameLength(c, RawPart(c, "dns", "question").at, 4, QueryName) IN
  WritesOf(Layer("", "question", 0),
           Either(RawPart(c, "dns", "question"),
                  When(IsDns(c), PayloadTarget(c, DnsPayload(c) + 12))),
           { <<"name", 1, 1>>, <<"type", name, 2>>, <<"class", name + 2, 2>> })
DnsAnswerWrites(c) ==
  LET name == NameLength(c, RawPart(c, "dns", "answer").at, 14, 2) IN
  WritesOf(Layer("", "answer", 0),
           Either(RawPart(c, "dns", "answer"),
                  When(IsDns(c) /\ On(c, "answer"), PayloadTarget(c, DnsPayload(c) + 12 + QueryName + 4))),
           { <<"type", name, 2>>, <<"class", name + 2, 2>>, <<"ttl", name + 4, 4>> }
             \cup Ipv4Suffixes("addr", name + 10))
DnsWrites(c) == DnsHeaderWrites(c) \cup DnsQuestionWrites(c) \cup DnsAnswerWrites(c)

IsDhcp(c) == c.stream.l4 = "UDP" /\ c.stream.app = "dhcp"
DhcpNumbers == { <<"op", 0, 1>>, <<"hops", 3, 1>>, <<"xid", 4, 4>>, <<"secs", 8, 2>>, <<"flags", 10, 2>> }
DhcpAddresses ==
  Ipv4Suffixes("ciaddr", 12) \cup Ipv4Suffixes("yiaddr", 16)
    \cup Ipv4Suffixes("siaddr", 20) \cup Ipv4Suffixes("giaddr", 24) \cup MacSuffixes("chaddr", 28)
DhcpWrites(c) ==
  WritesOf(Layer("", "dhcp", 0),
           Either(Raw(RawUdpPayload(c, "dhcp"), RawUdpFix(c)),
                  When(IsDhcp(c), PayloadTarget(c, outerUdpPayloadOffset(c.stream)))),
           DhcpNumbers \cup DhcpAddresses)

\* The value of an option: of the first of its code in the bytes, if there is
\* a payload to look in at all.
RawDhcpOption(c, option) ==
  IF ~ Found(RawUdpPayload(c, "dhcp")) THEN None
  ELSE First({ o \in Options(c.bytes, RawUdpPayload(c, "dhcp")) : Flag(c.bytes, o, option) })
DhcpOptionTarget(c, option) ==
  Either(Raw(RawDhcpOption(c, option), RawUdpFix(c)),
         When(/\ ~ Found(RawUdpPayload(c, "dhcp"))
              /\ IsDhcp(c) /\ option # "client" /\ option \in c.stream.with \cup { "message" },
              PayloadTarget(c, outerUdpPayloadOffset(c.stream) + dhcpOptionValueOffset(c.stream, option) - 2)))
DhcpOptionFields ==
  { <<option, Ipv4Suffixes(option, 2)>> : option \in { "requested", "server" } }
    \cup { <<option, { <<option, 2, 1>> }>> : option \in { "message", "params", "hostname", "client" } }
    \cup { <<option, { <<option, 2, 4>> }>> : option \in { "lease", "renewal", "rebinding" } }
DhcpOptionsWrites(c) ==
  UNION { WritesOf(Layer("", "dhcpopt", 0), DhcpOptionTarget(c, entry[1]), entry[2]) :
            entry \in DhcpOptionFields }

\* Every write outside the tunnels.
OuterWrites(c) ==
  MacWrites(c) \cup EtherTypeWrites(c) \cup ArpWrites(c) \cup VlanWrites(c) \cup MplsWrites(c)
    \cup OuterIpv4Writes(c) \cup Ipv4RouterAlertWrites(c) \cup Ipv4OptionTypeWrites(c)
    \cup OuterIpv6Writes(c) \cup ExtensionWrites(c)
    \cup OuterIpv4TransportWrites(c) \cup OuterIpv6TransportWrites(c)
    \cup UdpHeaderWrites(c) \cup TcpHeaderWrites(c) \cup TcpOptionsWrites(c) \cup SctpWrites(c)
    \cup Icmpv4EchoWrites(c) \cup Icmpv6Writes(c)
    \cup DnsWrites(c) \cup DhcpWrites(c) \cup DhcpOptionsWrites(c)
=============================================================================
