---------------------------- MODULE TunnelTargets ----------------------------
(***************************************************************************)
(* The templates for what a tunnel carries: the VXLAN, GRE and GTP-U       *)
(* families of advancedVmModel.ts, and their targets in the bytes of a     *)
(* packet (rawPacketModel.ts).  The code has a function per field and      *)
(* tunnel; what they do with the IP header inside is the same for all      *)
(* three but for where that header is, and is stated once.                 *)
(***************************************************************************)
EXTENDS TemplateTargets

-----------------------------------------------------------------------------
(***************************************************************************)
(* What is behind an inner IP header.                                      *)
(***************************************************************************)

InnerLength(p, ip) == IF At(p, ip) = "ip4" THEN Ipv4HeaderLength(p, ip) ELSE 40

\* A transport directly behind the header, found in the bytes.
InnerL4(p, ip, kind) ==
  IF At(p, ip) \in Ip /\ At(p, ip + InnerLength(p, ip)) = kind THEN ip + InnerLength(p, ip) ELSE None
InnerFix(p, ip, l4) == Hw(ip, InnerLength(p, ip), l4)
HeaderAt(p, ip, kind) == IF At(p, ip) = kind THEN ip ELSE None

RawIpv4InnerWrites(p, ip, within, ttlFix) ==
  LET header == HeaderAt(p, ip, "ip4") IN
  WritesOf(Layer(within, "ip4", 0), Raw(header, RawIpv4Fix(p, ip)), Ipv4Addresses \cup Ipv4Numbers)
    \cup WritesOf(Layer(within, "ip4", 0), Raw(header, ttlFix), Ipv4Ttl)

\* The addresses of IPv6 are offered with a transport that covers them only.
RawIpv6InnerWrites(p, ip, within) ==
  LET header == HeaderAt(p, ip, "ip6")
      Covered6(kind, l4) ==
        WritesOf(Layer(within, "ip6", 0),
                 When(Found(header) /\ Found(InnerL4(p, ip, kind)), Target(ip, InnerFix(p, ip, l4))),
                 Ipv6Addresses)
  IN  Covered6("udp", UdpType) \cup Covered6("tcp", TcpType)
        \cup WritesOf(Layer(within, "ip6", 0), Raw(header, NoFix), Ipv6HopLimit \cup Ipv6Labels)

RawTransportInnerWrites(p, ip, within) ==
  WritesOf(Layer(within, "udp", 0), Raw(InnerL4(p, ip, "udp"), InnerFix(p, ip, UdpType)), Ports)
    \cup WritesOf(Layer(within, "tcp", 0), Raw(InnerL4(p, ip, "tcp"), InnerFix(p, ip, TcpType)), Ports)

RawInnerWrites(p, ip, within, ttlFix) ==
  RawIpv4InnerWrites(p, ip, within, ttlFix) \cup RawIpv6InnerWrites(p, ip, within)
    \cup RawTransportInnerWrites(p, ip, within)

\* The same for a tunnel that is edited field by field: always UDP.
BuiltInnerWrites(offered, ip, version, within) ==
  LET length == IF version = 4 THEN 20 ELSE 40
      fix    == Hw(ip, length, UdpType)
      Header(kind, of, target, table) ==
        WritesOf(Layer(within, kind, 0), When(offered /\ version = of, target), table)
  IN  Header("ip4", 4, Target(ip, fix), Ipv4Addresses \cup Ipv4Ttl)
        \cup Header("ip6", 6, Target(ip, fix), Ipv6Addresses)
        \cup Header("ip6", 6, Target(ip, NoFix), Ipv6HopLimit)
        \cup WritesOf(Layer(within, "udp", 0), When(offered, Target(ip + length, fix)), Ports)

-----------------------------------------------------------------------------
(***************************************************************************)
(* VXLAN.                                                                  *)
(***************************************************************************)

RawVxlan(c) == RawUdpPayload(c, "vxlan")
IsVxlan(c) == Is(c, "IPv4", "UDP") /\ c.stream.app = "vxlan"

\* The frame inside, and what is behind its tags.
VxlanFrame(c) ==
  IF Found(RawVxlan(c)) /\ At(c.bytes, RawVxlan(c) + 8) = "eth" THEN RawVxlan(c) + 8 ELSE None
VxlanL3(c) ==
  IF Found(VxlanFrame(c)) THEN Skip(c.bytes, VxlanFrame(c) + 14, "vlan", MaxTags) ELSE None
VxlanTag(c, n) ==
  IF Found(VxlanFrame(c)) /\ \A i \in 1..n : At(c.bytes, VxlanFrame(c) + 14 + 4*(i - 1)) = "vlan"
  THEN VxlanFrame(c) + 14 + 4*(n - 1) ELSE None
VxlanArp(c) ==
  IF At(c.bytes, VxlanL3(c)) = "arp" /\ ~ Flag(c.bytes, VxlanL3(c), "foreign") THEN VxlanL3(c) ELSE None

VxlanHeaderWrites(c) ==
  WritesOf(Layer("", "vxlan", 0),
           Either(Raw(RawVxlan(c), NoFix),
                  When(IsVxlan(c), Target(outerUdpPayloadOffset(c.stream), NoFix))),
           { <<"flags", 0, 1>>, <<"vni", 4, 3>> })

VxlanFrameWrites(c) ==
  LET within == "VXLAN Inner" IN
  WritesOf(Layer(within, "eth", 0),
           Either(Raw(VxlanFrame(c), NoFix),
                  When(IsVxlan(c), Target(vxlanInnerOffset(c.stream), NoFix))),
           MacFields \cup { <<"type", 12, 2>> })
    \cup UNION { WritesOf(Layer(within, "vlan", n), Raw(VxlanTag(c, n), NoFix), TagFields) : n \in 1..2 }
    \cup WritesOf(Layer(within, "arp", 0), Raw(VxlanArp(c), NoFix), ArpFields)

VxlanInnerWrites(c) ==
  LET within == "VXLAN Inner" IN
  RawInnerWrites(c.bytes, VxlanL3(c), within, RawIpv4Fix(c.bytes, VxlanL3(c)))
    \cup BuiltInnerWrites(IsVxlan(c), vxlanInnerOffset(c.stream) + 14, c.stream.inner, within)

VxlanWrites(c) == VxlanHeaderWrites(c) \cup VxlanFrameWrites(c) \cup VxlanInnerWrites(c)

-----------------------------------------------------------------------------
(***************************************************************************)
(* GTP-U.                                                                  *)
(***************************************************************************)

RawGtpu(c) == IF Flag(c.bytes, RawUdpPayload(c, "gtpu"), "prime") THEN None ELSE RawUdpPayload(c, "gtpu")
IsGtpu(c) == Is(c, "IPv4", "UDP") /\ c.stream.app = "gtpu"

\* The optional word, and the last of the extension headers with a UDP port.
GtpuPart(c, kind) ==
  IF ~ Found(RawGtpu(c)) THEN {}
  ELSE { o \in Options(c.bytes, RawGtpu(c)) : At(c.bytes, o) = kind }
RawGtpuWord(c) == First(GtpuPart(c, "gtpword"))
RawGtpuPort(c) ==
  IF GtpuPart(c, "gtpudp") = {} THEN None
  ELSE CHOOSE o \in GtpuPart(c, "gtpudp") : \A other \in GtpuPart(c, "gtpudp") : other <= o

\* The program of the header's own fields has the IP header repaired, or the
\* transport as well where the bytes are there to tell.
gtpuTeidOffset(c) == workbenchOuterL2HeaderLength(c.stream) + 32
GtpuHeaderWrites(c) ==
  LET Word(switch, table) ==
        WritesOf(Layer("", "gtpword", 0),
                 Either(Raw(RawGtpuWord(c), NoFix),
                        When(IsGtpu(c) /\ On(c, switch), Target(gtpuTeidOffset(c) + 4, NoFix))),
                 table)
  IN  WritesOf(Layer("", "gtpu", 0),
               Either(Raw(RawGtpu(c), RawUdpFix(c)),
                      When(IsGtpu(c), Target(gtpuTeidOffset(c) - 4,
                                             Hw(workbenchOuterL2HeaderLength(c.stream), 20, IpType)))),
               { <<"message", 1, 1>>, <<"teid", 4, 4>> })
        \cup Word("seq", { <<"seq", 0, 2>> })
        \cup Word("npdu", { <<"npdu", 2, 1>> })
        \cup WritesOf(Layer("", "gtpudp", 0),
                      Either(Raw(RawGtpuPort(c), NoFix),
                             When(IsGtpu(c) /\ On(c, "ext"),
                                  Target(gtpuTeidOffset(c) + 4 + gtpuOptionalHeaderLength(c.stream), NoFix))),
                      { <<"port", 1, 2>> })

GtpuInnerWrites(c) ==
  LET within == "GTP-U Inner"
      ip     == IF Found(RawGtpu(c)) THEN GtpuPayload(c.bytes, RawGtpu(c)) ELSE None
  IN  RawInnerWrites(c.bytes, ip, within, RawIpv4Fix(c.bytes, ip))
        \cup BuiltInnerWrites(IsGtpu(c), gtpuInnerOffset(c.stream), c.stream.inner, within)

GtpuWrites(c) == GtpuHeaderWrites(c) \cup GtpuInnerWrites(c)

-----------------------------------------------------------------------------
(***************************************************************************)
(* GRE.  No template writes into what a GRE checksum covers: no fixup       *)
(* repairs that one.                                                       *)
(***************************************************************************)

\* rawOuterGreTarget, of a header without a checksum word.
RawGre(c) ==
  LET gre == RawL4(c, "gre") IN
  IF Found(GrePayload(c.bytes, gre)) /\ At(c.bytes, gre + 4) # "grecsum" THEN gre ELSE None
IsGre(c) == Is(c, "IPv4", "GRE") /\ ~ Tunnelled(c) /\ ~ On(c, "grecsum")

\* greOptionOffset.
GreWordOffset(c, word) ==
  outerIpv4Offset(c.stream) + 24
    + (IF On(c, "grecsum") THEN 4 ELSE 0)
    + (IF word = "greseq" /\ On(c, "grekey") THEN 4 ELSE 0)

\* The switch of a word counts for a packet with bytes too.
GreWordTarget(c, word) ==
  Either(Raw(FirstOption(c.bytes, RawGre(c), { word }), NoFix),
         When((Found(RawGre(c)) \/ IsGre(c)) /\ On(c, word), Target(GreWordOffset(c, word), NoFix)))

GreHeaderWrites(c) ==
  WritesOf(Layer("", "gre", 0),
           Either(Raw(RawGre(c), NoFix), When(IsGre(c), Target(outerL4Offset(c.stream), NoFix))),
           { <<"protocol", 2, 2>> })
    \cup WritesOf(Layer("", "grekey", 0), GreWordTarget(c, "grekey"), { <<"key", 0, 4>> })
    \cup WritesOf(Layer("", "greseq", 0), GreWordTarget(c, "greseq"), { <<"seq", 0, 4>> })

\* The time to live is written with TCP's checksum left alone, which does not
\* cover it.
GreTtlFix(p, ip) ==
  IF At(p, ip + InnerLength(p, ip)) = "tcp" THEN FixIpv4(ip) ELSE RawIpv4Fix(p, ip)
GreInnerWrites(c) ==
  LET ip == IF Found(RawGre(c)) THEN GrePayload(c.bytes, RawGre(c)) ELSE None
  IN  RawInnerWrites(c.bytes, ip, "Inner", GreTtlFix(c.bytes, ip))
        \cup BuiltInnerWrites(IsGre(c), greInnerIpv4Offset(c.stream), c.stream.inner, "Inner")

GreWrites(c) == GreHeaderWrites(c) \cup GreInnerWrites(c)

-----------------------------------------------------------------------------
(***************************************************************************)
(* Everything that is offered for a candidate.                             *)
(***************************************************************************)

Writes(c) == OuterWrites(c) \cup VxlanWrites(c) \cup GtpuWrites(c) \cup GreWrites(c)
=============================================================================
