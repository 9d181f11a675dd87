---------------------------- MODULE StreamPatches ----------------------------
(***************************************************************************)
(* What one edit does to a stream: streamPatchModel.ts turns the action of *)
(* a control into a patch, and the patch is laid over the stream.  Here a  *)
(* patch is written as the stream it leads to; a patch the model refuses   *)
(* (null) leaves the stream alone.                                         *)
(*                                                                         *)
(* An action is a record: the kind of control, the field it stands for and *)
(* the choice made on it.                                                  *)
(***************************************************************************)
EXTENDS StreamFields

----------------------------------------------------------------------------
(* Ways to write a patch.                                                  *)

(* The patch that writes the one field of the action.                      *)
Plain(s, a) ==
  CASE a.kind = "mode" -> [s EXCEPT !.vary = IF a.to = "Varied" THEN @ \cup {a.field} ELSE @ \ {a.field}]
    [] a.kind = "switch" -> IF a.to = "on" THEN TurnOn(s, {a.field}) ELSE TurnOff(s, {a.field})
    [] a.kind = "value" -> s

(* A switch that fixes the fields behind it when it goes off.              *)
Gate(s, a, fields) == IF a.to = "on" THEN TurnOn(s, {a.field}) ELSE Drop(s, {a.field}, fields)

----------------------------------------------------------------------------
(* Layers 2 and 3.                                                         *)

LinkPatch(s, a) == Plain(s, a)
Ipv4Patch(s, a) == Plain(s, a)
Ipv6Patch(s, a) == Plain(s, a)

vlanSelectionPatch(s, enabled) ==
  IF enabled THEN TurnOn(s, {"vlan_enabled"})
  ELSE Drop(s, {"vlan_enabled", "vlan2_enabled"}, VlanModes \cup Vlan2Modes)

VlanPatch(s, a) ==
  CASE a.field = "vlan_enabled" -> vlanSelectionPatch(s, a.to = "on")
    [] a.field = "vlan2_enabled" -> Gate(s, a, Vlan2Modes)
    [] OTHER -> Plain(s, a)

mplsSecondLabelSelectionPatch(s, enabled) ==
  IF enabled THEN TurnOn(s, {"mpls_label2_enabled"})
  ELSE Drop(s, {"mpls_label2_enabled", "mpls_label3_enabled"}, Mpls2Modes \cup Mpls3Modes)

mplsThirdLabelSelectionPatch(s, enabled) ==
  LET second == TurnOn(s, {"mpls_label2_enabled"})
  IN IF enabled THEN TurnOn(second, {"mpls_label3_enabled"})
     ELSE Drop(second, {"mpls_label3_enabled"}, Mpls3Modes)

MplsPatch(s, a) ==
  CASE a.field = "mpls_label2_enabled" -> mplsSecondLabelSelectionPatch(s, a.to = "on")
    [] a.field = "mpls_label3_enabled" -> mplsThirdLabelSelectionPatch(s, a.to = "on")
    [] OTHER -> Plain(s, a)

----------------------------------------------------------------------------
(* The choice of protocols.                                                *)

ForgetPorts(s) == Drop(s, {"l4_src_port_override", "l4_dst_port_override"}, L4PortModes)
ForgetUdp(s) == Drop(s, {"udp_length_override", "udp_checksum_override"}, UdpModes)
ForgetEcho(s) == Drop(s, {"icmp_checksum_override"}, {"icmp_identifier", "icmp_sequence"})
ForgetSctp(s) == Drop(s, {"sctp_checksum_override"}, SctpModes)
ForgetGtpu(s) == Drop([s EXCEPT !.gtpu = "IPv4"], {"gtpu_enabled"} \cup GtpuFlags, GtpuModes)
ForgetVxlan(s) == Drop([s EXCEPT !.vxlan = "IPv4"], {"vxlan_enabled"}, VxlanModes)
ForgetTransport(s) == ForgetVxlan(ForgetGtpu(ForgetEcho(ForgetUdp(ForgetPorts(s)))))

sctpMinimumFrameLength(s) == Frame(s) + IpHeader(s.l3) + 28

(* packetTypeFor: without an IP layer there is no transport.               *)
(* Mutant: the transport stays when the IP layer goes.                     *)
packetTypeKept(s, l3, l4) == [s EXCEPT !.l3 = l3, !.l4 = l4]

packetTypeFor(s, l3, l4) == [s EXCEPT !.l3 = l3, !.l4 = IF l3 \in Versions THEN l4 ELSE "None"]

packetTypePatch(s, l3, l4) ==
  LET t == packetTypeFor(s, l3, l4)
      kept == IF t.l4 = "SCTP" THEN t ELSE ForgetSctp(t)
      patched ==
        CASE t.l3 = "ARP" -> TurnOff(ForgetTransport(kept), {"mpls_enabled", "flow_stats_enabled", "latency_enabled"})
          [] t.l3 = "None" -> TurnOff(ForgetTransport(kept), {"mpls_enabled"})
          [] HasIp(t) /\ t.l4 = "None" -> ForgetTransport(kept)
          [] t.l4 = "ICMP" ->
               LET echo == FixLength([ForgetTransport(kept) EXCEPT !.icmp = "echo"])
               IN IF t.l3 = "IPv6" THEN Fix(echo, Ipv6AddressModes) ELSE echo
          [] t.l4 = "GRE" -> AtLeast(FixLength(ForgetTransport(kept)), 96)
          [] t.l4 = "SCTP" ->
               LET sctp == FixLength(ForgetVxlan(ForgetGtpu(ForgetEcho(ForgetUdp(kept)))))
               IN AtLeast([sctp EXCEPT !.min = Longer(@, sctpMinimumFrameLength(t))], sctpMinimumFrameLength(t))
          [] OTHER -> ForgetEcho(kept)
  IN IF Tunnel(s) /\ ~(t.l3 = "IPv4" /\ t.l4 = "UDP") THEN s ELSE patched

(* The tunnels raise the frame to their default length, and the longest    *)
(* length of a varying frame with it.                                      *)
TunnelLength(s, n) == [AtLeast(s, n) EXCEPT !.max = Longer(@, Longer(s.length, n))]

(* Any tunnel is taken off, with what GTP-U leaves behind; the fields of   *)
(* VXLAN stay as they are.                                                 *)
tunnelDisabledPatch(s) ==
  Drop(s, {"gtpu_enabled", "vxlan_enabled"} \cup GtpuFlags, GtpuModes)

OverTunnel(s) ==
  TurnOn(FixLength(Fix(ForgetUdp([s EXCEPT !.l3 = "IPv4", !.l4 = "UDP"]), L4PortModes)),
         {"l4_src_port_override", "l4_dst_port_override"})

(* Mutant: VXLAN is chosen and GTP-U stays on.                             *)
vxlanBesideGtpu(s) == TunnelLength(OverTunnel(TurnOn(s, {"vxlan_enabled"})), 128)

vxlanSelectionPatch(s) ==
  TunnelLength(OverTunnel(TurnOn(Drop(s, {"gtpu_enabled"} \cup GtpuFlags, GtpuOptionModes), {"vxlan_enabled"})), 128)

gtpuSelectionPatch(s) ==
  TunnelLength(OverTunnel(TurnOn(Drop(s, {"vxlan_enabled", "dns_enabled", "dhcp_enabled"},
                                      DnsQueryModes \cup (DhcpModes \ DhcpTimerModes)),
                                 {"gtpu_enabled"})), 96)

TunnelPatch(s, a) ==
  CASE a.to = "none" -> tunnelDisabledPatch(s)
    [] a.to = "vxlan" -> vxlanSelectionPatch(s)
    [] a.to = "gtpu" -> gtpuSelectionPatch(s)

ProtocolPatch(s, a) ==
  CASE a.kind = "tunnel" -> TunnelPatch(s, a)
    [] a.kind = "l3" -> packetTypePatch(s, a.to, s.l4)
    [] a.kind = "l4" -> packetTypePatch(s, s.l3, a.to)

(* A varying frame is between its shortest and its longest length, five     *)
(* bytes apart at least; its own length is the longest.                    *)
frameLengthTypePatch(s, to) ==
  LET longest == Longer(s.max, s.min + 5)
  IN IF to = "Fixed" THEN FixLength(s)
     ELSE IF SupportsVariableLength(s) THEN [s EXCEPT !.flen = to, !.max = longest, !.length = longest]
     ELSE s

FrameLengthPatch(s, a) ==
  CASE a.kind = "length" -> [s EXCEPT !.length = a.to]
    [] a.kind = "min" -> [s EXCEPT !.min = a.to]
    [] a.kind = "max" -> [s EXCEPT !.max = a.to, !.length = a.to]
    [] a.kind = "type" -> frameLengthTypePatch(s, a.to)

----------------------------------------------------------------------------
(* Layer 4 and what rides on it.                                           *)

(* Mutant: a port that is no longer overridden keeps its mode.             *)
L4PortPatchUngated(s, a) == Plain(s, a)

L4PortPatch(s, a) ==
  CASE a.field = "l4_src_port_override" -> Gate(s, a, {"l4_src_port"})
    [] a.field = "l4_dst_port_override" -> Gate(s, a, {"l4_dst_port"})
    [] OTHER -> Plain(s, a)

UdpPatch(s, a) == IF a.field = "udp_length_override" THEN Gate(s, a, {"udp_length"}) ELSE Plain(s, a)

udpApplicationMinimumFrameLength(s, payload) == Frame(s) + IpHeader(s.l3) + 8 + payload

(* Neither choice looks at the timers of the other: a lease, renewal or    *)
(* rebinding time keeps its mode.                                          *)
dnsSelectionPatch(s, enabled) ==
  IF enabled
  THEN minimumFrameLengthPatch(
         TurnOn(Drop(s, {"dhcp_enabled", "udp_length_override", "udp_checksum_override"},
                     {"udp_length"} \cup (DhcpModes \ DhcpTimerModes)),
                {"dns_enabled", "l4_dst_port_override"}),
         udpApplicationMinimumFrameLength(s, 29))
  ELSE Drop(s, {"dns_enabled", "dns_answer_enabled"}, DnsModes)

dnsAnswerSelectionPatch(s, enabled) ==
  IF enabled
  THEN minimumFrameLengthPatch(Fix(TurnOn(s, {"dns_answer_enabled"}), {"dns_query_type", "dns_query_class"}),
                               udpApplicationMinimumFrameLength(s, 45))
  ELSE Drop(s, {"dns_answer_enabled"}, DnsAnswerModes)

DnsPatch(s, a) ==
  CASE a.field = "dns_enabled" -> dnsSelectionPatch(s, a.to = "on")
    [] a.field = "dns_answer_enabled" -> dnsAnswerSelectionPatch(s, a.to = "on")
    [] OTHER -> Plain(s, a)

dhcpSelectionPatch(s, enabled) ==
  IF enabled
  THEN minimumFrameLengthPatch(
         TurnOn(Drop(s, {"dns_enabled", "dns_answer_enabled", "udp_length_override", "udp_checksum_override"},
                     {"udp_length"} \cup DnsModes),
                {"dhcp_enabled", "l4_src_port_override", "l4_dst_port_override"}),
         udpApplicationMinimumFrameLength(s, 300))
  ELSE Drop(s, {"dhcp_enabled"}, DhcpModes \ DhcpTimerModes)

DhcpPatch(s, a) == IF a.field = "dhcp_enabled" THEN dhcpSelectionPatch(s, a.to = "on") ELSE Plain(s, a)

(* A field of the SCTP header or chunk that varies makes its checksum an   *)
(* override of zeros.                                                      *)
sctpChecksumCoupledModePatch(s, a) ==
  IF a.to = "Fixed" THEN Plain(s, a) ELSE TurnOn(Plain(s, a), {"sctp_checksum_override", "sctp_zero"})

SctpPatch(s, a) ==
  CASE a.kind = "mode" -> sctpChecksumCoupledModePatch(s, a)
    [] a.field = "sctp_checksum" -> TurnOff(s, {"sctp_zero"})
    [] OTHER -> Plain(s, a)

TcpCorePatch(s, a) == Plain(s, a)
tcpOptionSelectionPatch(s, a) == Plain(s, a)
PayloadPatch(s, a) == Plain(s, a)

----------------------------------------------------------------------------
(* ICMP.                                                                   *)

SourceLinkLayer(s, f) == IF IsOn(s, f) THEN 8 ELSE 0

icmpv6ControlMinimumFrameLength(s) ==
  LET body == CASE s.icmp = "rs" -> 8 + SourceLinkLayer(s, "icmpv6_rs_include_slla")
                [] s.icmp = "ra" -> 16 + SourceLinkLayer(s, "icmpv6_ra_include_slla")
                                       + (IF IsOn(s, "icmpv6_ra_include_prefix") THEN 32 ELSE 0)
                [] OTHER -> 24 + SourceLinkLayer(s, "icmpv6_nd_include_option")
  IN Longer(64, Frame(s) + 40 + body)

icmpTypePatch(s, type) ==
  LET t == [s EXCEPT !.icmp = type]
  IN IF Icmpv6Control(t)
     THEN AtLeast(FixLength(Drop(t, {"icmp_checksum_override"}, IcmpModes \cup {"ipv6_hop_limit"})),
                  icmpv6ControlMinimumFrameLength(t))
     ELSE IF Icmpv6Echo(t) THEN t
     ELSE Fix(t, IcmpModes)

icmpChecksumCoupledModePatch(s, a) ==
  IF a.to = "Fixed" THEN Plain(s, a) ELSE TurnOff(Plain(s, a), {"icmp_checksum_override"})

IcmpPatch(s, a) ==
  CASE a.kind = "type" -> icmpTypePatch(s, a.to)
    [] a.kind = "mode" -> icmpChecksumCoupledModePatch(s, a)
    [] OTHER -> Plain(s, a)

(* The options of a router message raise the frame to the length the       *)
(* message then needs; the option of a neighbour message does not.         *)
Icmpv6Patch(s, a) ==
  LET t == Plain(s, a)
  IN IF a.kind = "switch" /\ a.field # "icmpv6_nd_include_option"
     THEN AtLeast(t, icmpv6ControlMinimumFrameLength(t))
     ELSE t

----------------------------------------------------------------------------
(* Tunnels.                                                                *)

vxlanInnerIpVersionPatch(s, version) ==
  TunnelLength(FixLength(Fix([s EXCEPT !.vxlan = version],
                             IF version = "IPv6" THEN VxlanInner4Modes ELSE VxlanInner6Modes)), 128)

VxlanPatch(s, a) == IF a.kind = "version" THEN vxlanInnerIpVersionPatch(s, a.to) ELSE Plain(s, a)

gtpuInnerIpVersionPatch(s, version) ==
  TunnelLength(FixLength(Fix([s EXCEPT !.gtpu = version],
                             IF version = "IPv6" THEN GtpuInner4Modes ELSE GtpuInner6Modes)),
               IF version = "IPv6" THEN 116 ELSE 96)

GtpuPatch(s, a) ==
  CASE a.kind = "version" -> gtpuInnerIpVersionPatch(s, a.to)
    [] a.field = "gtpu_sequence_enabled" -> Gate(s, a, {"gtpu_sequence"})
    [] a.field = "gtpu_npdu_enabled" -> Gate(s, a, {"gtpu_npdu"})
    [] a.field = "gtpu_extension_enabled" -> Gate(s, a, {"gtpu_extension_udp_port"})
    [] OTHER -> Plain(s, a)

(* A GRE field that varies leaves no checksum, and turns on the option it  *)
(* belongs to.                                                             *)
greChecksumInvalidatingModePatch(s, a) ==
  LET t == TurnOff(Plain(s, a), {"gre_checksum_present", "gre_checksum_override"})
  IN CASE a.field = "gre_key" -> TurnOn(t, {"gre_key_present"})
       [] a.field = "gre_sequence" -> TurnOn(t, {"gre_sequence_present"})
       [] OTHER -> t

greOptionPatch(s, a, flags, fields) ==
  AtLeast(IF a.to = "on" THEN TurnOn(s, {a.field}) ELSE Drop(s, flags, fields), IF a.to = "on" THEN 100 ELSE 96)

greInnerIpVersionPatch(s, version) ==
  LET t == [s EXCEPT !.gre = version]
  IN IF version = "IPv6" THEN AtLeast(Fix(TurnOn(t, {"gre_type_ipv6"}), GreInner4Modes), 90)
     ELSE AtLeast(Fix(TurnOff(t, {"gre_type_ipv6"}), GreInner6Modes), 64)

GrePatch(s, a) ==
  CASE a.kind = "version" -> greInnerIpVersionPatch(s, a.to)
    [] a.kind = "mode" -> greChecksumInvalidatingModePatch(s, a)
    [] a.field = "gre_checksum_present" -> greOptionPatch(s, a, {"gre_checksum_present", "gre_checksum_override"}, {})
    [] a.field = "gre_key_present" -> greOptionPatch(s, a, {"gre_key_present"}, {"gre_key"})
    [] a.field = "gre_sequence_present" -> greOptionPatch(s, a, {"gre_sequence_present"}, {"gre_sequence"})
    [] OTHER -> Plain(s, a)

=============================================================================
