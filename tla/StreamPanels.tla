---------------------------- MODULE StreamPanels -----------------------------
(***************************************************************************)
(* What the Stream Builder lets a person do to the selected stream.  For   *)
(* each panel: the actions its controls send (the action constructors of   *)
(* streamPatchModel.ts) and the controls that are on screen and enabled    *)
(* (TrafficProfilesWorkspace.tsx with the view models of model.ts).        *)
(*                                                                         *)
(* The count and step of a varying field, and a value, change nothing the  *)
(* model keeps; one "value" action of a panel stands for them, because     *)
(* every edit of a header discards imported packet bytes.                  *)
(***************************************************************************)
EXTENDS StreamFields

CONSTANTS Varied,   \* the fields whose mode is chosen (a bound of the model)
          Lengths   \* the frame lengths that are typed in (a bound of the model)

ASSUME PanelsAssumption == Varied \subseteq Modes /\ Lengths \subseteq 64 .. 9216

Mode(F) == [kind: {"mode"}, field: F \cap Varied, to: {"Fixed", "Varied"}]
Switch(F) == [kind: {"switch"}, field: F, to: {"on", "off"}]
Value(F) == [kind: {"value"}, field: F, to: {"other"}]
Choice(kind, f, C) == [kind: {kind}, field: {f}, to: C]

(* The controls F when the switch of the stream, or the condition, is on.  *)
Behind(s, flag, F) == IF IsOn(s, flag) THEN F ELSE {}
When(condition, F) == IF condition THEN F ELSE {}

----------------------------------------------------------------------------
(* Protocol selection.                                                     *)

VlanSelection == Switch({"vlan_enabled"})
MplsSelection == Switch({"mpls_enabled"})
TunnelSelection == Choice("tunnel", "tunnel", {"none", "vxlan", "gtpu"})
L3Selection == Choice("l3", "packet_type", Network)
L4Selection == Choice("l4", "packet_type", Transport)
PayloadSelection == Switch({"payload_enabled"})
FrameLengthType == Choice("type", "frame_length_type", {"Fixed", "Varied"})
FrameLengthValue ==
  Choice("length", "frame_length", Lengths) \cup Choice("min", "frame_length_min", Lengths)
    \cup Choice("max", "frame_length_max", Lengths)

(* The choices of the protocol selection tab that are checked already send *)
(* nothing; most others are disabled while a tunnel is on.                 *)
TunnelName(s) == IF IsOn(s, "vxlan_enabled") THEN "vxlan" ELSE IF IsOn(s, "gtpu_enabled") THEN "gtpu" ELSE "none"

ProtocolSelectionEnabled(s, a) ==
  CASE a.kind = "tunnel" -> a.to # TunnelName(s)
    [] a.kind = "l3" -> a.to # s.l3 /\ (Tunnel(s) => a.to = "IPv4")
    [] a.kind = "l4" -> a.to # s.l4 /\ HasIp(s) /\ (Tunnel(s) => a.to = "UDP")
    [] a.field = "mpls_enabled" -> a.to = "on" => HasIp(s)
    [] OTHER -> TRUE

FrameLengthEnabled(s, a) ==
  CASE a.kind = "type" -> SupportsVariableLength(s)
    [] a.kind = "length" -> s.flen = "Fixed"
    [] OTHER -> s.flen # "Fixed"

----------------------------------------------------------------------------
(* Media access.                                                           *)

EtherActions == Mode(EtherModes) \cup Value({"ether_dst"})
EtherPanel(s) == EtherModes

VlanActions == Mode(VlanModes) \cup Value({"vlan_id"}) \cup Switch({"vlan2_enabled"})
VlanPanel(s) == Behind(s, "vlan_enabled", VlanModes \cup {"vlan2_enabled"})

VlanInnerActions == Mode(Vlan2Modes) \cup Value({"vlan2_id"})
VlanInnerPanel(s) == Behind(s, "vlan_enabled", Behind(s, "vlan2_enabled", Vlan2Modes))

MplsActions == Mode(MplsModes) \cup Value({"mpls_label"}) \cup Switch({"mpls_label2_enabled", "mpls_label3_enabled"})
MplsPanel(s) ==
  Behind(s, "mpls_enabled",
         MplsModes \cup {"mpls_label2_enabled"} \cup Behind(s, "mpls_label2_enabled", {"mpls_label3_enabled"}))

MplsSecondActions == Mode(Mpls2Modes) \cup Value({"mpls_label2"})
MplsSecondPanel(s) == Behind(s, "mpls_enabled", Behind(s, "mpls_label2_enabled", Mpls2Modes))

MplsThirdActions == Mode(Mpls3Modes) \cup Value({"mpls_label3"})
MplsThirdPanel(s) ==
  Behind(s, "mpls_enabled", Behind(s, "mpls_label2_enabled", Behind(s, "mpls_label3_enabled", Mpls3Modes)))

----------------------------------------------------------------------------
(* Internet protocols.                                                     *)

ArpActions == Mode(ArpModes) \cup Value({"arp_operation"})
ArpPanel(s) == When(s.l3 = "ARP", ArpModes)

Ipv4AddressActions == Mode(Ipv4AddressModes) \cup Value({"ipv4_dst"})
Ipv4AddressPanel(s) == When(s.l3 = "IPv4", Ipv4AddressModes)

Ipv4ScalarActions == Mode(Ipv4ScalarModes) \cup Value({"ipv4_ttl"})
Ipv4ScalarPanel(s) == When(s.l3 = "IPv4", Ipv4ScalarModes)

Ipv6AddressActions == Mode(Ipv6AddressModes) \cup Value({"ipv6_dst"})
Ipv6AddressPanel(s) == When(s.l3 = "IPv6", Ipv6AddressModes)

Ipv6ScalarActions == Mode(Ipv6ScalarModes) \cup Value({"ipv6_hop_limit"})
Ipv6ScalarPanel(s) == When(s.l3 = "IPv6", Ipv6ScalarModes)

----------------------------------------------------------------------------
(* Transport.                                                              *)

L4PortActions ==
  Mode(L4PortModes) \cup Value(L4PortModes) \cup Switch({"l4_src_port_override", "l4_dst_port_override"})
L4PortLocked(s) ==
  IF Tunnel(s) THEN L4PortModes \cup {"l4_src_port_override", "l4_dst_port_override"}
  ELSE {f \in L4PortModes : ~IsOn(s, IF f = "l4_src_port" THEN "l4_src_port_override" ELSE "l4_dst_port_override")}
L4PortPanel(s) ==
  When(HasPorts(s), (L4PortModes \cup {"l4_src_port_override", "l4_dst_port_override"}) \ L4PortLocked(s))

UdpActions == Mode(UdpModes) \cup Value(UdpModes) \cup Switch({"udp_length_override", "udp_checksum_override"})
UdpLocked(s) ==
  When(Tunnel(s), UdpModes \cup {"udp_length_override"})
    \cup When(IsOn(s, "gtpu_enabled"), {"udp_checksum_override"})
    \cup When(~IsOn(s, "udp_length_override"), {"udp_length"})
    \cup When(~IsOn(s, "udp_checksum_override"), {"udp_checksum"})
UdpPanel(s) ==
  When(s.l4 = "UDP", (UdpModes \cup {"udp_length_override", "udp_checksum_override"}) \ UdpLocked(s))

DnsQueryActions == Mode(DnsQueryModes) \cup Value({"dns_flags"}) \cup Switch({"dns_enabled"})
DnsQueryPanel(s) ==
  When(s.l4 = "UDP",
       When(~Tunnel(s) /\ ~IsOn(s, "dhcp_enabled"), {"dns_enabled"}) \cup Behind(s, "dns_enabled", DnsQueryModes))

DnsAnswerActions == Mode(DnsAnswerModes) \cup Value({"dns_answer_ttl"}) \cup Switch({"dns_answer_enabled"})
DnsAnswerPanel(s) ==
  When(s.l4 = "UDP",
       Behind(s, "dns_enabled", {"dns_answer_enabled"} \cup Behind(s, "dns_answer_enabled", DnsAnswerModes)))

DhcpBootpActions == Mode(DhcpBootpModes) \cup Value({"dhcp_hops"}) \cup Switch({"dhcp_enabled"})
DhcpBootpPanel(s) ==
  When(s.l4 = "UDP",
       When(s.l3 = "IPv4" /\ ~Tunnel(s) /\ ~IsOn(s, "dns_enabled"), {"dhcp_enabled"})
         \cup Behind(s, "dhcp_enabled", DhcpBootpModes))

DhcpAddressActions == Mode(DhcpAddressModes) \cup Value({"dhcp_client_ip"})
DhcpAddressPanel(s) == When(s.l4 = "UDP", Behind(s, "dhcp_enabled", DhcpAddressModes))

(* The options are left out of the packet while their value is zero, and   *)
(* their modes are disabled then.                                          *)
DhcpOptionActions == Mode(DhcpOptionModes) \cup Switch({"dhcp_option_values"})
DhcpTimerPanel(s) ==
  When(s.l4 = "UDP",
       Behind(s, "dhcp_enabled", {"dhcp_option_values"} \cup Behind(s, "dhcp_option_values", DhcpTimerModes)))
DhcpOptionAddressPanel(s) ==
  When(s.l4 = "UDP",
       Behind(s, "dhcp_enabled", {"dhcp_option_values"} \cup Behind(s, "dhcp_option_values", DhcpOptionAddressModes)))

SctpCommonModes == {"sctp_verification_tag"}
SctpActions == Mode(SctpModes) \cup Switch({"sctp_checksum_override"}) \cup Value({"sctp_checksum", "sctp_tsn"})
SctpLocked(s) ==
  When(SctpChecksumLocked(s), {"sctp_checksum_override", "sctp_checksum"})
    \cup When(~IsOn(s, "sctp_checksum_override"), {"sctp_checksum"})
SctpCommonPanel(s) ==
  When(s.l4 = "SCTP", (SctpCommonModes \cup {"sctp_checksum_override", "sctp_checksum"}) \ SctpLocked(s))
SctpDataPanel(s) == When(s.l4 = "SCTP", SctpModes \ SctpCommonModes)

TcpNumberModes == {"tcp_sequence", "tcp_ack", "tcp_window"}
TcpFlagModes == {"tcp_urgent_pointer", "tcp_flags"}
TcpCoreActions == Mode(TcpCoreModes) \cup Value({"tcp_window"}) \cup Switch({"tcp_checksum_override"})
TcpNumberPanel(s) == When(s.l4 = "TCP", TcpNumberModes)
TcpChecksumPanel(s) ==
  When(s.l4 = "TCP", {"tcp_checksum_override"} \cup Behind(s, "tcp_checksum_override", {"tcp_checksum"}))
TcpFlagsPanel(s) == When(s.l4 = "TCP", TcpFlagModes)

TcpOptionActions == Mode(TcpOptionModes) \cup Value({"tcp_option_mss"}) \cup Switch(TcpOptionFlags)
TcpOptionLocked(s) ==
  When(~IsOn(s, "tcp_option_mss_enabled"), {"tcp_option_mss"})
    \cup When(~IsOn(s, "tcp_option_window_scale_enabled"), {"tcp_option_window_scale"})
    \cup When(~IsOn(s, "tcp_option_sack_blocks_enabled"), {"tcp_option_sack_left_edge", "tcp_option_sack_right_edge"})
    \cup When(~IsOn(s, "tcp_option_timestamp_enabled"), {"tcp_option_timestamp_value", "tcp_option_timestamp_echo"})
TcpSegmentModes == {"tcp_option_mss", "tcp_option_window_scale", "tcp_option_mss_enabled", "tcp_option_window_scale_enabled"}
TcpSegmentPanel(s) == When(s.l4 = "TCP", TcpSegmentModes \ TcpOptionLocked(s))
TcpSackPanel(s) ==
  When(s.l4 = "TCP", {"tcp_option_sack_permitted_enabled", "tcp_option_sack_blocks_enabled",
                      "tcp_option_sack_left_edge", "tcp_option_sack_right_edge"} \ TcpOptionLocked(s))
TcpTimestampPanel(s) ==
  When(s.l4 = "TCP", {"tcp_option_timestamp_enabled", "tcp_option_timestamp_value", "tcp_option_timestamp_echo"}
                       \ TcpOptionLocked(s))

----------------------------------------------------------------------------
(* ICMP.  Only the fields of an ICMPv6 echo can vary.                      *)

IcmpTypeActions == Choice("type", "icmp_type_value", IcmpTypes) \cup Mode({"icmp_type", "icmp_code"})
IcmpEchoActions ==
  Mode({"icmp_identifier", "icmp_sequence"}) \cup Switch({"icmp_checksum_override"}) \cup Value({"icmp_identifier"})
IcmpLocked(s) ==
  When(~Icmpv6Echo(s), IcmpModes) \cup When(Varies(s, IcmpModes), {"icmp_checksum_override"})
IcmpTypePanel(s) == When(s.l4 = "ICMP", {"icmp_type_value", "icmp_type", "icmp_code"} \ IcmpLocked(s))
IcmpEchoPanel(s) ==
  When(s.l4 = "ICMP",
       (When(~Icmpv6Control(s), {"icmp_identifier", "icmp_sequence"}) \cup {"icmp_checksum_override"})
         \ IcmpLocked(s))

Icmpv6Actions == Switch(Icmpv6Flags) \cup Value({"icmpv6_ra_include_prefix", "icmpv6_nd_include_option"})
Icmpv6RsPanel(s) == When(Icmpv6(s) /\ s.icmp = "rs", {"icmpv6_rs_include_slla"})
Icmpv6RaPanel(s) == When(Icmpv6(s) /\ s.icmp = "ra", {"icmpv6_ra_include_slla", "icmpv6_ra_include_prefix"})
Icmpv6NdPanel(s) == When(Icmpv6(s) /\ s.icmp = "nd", {"icmpv6_nd_include_option"})

----------------------------------------------------------------------------
(* Tunnels.  Of the two inner address families the panel shows the one the *)
(* version chooses.                                                        *)

Inner(version, F4, F6) == IF version = "IPv6" THEN F6 ELSE F4
Ttls ==
  {"vxlan_inner_ipv4_ttl", "vxlan_inner_ipv6_hop_limit", "gtpu_inner_ipv4_ttl", "gtpu_inner_ipv6_hop_limit"}

VxlanVniActions == Mode(VxlanVniModes) \cup Value({"vxlan_vni"}) \cup Choice("version", "vxlan_inner_ip_version", Versions)
VxlanInnerActions == Mode(VxlanInner4Modes \cup VxlanInner6Modes)
VxlanPortActions == Mode(VxlanPortModes)
VxlanInnerModes(s) == Inner(s.vxlan, VxlanInner4Modes, VxlanInner6Modes)
VxlanVniPanel(s) == Behind(s, "vxlan_enabled", VxlanVniModes \cup {"vxlan_inner_ip_version"})
VxlanTtlPanel(s) == Behind(s, "vxlan_enabled", VxlanInnerModes(s) \cap Ttls)
VxlanAddressPanel(s) == Behind(s, "vxlan_enabled", VxlanInnerModes(s) \ Ttls)
VxlanPortPanel(s) == Behind(s, "vxlan_enabled", VxlanPortModes)

GtpuTeidActions == Mode(GtpuTeidModes) \cup Value({"gtpu_teid"}) \cup Choice("version", "gtpu_inner_ip_version", Versions)
GtpuOptionActions == Mode(GtpuOptionModes) \cup Switch(GtpuFlags)
GtpuInnerActions == Mode(GtpuInner4Modes \cup GtpuInner6Modes)
GtpuPortActions == Mode(GtpuPortModes)
GtpuLocked(s) ==
  When(~IsOn(s, "gtpu_sequence_enabled"), {"gtpu_sequence"})
    \cup When(~IsOn(s, "gtpu_npdu_enabled"), {"gtpu_npdu"})
    \cup When(~IsOn(s, "gtpu_extension_enabled"), {"gtpu_extension_udp_port"})
GtpuInnerFields(s) == Inner(s.gtpu, GtpuInner4Modes, GtpuInner6Modes)
GtpuTeidPanel(s) == Behind(s, "gtpu_enabled", GtpuTeidModes \cup {"gtpu_inner_ip_version"})
GtpuOptionPanel(s) == Behind(s, "gtpu_enabled", (GtpuOptionModes \cup GtpuFlags) \ GtpuLocked(s))
GtpuTtlPanel(s) == Behind(s, "gtpu_enabled", GtpuInnerFields(s) \cap Ttls)
GtpuAddressPanel(s) == Behind(s, "gtpu_enabled", GtpuInnerFields(s) \ Ttls)
GtpuPortPanel(s) == Behind(s, "gtpu_enabled", GtpuPortModes)

GreOptionActions ==
  Mode(GreOptionModes) \cup Switch(GreFlags) \cup Choice("version", "gre_inner_ip_version", Versions)
GreInnerActions == Mode(GreInner4Modes \cup GreInner6Modes) \cup Value({"gre_inner_ipv4_ttl"})
GrePortActions == Mode(GrePortModes)
GreLocked(s) ==
  When(Varies(s, GreOptionModes), {"gre_checksum_present"})
    \cup When(~IsOn(s, "gre_checksum_present"), {"gre_checksum_override"})
    \cup When(~IsOn(s, "gre_key_present"), {"gre_key"})
    \cup When(~IsOn(s, "gre_sequence_present"), {"gre_sequence"})
GreOptionPanel(s) ==
  When(s.l4 = "GRE", (GreOptionModes \cup GreFlags \cup {"gre_inner_ip_version"}) \ GreLocked(s))
GreInner6Panel(s) == When(s.l4 = "GRE" /\ s.gre = "IPv6", GreInner6Modes)
GreInner4Panel(s) == When(s.l4 = "GRE" /\ s.gre = "IPv4", GreInner4Modes)
GrePortPanel(s) == When(s.l4 = "GRE", GrePortModes)

----------------------------------------------------------------------------
(* Every control on screen and enabled, and the fields a person reading    *)
(* the panels sees vary.                                                   *)

Controls(s) ==
  EtherPanel(s) \cup VlanPanel(s) \cup VlanInnerPanel(s) \cup MplsPanel(s) \cup MplsSecondPanel(s)
    \cup MplsThirdPanel(s) \cup ArpPanel(s) \cup Ipv4AddressPanel(s) \cup Ipv4ScalarPanel(s)
    \cup Ipv6AddressPanel(s) \cup Ipv6ScalarPanel(s) \cup L4PortPanel(s) \cup UdpPanel(s)
    \cup DnsQueryPanel(s) \cup DnsAnswerPanel(s) \cup DhcpBootpPanel(s) \cup DhcpAddressPanel(s)
    \cup DhcpTimerPanel(s) \cup DhcpOptionAddressPanel(s) \cup SctpCommonPanel(s) \cup SctpDataPanel(s)
    \cup TcpNumberPanel(s) \cup TcpChecksumPanel(s) \cup TcpFlagsPanel(s) \cup TcpSegmentPanel(s)
    \cup TcpSackPanel(s) \cup TcpTimestampPanel(s) \cup IcmpTypePanel(s) \cup IcmpEchoPanel(s)
    \cup VxlanVniPanel(s) \cup VxlanTtlPanel(s) \cup VxlanAddressPanel(s) \cup VxlanPortPanel(s)
    \cup GtpuTeidPanel(s) \cup GtpuOptionPanel(s) \cup GtpuTtlPanel(s) \cup GtpuAddressPanel(s)
    \cup GtpuPortPanel(s) \cup GreOptionPanel(s) \cup GreInner6Panel(s) \cup GreInner4Panel(s) \cup GrePortPanel(s)

Seen(s) == s.vary \cap Controls(s)

=============================================================================
