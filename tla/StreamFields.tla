---------------------------- MODULE StreamFields ----------------------------
(***************************************************************************)
(* The stream of the Stream Builder, as far as its control goes: which     *)
(* protocols it carries, which of its switches are on, which header fields *)
(* vary from packet to packet, and its frame length.  The values of the    *)
(* header fields are left out, but for the few a rule looks at.            *)
(*                                                                         *)
(* A field is written with its name in the source; a varying field f is    *)
(* one whose <f>_mode is not "Fixed".                                      *)
(***************************************************************************)
EXTENDS Integers, FiniteSets

----------------------------------------------------------------------------
(* Fields that can vary, by the family of actions that changes them.       *)

EtherModes == {"ether_dst", "ether_src"}
ArpModes == {"arp_operation", "arp_sender_mac", "arp_sender_ip", "arp_target_mac", "arp_target_ip"}
Ipv4AddressModes == {"ipv4_dst", "ipv4_src"}
Ipv4ScalarModes == {"ipv4_dscp", "ipv4_ecn", "ipv4_id", "ipv4_fragment_offset", "ipv4_ttl"}
Ipv6AddressModes == {"ipv6_dst", "ipv6_src"}
Ipv6ScalarModes == {"ipv6_traffic_class", "ipv6_flow_label", "ipv6_hop_limit"}
VlanModes == {"vlan_priority", "vlan_id"}
Vlan2Modes == {"vlan2_priority", "vlan2_id"}
MplsModes == {"mpls_label", "mpls_tc", "mpls_ttl"}
Mpls2Modes == {"mpls_label2", "mpls_label2_tc", "mpls_label2_ttl"}
Mpls3Modes == {"mpls_label3", "mpls_label3_tc", "mpls_label3_ttl"}
L4PortModes == {"l4_src_port", "l4_dst_port"}
UdpModes == {"udp_length", "udp_checksum"}
DnsQueryModes == {"dns_transaction_id", "dns_flags", "dns_query_type", "dns_query_class"}
DnsAnswerModes == {"dns_answer_ttl", "dns_answer_ipv4"}
DhcpBootpModes == {"dhcp_operation", "dhcp_hops", "dhcp_seconds", "dhcp_message_type", "dhcp_flags", "dhcp_xid"}
DhcpAddressModes == {"dhcp_client_ip", "dhcp_your_ip", "dhcp_server_ip", "dhcp_relay_ip", "dhcp_client_mac"}
DhcpTimerModes == {"dhcp_lease_time", "dhcp_renewal_time", "dhcp_rebinding_time"}
DhcpOptionAddressModes == {"dhcp_requested_ip", "dhcp_server_id"}
SctpModes ==
  {"sctp_verification_tag", "sctp_data_flags", "sctp_tsn", "sctp_stream_id", "sctp_stream_sequence",
   "sctp_payload_protocol_id"}
TcpCoreModes == {"tcp_sequence", "tcp_ack", "tcp_window", "tcp_urgent_pointer", "tcp_flags", "tcp_checksum"}
TcpOptionModes ==
  {"tcp_option_mss", "tcp_option_window_scale", "tcp_option_sack_left_edge", "tcp_option_sack_right_edge",
   "tcp_option_timestamp_value", "tcp_option_timestamp_echo"}
IcmpModes == {"icmp_type", "icmp_code", "icmp_identifier", "icmp_sequence"}
VxlanVniModes == {"vxlan_vni"}
VxlanInner4Modes == {"vxlan_inner_ipv4_src", "vxlan_inner_ipv4_dst", "vxlan_inner_ipv4_ttl"}
VxlanInner6Modes == {"vxlan_inner_ipv6_src", "vxlan_inner_ipv6_dst", "vxlan_inner_ipv6_hop_limit"}
VxlanPortModes == {"vxlan_inner_l4_src_port", "vxlan_inner_l4_dst_port"}
GtpuTeidModes == {"gtpu_teid"}
GtpuOptionModes == {"gtpu_sequence", "gtpu_npdu", "gtpu_extension_udp_port"}
GtpuInner4Modes == {"gtpu_inner_ipv4_src", "gtpu_inner_ipv4_dst", "gtpu_inner_ipv4_ttl"}
GtpuInner6Modes == {"gtpu_inner_ipv6_src", "gtpu_inner_ipv6_dst", "gtpu_inner_ipv6_hop_limit"}
GtpuPortModes == {"gtpu_inner_l4_src_port", "gtpu_inner_l4_dst_port"}
GreOptionModes == {"gre_key", "gre_sequence"}
GreInner4Modes == {"gre_inner_ipv4_src", "gre_inner_ipv4_dst", "gre_inner_ipv4_ttl"}
GreInner6Modes == {"gre_inner_ipv6_src", "gre_inner_ipv6_dst", "gre_inner_ipv6_hop_limit"}
GrePortModes == {"gre_inner_l4_src_port", "gre_inner_l4_dst_port"}

VxlanModes == VxlanVniModes \cup VxlanInner4Modes \cup VxlanInner6Modes \cup VxlanPortModes
GtpuInnerModes == GtpuInner4Modes \cup GtpuInner6Modes \cup GtpuPortModes
GtpuModes == GtpuTeidModes \cup GtpuOptionModes \cup GtpuInnerModes
GreInnerModes == GreInner4Modes \cup GreInner6Modes \cup GrePortModes
GreModes == GreOptionModes \cup GreInnerModes
DnsModes == DnsQueryModes \cup DnsAnswerModes
DhcpOptionModes == DhcpTimerModes \cup DhcpOptionAddressModes
DhcpModes == DhcpBootpModes \cup DhcpAddressModes \cup DhcpOptionModes

Modes ==
  EtherModes \cup ArpModes \cup Ipv4AddressModes \cup Ipv4ScalarModes \cup Ipv6AddressModes \cup Ipv6ScalarModes
    \cup VlanModes \cup Vlan2Modes \cup MplsModes \cup Mpls2Modes \cup Mpls3Modes \cup L4PortModes \cup UdpModes
    \cup DnsModes \cup DhcpModes \cup SctpModes \cup TcpCoreModes \cup TcpOptionModes \cup IcmpModes
    \cup VxlanModes \cup GtpuModes \cup GreModes

(* Switches; "bytes" stands for packet_binary_base64, "sctp_zero" for a    *)
(* checksum text of zeros, "gre_type_ipv6" for a gre_protocol_type of      *)
(* 86DD, "dhcp_option_values" for DHCP options whose value is not zero.    *)
GtpuFlags == {"gtpu_sequence_enabled", "gtpu_npdu_enabled", "gtpu_extension_enabled"}
TcpOptionFlags ==
  {"tcp_option_mss_enabled", "tcp_option_window_scale_enabled", "tcp_option_sack_permitted_enabled",
   "tcp_option_sack_blocks_enabled", "tcp_option_timestamp_enabled"}
GreFlags == {"gre_checksum_present", "gre_checksum_override", "gre_key_present", "gre_sequence_present"}
Icmpv6Flags == {"icmpv6_rs_include_slla", "icmpv6_ra_include_slla", "icmpv6_ra_include_prefix", "icmpv6_nd_include_option"}
Flags ==
  {"vlan_enabled", "vlan2_enabled", "mpls_enabled", "mpls_label2_enabled", "mpls_label3_enabled",
   "vxlan_enabled", "gtpu_enabled", "l4_src_port_override", "l4_dst_port_override",
   "udp_length_override", "udp_checksum_override", "dns_enabled", "dns_answer_enabled", "dhcp_enabled",
   "dhcp_option_values", "sctp_checksum_override", "sctp_zero", "tcp_checksum_override",
   "icmp_checksum_override", "gre_type_ipv6", "payload_enabled", "flow_stats_enabled", "latency_enabled", "bytes"}
    \cup GtpuFlags \cup TcpOptionFlags \cup GreFlags \cup Icmpv6Flags

Network == {"None", "ARP", "IPv4", "IPv6"}
Transport == {"None", "TCP", "UDP", "ICMP", "GRE", "SCTP"}
Versions == {"IPv4", "IPv6"}

(* The icmp_type of a stream, as far as the rules tell types apart: an     *)
(* echo, a router solicitation or advertisement, a neighbour solicitation, *)
(* or any other.                                                           *)
IcmpTypes == {"echo", "rs", "ra", "nd", "other"}
IcmpControl == {"rs", "ra", "nd"}

Stream ==
  [l3: Network, l4: Transport, flen: {"Fixed", "Varied"}, length: Nat, min: Nat, max: Nat, icmp: IcmpTypes,
   vxlan: Versions, gtpu: Versions, gre: Versions, on: SUBSET Flags, vary: SUBSET Modes]

DefaultStream ==
  [l3 |-> "IPv4", l4 |-> "UDP", flen |-> "Fixed", length |-> 64, min |-> 64, max |-> 1518, icmp |-> "echo",
   vxlan |-> "IPv4", gtpu |-> "IPv4", gre |-> "IPv4",
   on |-> Icmpv6Flags \cup {"payload_enabled", "sctp_zero"}, vary |-> {}]

----------------------------------------------------------------------------
(* Ways to write a changed stream.                                         *)

TurnOn(s, F) == [s EXCEPT !.on = @ \cup F]
TurnOff(s, F) == [s EXCEPT !.on = @ \ F]
Fix(s, F) == [s EXCEPT !.vary = @ \ F]
Drop(s, flags, fields) == Fix(TurnOff(s, flags), fields)
FixLength(s) == [s EXCEPT !.flen = "Fixed"]
Longer(m, n) == IF m < n THEN n ELSE m
AtLeast(s, n) == [s EXCEPT !.length = Longer(@, n)]

minimumFrameLengthPatch(s, n) == [AtLeast(s, n) EXCEPT !.min = Longer(@, n), !.max = Longer(@, n)]

----------------------------------------------------------------------------
(* What the rules of the editor, the page's validator and the server ask   *)
(* of a stream.                                                            *)

IsOn(s, f) == f \in s.on
Varies(s, F) == s.vary \cap F # {}
HasIp(s) == s.l3 \in Versions
Tunnel(s) == IsOn(s, "vxlan_enabled") \/ IsOn(s, "gtpu_enabled")
HasPorts(s) == s.l4 \in {"TCP", "UDP", "SCTP"}
Icmpv6(s) == s.l4 = "ICMP" /\ s.l3 = "IPv6"
Icmpv6Control(s) == Icmpv6(s) /\ s.icmp \in IcmpControl
Icmpv6Echo(s) == Icmpv6(s) /\ s.icmp = "echo"

MplsCount(s) ==
  IF ~IsOn(s, "mpls_enabled") THEN 0
  ELSE IF ~IsOn(s, "mpls_label2_enabled") THEN 1
  ELSE IF ~IsOn(s, "mpls_label3_enabled") THEN 2 ELSE 3

VlanHeader(s) ==
  IF ~IsOn(s, "vlan_enabled") THEN 0 ELSE IF IsOn(s, "vlan2_enabled") THEN 8 ELSE 4

IpHeader(version) == IF version = "IPv6" THEN 40 ELSE 20

(* Ethernet, its tags and its frame check sequence.                        *)
Frame(s) == 14 + VlanHeader(s) + 4 * MplsCount(s) + 4

SupportsVariableLength(s) ==
  /\ ~Tunnel(s)
  /\ s.l4 \notin {"ICMP", "GRE", "SCTP"}

SctpChecksumLocked(s) == Varies(s, L4PortModes \cup SctpModes)

=============================================================================
