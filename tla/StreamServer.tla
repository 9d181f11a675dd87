---------------------------- MODULE StreamServer -----------------------------
(***************************************************************************)
(* What becomes of a stream on the server: workbench_normalize.py brings   *)
(* it to a form in which no setting is left for a header the packet does   *)
(* not have, and workbench_gui_render.py turns what is left into the       *)
(* field engine of the traffic generator.                                  *)
(***************************************************************************)
EXTENDS StreamFields

----------------------------------------------------------------------------
(* Lengths on the wire.                                                    *)

GtpuHeader(s) ==
  8 + (IF GtpuFlags \cap s.on # {} THEN 4 ELSE 0) + (IF IsOn(s, "gtpu_extension_enabled") THEN 4 ELSE 0)

GreHeader(s) ==
  4 + 4 * Cardinality({"gre_checksum_present", "gre_key_present", "gre_sequence_present"} \cap s.on)

Icmpv6Body(s) ==
  LET Option(f, n) == IF IsOn(s, f) THEN n ELSE 0
  IN CASE s.icmp = "rs" -> 8 + Option("icmpv6_rs_include_slla", 8)
       [] s.icmp = "ra" -> 16 + Option("icmpv6_ra_include_slla", 8) + Option("icmpv6_ra_include_prefix", 32)
       [] s.icmp = "nd" -> 24 + Option("icmpv6_nd_include_option", 8)

DnsBody(s) == IF IsOn(s, "dns_answer_enabled") THEN 45 ELSE 29
DhcpBody == 300

HasDns(s) == s.l4 = "UDP" /\ IsOn(s, "dns_enabled") /\ ~Tunnel(s)
HasDhcp(s) == s.l3 = "IPv4" /\ s.l4 = "UDP" /\ IsOn(s, "dhcp_enabled") /\ ~Tunnel(s)
HasGtpu(s) == s.l3 = "IPv4" /\ s.l4 = "UDP" /\ IsOn(s, "gtpu_enabled")

(* The server goes by the protocol type of the GRE header too.             *)
GreInnerVersion(s) == IF s.gre = "IPv6" \/ IsOn(s, "gre_type_ipv6") THEN "IPv6" ELSE "IPv4"

MinimumWireLength(s) ==
  Longer(64,
    CASE HasDhcp(s) -> Frame(s) + IpHeader(s.l3) + 8 + DhcpBody
      [] HasDns(s) /\ ~HasDhcp(s) -> Frame(s) + IpHeader(s.l3) + 8 + DnsBody(s)
      [] Icmpv6Control(s) -> Frame(s) + 40 + Icmpv6Body(s)
      [] s.l4 = "GRE" -> Frame(s) + IpHeader(s.l3) + GreHeader(s) + IpHeader(GreInnerVersion(s)) + 8
      [] s.l4 = "SCTP" -> Frame(s) + IpHeader(s.l3) + 28
      [] HasGtpu(s) -> Frame(s) + 20 + 8 + GtpuHeader(s) + IpHeader(s.gtpu) + 8
      [] IsOn(s, "vxlan_enabled") /\ ~HasGtpu(s) -> Frame(s) + 20 + 8 + 8 + 14 + IpHeader(s.vxlan) + 8
      [] OTHER -> 64)

Raised(s) == minimumFrameLengthPatch(s, MinimumWireLength(s))

----------------------------------------------------------------------------
(* normalize_workbench_streams, in the order of the source.                *)

NormLength(s) ==
  LET min == IF s.min > 9211 THEN 9211 ELSE s.min
      max == IF s.max <= min THEN min + 5 ELSE s.max
  IN CASE IsOn(s, "bytes") -> [FixLength(s) EXCEPT !.min = 64, !.max = Longer(1518, s.length)]
       [] s.flen # "Fixed" /\ ~IsOn(s, "bytes") -> [s EXCEPT !.min = min, !.max = max, !.length = max]
       [] OTHER -> s

NormTunnels(s) ==
  LET one == IF IsOn(s, "gtpu_enabled") THEN TurnOff(s, {"vxlan_enabled"}) ELSE s
  IN IF Tunnel(one) THEN [one EXCEPT !.l3 = "IPv4", !.l4 = "UDP"] ELSE one

NormNetwork(s) ==
  CASE s.l3 = "ARP" ->
         TurnOff(s, {"mpls_enabled", "vxlan_enabled", "gtpu_enabled", "flow_stats_enabled", "latency_enabled"})
    [] s.l3 = "None" -> TurnOff(s, {"mpls_enabled", "vxlan_enabled", "gtpu_enabled"})
    [] OTHER -> s

NormVlan(s) ==
  CASE ~IsOn(s, "vlan_enabled") -> Drop(s, {"vlan2_enabled"}, VlanModes \cup Vlan2Modes)
    [] IsOn(s, "vlan_enabled") /\ ~IsOn(s, "vlan2_enabled") -> Fix(s, Vlan2Modes)
    [] OTHER -> s

NormMpls(s) ==
  LET top == IF IsOn(s, "mpls_enabled") THEN s ELSE Fix(s, MplsModes \cup Mpls2Modes \cup Mpls3Modes)
  IN CASE ~IsOn(s, "mpls_label2_enabled") -> Drop(top, {"mpls_label3_enabled"}, Mpls2Modes \cup Mpls3Modes)
       [] IsOn(s, "mpls_label2_enabled") /\ ~IsOn(s, "mpls_label3_enabled") -> Fix(top, Mpls3Modes)
       [] OTHER -> top

OtherVersion(version, F4, F6) == IF version = "IPv6" THEN F4 ELSE F6

NormGre(s) ==
  LET udp == Fix(FixLength(s), UdpModes \cup {"tcp_checksum"})
      inner == Fix(udp, OtherVersion(GreInnerVersion(s), GreInner4Modes, GreInner6Modes))
      options == TurnOn(inner, (IF Varies(s, {"gre_key"}) THEN {"gre_key_present"} ELSE {})
                                 \cup (IF Varies(s, {"gre_sequence"}) THEN {"gre_sequence_present"} ELSE {}))
      gre == IF Varies(options, GreModes) THEN TurnOff(options, {"gre_checksum_present", "gre_checksum_override"})
             ELSE options
  IN IF s.l4 = "GRE"
     THEN Raised(IF GreInnerVersion(s) = "IPv6" THEN TurnOn(gre, {"gre_type_ipv6"}) ELSE gre)
     ELSE Fix([s EXCEPT !.gre = "IPv4"], GreModes)

NormGtpu(s) ==
  LET ports == TurnOn(Fix(FixLength(s), L4PortModes), {"l4_src_port_override", "l4_dst_port_override"})
      plain == Drop(ports, {"udp_length_override", "udp_checksum_override", "dns_enabled", "dhcp_enabled"},
                    UdpModes \cup DnsModes \cup DhcpModes)
      options == Fix(plain, (IF IsOn(s, "gtpu_sequence_enabled") THEN {} ELSE {"gtpu_sequence"})
                              \cup (IF IsOn(s, "gtpu_npdu_enabled") THEN {} ELSE {"gtpu_npdu"})
                              \cup (IF IsOn(s, "gtpu_extension_enabled") THEN {} ELSE {"gtpu_extension_udp_port"}))
  IN IF HasGtpu(s) THEN Raised(Fix(options, OtherVersion(s.gtpu, GtpuInner4Modes, GtpuInner6Modes)))
     ELSE Drop([s EXCEPT !.gtpu = "IPv4"], GtpuFlags, GtpuModes)

NormPorts(s) ==
  LET l4 == IF s.l4 = "None" THEN Fix(s, {"udp_length"}) ELSE s
  IN IF HasPorts(s) THEN l4 ELSE Drop(l4, {"l4_src_port_override", "l4_dst_port_override"}, L4PortModes)

NoDns(s) == Drop(s, {"dns_enabled"}, DnsModes)
NoDhcp(s) == Drop(s, {"dhcp_enabled"}, DhcpModes)

(* A message that does not fit the packet goes first; of the two kinds of  *)
(* message DHCP stays.                                                     *)
NormUdp(s) ==
  LET udp == IF s.l4 = "UDP" THEN s
             ELSE NoDns(NoDhcp(Drop(s, {"udp_length_override", "udp_checksum_override"}, {"udp_checksum"})))
      dns == IF Tunnel(s) THEN NoDns(udp) ELSE udp
      dhcp == IF IsOn(dns, "dhcp_enabled") /\ HasDhcp(dns) THEN dns ELSE NoDhcp(dns)
  IN IF IsOn(dhcp, "dns_enabled") /\ ~IsOn(dhcp, "dhcp_enabled") THEN dhcp
     ELSE TurnOff(NoDns(dhcp), {"dns_answer_enabled"})

(* A message whose fields vary cannot keep a checksum of its own.          *)
Unchecked(s, F) == IF Varies(s, F) THEN TurnOff(s, {"udp_checksum_override"}) ELSE s

NormDns(s) ==
  LET dns == TurnOn(TurnOff(s, {"udp_length_override"}), {"payload_enabled"})
      answer == IF IsOn(s, "dns_answer_enabled") THEN dns ELSE Fix(dns, DnsAnswerModes)
  IN IF IsOn(s, "dns_enabled") THEN Unchecked(Raised(answer), DnsModes) ELSE s

NormDhcp(s) ==
  LET dhcp == TurnOn(Drop(s, {"udp_length_override"}, {"udp_length"}),
                     {"payload_enabled", "l4_src_port_override", "l4_dst_port_override"})
      options == IF IsOn(s, "dhcp_option_values") THEN dhcp ELSE Fix(dhcp, DhcpOptionModes)
  IN IF IsOn(s, "dhcp_enabled") THEN Unchecked(Raised(options), DhcpModes) ELSE s

Without(s, flag, F) == IF IsOn(s, flag) THEN s ELSE Fix(s, F)

NormTcp(s) ==
  LET scale == Without(s, "tcp_option_window_scale_enabled", {"tcp_option_window_scale"})
      sack == Without(scale, "tcp_option_sack_blocks_enabled",
                      {"tcp_option_sack_left_edge", "tcp_option_sack_right_edge"})
  IN IF s.l4 # "TCP" THEN Drop(s, TcpOptionFlags, TcpOptionModes)
     ELSE Without(sack, "tcp_option_timestamp_enabled", {"tcp_option_timestamp_value", "tcp_option_timestamp_echo"})

NormSctp(s) ==
  LET zero == TurnOn(s, {"sctp_checksum_override", "sctp_zero"})
  IN CASE s.l4 # "SCTP" -> Drop(s, {"sctp_checksum_override"}, SctpModes)
       [] s.l4 = "SCTP" /\ Varies(s, SctpModes) -> Raised(zero)
       [] s.l4 = "SCTP" /\ ~Varies(s, SctpModes) /\ Varies(s, L4PortModes) -> zero
       [] OTHER -> s

NormIcmp(s) ==
  LET icmp == IF s.l4 = "ICMP" THEN s ELSE TurnOff(s, {"icmp_checksum_override"})
      echo == IF Icmpv6Echo(s) THEN icmp ELSE Fix(icmp, IcmpModes)
      checked == IF Varies(echo, IcmpModes) THEN TurnOff(echo, {"icmp_checksum_override"}) ELSE echo
      fixed == FixLength(Fix(checked, Ipv6AddressModes))
  IN CASE ~Icmpv6(s) -> checked
       [] Icmpv6(s) /\ Icmpv6Control(s) -> Raised(Fix(fixed, {"ipv6_hop_limit"}))
       [] OTHER -> fixed

NormVxlan(s) ==
  LET outer == FixLength(Fix(s, L4PortModes \cup {"udp_length"} \cup OtherVersion(s.vxlan, VxlanInner4Modes, VxlanInner6Modes)))
      vxlan == CASE ~IsOn(s, "vxlan_enabled") -> Fix([s EXCEPT !.vxlan = "IPv4"], VxlanModes)
                 [] IsOn(s, "vxlan_enabled") /\ ~IsOn(s, "bytes") -> Raised(outer)
                 [] OTHER -> outer
  IN IF SupportsVariableLength(vxlan) THEN vxlan ELSE FixLength(vxlan)

Normalise(s) ==
  LET headers == NormGtpu(NormGre(NormMpls(NormVlan(NormNetwork(NormTunnels(NormLength(s)))))))
      messages == NormDhcp(NormDns(NormUdp(NormPorts(headers))))
  IN NormVxlan(NormIcmp(NormSctp(NormTcp(messages))))

----------------------------------------------------------------------------
(* _workbench_vm_body: the fields the traffic generator varies for a        *)
(* normalised stream.                                                      *)

Applies(s, flag, F) == IF IsOn(s, flag) THEN F ELSE {}
Given(condition, F) == IF condition THEN F ELSE {}
ByVersion(version, F4, F6) == IF version = "IPv6" THEN F6 ELSE F4

LinkFields(s) ==
  EtherModes
    \cup Applies(s, "vlan_enabled", VlanModes \cup Applies(s, "vlan2_enabled", Vlan2Modes))
    \cup Applies(s, "mpls_enabled",
                 MplsModes \cup Applies(s, "mpls_label2_enabled",
                                        Mpls2Modes \cup Applies(s, "mpls_label3_enabled", Mpls3Modes)))

NetworkFields(s) ==
  CASE s.l3 = "ARP" -> ArpModes
    [] s.l3 = "IPv4" -> Ipv4AddressModes \cup Ipv4ScalarModes
    [] s.l3 = "IPv6" -> Ipv6AddressModes \cup Ipv6ScalarModes
    [] s.l3 = "None" -> {}

TunnelFields(s) ==
  Applies(s, "vxlan_enabled", VxlanVniModes \cup VxlanPortModes \cup ByVersion(s.vxlan, VxlanInner4Modes, VxlanInner6Modes))
    \cup Given(HasGtpu(s),
               GtpuTeidModes \cup GtpuPortModes \cup ByVersion(s.gtpu, GtpuInner4Modes, GtpuInner6Modes)
                 \cup Applies(s, "gtpu_sequence_enabled", {"gtpu_sequence"})
                 \cup Applies(s, "gtpu_npdu_enabled", {"gtpu_npdu"})
                 \cup Applies(s, "gtpu_extension_enabled", {"gtpu_extension_udp_port"}))
    \cup Given(s.l4 = "GRE",
               GrePortModes \cup ByVersion(GreInnerVersion(s), GreInner4Modes, GreInner6Modes)
                 \cup Applies(s, "gre_key_present", {"gre_key"})
                 \cup Applies(s, "gre_sequence_present", {"gre_sequence"}))

TcpOptionFields(s) ==
  Applies(s, "tcp_option_mss_enabled", {"tcp_option_mss"})
    \cup Applies(s, "tcp_option_window_scale_enabled", {"tcp_option_window_scale"})
    \cup Applies(s, "tcp_option_sack_blocks_enabled", {"tcp_option_sack_left_edge", "tcp_option_sack_right_edge"})
    \cup Applies(s, "tcp_option_timestamp_enabled", {"tcp_option_timestamp_value", "tcp_option_timestamp_echo"})

(* Mutant: the length field is varied whether or not it is overridden.     *)
UngatedTransportFields(s) ==
  Given(HasPorts(s), Applies(s, "l4_src_port_override", {"l4_src_port"})
                       \cup Applies(s, "l4_dst_port_override", {"l4_dst_port"}))
    \cup Given(s.l4 = "UDP", {"udp_length"} \cup Applies(s, "udp_checksum_override", {"udp_checksum"}))
    \cup Given(HasDns(s), DnsQueryModes \cup Applies(s, "dns_answer_enabled", DnsAnswerModes))
    \cup Given(HasDhcp(s), DhcpBootpModes \cup DhcpAddressModes \cup Applies(s, "dhcp_option_values", DhcpOptionModes))
    \cup Given(s.l4 = "TCP", (TcpCoreModes \ {"tcp_checksum"}) \cup TcpOptionFields(s)
                               \cup Applies(s, "tcp_checksum_override", {"tcp_checksum"}))
    \cup Given(s.l4 = "SCTP", SctpModes)
    \cup Given(Icmpv6Echo(s), IcmpModes)

TransportFields(s) ==
  Given(HasPorts(s), Applies(s, "l4_src_port_override", {"l4_src_port"})
                       \cup Applies(s, "l4_dst_port_override", {"l4_dst_port"}))
    \cup Given(s.l4 = "UDP", Applies(s, "udp_length_override", {"udp_length"})
                               \cup Applies(s, "udp_checksum_override", {"udp_checksum"}))
    \cup Given(HasDns(s), DnsQueryModes \cup Applies(s, "dns_answer_enabled", DnsAnswerModes))
    \cup Given(HasDhcp(s), DhcpBootpModes \cup DhcpAddressModes \cup Applies(s, "dhcp_option_values", DhcpOptionModes))
    \cup Given(s.l4 = "TCP", (TcpCoreModes \ {"tcp_checksum"}) \cup TcpOptionFields(s)
                               \cup Applies(s, "tcp_checksum_override", {"tcp_checksum"}))
    \cup Given(s.l4 = "SCTP", SctpModes)
    \cup Given(Icmpv6Echo(s), IcmpModes)

Applied(s) == s.vary \cap (LinkFields(s) \cup NetworkFields(s) \cup TunnelFields(s) \cup TransportFields(s))

=============================================================================
