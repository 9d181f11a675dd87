---------------------------- MODULE MCStreamEditor ----------------------------
EXTENDS StreamEditor

(* One or two fields of every family.                                      *)
MCVaried ==
  {"ether_dst", "vlan_id", "vlan2_id", "mpls_label", "mpls_label3", "ipv4_ttl", "ipv6_dst", "ipv6_hop_limit",
   "arp_sender_ip", "l4_src_port", "udp_length", "udp_checksum", "dns_flags", "dns_answer_ttl", "dhcp_xid",
   "dhcp_lease_time", "dhcp_requested_ip", "dhcp_client_ip", "sctp_tsn", "tcp_window", "tcp_checksum",
   "tcp_option_window_scale", "icmp_identifier", "vxlan_vni", "vxlan_inner_ipv4_src", "vxlan_inner_ipv6_src",
   "vxlan_inner_l4_src_port", "gtpu_teid", "gtpu_sequence", "gtpu_inner_ipv4_src", "gtpu_inner_ipv6_src",
   "gtpu_inner_l4_src_port", "gre_key", "gre_inner_ipv4_src", "gre_inner_ipv6_src", "gre_inner_l4_src_port"}

(* Too short for most headers, and long enough for all but DHCP.           *)
MCLengths == {64, 150}

(* Panels that act on one another.                                         *)
MCFocuses ==
  {{"protocols", "gre"}, {"protocols", "gtpu", "dns"}, {"protocols", "vxlan", "dhcp"}, {"protocols", "vxlan", "vlan"},
   {"protocols", "icmp"}, {"protocols", "ip"}, {"protocols", "sctp", "frame"}, {"protocols", "ports", "frame"},
   {"packet_type", "tcp"}, {"packet_type", "dhcp", "ports"}, {"packet_type", "arp", "ether", "ip"},
   {"packet_type", "mpls"}, {"vlan", "mpls"}, {"payload", "udp", "dns"}, {"dhcp", "frame"}, {"dns", "frame"}}

GreFocus == {{"protocols", "gre"}}

=============================================================================
