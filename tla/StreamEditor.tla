----------------------------- MODULE StreamEditor -----------------------------
(***************************************************************************)
(* The Stream Builder at work on one stream: every panel's edits, and the  *)
(* way a stream takes when its profile is saved and opened again, through  *)
(* the page's validation and the server's normalisation.                   *)
(*                                                                         *)
(* A person works on a few panels at a time: focus is the set of panels    *)
(* used, chosen at the start among Focuses (a bound of the model).         *)
(***************************************************************************)
EXTENDS StreamPanels, StreamPatches, StreamServer

CONSTANT Focuses

VARIABLES stream, focus

vars == <<stream, focus>>

----------------------------------------------------------------------------
(* The page's validation before a profile is sent.                         *)

validLength(s) ==
  /\ s.flen # "Fixed" => s.max - s.min >= 5 /\ s.l4 \notin {"ICMP", "GRE"} /\ ~Tunnel(s)
  /\ Icmpv6Control(s) => s.length >= icmpv6ControlMinimumFrameLength(s)
  /\ s.l4 = "SCTP" => s.length >= sctpMinimumFrameLength(s)

validIcmp(s) ==
  /\ Icmpv6(s) => ~Varies(s, Ipv6AddressModes)
  /\ s.l4 = "ICMP" /\ ~Icmpv6Echo(s) => ~Varies(s, IcmpModes)

validVxlan(s) ==
  IsOn(s, "vxlan_enabled") =>
    /\ s.l3 = "IPv4" /\ s.l4 = "UDP"
    /\ s.length >= Frame(s) + 20 + 8 + 8 + 14 + IpHeader(s.vxlan) + 8

validGtpu(s) ==
  IsOn(s, "gtpu_enabled") =>
    /\ s.l3 = "IPv4" /\ s.l4 = "UDP"
    /\ s.length >= Frame(s) + 20 + 8 + GtpuHeader(s) + IpHeader(s.gtpu) + 8

(* Mutant: the optional words of the GRE header are not counted.           *)
validGreBare(s) ==
  s.l4 = "GRE" =>
    /\ s.length >= Frame(s) + IpHeader(s.l3) + 4 + IpHeader(GreInnerVersion(s)) + 8
    /\ IsOn(s, "gre_checksum_present") => ~Varies(s, GreModes)
    /\ Varies(s, {"gre_key"}) => IsOn(s, "gre_key_present")
    /\ Varies(s, {"gre_sequence"}) => IsOn(s, "gre_sequence_present")

validGre(s) ==
  s.l4 = "GRE" =>
    /\ s.length >= Frame(s) + IpHeader(s.l3) + GreHeader(s) + IpHeader(GreInnerVersion(s)) + 8
    /\ IsOn(s, "gre_checksum_present") => ~Varies(s, GreModes)
    /\ Varies(s, {"gre_key"}) => IsOn(s, "gre_key_present")
    /\ Varies(s, {"gre_sequence"}) => IsOn(s, "gre_sequence_present")

validApplication(s) ==
  /\ IsOn(s, "mpls_enabled") => HasIp(s)
  /\ IsOn(s, "dns_enabled") => s.l4 = "UDP" /\ ~Tunnel(s)
  /\ IsOn(s, "dhcp_enabled") =>
       /\ s.l3 = "IPv4" /\ s.l4 = "UDP" /\ ~IsOn(s, "vxlan_enabled")
       /\ Varies(s, DhcpOptionAddressModes) => IsOn(s, "dhcp_option_values")

validateWorkbenchStream(s) ==
  validLength(s) /\ validIcmp(s) /\ validVxlan(s) /\ validGtpu(s) /\ validGre(s) /\ validApplication(s)

----------------------------------------------------------------------------
(* Edits.                                                                  *)

(* The packet bytes of an imported stream do not survive a change of a     *)
(* header; the modes of the ports are laid over the bytes.                 *)
packetBinaryInvalidating(a) == ~(a.kind = "mode" /\ a.field \in L4PortModes)

handleStreamChange(patched, a) ==
  stream' = IF packetBinaryInvalidating(a) THEN TurnOff(patched, {"bytes"}) ELSE patched

(* One control of a panel is used: it is on screen and enabled.            *)
Edit(panel, actions, controls, Patch(_, _)) ==
  /\ panel \in focus
  /\ \E a \in {b \in actions : b.field \in controls} : handleStreamChange(Patch(stream, a), a)
  /\ UNCHANGED focus

Select(panel, actions, Enabled(_, _), Patch(_, _)) ==
  /\ panel \in focus
  /\ \E a \in {b \in actions : Enabled(stream, b)} : handleStreamChange(Patch(stream, a), a)
  /\ UNCHANGED focus

ProtocolEdit ==
  Select("protocols", TunnelSelection \cup L3Selection \cup L4Selection, ProtocolSelectionEnabled, ProtocolPatch)
VlanSelect == Select("vlan", VlanSelection, ProtocolSelectionEnabled, VlanPatch)
MplsSelect == Select("mpls", MplsSelection, ProtocolSelectionEnabled, MplsPatch)
PayloadSelect == Select("payload", PayloadSelection, ProtocolSelectionEnabled, PayloadPatch)
FrameLengthTypeEdit == Select("frame", FrameLengthType, FrameLengthEnabled, FrameLengthPatch)
FrameLengthEdit == Select("frame", FrameLengthValue, FrameLengthEnabled, FrameLengthPatch)

(* The packet type of the stream properties is chosen as a whole.          *)
PacketTypeEdit ==
  /\ "packet_type" \in focus /\ ~Tunnel(stream)
  /\ \E l3 \in Network, l4 \in Transport :
       stream' = TurnOff(packetTypePatch(stream, l3, l4), {"bytes"})
  /\ UNCHANGED focus

EtherEdit == Edit("ether", EtherActions, EtherPanel(stream), LinkPatch)
VlanEdit == Edit("vlan", VlanActions, VlanPanel(stream), VlanPatch)
VlanInnerEdit == Edit("vlan", VlanInnerActions, VlanInnerPanel(stream), VlanPatch)
MplsEdit == Edit("mpls", MplsActions, MplsPanel(stream), MplsPatch)
MplsSecondEdit == Edit("mpls", MplsSecondActions, MplsSecondPanel(stream), MplsPatch)
MplsThirdEdit == Edit("mpls", MplsThirdActions, MplsThirdPanel(stream), MplsPatch)
ArpEdit == Edit("arp", ArpActions, ArpPanel(stream), LinkPatch)
Ipv4AddressEdit == Edit("ip", Ipv4AddressActions, Ipv4AddressPanel(stream), Ipv4Patch)
Ipv4ScalarEdit == Edit("ip", Ipv4ScalarActions, Ipv4ScalarPanel(stream), Ipv4Patch)
Ipv6AddressEdit == Edit("ip", Ipv6AddressActions, Ipv6AddressPanel(stream), Ipv6Patch)
Ipv6ScalarEdit == Edit("ip", Ipv6ScalarActions, Ipv6ScalarPanel(stream), Ipv6Patch)

L4PortEdit == Edit("ports", L4PortActions, L4PortPanel(stream), L4PortPatch)
UdpEdit == Edit("udp", UdpActions, UdpPanel(stream), UdpPatch)
DnsQueryEdit == Edit("dns", DnsQueryActions, DnsQueryPanel(stream), DnsPatch)
DnsAnswerEdit == Edit("dns", DnsAnswerActions, DnsAnswerPanel(stream), DnsPatch)
DhcpBootpEdit == Edit("dhcp", DhcpBootpActions, DhcpBootpPanel(stream), DhcpPatch)
DhcpAddressEdit == Edit("dhcp", DhcpAddressActions, DhcpAddressPanel(stream), DhcpPatch)
DhcpOptionEdit ==
  Edit("dhcp", DhcpOptionActions, DhcpTimerPanel(stream) \cup DhcpOptionAddressPanel(stream), DhcpPatch)
SctpEdit == Edit("sctp", SctpActions, SctpCommonPanel(stream) \cup SctpDataPanel(stream), SctpPatch)
TcpCoreEdit ==
  Edit("tcp", TcpCoreActions, TcpNumberPanel(stream) \cup TcpChecksumPanel(stream) \cup TcpFlagsPanel(stream),
       TcpCorePatch)
TcpOptionEdit ==
  Edit("tcp", TcpOptionActions, TcpSegmentPanel(stream) \cup TcpSackPanel(stream) \cup TcpTimestampPanel(stream),
       tcpOptionSelectionPatch)

IcmpTypeEdit == Edit("icmp", IcmpTypeActions, IcmpTypePanel(stream), IcmpPatch)
IcmpEchoEdit == Edit("icmp", IcmpEchoActions, IcmpEchoPanel(stream), IcmpPatch)
Icmpv6Edit ==
  Edit("icmp", Icmpv6Actions, Icmpv6RsPanel(stream) \cup Icmpv6RaPanel(stream) \cup Icmpv6NdPanel(stream), Icmpv6Patch)

VxlanVniEdit == Edit("vxlan", VxlanVniActions, VxlanVniPanel(stream), VxlanPatch)
VxlanInnerEdit ==
  Edit("vxlan", VxlanInnerActions, VxlanTtlPanel(stream) \cup VxlanAddressPanel(stream), VxlanPatch)
VxlanPortEdit == Edit("vxlan", VxlanPortActions, VxlanPortPanel(stream), VxlanPatch)
GtpuTeidEdit == Edit("gtpu", GtpuTeidActions, GtpuTeidPanel(stream), GtpuPatch)
GtpuOptionEdit == Edit("gtpu", GtpuOptionActions, GtpuOptionPanel(stream), GtpuPatch)
GtpuInnerEdit == Edit("gtpu", GtpuInnerActions, GtpuTtlPanel(stream) \cup GtpuAddressPanel(stream), GtpuPatch)
GtpuPortEdit == Edit("gtpu", GtpuPortActions, GtpuPortPanel(stream), GtpuPatch)
GreOptionEdit == Edit("gre", GreOptionActions, GreOptionPanel(stream), GrePatch)
GreInnerEdit == Edit("gre", GreInnerActions, GreInner4Panel(stream) \cup GreInner6Panel(stream), GrePatch)
GrePortEdit == Edit("gre", GrePortActions, GrePortPanel(stream), GrePatch)

----------------------------------------------------------------------------
(* The profile is saved and opened again: the page has validated it, and   *)
(* gets back what the server has normalised.                               *)
SaveAndOpen ==
  /\ validateWorkbenchStream(stream)
  /\ stream' = Normalise(stream)
  /\ UNCHANGED focus

(* A new stream, or one imported from a packet capture.                    *)
ImportedStream ==
  TurnOn(DefaultStream, {"bytes", "l4_src_port_override", "l4_dst_port_override"})

Init == focus \in Focuses /\ stream \in {DefaultStream, ImportedStream}

LinkEdits ==
  \/ EtherEdit \/ VlanSelect \/ VlanEdit \/ VlanInnerEdit
  \/ MplsSelect \/ MplsEdit \/ MplsSecondEdit \/ MplsThirdEdit
NetworkEdits == ArpEdit \/ Ipv4AddressEdit \/ Ipv4ScalarEdit \/ Ipv6AddressEdit \/ Ipv6ScalarEdit
TransportEdits ==
  \/ L4PortEdit \/ UdpEdit \/ DnsQueryEdit \/ DnsAnswerEdit \/ DhcpBootpEdit \/ DhcpAddressEdit \/ DhcpOptionEdit
  \/ SctpEdit \/ TcpCoreEdit \/ TcpOptionEdit \/ IcmpTypeEdit \/ IcmpEchoEdit \/ Icmpv6Edit
TunnelEdits ==
  \/ VxlanVniEdit \/ VxlanInnerEdit \/ VxlanPortEdit
  \/ GtpuTeidEdit \/ GtpuOptionEdit \/ GtpuInnerEdit \/ GtpuPortEdit
  \/ GreOptionEdit \/ GreInnerEdit \/ GrePortEdit

Next ==
  \/ ProtocolEdit \/ PacketTypeEdit \/ FrameLengthTypeEdit \/ FrameLengthEdit \/ PayloadSelect
  \/ LinkEdits \/ NetworkEdits \/ TransportEdits \/ TunnelEdits
  \/ SaveAndOpen

Spec == Init /\ [][Next]_vars

----------------------------------------------------------------------------
(* Properties.                                                             *)

Saved == Normalise(stream)
Message(s) == IsOn(s, "dns_enabled") \/ IsOn(s, "dhcp_enabled")

(* The stream is well formed, and without an IP layer it has no transport. *)
TypeOK ==
  /\ stream \in Stream /\ focus \in Focuses
  /\ ~HasIp(stream) => stream.l4 = "None"

(* Whatever edits, imports and saves led here, a tunnel is one tunnel,     *)
(* over IPv4 and UDP, in a frame of fixed length and between ports that do *)
(* not vary (vxlanSelectionPatch, gtpuSelectionPatch and every later edit).*)
TunnelShape ==
  Tunnel(stream) =>
    /\ ~(IsOn(stream, "vxlan_enabled") /\ IsOn(stream, "gtpu_enabled"))
    /\ stream.l3 = "IPv4" /\ stream.l4 = "UDP" /\ stream.flen = "Fixed"
    /\ ~Varies(stream, L4PortModes)

(* What the server overrules on purpose: the hop limit of an ICMPv6        *)
(* control message is 255, a DNS or DHCP message has a length of its own    *)
(* and, when it varies, no checksum of its own; and the inner addresses of *)
(* a GRE header whose protocol type says another version (GreInnerSent).   *)
Overruled(s) ==
  When(Icmpv6Control(s), {"ipv6_hop_limit"})
    \cup When(Message(s), {"udp_length"})
    \cup When(Message(s) /\ Seen(s) \cap (DnsModes \cup DhcpModes) # {}, {"udp_checksum"})
    \cup When(s.l4 = "GRE" /\ s.gre # GreInnerVersion(s), GreInner4Modes)

(* The fields the traffic generator varies for a stream the page accepts   *)
(* are the fields the panels show varying: no edit leaves a mode behind    *)
(* that no panel shows and the server picks up, and none that is shown is  *)
(* dropped on the way but for what is overruled.                           *)
SentAsSeen ==
  validateWorkbenchStream(stream) => Applied(Saved) = Seen(stream) \ Overruled(stream)

(* The page accepts no frame too short for its headers, so the server      *)
(* leaves the length alone that was typed in; a DNS or DHCP message is the *)
(* exception, and imported bytes have a length of their own.               *)
LengthKept ==
  validateWorkbenchStream(stream) /\ ~IsOn(stream, "bytes") /\ ~Message(stream) =>
    Saved.length = stream.length

(* A saved profile that is opened again is accepted by the page, means     *)
(* what it says and is not changed by saving it once more.  (A varying     *)
(* frame around a DNS or DHCP message may be raised to one length, which   *)
(* the page then refuses.)                                                 *)
ReloadSettles ==
  validateWorkbenchStream(stream) /\ ~(stream.flen # "Fixed" /\ Message(stream)) =>
    /\ validateWorkbenchStream(Saved)
    /\ Normalise(Saved) = Saved
    /\ Applied(Saved) = Seen(Saved)

(* The inner addresses that the GRE editor shows varying are varied on the *)
(* wire.                                                                   *)
GreInnerSent ==
  validateWorkbenchStream(stream) => Seen(stream) \cap GreInnerModes \subseteq Applied(Saved)

=============================================================================
