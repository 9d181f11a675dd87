------------------------- MODULE StreamEditorProofs -------------------------
(***************************************************************************)
(* The stream of the builder under any sequence of edits and saves: it is  *)
(* well formed, a tunnel keeps its shape, the server keeps the length that *)
(* was typed in, and the fields that vary on the wire are the fields that  *)
(* the panels show varying.  For any fields that vary, any lengths and any  *)
(* panels.                                                                 *)
(***************************************************************************)
EXTENDS StreamEditor, FiniteSetTheorems, TLAPS

-----------------------------------------------------------------------------
(* What every edit keeps *)

TunnelFlags == {"vxlan_enabled", "gtpu_enabled"}
PlainFlags == Flags \ TunnelFlags
PlainModes == Modes \ L4PortModes

\* No length is below the shortest frame of Ethernet.
LongEnough(s) == s.length >= 64 /\ s.min >= 64 /\ s.max >= 64

\* A frame of varying length has the longest of its lengths, and headers that allow it.
Steady(s) == s.flen # "Fixed" => s.length = s.max /\ SupportsVariableLength(s)

\* A tunnel is one tunnel, over IPv4 and UDP, between ports that do not vary.
OneTunnel(s) ==
  Tunnel(s) =>
    /\ ~(IsOn(s, "vxlan_enabled") /\ IsOn(s, "gtpu_enabled"))
    /\ s.l3 = "IPv4" /\ s.l4 = "UDP"
    /\ ~Varies(s, L4PortModes)

Layered(s) == ~HasIp(s) => s.l4 = "None"

Fit(s) == s \in Stream /\ Layered(s) /\ OneTunnel(s) /\ Steady(s) /\ LongEnough(s)

\* A change that keeps to the protocols of a stream: it brings in no tunnel, no varying port
\* and no varying length.
Calm(s, t) ==
  /\ t \in Stream /\ t.l3 = s.l3 /\ t.l4 = s.l4
  /\ t.on \cap TunnelFlags \subseteq s.on
  /\ t.vary \cap L4PortModes \subseteq s.vary
  /\ s.length <= t.length /\ s.min <= t.min /\ s.max <= t.max
  /\ t.flen # "Fixed" => s.flen # "Fixed" /\ (s.length = s.max => t.length = t.max)

LEMMA CalmFit ==
  ASSUME NEW s, NEW t, Fit(s), Calm(s, t)
  PROVE  Fit(t)
<1>1. t \in Stream /\ Layered(t)
  BY DEF Fit, Calm, Layered, HasIp
<1>2. Tunnel(t) => Tunnel(s)
  BY DEF Calm, Tunnel, IsOn, TunnelFlags
<1>3. OneTunnel(t)
  BY <1>2 DEF Fit, Calm, OneTunnel, IsOn, Varies, TunnelFlags
<1>4. Steady(t)
  BY <1>2 DEF Fit, Calm, Steady, SupportsVariableLength
<1>5. LongEnough(t)
  BY DEF Fit, Calm, LongEnough, Stream
<1> QED BY <1>1, <1>3, <1>4, <1>5 DEF Fit

LEMMA CalmChain ==
  ASSUME NEW s \in Stream, NEW t, NEW u, Calm(s, t), Calm(t, u)
  PROVE  Calm(s, u)
<1>1. t \in Stream /\ u \in Stream
  BY DEF Calm
<1>2. s.length \in Nat /\ t.length \in Nat /\ u.length \in Nat /\ s.min \in Nat /\ t.min \in Nat /\ u.min \in Nat
      /\ s.max \in Nat /\ t.max \in Nat /\ u.max \in Nat
  BY <1>1 DEF Stream
<1> QED BY <1>1, <1>2 DEF Calm

LEMMA CalmType ==
  ASSUME NEW s, NEW t, Calm(s, t)
  PROVE  t \in Stream
BY DEF Calm

LEMMA CalmTunnel ==
  ASSUME NEW s, NEW t, Calm(s, t), ~Tunnel(s)
  PROVE  ~Tunnel(t)
BY DEF Calm, Tunnel, IsOn, TunnelFlags

-----------------------------------------------------------------------------
(* The ways to write a stream *)

\* No switch has the name of a field.
LEMMA NamesApart ==
  Flags \cap Modes = {}
<1>1. /\ Flags \cap EtherModes = {} /\ Flags \cap ArpModes = {} /\ Flags \cap Ipv4AddressModes = {}
      /\ Flags \cap Ipv4ScalarModes = {} /\ Flags \cap Ipv6AddressModes = {} /\ Flags \cap Ipv6ScalarModes = {}
  BY DEF Flags, GtpuFlags, TcpOptionFlags, GreFlags, Icmpv6Flags, EtherModes, ArpModes, Ipv4AddressModes,
         Ipv4ScalarModes, Ipv6AddressModes, Ipv6ScalarModes
<1>2. /\ Flags \cap VlanModes = {} /\ Flags \cap Vlan2Modes = {} /\ Flags \cap MplsModes = {}
      /\ Flags \cap Mpls2Modes = {} /\ Flags \cap Mpls3Modes = {} /\ Flags \cap L4PortModes = {}
      /\ Flags \cap UdpModes = {}
  BY DEF Flags, GtpuFlags, TcpOptionFlags, GreFlags, Icmpv6Flags, VlanModes, Vlan2Modes, MplsModes, Mpls2Modes,
         Mpls3Modes, L4PortModes, UdpModes
<1>3. Flags \cap DnsModes = {} /\ Flags \cap DhcpModes = {}
  BY DEF Flags, GtpuFlags, TcpOptionFlags, GreFlags, Icmpv6Flags, DnsModes, DnsQueryModes, DnsAnswerModes, DhcpModes,
         DhcpBootpModes, DhcpAddressModes, DhcpOptionModes, DhcpTimerModes, DhcpOptionAddressModes
<1>4. Flags \cap SctpModes = {} /\ Flags \cap TcpCoreModes = {} /\ Flags \cap TcpOptionModes = {} /\ Flags \cap IcmpModes = {}
  BY DEF Flags, GtpuFlags, TcpOptionFlags, GreFlags, Icmpv6Flags, SctpModes, TcpCoreModes, TcpOptionModes, IcmpModes
<1>5. Flags \cap VxlanModes = {} /\ Flags \cap GtpuModes = {} /\ Flags \cap GreModes = {}
  BY DEF Flags, GtpuFlags, TcpOptionFlags, GreFlags, Icmpv6Flags, VxlanModes, VxlanVniModes, VxlanInner4Modes,
         VxlanInner6Modes, VxlanPortModes, GtpuModes, GtpuTeidModes, GtpuOptionModes, GtpuInnerModes, GtpuInner4Modes,
         GtpuInner6Modes, GtpuPortModes, GreModes, GreOptionModes, GreInnerModes, GreInner4Modes, GreInner6Modes,
         GrePortModes
<1> QED BY <1>1, <1>2, <1>3, <1>4, <1>5 DEF Modes

\* The families of fields and switches are made of fields and switches.
LEMMA FieldTypes ==
  /\ EtherModes \cup ArpModes \cup Ipv4AddressModes \cup Ipv4ScalarModes \cup Ipv6AddressModes
       \cup Ipv6ScalarModes \cup VlanModes \cup Vlan2Modes \cup MplsModes \cup Mpls2Modes
       \cup Mpls3Modes \cup UdpModes \cup DnsModes \cup DhcpModes \cup SctpModes
       \cup TcpCoreModes \cup TcpOptionModes \cup IcmpModes \cup VxlanModes \cup GtpuModes
       \cup GreModes \subseteq PlainModes
  /\ GtpuFlags \cup TcpOptionFlags \cup GreFlags \cup Icmpv6Flags \subseteq PlainFlags
  /\ {"vlan_enabled", "vlan2_enabled", "mpls_enabled", "mpls_label2_enabled", "mpls_label3_enabled",
      "l4_src_port_override", "l4_dst_port_override", "udp_length_override", "udp_checksum_override",
      "dns_enabled", "dns_answer_enabled", "dhcp_enabled", "dhcp_option_values", "sctp_checksum_override",
      "sctp_zero", "tcp_checksum_override", "icmp_checksum_override", "gre_type_ipv6", "payload_enabled",
      "flow_stats_enabled", "latency_enabled", "bytes"} \subseteq PlainFlags
  /\ TunnelFlags \subseteq Flags /\ L4PortModes \subseteq Modes
<1>1. GtpuFlags \cup TcpOptionFlags \cup GreFlags \cup Icmpv6Flags \subseteq PlainFlags
  BY DEF PlainFlags, TunnelFlags, Flags, GtpuFlags, TcpOptionFlags, GreFlags, Icmpv6Flags
<1>2. /\ EtherModes \cap L4PortModes = {} /\ ArpModes \cap L4PortModes = {} /\ Ipv4AddressModes \cap L4PortModes = {}
      /\ Ipv4ScalarModes \cap L4PortModes = {} /\ Ipv6AddressModes \cap L4PortModes = {}
      /\ Ipv6ScalarModes \cap L4PortModes = {} /\ VlanModes \cap L4PortModes = {} /\ Vlan2Modes \cap L4PortModes = {}
      /\ MplsModes \cap L4PortModes = {} /\ Mpls2Modes \cap L4PortModes = {} /\ Mpls3Modes \cap L4PortModes = {}
  BY DEF EtherModes, ArpModes, Ipv4AddressModes, Ipv4ScalarModes, Ipv6AddressModes, Ipv6ScalarModes, VlanModes,
         Vlan2Modes, MplsModes, Mpls2Modes, Mpls3Modes, L4PortModes
<1>3. /\ UdpModes \cap L4PortModes = {} /\ DnsModes \cap L4PortModes = {} /\ DhcpModes \cap L4PortModes = {}
      /\ SctpModes \cap L4PortModes = {} /\ TcpCoreModes \cap L4PortModes = {} /\ TcpOptionModes \cap L4PortModes = {}
      /\ IcmpModes \cap L4PortModes = {}
  BY DEF UdpModes, DnsModes, DnsQueryModes, DnsAnswerModes, DhcpModes, DhcpBootpModes, DhcpAddressModes,
         DhcpOptionModes, DhcpTimerModes, DhcpOptionAddressModes, SctpModes, TcpCoreModes, TcpOptionModes, IcmpModes,
         L4PortModes
<1>4. /\ VxlanModes \cap L4PortModes = {} /\ GtpuModes \cap L4PortModes = {} /\ GreModes \cap L4PortModes = {}
  BY DEF VxlanModes, VxlanVniModes, VxlanInner4Modes, VxlanInner6Modes, VxlanPortModes, GtpuModes, GtpuTeidModes,
         GtpuOptionModes, GtpuInnerModes, GtpuInner4Modes, GtpuInner6Modes, GtpuPortModes, GreModes, GreOptionModes,
         GreInnerModes, GreInner4Modes, GreInner6Modes, GrePortModes, L4PortModes
<1>5. {"vlan_enabled", "vlan2_enabled", "mpls_enabled", "mpls_label2_enabled", "mpls_label3_enabled",
      "l4_src_port_override", "l4_dst_port_override", "udp_length_override", "udp_checksum_override",
      "dns_enabled", "dns_answer_enabled", "dhcp_enabled", "dhcp_option_values", "sctp_checksum_override",
      "sctp_zero", "tcp_checksum_override", "icmp_checksum_override", "gre_type_ipv6", "payload_enabled",
      "flow_stats_enabled", "latency_enabled", "bytes"} \subseteq PlainFlags
  BY DEF PlainFlags, TunnelFlags, Flags
<1>6. /\ EtherModes \cup ArpModes \cup Ipv4AddressModes \cup Ipv4ScalarModes \cup Ipv6AddressModes
           \cup Ipv6ScalarModes \cup VlanModes \cup Vlan2Modes \cup MplsModes \cup Mpls2Modes
           \cup Mpls3Modes \cup UdpModes \cup DnsModes \cup DhcpModes \cup SctpModes
           \cup TcpCoreModes \cup TcpOptionModes \cup IcmpModes \cup VxlanModes \cup GtpuModes
           \cup GreModes \subseteq Modes
      /\ L4PortModes \subseteq Modes
  BY DEF Modes
<1>7. TunnelFlags \subseteq Flags
  BY DEF TunnelFlags, Flags
<1> QED BY <1>1, <1>2, <1>3, <1>4, <1>5, <1>6, <1>7 DEF PlainModes

\* The larger of two lengths.
LEMMA LongerLength ==
  ASSUME NEW m \in Nat, NEW n \in Nat
  PROVE  /\ Longer(m, n) \in Nat /\ m <= Longer(m, n) /\ n <= Longer(m, n)
         /\ Longer(m, n) \in {m, n} /\ (n <= m => Longer(m, n) = m)
BY DEF Longer

LEMMA CalmSwitches ==
  ASSUME NEW s \in Stream, NEW F
  PROVE  /\ F \subseteq PlainFlags => Calm(s, TurnOn(s, F))
         /\ Calm(s, TurnOff(s, F)) /\ Calm(s, Fix(s, F)) /\ \A G : Calm(s, Drop(s, F, G))
<1>1. F \subseteq PlainFlags => Calm(s, TurnOn(s, F))
  BY DEF Calm, TurnOn, Stream, PlainFlags
<1>2. Calm(s, TurnOff(s, F))
  BY DEF Calm, TurnOff, Stream
<1>3. ASSUME NEW t \in Stream, NEW G PROVE Calm(t, Fix(t, G))
  BY DEF Calm, Fix, Stream
<1>4. ASSUME NEW G PROVE Calm(s, Drop(s, F, G))
  <2>1. TurnOff(s, F) \in Stream
    BY <1>2 DEF Calm
  <2> QED BY <1>2, <1>3, <2>1, CalmChain DEF Drop
<1> QED BY <1>1, <1>2, <1>3, <1>4

LEMMA CalmLengths ==
  ASSUME NEW s \in Stream, NEW n \in Nat
  PROVE  /\ Calm(s, FixLength(s)) /\ FixLength(s).flen = "Fixed"
         /\ s.flen = "Fixed" => Calm(s, AtLeast(s, n)) /\ AtLeast(s, n).flen = "Fixed"
         /\ Calm(s, minimumFrameLengthPatch(s, n))
<1> USE LongerLength
<1>1. Calm(s, FixLength(s)) /\ FixLength(s).flen = "Fixed"
  BY DEF Calm, FixLength, Stream
<1>2. s.flen = "Fixed" => Calm(s, AtLeast(s, n)) /\ AtLeast(s, n).flen = "Fixed"
  BY DEF Calm, AtLeast, Stream
<1>3. Calm(s, minimumFrameLengthPatch(s, n))
  <2> DEFINE t == minimumFrameLengthPatch(s, n)
  <2>1. /\ t.length = Longer(s.length, n) /\ t.min = Longer(s.min, n) /\ t.max = Longer(s.max, n)
        /\ t.l3 = s.l3 /\ t.l4 = s.l4 /\ t.on = s.on /\ t.vary = s.vary /\ t.flen = s.flen
    BY DEF minimumFrameLengthPatch, AtLeast, Stream
  <2>2. t \in Stream
    BY DEF minimumFrameLengthPatch, AtLeast, Stream
  <2>3. s.length \in Nat /\ s.min \in Nat /\ s.max \in Nat
    BY DEF Stream
  <2>4. s.length <= Longer(s.length, n) /\ s.min <= Longer(s.min, n) /\ s.max <= Longer(s.max, n)
    BY <2>3
  <2> HIDE DEF t
  <2>5. Calm(s, t)
    BY <2>1, <2>2, <2>4 DEF Calm
  <2> QED BY <2>5 DEF t
<1> QED BY <1>1, <1>2, <1>3

LEMMA CalmVersions ==
  ASSUME NEW s \in Stream, NEW v
  PROVE  /\ v \in Versions =>
              Calm(s, [s EXCEPT !.vxlan = v]) /\ Calm(s, [s EXCEPT !.gtpu = v]) /\ Calm(s, [s EXCEPT !.gre = v])
         /\ v \in IcmpTypes => Calm(s, [s EXCEPT !.icmp = v])
BY DEF Calm, Stream

-----------------------------------------------------------------------------
(* The edits of one field *)

Harmless(a) ==
  \/ a.kind = "mode" /\ a.field \in PlainModes
  \/ a.kind = "switch" /\ a.field \in PlainFlags
  \/ a.kind = "value"

LEMMA PlainCalm ==
  ASSUME NEW s \in Stream, NEW a, Harmless(a)
  PROVE  Calm(s, Plain(s, a))
<1>1. CASE a.kind = "mode" /\ a.field \in PlainModes
  <2> DEFINE V == IF a.to = "Varied" THEN s.vary \cup {a.field} ELSE s.vary \ {a.field}
  <2>1. Plain(s, a) = [s EXCEPT !.vary = V]
    BY <1>1 DEF Plain
  <2>2. V \in SUBSET Modes /\ V \cap L4PortModes \subseteq s.vary
    BY <1>1 DEF Stream, PlainModes
  <2> HIDE DEF V
  <2> QED BY <2>1, <2>2 DEF Calm, Stream
<1>2. CASE a.kind = "switch" /\ a.field \in PlainFlags
  <2>1. Plain(s, a) \in {TurnOn(s, {a.field}), TurnOff(s, {a.field})}
    BY <1>2 DEF Plain
  <2> QED BY <1>2, <2>1, CalmSwitches
<1>3. CASE a.kind = "value"
  <2>1. Plain(s, a) = s
    BY <1>3 DEF Plain
  <2> QED BY <2>1 DEF Calm, Stream
<1> QED BY <1>1, <1>2, <1>3 DEF Harmless

LEMMA GateCalm ==
  ASSUME NEW s \in Stream, NEW a, NEW F, a.field \in PlainFlags
  PROVE  Calm(s, Gate(s, a, F))
BY CalmSwitches DEF Gate

\* What the controls of a panel send.
LEMMA Sent ==
  ASSUME NEW F, NEW a
  PROVE  /\ a \in Mode(F) => a.kind = "mode" /\ a.field \in F /\ a.to \in {"Fixed", "Varied"}
         /\ a \in Switch(F) => a.kind = "switch" /\ a.field \in F /\ a.to \in {"on", "off"}
         /\ a \in Value(F) => a.kind = "value" /\ a.field \in F
         /\ \A k, f, C : a \in Choice(k, f, C) => a.kind = k /\ a.field = f /\ a.to \in C
BY DEF Mode, Switch, Value, Choice

\* The actions of the panels that only ever write a field or a switch of their own.
LEMMA LinkActions ==
  ASSUME NEW a \in EtherActions \cup VlanActions \cup VlanInnerActions \cup MplsActions \cup MplsSecondActions
                     \cup MplsThirdActions \cup ArpActions \cup Ipv4AddressActions \cup Ipv4ScalarActions
                     \cup Ipv6AddressActions \cup Ipv6ScalarActions
  PROVE  Harmless(a)
BY Sent, FieldTypes DEF EtherActions, VlanActions, VlanInnerActions, MplsActions, MplsSecondActions, MplsThirdActions,
     ArpActions, Ipv4AddressActions, Ipv4ScalarActions, Ipv6AddressActions, Ipv6ScalarActions, Harmless

LEMMA OtherActions ==
  ASSUME NEW a
  PROVE  /\ a \in TcpCoreActions \cup TcpOptionActions \cup PayloadSelection => Harmless(a)
         /\ a \in UdpActions \cup DnsQueryActions \cup DnsAnswerActions \cup DhcpBootpActions \cup DhcpAddressActions
                    \cup DhcpOptionActions => Harmless(a)
         /\ a \in SctpActions \cup IcmpEchoActions \cup Icmpv6Actions => Harmless(a)
         /\ a \in VlanSelection \cup MplsSelection => Harmless(a)
<1>1. /\ a \in TcpCoreActions \cup TcpOptionActions \cup PayloadSelection => Harmless(a)
      /\ a \in SctpActions \cup IcmpEchoActions \cup Icmpv6Actions => Harmless(a)
      /\ a \in VlanSelection \cup MplsSelection => Harmless(a)
  <2>1. {"icmp_identifier", "icmp_sequence"} \subseteq IcmpModes
    BY DEF IcmpModes
  <2> QED BY <2>1, Sent, FieldTypes DEF TcpCoreActions, TcpOptionActions, PayloadSelection, SctpActions, IcmpEchoActions,
                Icmpv6Actions, VlanSelection, MplsSelection, Harmless
<1>2. a \in UdpActions \cup DnsQueryActions \cup DnsAnswerActions \cup DhcpBootpActions \cup DhcpAddressActions
              \cup DhcpOptionActions => Harmless(a)
  BY Sent, FieldTypes DEF UdpActions, DnsQueryActions, DnsAnswerActions, DhcpBootpActions, DhcpAddressActions,
     DhcpOptionActions, DnsModes, DhcpModes, Harmless
<1> QED BY <1>1, <1>2

Chosen(a, kind, f, C) == a.kind = kind /\ a.field = f /\ a.to \in C

LEMMA TunnelActions ==
  ASSUME NEW a
  PROVE  /\ a \in VxlanVniActions \cup VxlanInnerActions \cup VxlanPortActions =>
              Harmless(a) \/ Chosen(a, "version", "vxlan_inner_ip_version", Versions)
         /\ a \in GtpuTeidActions \cup GtpuOptionActions \cup GtpuInnerActions \cup GtpuPortActions =>
              Harmless(a) \/ Chosen(a, "version", "gtpu_inner_ip_version", Versions)
         /\ a \in GreOptionActions \cup GreInnerActions \cup GrePortActions =>
              Harmless(a) \/ Chosen(a, "version", "gre_inner_ip_version", Versions)
         /\ a \in IcmpTypeActions => Harmless(a) \/ Chosen(a, "type", "icmp_type_value", IcmpTypes)
<1>1. a \in VxlanVniActions \cup VxlanInnerActions \cup VxlanPortActions =>
        Harmless(a) \/ Chosen(a, "version", "vxlan_inner_ip_version", Versions)
  BY Sent, FieldTypes DEF VxlanVniActions, VxlanInnerActions, VxlanPortActions, VxlanModes, Harmless, Chosen
<1>2. a \in GtpuTeidActions \cup GtpuOptionActions \cup GtpuInnerActions \cup GtpuPortActions =>
        Harmless(a) \/ Chosen(a, "version", "gtpu_inner_ip_version", Versions)
  BY Sent, FieldTypes DEF GtpuTeidActions, GtpuOptionActions, GtpuInnerActions, GtpuPortActions, GtpuModes,
     GtpuInnerModes, Harmless, Chosen
<1>3. a \in GreOptionActions \cup GreInnerActions \cup GrePortActions =>
        Harmless(a) \/ Chosen(a, "version", "gre_inner_ip_version", Versions)
  BY Sent, FieldTypes DEF GreOptionActions, GreInnerActions, GrePortActions, GreModes, GreInnerModes, Harmless, Chosen
<1>4. a \in IcmpTypeActions => Harmless(a) \/ Chosen(a, "type", "icmp_type_value", IcmpTypes)
  <2>1. {"icmp_type", "icmp_code"} \subseteq IcmpModes
    BY DEF IcmpModes
  <2> QED BY <2>1, Sent, FieldTypes DEF IcmpTypeActions, Harmless, Chosen
<1> QED BY <1>1, <1>2, <1>3, <1>4

\* The lengths the rules ask for are lengths.
LEMMA NaturalLengths ==
  ASSUME NEW s
  PROVE  /\ Frame(s) \in Nat /\ sctpMinimumFrameLength(s) \in Nat /\ icmpv6ControlMinimumFrameLength(s) \in Nat
         /\ udpApplicationMinimumFrameLength(s, 29) \in Nat /\ udpApplicationMinimumFrameLength(s, 45) \in Nat
         /\ udpApplicationMinimumFrameLength(s, 300) \in Nat
<1>1. Frame(s) \in Nat
  BY DEF Frame, VlanHeader, MplsCount
<1>2. \A v : IpHeader(v) \in Nat
  BY DEF IpHeader
<1>3. /\ sctpMinimumFrameLength(s) \in Nat
      /\ udpApplicationMinimumFrameLength(s, 29) \in Nat /\ udpApplicationMinimumFrameLength(s, 45) \in Nat
      /\ udpApplicationMinimumFrameLength(s, 300) \in Nat
  BY <1>1, <1>2 DEF sctpMinimumFrameLength, udpApplicationMinimumFrameLength
<1>4. icmpv6ControlMinimumFrameLength(s) \in Nat
  BY <1>1 DEF icmpv6ControlMinimumFrameLength, SourceLinkLayer, Longer
<1> QED BY <1>1, <1>3, <1>4

LEMMA MessageCalm ==
  ASSUME NEW s \in Stream, NEW F, NEW G, NEW H, NEW m \in Nat, F \subseteq PlainFlags
  PROVE  Calm(s, minimumFrameLengthPatch(TurnOn(Drop(s, G, H), F), m))
<1>1. Calm(s, Drop(s, G, H)) /\ Drop(s, G, H) \in Stream
  BY CalmSwitches, CalmType
<1>2. Calm(Drop(s, G, H), TurnOn(Drop(s, G, H), F)) /\ TurnOn(Drop(s, G, H), F) \in Stream
  BY <1>1, CalmSwitches, CalmType
<1>3. Calm(TurnOn(Drop(s, G, H), F), minimumFrameLengthPatch(TurnOn(Drop(s, G, H), F), m))
  BY <1>2, CalmLengths
<1> QED BY <1>1, <1>2, <1>3, CalmChain

LEMMA ApplicationPatches ==
  ASSUME NEW s \in Stream, NEW a, Harmless(a)
  PROVE  Calm(s, VlanPatch(s, a)) /\ Calm(s, MplsPatch(s, a)) /\ Calm(s, UdpPatch(s, a)) /\ Calm(s, DnsPatch(s, a))
         /\ Calm(s, DhcpPatch(s, a)) /\ Calm(s, SctpPatch(s, a))
<1>0. \A t : Calm(s, t) => t \in Stream
  BY DEF Calm
<1>1. Calm(s, VlanPatch(s, a))
  BY PlainCalm, GateCalm, CalmSwitches, FieldTypes DEF VlanPatch, vlanSelectionPatch
<1>2. Calm(s, MplsPatch(s, a))
  <2>1. Calm(s, mplsSecondLabelSelectionPatch(s, a.to = "on"))
    BY CalmSwitches, FieldTypes DEF mplsSecondLabelSelectionPatch
  <2>2. Calm(s, mplsThirdLabelSelectionPatch(s, a.to = "on"))
    <3> DEFINE t == TurnOn(s, {"mpls_label2_enabled"})
    <3>1. Calm(s, t) /\ t \in Stream
      BY <1>0, CalmSwitches, FieldTypes
    <3>2. Calm(t, TurnOn(t, {"mpls_label3_enabled"})) /\ Calm(t, Drop(t, {"mpls_label3_enabled"}, Mpls3Modes))
      BY <3>1, CalmSwitches, FieldTypes
    <3> QED BY <3>1, <3>2, CalmChain DEF mplsThirdLabelSelectionPatch
  <2> QED BY <2>1, <2>2, PlainCalm DEF MplsPatch
<1>3. Calm(s, UdpPatch(s, a))
  BY PlainCalm, GateCalm, FieldTypes DEF UdpPatch
<1>4. Calm(s, DnsPatch(s, a))
  <2>1. Calm(s, dnsSelectionPatch(s, a.to = "on"))
    <3> DEFINE F == {"dns_enabled", "l4_dst_port_override"}
               G == {"dhcp_enabled", "udp_length_override", "udp_checksum_override"}
               H == {"udp_length"} \cup (DhcpModes \ DhcpTimerModes)
    <3>1. F \subseteq PlainFlags
      BY FieldTypes
    <3> HIDE DEF F, G, H
    <3>5. udpApplicationMinimumFrameLength(s, 29) \in Nat
      BY NaturalLengths
    <3>4. Calm(s, minimumFrameLengthPatch(TurnOn(Drop(s, G, H), F), udpApplicationMinimumFrameLength(s, 29)))
      BY <3>1, <3>5, MessageCalm
    <3>2. CASE a.to = "on"
      BY <3>2, <3>4 DEF dnsSelectionPatch, F, G, H
    <3>3. CASE a.to # "on"
      BY <3>3, CalmSwitches DEF dnsSelectionPatch
    <3> QED BY <3>2, <3>3
  <2>2. Calm(s, dnsAnswerSelectionPatch(s, a.to = "on"))
    <3> DEFINE t == TurnOn(s, {"dns_answer_enabled"})
               u == Fix(t, {"dns_query_type", "dns_query_class"})
    <3>1. Calm(s, t) /\ t \in Stream
      BY <1>0, CalmSwitches, FieldTypes
    <3>2. Calm(t, u) /\ u \in Stream
      BY <3>1, CalmSwitches, CalmType
    <3>3. Calm(u, minimumFrameLengthPatch(u, udpApplicationMinimumFrameLength(s, 45)))
      BY <3>2, CalmLengths, NaturalLengths
    <3>4. Calm(s, minimumFrameLengthPatch(u, udpApplicationMinimumFrameLength(s, 45)))
      BY <3>1, <3>2, <3>3, CalmChain
    <3> QED BY <3>4, CalmSwitches DEF dnsAnswerSelectionPatch
  <2> QED BY <2>1, <2>2, PlainCalm DEF DnsPatch
<1>5. Calm(s, DhcpPatch(s, a))
  <2>1. Calm(s, dhcpSelectionPatch(s, a.to = "on"))
    <3> DEFINE F == {"dhcp_enabled", "l4_src_port_override", "l4_dst_port_override"}
               G == {"dns_enabled", "dns_answer_enabled", "udp_length_override", "udp_checksum_override"}
               H == {"udp_length"} \cup DnsModes
    <3>1. F \subseteq PlainFlags
      BY FieldTypes
    <3> HIDE DEF F, G, H
    <3>5. udpApplicationMinimumFrameLength(s, 300) \in Nat
      BY NaturalLengths
    <3>4. Calm(s, minimumFrameLengthPatch(TurnOn(Drop(s, G, H), F), udpApplicationMinimumFrameLength(s, 300)))
      BY <3>1, <3>5, MessageCalm
    <3>2. CASE a.to = "on"
      BY <3>2, <3>4 DEF dhcpSelectionPatch, F, G, H
    <3>3. CASE a.to # "on"
      BY <3>3, CalmSwitches DEF dhcpSelectionPatch
    <3> QED BY <3>2, <3>3
  <2> QED BY <2>1, PlainCalm DEF DhcpPatch
<1>6. Calm(s, SctpPatch(s, a))
  <2>1. Calm(s, Plain(s, a)) /\ Plain(s, a) \in Stream
    BY <1>0, PlainCalm
  <2>2. Calm(s, TurnOn(Plain(s, a), {"sctp_checksum_override", "sctp_zero"}))
    BY <2>1, CalmSwitches, CalmChain, FieldTypes
  <2> QED BY <2>1, <2>2, CalmSwitches DEF SctpPatch, sctpChecksumCoupledModePatch
<1> QED BY <1>1, <1>2, <1>3, <1>4, <1>5, <1>6

LEMMA IcmpPatches ==
  ASSUME NEW s, Fit(s), s.l4 = "ICMP", NEW a
  PROVE  /\ Harmless(a) \/ Chosen(a, "type", "icmp_type_value", IcmpTypes) => Calm(s, IcmpPatch(s, a))
         /\ Harmless(a) => Calm(s, Icmpv6Patch(s, a))
<1>0. s \in Stream /\ \A t : Calm(s, t) => t \in Stream
  BY DEF Calm, Fit
<1>1. s.flen = "Fixed"
  BY DEF Fit, Steady, SupportsVariableLength
<1>2. ASSUME NEW k \in IcmpTypes PROVE Calm(s, icmpTypePatch(s, k))
  <2> DEFINE t == [s EXCEPT !.icmp = k]
             u == Drop(t, {"icmp_checksum_override"}, IcmpModes \cup {"ipv6_hop_limit"})
             n == icmpv6ControlMinimumFrameLength(t)
  <2>1. Calm(s, t) /\ t \in Stream
    BY <1>0, <1>2, CalmVersions
  <2> HIDE DEF t
  <2>2. Calm(t, Fix(t, IcmpModes)) /\ Calm(t, u) /\ u \in Stream
    BY <2>1, CalmSwitches, CalmType
  <2>3. Calm(u, FixLength(u)) /\ FixLength(u) \in Stream /\ FixLength(u).flen = "Fixed"
    BY <2>2, CalmLengths, CalmType
  <2>4. n \in Nat
    BY NaturalLengths
  <2>5. Calm(FixLength(u), AtLeast(FixLength(u), n))
    BY <2>3, <2>4, CalmLengths
  <2>6. Calm(s, AtLeast(FixLength(u), n))
    BY <1>0, <2>1, <2>2, <2>3, <2>5, CalmChain
  <2>7. Calm(s, Fix(t, IcmpModes))
    BY <1>0, <2>1, <2>2, CalmChain
  <2>8. icmpTypePatch(s, k) \in {AtLeast(FixLength(u), n), Fix(t, IcmpModes), t}
    BY DEF icmpTypePatch, t
  <2> QED BY <2>1, <2>6, <2>7, <2>8
<1>3. Harmless(a) => Calm(s, Plain(s, a)) /\ Plain(s, a) \in Stream
  BY <1>0, PlainCalm
<1>4. Harmless(a) => Calm(s, icmpChecksumCoupledModePatch(s, a))
  BY <1>0, <1>3, CalmSwitches, CalmChain DEF icmpChecksumCoupledModePatch
<1>5. Harmless(a) \/ Chosen(a, "type", "icmp_type_value", IcmpTypes) => Calm(s, IcmpPatch(s, a))
  BY <1>2, <1>3, <1>4 DEF IcmpPatch, Harmless, Chosen
<1>6. ASSUME Harmless(a) PROVE Calm(s, Icmpv6Patch(s, a))
  <2> DEFINE t == Plain(s, a)
  <2>1. Calm(s, t) /\ t \in Stream /\ t.flen = "Fixed"
    BY <1>1, <1>3, <1>6 DEF Calm
  <2>2. Calm(t, AtLeast(t, icmpv6ControlMinimumFrameLength(t)))
    BY <2>1, CalmLengths, NaturalLengths
  <2> HIDE DEF t
  <2>3. Calm(s, AtLeast(t, icmpv6ControlMinimumFrameLength(t)))
    BY <1>0, <2>1, <2>2, CalmChain
  <2>4. Icmpv6Patch(s, a) \in {t, AtLeast(t, icmpv6ControlMinimumFrameLength(t))}
    BY DEF Icmpv6Patch, t
  <2> QED BY <2>1, <2>3, <2>4
<1> QED BY <1>5, <1>6

\* The frame of a tunnel that is fixed may grow.
LEMMA TunnelLengths ==
  ASSUME NEW s \in Stream, NEW n \in Nat, s.flen = "Fixed"
  PROVE  Calm(s, TunnelLength(s, n)) /\ TunnelLength(s, n).flen = "Fixed"
<1> DEFINE t == TunnelLength(s, n)
<1>1. s.length \in Nat /\ s.min \in Nat /\ s.max \in Nat
  BY DEF Stream
<1>2. /\ t.length = Longer(s.length, n) /\ t.min = s.min /\ t.max = Longer(s.max, Longer(s.length, n))
      /\ t.l3 = s.l3 /\ t.l4 = s.l4 /\ t.on = s.on /\ t.vary = s.vary /\ t.flen = s.flen
  BY DEF TunnelLength, AtLeast, Stream
<1>3. Longer(s.length, n) \in Nat /\ s.length <= Longer(s.length, n)
  BY <1>1, LongerLength
<1>4. Longer(s.max, Longer(s.length, n)) \in Nat /\ s.max <= Longer(s.max, Longer(s.length, n))
  BY <1>1, <1>3, LongerLength
<1>5. t \in Stream
  BY <1>3, <1>4 DEF TunnelLength, AtLeast, Stream
<1> HIDE DEF t
<1>6. Calm(s, t)
  BY <1>1, <1>2, <1>3, <1>4, <1>5 DEF Calm
<1> QED BY <1>2, <1>6 DEF t

LEMMA VersionPatches ==
  ASSUME NEW s \in Stream, NEW v \in Versions
  PROVE  Calm(s, vxlanInnerIpVersionPatch(s, v)) /\ Calm(s, gtpuInnerIpVersionPatch(s, v))
<1>1. ASSUME NEW t, Calm(s, t), NEW F, NEW n \in Nat PROVE Calm(s, TunnelLength(FixLength(Fix(t, F)), n))
  <2>1. t \in Stream
    BY <1>1 DEF Calm
  <2>2. Calm(t, Fix(t, F)) /\ Fix(t, F) \in Stream
    BY <2>1, CalmSwitches, CalmType
  <2>3. Calm(Fix(t, F), FixLength(Fix(t, F))) /\ FixLength(Fix(t, F)) \in Stream /\ FixLength(Fix(t, F)).flen = "Fixed"
    BY <2>2, CalmLengths, CalmType
  <2>4. Calm(FixLength(Fix(t, F)), TunnelLength(FixLength(Fix(t, F)), n))
    BY <1>1, <2>3, TunnelLengths
  <2> QED BY <1>1, <2>1, <2>2, <2>3, <2>4, CalmChain
<1>2. Calm(s, [s EXCEPT !.vxlan = v]) /\ Calm(s, [s EXCEPT !.gtpu = v])
  BY CalmVersions
<1>3. Calm(s, vxlanInnerIpVersionPatch(s, v))
  BY <1>1, <1>2 DEF vxlanInnerIpVersionPatch
<1>4. Calm(s, gtpuInnerIpVersionPatch(s, v))
  <2>1. (IF v = "IPv6" THEN 116 ELSE 96) \in Nat
    OBVIOUS
  <2> QED BY <1>1, <1>2, <2>1 DEF gtpuInnerIpVersionPatch
<1> QED BY <1>3, <1>4

LEMMA TunnelPatches ==
  ASSUME NEW s \in Stream, NEW a
  PROVE  /\ Harmless(a) \/ Chosen(a, "version", "vxlan_inner_ip_version", Versions) => Calm(s, VxlanPatch(s, a))
         /\ Harmless(a) \/ Chosen(a, "version", "gtpu_inner_ip_version", Versions) => Calm(s, GtpuPatch(s, a))
<1>1. Harmless(a) \/ Chosen(a, "version", "vxlan_inner_ip_version", Versions) => Calm(s, VxlanPatch(s, a))
  BY PlainCalm, VersionPatches DEF VxlanPatch, Harmless, Chosen
<1>2. Chosen(a, "version", "gtpu_inner_ip_version", Versions) => Calm(s, GtpuPatch(s, a))
  BY VersionPatches DEF GtpuPatch, Chosen
<1>3. ASSUME Harmless(a) PROVE Calm(s, GtpuPatch(s, a))
  <2>1. a.kind # "version"
    BY <1>3 DEF Harmless
  <2>2. GtpuFlags = {"gtpu_sequence_enabled", "gtpu_npdu_enabled", "gtpu_extension_enabled"}
    BY DEF GtpuFlags
  <2> QED BY <1>3, <2>1, <2>2, PlainCalm, GateCalm, FieldTypes DEF GtpuPatch
<1> QED BY <1>1, <1>2, <1>3

LEMMA GrePatches ==
  ASSUME NEW s, Fit(s), s.l4 = "GRE", NEW a, Harmless(a) \/ Chosen(a, "version", "gre_inner_ip_version", Versions)
  PROVE  Calm(s, GrePatch(s, a))
<1>0. s \in Stream /\ \A t : Calm(s, t) => t \in Stream
  BY DEF Calm, Fit
<1>1. s.flen = "Fixed"
  BY DEF Fit, Steady, SupportsVariableLength
<1>2. ASSUME NEW t, Calm(s, t), NEW n \in Nat PROVE Calm(s, AtLeast(t, n))
  <2>1. t \in Stream /\ t.flen = "Fixed"
    BY <1>1, <1>2 DEF Calm
  <2>2. Calm(t, AtLeast(t, n))
    BY <2>1, CalmLengths
  <2> QED BY <1>0, <1>2, <2>2, CalmChain
<1>3. GreFlags = {"gre_checksum_present", "gre_checksum_override", "gre_key_present", "gre_sequence_present"}
  BY DEF GreFlags
<1>4. CASE Chosen(a, "version", "gre_inner_ip_version", Versions)
  <2> DEFINE t == [s EXCEPT !.gre = a.to]
  <2>1. Calm(s, t) /\ t \in Stream
    BY <1>0, <1>4, CalmVersions DEF Chosen
  <2> HIDE DEF t
  <2>2. Calm(t, TurnOn(t, {"gre_type_ipv6"})) /\ Calm(t, TurnOff(t, {"gre_type_ipv6"}))
    BY <2>1, CalmSwitches, FieldTypes
  <2>3. Calm(s, TurnOn(t, {"gre_type_ipv6"})) /\ Calm(s, TurnOff(t, {"gre_type_ipv6"}))
    BY <1>0, <2>1, <2>2, CalmChain
  <2>4. \A u, F : Calm(s, u) => Calm(s, Fix(u, F))
    BY <1>0, CalmSwitches, CalmChain
  <2>5. Calm(s, AtLeast(Fix(TurnOn(t, {"gre_type_ipv6"}), GreInner4Modes), 90))
    BY <1>2, <2>3, <2>4
  <2>6. Calm(s, AtLeast(Fix(TurnOff(t, {"gre_type_ipv6"}), GreInner6Modes), 64))
    BY <1>2, <2>3, <2>4
  <2> QED BY <1>4, <2>5, <2>6 DEF GrePatch, greInnerIpVersionPatch, Chosen, t
<1>5. CASE Harmless(a) /\ a.kind = "mode"
  <2> DEFINE t == TurnOff(Plain(s, a), {"gre_checksum_present", "gre_checksum_override"})
  <2>1. Calm(s, Plain(s, a)) /\ Plain(s, a) \in Stream
    BY <1>0, <1>5, PlainCalm
  <2>2. Calm(s, t) /\ t \in Stream
    BY <1>0, <2>1, CalmSwitches, CalmChain
  <2> HIDE DEF t
  <2>3. Calm(t, TurnOn(t, {"gre_key_present"})) /\ Calm(t, TurnOn(t, {"gre_sequence_present"}))
    BY <1>3, <2>2, CalmSwitches, FieldTypes
  <2>4. Calm(s, TurnOn(t, {"gre_key_present"})) /\ Calm(s, TurnOn(t, {"gre_sequence_present"}))
    BY <1>0, <2>2, <2>3, CalmChain
  <2>5. a.field \notin GreFlags
    BY <1>5, NamesApart, FieldTypes DEF Harmless, PlainModes, PlainFlags
  <2>6. GrePatch(s, a) = greChecksumInvalidatingModePatch(s, a)
    BY <1>3, <1>5, <2>5 DEF GrePatch
  <2> QED BY <2>2, <2>4, <2>6 DEF greChecksumInvalidatingModePatch, t
<1>6. CASE Harmless(a) /\ a.kind # "mode"
  <2>1. ASSUME NEW F, NEW G, a.field \in PlainFlags PROVE Calm(s, greOptionPatch(s, a, F, G))
    <3>1. Calm(s, TurnOn(s, {a.field})) /\ Calm(s, Drop(s, F, G))
      BY <1>0, <2>1, CalmSwitches
    <3> QED BY <1>2, <3>1 DEF greOptionPatch
  <2>2. a.kind # "version" /\ Calm(s, Plain(s, a))
    BY <1>0, <1>6, PlainCalm DEF Harmless
  <2> QED BY <1>3, <1>6, <2>1, <2>2, FieldTypes DEF GrePatch
<1> QED BY <1>4, <1>5, <1>6

-----------------------------------------------------------------------------
(* The edits that change what a stream is made of *)

\* A port is locked under a tunnel.
LEMMA PortPatch ==
  ASSUME NEW s, Fit(s), NEW a \in L4PortActions, a.field \in L4PortPanel(s)
  PROVE  Fit(L4PortPatch(s, a))
<1>0. s \in Stream
  BY DEF Fit
<1>1. CASE a \in Value(L4PortModes) \cup Switch({"l4_src_port_override", "l4_dst_port_override"})
  <2>1. Harmless(a)
    BY <1>1, Sent, FieldTypes DEF Harmless
  <2>2. L4PortPatch(s, a) \in {Plain(s, a), Gate(s, a, {"l4_src_port"}), Gate(s, a, {"l4_dst_port"})}
    BY DEF L4PortPatch
  <2>3. a.field \in {"l4_src_port_override", "l4_dst_port_override"} => a.field \in PlainFlags
    BY FieldTypes
  <2>4. Calm(s, L4PortPatch(s, a))
    BY <1>0, <2>1, <2>3, PlainCalm, GateCalm DEF L4PortPatch
  <2> QED BY <2>4, CalmFit
<1>2. CASE a \in Mode(L4PortModes)
  <2> DEFINE V == IF a.to = "Varied" THEN s.vary \cup {a.field} ELSE s.vary \ {a.field}
             t == [s EXCEPT !.vary = V]
  <2>1. a.kind = "mode" /\ a.field \in L4PortModes
    BY <1>2, Sent
  <2>2. ~Tunnel(s)
    BY <2>1 DEF L4PortPanel, L4PortLocked, When
  <2>3. L4PortPatch(s, a) = t
    <3>1. a.field \notin {"l4_src_port_override", "l4_dst_port_override"}
      BY <2>1 DEF L4PortModes
    <3> QED BY <2>1, <3>1 DEF L4PortPatch, Plain
  <2>4. V \in SUBSET Modes
    BY <1>0, <2>1, FieldTypes DEF Stream
  <2> HIDE DEF V
  <2>5. /\ t \in Stream /\ t.on = s.on /\ t.l3 = s.l3 /\ t.l4 = s.l4 /\ t.flen = s.flen /\ t.length = s.length
        /\ t.min = s.min /\ t.max = s.max
    BY <1>0, <2>4 DEF Stream
  <2> HIDE DEF t
  <2>6. ~Tunnel(t) /\ Layered(t)
    BY <2>2, <2>5 DEF Fit, Tunnel, IsOn, Layered, HasIp
  <2>7. Fit(t)
    BY <2>2, <2>5, <2>6 DEF Fit, OneTunnel, Steady, LongEnough, SupportsVariableLength
  <2> QED BY <2>3, <2>7
<1> QED BY <1>1, <1>2 DEF L4PortActions

LEMMA TypedLengths ==
  ASSUME NEW n \in Lengths
  PROVE  n \in Nat /\ n >= 64
BY PanelsAssumption

\* The longest length of a varying frame is its length; the type of a frame is chosen where
\* the headers allow it.
LEMMA LengthPatch ==
  ASSUME NEW s, Fit(s), NEW a \in FrameLengthType \cup FrameLengthValue, FrameLengthEnabled(s, a)
  PROVE  Fit(FrameLengthPatch(s, a))
<1>0. /\ s \in Stream /\ s.length \in Nat /\ s.min \in Nat /\ s.max \in Nat
      /\ s.min >= 64 /\ s.max >= 64 /\ s.length >= 64
  BY DEF Fit, Stream, LongEnough
<1>1. CASE a \in FrameLengthValue
  <2>1. a.kind \in {"length", "min", "max"} /\ a.to \in Lengths
    BY <1>1, Sent DEF FrameLengthValue
  <2>2. a.to \in Nat /\ a.to >= 64
    BY <2>1, TypedLengths
  <2> DEFINE t == FrameLengthPatch(s, a)
  <2>3. t \in Stream
    BY <1>0, <2>1, <2>2 DEF FrameLengthPatch, Stream
  <2>4. t.on = s.on /\ t.vary = s.vary /\ t.l3 = s.l3 /\ t.l4 = s.l4 /\ t.flen = s.flen
    BY <1>0, <2>1 DEF FrameLengthPatch, Stream
  <2>5. t.length >= 64 /\ t.min >= 64 /\ t.max >= 64
    BY <1>0, <2>1, <2>2 DEF FrameLengthPatch, Stream
  <2>6. s.flen # "Fixed" => a.kind \in {"min", "max"}
    BY <2>1 DEF FrameLengthEnabled
  <2>7. s.length = s.max /\ a.kind \in {"min", "max"} => t.length = t.max
    BY <1>0, <2>1 DEF FrameLengthPatch, Stream
  <2> HIDE DEF t
  <2>8. Tunnel(t) <=> Tunnel(s)
    BY <2>4 DEF Tunnel, IsOn
  <2>9. Fit(t)
    BY <2>3, <2>4, <2>5, <2>6, <2>7, <2>8 DEF Fit, Layered, HasIp, OneTunnel, IsOn, Varies, Steady, LongEnough, SupportsVariableLength
  <2> QED BY <2>9 DEF t
<1>2. CASE a \in FrameLengthType
  <2>1. a.kind = "type" /\ a.to \in {"Fixed", "Varied"} /\ SupportsVariableLength(s)
    BY <1>2, Sent DEF FrameLengthType, FrameLengthEnabled
  <2> DEFINE n == Longer(s.max, s.min + 5)
             t == [s EXCEPT !.flen = "Varied", !.max = n, !.length = n]
  <2>2. FrameLengthPatch(s, a) \in {FixLength(s), t}
    BY <2>1 DEF FrameLengthPatch, frameLengthTypePatch
  <2>3. n \in Nat /\ n >= 64
    BY <1>0 DEF Longer
  <2> HIDE DEF n
  <2>4. /\ t \in Stream /\ t.on = s.on /\ t.vary = s.vary /\ t.l3 = s.l3 /\ t.l4 = s.l4 /\ t.length = n
        /\ t.max = n /\ t.min = s.min
    BY <1>0, <2>3 DEF Stream
  <2> HIDE DEF t
  <2>5. ~Tunnel(t) /\ SupportsVariableLength(t)
    BY <2>1, <2>4 DEF Tunnel, IsOn, SupportsVariableLength
  <2>6. Fit(t)
    BY <1>0, <2>3, <2>4, <2>5 DEF Fit, Layered, HasIp, OneTunnel, Steady, LongEnough
  <2> QED BY <1>0, <2>2, <2>6, CalmLengths, CalmFit
<1> QED BY <1>1, <1>2

LEMMA Forgotten ==
  ASSUME NEW s \in Stream
  PROVE  /\ Calm(s, ForgetPorts(s)) /\ Calm(s, ForgetUdp(s)) /\ Calm(s, ForgetEcho(s)) /\ Calm(s, ForgetSctp(s))
         /\ Calm(s, ForgetGtpu(s)) /\ Calm(s, ForgetVxlan(s))
         /\ Calm(s, ForgetTransport(s)) /\ ~Tunnel(ForgetTransport(s))
         /\ Calm(s, ForgetVxlan(ForgetGtpu(s))) /\ ~Tunnel(ForgetVxlan(ForgetGtpu(s)))
<1>0. \A t : Calm(s, t) => t \in Stream
  BY DEF Calm
<1>1. ASSUME NEW t \in Stream PROVE Calm(t, ForgetPorts(t)) /\ Calm(t, ForgetUdp(t)) /\ Calm(t, ForgetEcho(t)) /\ Calm(t, ForgetSctp(t))
  BY CalmSwitches DEF ForgetPorts, ForgetUdp, ForgetEcho, ForgetSctp
<1>2. ASSUME NEW t \in Stream PROVE Calm(t, ForgetGtpu(t)) /\ ~IsOn(ForgetGtpu(t), "gtpu_enabled")
  <2> DEFINE u == [t EXCEPT !.gtpu = "IPv4"]
  <2>1. Calm(t, u) /\ u \in Stream
    BY CalmVersions, CalmType DEF Versions
  <2> HIDE DEF u
  <2>2. Calm(u, Drop(u, {"gtpu_enabled"} \cup GtpuFlags, GtpuModes))
    BY <2>1, CalmSwitches
  <2>3. ~IsOn(Drop(u, {"gtpu_enabled"} \cup GtpuFlags, GtpuModes), "gtpu_enabled")
    BY <2>1 DEF IsOn, Drop, Fix, TurnOff, Stream
  <2> QED BY <2>1, <2>2, <2>3, CalmChain DEF ForgetGtpu, u
<1>3. ASSUME NEW t \in Stream
      PROVE  /\ Calm(t, ForgetVxlan(t)) /\ ~IsOn(ForgetVxlan(t), "vxlan_enabled")
             /\ ~IsOn(t, "gtpu_enabled") => ~IsOn(ForgetVxlan(t), "gtpu_enabled")
  <2> DEFINE u == [t EXCEPT !.vxlan = "IPv4"]
  <2>1. Calm(t, u) /\ u \in Stream /\ u.on = t.on
    BY CalmVersions, CalmType DEF Versions, Stream
  <2> HIDE DEF u
  <2>2. Calm(u, Drop(u, {"vxlan_enabled"}, VxlanModes))
    BY <2>1, CalmSwitches
  <2>3. Drop(u, {"vxlan_enabled"}, VxlanModes).on = u.on \ {"vxlan_enabled"}
    BY <2>1 DEF Drop, Fix, TurnOff, Stream
  <2> QED BY <2>1, <2>2, <2>3, CalmChain DEF ForgetVxlan, u, IsOn
<1>4. ASSUME NEW t, Calm(s, t) PROVE Calm(s, ForgetVxlan(ForgetGtpu(t))) /\ ~Tunnel(ForgetVxlan(ForgetGtpu(t)))
  <2>1. t \in Stream /\ ForgetGtpu(t) \in Stream
    BY <1>2, <1>4 DEF Calm
  <2>2. Calm(s, ForgetGtpu(t))
    BY <1>2, <1>4, <2>1, CalmChain
  <2>3. Calm(s, ForgetVxlan(ForgetGtpu(t)))
    BY <1>3, <2>1, <2>2, CalmChain
  <2>4. ~Tunnel(ForgetVxlan(ForgetGtpu(t)))
    BY <1>2, <1>3, <2>1 DEF Tunnel
  <2> QED BY <2>3, <2>4
<1>5. Calm(s, ForgetEcho(ForgetUdp(ForgetPorts(s))))
  <2>1. Calm(s, ForgetPorts(s)) /\ ForgetPorts(s) \in Stream
    BY <1>0, <1>1
  <2>2. Calm(s, ForgetUdp(ForgetPorts(s))) /\ ForgetUdp(ForgetPorts(s)) \in Stream
    BY <1>0, <1>1, <2>1, CalmChain
  <2> QED BY <1>1, <2>2, CalmChain
<1>6. Calm(s, s)
  BY DEF Calm, Stream
<1> QED BY <1>1, <1>2, <1>3, <1>4, <1>5, <1>6 DEF ForgetTransport

\* A protocol is chosen: whatever tunnel there was is gone, or the choice was refused, or it
\* is the IPv4 and UDP the tunnel already had.
LEMMA PacketTypePatch ==
  ASSUME NEW s, Fit(s), NEW l3 \in Network, NEW l4 \in Transport
  PROVE  Fit(packetTypePatch(s, l3, l4))
<1> DEFINE t == packetTypeFor(s, l3, l4)
           kept == IF t.l4 = "SCTP" THEN t ELSE ForgetSctp(t)
<1>0. s \in Stream
  BY DEF Fit
<1>1. /\ t \in Stream /\ t.l3 = l3 /\ (HasIp(t) \/ t.l4 = "None") /\ t.flen = s.flen /\ t.on = s.on /\ t.vary = s.vary
      /\ t.length = s.length /\ t.min = s.min /\ t.max = s.max
  <2>1. (IF l3 \in Versions THEN l4 ELSE "None") \in Transport
    BY DEF Transport
  <2>2. /\ t \in Stream /\ t.l3 = l3 /\ t.l4 = (IF l3 \in Versions THEN l4 ELSE "None")
        /\ t.flen = s.flen /\ t.on = s.on /\ t.vary = s.vary /\ t.length = s.length /\ t.min = s.min /\ t.max = s.max
    BY <1>0, <2>1 DEF packetTypeFor, Stream
  <2> QED BY <2>2 DEF HasIp
<1> HIDE DEF t
<1>2. Calm(t, kept) /\ kept \in Stream
  <2>1. Calm(t, t)
    BY <1>1 DEF Calm, Stream
  <2> QED BY <1>1, <2>1, Forgotten, CalmType
<1> HIDE DEF kept
\* What is left without a tunnel, in a frame of fixed length or of headers that allow it to vary, is well formed.
<1>3. ASSUME NEW u, Calm(t, u), ~Tunnel(u), u.flen = "Fixed" \/ u.l4 \notin {"ICMP", "GRE", "SCTP"}
      PROVE  Fit(u)
  <2>1. u \in Stream /\ Layered(u)
    BY <1>1, <1>3 DEF Calm, Layered, HasIp
  <2>2. OneTunnel(u)
    BY <1>3 DEF OneTunnel
  <2>3. Steady(u)
    BY <1>1, <1>3 DEF Steady, SupportsVariableLength, Calm, Fit
  <2>4. LongEnough(u)
    BY <1>1, <1>3, <2>1 DEF LongEnough, Calm, Fit, Stream
  <2> QED BY <2>1, <2>2, <2>3, <2>4 DEF Fit
<1>4. /\ Calm(t, ForgetTransport(kept)) /\ ForgetTransport(kept) \in Stream /\ ~Tunnel(ForgetTransport(kept))
  BY <1>1, <1>2, Forgotten, CalmChain, CalmType
<1>5. \A F : Calm(t, TurnOff(ForgetTransport(kept), F)) /\ ~Tunnel(TurnOff(ForgetTransport(kept), F))
  <2> TAKE F
  <2>1. Calm(t, TurnOff(ForgetTransport(kept), F))
    BY <1>1, <1>4, CalmSwitches, CalmChain
  <2>2. TurnOff(ForgetTransport(kept), F).on = ForgetTransport(kept).on \ F
    BY <1>4 DEF TurnOff, Stream
  <2> QED BY <1>4, <2>1, <2>2 DEF Tunnel, IsOn
<1>6. CASE Tunnel(s) /\ ~(t.l3 = "IPv4" /\ t.l4 = "UDP")
  BY <1>6 DEF packetTypePatch, t
<1> SUFFICES ASSUME Tunnel(s) => t.l3 = "IPv4" /\ t.l4 = "UDP" PROVE Fit(packetTypePatch(s, l3, l4))
  BY <1>6
<1>7. CASE t.l3 \in {"ARP", "None"}
  <2>1. ~HasIp(t) /\ t.l4 = "None"
    BY <1>1, <1>7 DEF HasIp, Versions
  <2>2. packetTypePatch(s, l3, l4) \in {TurnOff(ForgetTransport(kept), {"mpls_enabled", "flow_stats_enabled", "latency_enabled"}),
                                        TurnOff(ForgetTransport(kept), {"mpls_enabled"})}
    BY <1>7, <2>1 DEF packetTypePatch, t, kept
  <2>3. \A u : Calm(t, u) => u.l4 = "None"
    BY <2>1 DEF Calm
  <2> QED BY <1>3, <1>5, <2>2, <2>3
<1>8. CASE HasIp(t) /\ t.l4 = "None"
  <2>1. t.l3 \notin {"ARP", "None"}
    BY <1>8 DEF HasIp, Versions
  <2>2. packetTypePatch(s, l3, l4) = ForgetTransport(kept)
    BY <1>8, <2>1 DEF packetTypePatch, t, kept
  <2> QED BY <1>3, <1>4, <1>8, <2>2 DEF Calm
<1>9. CASE HasIp(t) /\ t.l4 = "ICMP"
  <2> DEFINE u == [ForgetTransport(kept) EXCEPT !.icmp = "echo"]
  <2>1. Calm(ForgetTransport(kept), u) /\ u \in Stream
    BY <1>4, CalmVersions DEF IcmpTypes, Calm
  <2>2. Calm(t, u) /\ ~Tunnel(u)
    BY <1>1, <1>4, <2>1, CalmChain, CalmTunnel
  <2> HIDE DEF u
  <2>3. Calm(u, FixLength(u)) /\ FixLength(u).flen = "Fixed" /\ FixLength(u) \in Stream
    BY <2>1, CalmLengths, CalmType
  <2>4. Calm(t, FixLength(u)) /\ ~Tunnel(FixLength(u))
    BY <1>1, <2>2, <2>3, CalmChain, CalmTunnel
  <2>5. Fit(FixLength(u))
    BY <1>3, <2>3, <2>4
  <2>6. Fit(Fix(FixLength(u), Ipv6AddressModes))
    BY <2>3, <2>5, CalmSwitches, CalmFit
  <2>7. packetTypePatch(s, l3, l4) \in {FixLength(u), Fix(FixLength(u), Ipv6AddressModes)}
    <3>1. t.l3 \notin {"ARP", "None"}
      BY <1>9 DEF HasIp, Versions
    <3> QED BY <1>9, <3>1 DEF packetTypePatch, t, kept, u
  <2> QED BY <2>5, <2>6, <2>7
<1>10. CASE HasIp(t) /\ t.l4 = "GRE"
  <2> DEFINE u == FixLength(ForgetTransport(kept))
  <2>1. Calm(ForgetTransport(kept), u) /\ u.flen = "Fixed" /\ u \in Stream
    BY <1>4, CalmLengths, CalmType
  <2>2. Calm(t, u) /\ ~Tunnel(u)
    BY <1>1, <1>4, <2>1, CalmChain, CalmTunnel
  <2>3. Fit(u)
    BY <1>3, <2>1, <2>2
  <2> HIDE DEF u
  <2>4. Fit(AtLeast(u, 96))
    BY <2>1, <2>3, CalmLengths, CalmFit
  <2>5. packetTypePatch(s, l3, l4) = AtLeast(u, 96)
    <3>1. t.l3 \notin {"ARP", "None"}
      BY <1>10 DEF HasIp, Versions
    <3> QED BY <1>10, <3>1 DEF packetTypePatch, t, kept, u
  <2> QED BY <2>4, <2>5
<1>11. CASE HasIp(t) /\ t.l4 = "SCTP"
  <2> DEFINE n == sctpMinimumFrameLength(t)
             u == ForgetVxlan(ForgetGtpu(ForgetEcho(ForgetUdp(kept))))
             w == [FixLength(u) EXCEPT !.min = Longer(@, n)]
  <2>1. Calm(t, ForgetUdp(kept)) /\ ForgetUdp(kept) \in Stream
    BY <1>1, <1>2, Forgotten, CalmChain, CalmType
  <2>2. Calm(t, ForgetEcho(ForgetUdp(kept))) /\ ForgetEcho(ForgetUdp(kept)) \in Stream
    BY <1>1, <2>1, Forgotten, CalmChain, CalmType
  <2>3. Calm(t, u) /\ ~Tunnel(u) /\ u \in Stream
    BY <1>1, <2>2, Forgotten, CalmChain, CalmType
  <2> HIDE DEF u
  <2>4. Calm(u, FixLength(u)) /\ FixLength(u).flen = "Fixed" /\ FixLength(u) \in Stream
    BY <2>3, CalmLengths, CalmType
  <2>5. n \in Nat
    BY NaturalLengths
  <2> HIDE DEF n
  <2>6. Calm(FixLength(u), w) /\ w \in Stream /\ w.flen = "Fixed"
    <3>1. FixLength(u).min \in Nat
      BY <2>4 DEF Stream
    <3>2. Longer(FixLength(u).min, n) \in Nat /\ FixLength(u).min <= Longer(FixLength(u).min, n)
      BY <2>5, <3>1, LongerLength
    <3> QED BY <2>4, <3>2 DEF Calm, Stream
  <2>7. Calm(t, w) /\ ~Tunnel(w)
    BY <1>1, <2>3, <2>4, <2>6, CalmChain, CalmTunnel
  <2> HIDE DEF w
  <2>8. Fit(w)
    BY <1>3, <2>6, <2>7
  <2>9. Fit(AtLeast(w, n))
    BY <2>5, <2>6, <2>8, CalmLengths, CalmFit
  <2>10. packetTypePatch(s, l3, l4) = AtLeast(w, n)
    <3>1. t.l3 \notin {"ARP", "None"}
      BY <1>11 DEF HasIp, Versions
    <3> QED BY <1>11, <3>1 DEF packetTypePatch, t, kept, u, w, n
  <2> QED BY <2>9, <2>10
<1>12. CASE HasIp(t) /\ t.l4 \in {"TCP", "UDP"}
  <2>1. Tunnel(t) <=> Tunnel(s)
    BY <1>1 DEF Tunnel, IsOn
  <2>2. OneTunnel(t)
    BY <1>1, <2>1 DEF Fit, OneTunnel, IsOn, Varies
  <2>3. Fit(t)
    BY <1>1, <1>12, <2>1, <2>2 DEF Fit, Layered, Steady, SupportsVariableLength, LongEnough
  <2>4. Calm(t, ForgetEcho(kept))
    BY <1>1, <1>2, Forgotten, CalmChain
  <2>5. packetTypePatch(s, l3, l4) = ForgetEcho(kept)
    <3>1. t.l3 \notin {"ARP", "None"}
      BY <1>12 DEF HasIp, Versions
    <3> QED BY <1>12, <3>1 DEF packetTypePatch, t, kept
  <2> QED BY <2>3, <2>4, <2>5, CalmFit
<1>13. t.l3 \in {"ARP", "None"} \/ HasIp(t)
  BY <1>1 DEF HasIp, Network, Versions
<1>14. t.l4 \in {"None", "TCP", "UDP", "ICMP", "GRE", "SCTP"}
  BY <1>1 DEF Stream, Transport
<1> QED BY <1>7, <1>8, <1>9, <1>10, <1>11, <1>12, <1>13, <1>14

\* A tunnel is chosen: the other one is gone, and what carries it is set.
LEMMA TunnelChoice ==
  ASSUME NEW s, Fit(s)
  PROVE  Fit(tunnelDisabledPatch(s)) /\ Fit(vxlanSelectionPatch(s)) /\ Fit(gtpuSelectionPatch(s))
<1>0. s \in Stream
  BY DEF Fit
<1>1. Fit(tunnelDisabledPatch(s))
  BY <1>0, CalmSwitches, CalmFit DEF tunnelDisabledPatch
<1>2. ASSUME NEW t \in Stream, Calm(s, t), NEW f \in TunnelFlags, t.on \cap TunnelFlags \subseteq {f}, NEW n \in Nat
      PROVE  Fit(TunnelLength(OverTunnel(TurnOn(t, {f})), n))
  <2> DEFINE u == [TurnOn(t, {f}) EXCEPT !.l3 = "IPv4", !.l4 = "UDP"]
             w == OverTunnel(TurnOn(t, {f}))
  <2>1. /\ u \in Stream /\ u.l3 = "IPv4" /\ u.l4 = "UDP" /\ u.on = t.on \cup {f} /\ u.vary = t.vary
        /\ u.length = t.length /\ u.min = t.min /\ u.max = t.max
    BY <1>2, FieldTypes DEF TurnOn, Stream, Network, Transport
  <2> HIDE DEF u
  <2>2. Calm(u, ForgetUdp(u)) /\ ForgetUdp(u) \in Stream
    BY <2>1, Forgotten, CalmType
  <2>3. Calm(u, Fix(ForgetUdp(u), L4PortModes)) /\ Fix(ForgetUdp(u), L4PortModes) \in Stream
    BY <2>1, <2>2, CalmSwitches, CalmChain, CalmType
  <2> DEFINE x == Fix(ForgetUdp(u), L4PortModes)
  <2>4. ~Varies(x, L4PortModes)
    BY <2>2 DEF Varies, Fix, Stream
  <2> HIDE DEF x
  <2>5. Calm(x, FixLength(x)) /\ FixLength(x).flen = "Fixed" /\ FixLength(x) \in Stream
    BY <2>3, CalmLengths, CalmType DEF x
  <2>6. {"l4_src_port_override", "l4_dst_port_override"} \subseteq PlainFlags
    BY FieldTypes
  <2>7. w = TurnOn(FixLength(x), {"l4_src_port_override", "l4_dst_port_override"})
    BY DEF OverTunnel, x, u
  <2>8. Calm(FixLength(x), w) /\ w \in Stream
    BY <2>5, <2>6, <2>7, CalmSwitches, CalmType
  <2> HIDE DEF w
  <2>9. w.flen = "Fixed"
    BY <2>5, <2>8 DEF Calm
  <2>10. Calm(w, TunnelLength(w, n)) /\ TunnelLength(w, n) \in Stream
    BY <1>2, <2>8, <2>9, TunnelLengths, CalmType
  <2> DEFINE y == TunnelLength(w, n)
  <2> HIDE DEF y
  <2>11. Calm(x, w) /\ Calm(x, y)
    BY <2>3, <2>5, <2>8, <2>10, CalmChain DEF x, y
  <2>12. Calm(u, y) /\ y \in Stream
    BY <2>1, <2>3, <2>10, <2>11, CalmChain DEF x, y
  <2>13. y.flen = "Fixed"
    BY <2>9, <2>10 DEF y, Calm
  <2>14. ~Varies(y, L4PortModes)
    BY <2>4, <2>11 DEF Calm, Varies
  <2>15. OneTunnel(y)
    BY <1>2, <2>1, <2>12, <2>14 DEF Calm, OneTunnel, IsOn, TunnelFlags
  <2>16. Layered(y) /\ Steady(y)
    BY <2>1, <2>12, <2>13 DEF Calm, Layered, HasIp, Versions, Steady
  <2>17. LongEnough(y)
    BY <1>0, <1>2, <2>1, <2>12 DEF Calm, LongEnough, Fit, Stream
  <2> QED BY <2>12, <2>15, <2>16, <2>17 DEF Fit, y, w
<1>3. Fit(vxlanSelectionPatch(s))
  <2> DEFINE t == Drop(s, {"gtpu_enabled"} \cup GtpuFlags, GtpuOptionModes)
  <2>1. Calm(s, t) /\ t \in Stream
    BY <1>0, CalmSwitches, CalmType
  <2>2. t.on \cap TunnelFlags \subseteq {"vxlan_enabled"}
    BY <1>0 DEF Drop, Fix, TurnOff, Stream, TunnelFlags
  <2> HIDE DEF t
  <2> QED BY <1>2, <2>1, <2>2 DEF vxlanSelectionPatch, t, TunnelFlags
<1>4. Fit(gtpuSelectionPatch(s))
  <2> DEFINE F == DnsQueryModes \cup (DhcpModes \ DhcpTimerModes)
             t == Drop(s, {"vxlan_enabled", "dns_enabled", "dhcp_enabled"}, F)
  <2>1. Calm(s, t) /\ t \in Stream
    BY <1>0, CalmSwitches, CalmType
  <2>2. t.on \cap TunnelFlags \subseteq {"gtpu_enabled"}
    BY <1>0 DEF Drop, Fix, TurnOff, Stream, TunnelFlags
  <2> HIDE DEF t
  <2> QED BY <1>2, <2>1, <2>2 DEF gtpuSelectionPatch, t, TunnelFlags
<1> QED BY <1>1, <1>3, <1>4

LEMMA ProtocolPatches ==
  ASSUME NEW s, Fit(s), NEW a \in TunnelSelection \cup L3Selection \cup L4Selection
  PROVE  Fit(ProtocolPatch(s, a))
<1>0. s.l3 \in Network /\ s.l4 \in Transport
  BY DEF Fit, Stream
<1>1. CASE a \in TunnelSelection
  <2>1. a.kind = "tunnel" /\ a.to \in {"none", "vxlan", "gtpu"}
    BY <1>1, Sent DEF TunnelSelection
  <2> QED BY <2>1, TunnelChoice DEF ProtocolPatch, TunnelPatch
<1>2. CASE a \in L3Selection
  <2>1. a.kind = "l3" /\ a.to \in Network
    BY <1>2, Sent DEF L3Selection
  <2> QED BY <1>0, <2>1, PacketTypePatch DEF ProtocolPatch
<1>3. CASE a \in L4Selection
  <2>1. a.kind = "l4" /\ a.to \in Transport
    BY <1>3, Sent DEF L4Selection
  <2> QED BY <1>0, <2>1, PacketTypePatch DEF ProtocolPatch
<1> QED BY <1>1, <1>2, <1>3

-----------------------------------------------------------------------------
(* A save *)

LEMMA GreWords ==
  ASSUME NEW s
  PROVE  /\ IsFiniteSet({"gre_checksum_present", "gre_key_present", "gre_sequence_present"} \cap s.on)
         /\ GreHeader(s) \in Nat
<1> DEFINE A == {"gre_checksum_present", "gre_key_present", "gre_sequence_present"}
<1>1. IsFiniteSet(A)
  <2>1. IsFiniteSet({})
    BY FS_EmptySet
  <2>2. IsFiniteSet({} \cup {"gre_checksum_present"})
    BY <2>1, FS_AddElement
  <2>3. IsFiniteSet(({} \cup {"gre_checksum_present"}) \cup {"gre_key_present"})
    BY <2>2, FS_AddElement
  <2>4. IsFiniteSet((({} \cup {"gre_checksum_present"}) \cup {"gre_key_present"}) \cup {"gre_sequence_present"})
    BY <2>3, FS_AddElement
  <2>5. A = (({} \cup {"gre_checksum_present"}) \cup {"gre_key_present"}) \cup {"gre_sequence_present"}
    OBVIOUS
  <2> QED BY <2>4, <2>5
<1> HIDE DEF A
<1>2. IsFiniteSet(A \cap s.on) /\ Cardinality(A \cap s.on) \in Nat
  <2>1. A \cap s.on \subseteq A
    OBVIOUS
  <2> QED BY <1>1, <2>1, FS_Subset, FS_CardinalityType
<1> QED BY <1>2 DEF GreHeader, A

LEMMA WireLength ==
  ASSUME NEW s
  PROVE  MinimumWireLength(s) \in Nat
<1>1. /\ Frame(s) \in Nat /\ GreHeader(s) \in Nat
  BY NaturalLengths, GreWords
<1>2. /\ IpHeader(s.l3) \in Nat /\ IpHeader(s.gtpu) \in Nat /\ IpHeader(s.vxlan) \in Nat
      /\ IpHeader(GreInnerVersion(s)) \in Nat /\ GtpuHeader(s) \in Nat /\ DnsBody(s) \in Nat
  BY DEF IpHeader, GtpuHeader, DnsBody
<1>3. Icmpv6Control(s) => Icmpv6Body(s) \in Nat
  BY DEF Icmpv6Body, Icmpv6Control, IcmpControl
<1> QED BY <1>1, <1>2, <1>3 DEF MinimumWireLength, Longer, DhcpBody

LEMMA RaisedCalm ==
  ASSUME NEW s \in Stream
  PROVE  Calm(s, Raised(s))
BY WireLength, CalmLengths DEF Raised

\* A stream whose switches are turned on, and off, and fields fixed, any number of times.
LEMMA CalmSteps ==
  ASSUME NEW s \in Stream, NEW t, Calm(s, t)
  PROVE  /\ Calm(s, FixLength(t)) /\ Calm(s, Raised(t))
         /\ \A F : Calm(s, Fix(t, F)) /\ Calm(s, TurnOff(t, F)) /\ (F \subseteq PlainFlags => Calm(s, TurnOn(t, F)))
         /\ \A F, G : Calm(s, Drop(t, F, G))
<1>1. t \in Stream
  BY CalmType
<1>2. Calm(s, FixLength(t)) /\ Calm(s, Raised(t))
  BY <1>1, CalmLengths, RaisedCalm, CalmChain
<1>3. ASSUME NEW F PROVE Calm(s, Fix(t, F)) /\ Calm(s, TurnOff(t, F)) /\ (F \subseteq PlainFlags => Calm(s, TurnOn(t, F)))
  BY <1>1, CalmSwitches, CalmChain
<1>4. ASSUME NEW F, NEW G PROVE Calm(s, Drop(t, F, G))
  BY <1>1, CalmSwitches, CalmChain
<1> QED BY <1>2, <1>3, <1>4

LEMMA CalmSelf ==
  ASSUME NEW s \in Stream
  PROVE  Calm(s, s)
BY DEF Calm, Stream

LEMMA NormLengthFit ==
  ASSUME NEW s, Fit(s)
  PROVE  Fit(NormLength(s))
<1> DEFINE min == IF s.min > 9211 THEN 9211 ELSE s.min
           max == IF s.max <= min THEN min + 5 ELSE s.max
           longest == Longer(1518, s.length)
           f == FixLength(s)
           t == [f EXCEPT !.min = 64, !.max = longest]
           u == [s EXCEPT !.min = min, !.max = max, !.length = max]
<1>0. /\ s \in Stream /\ s.length \in Nat /\ s.min \in Nat /\ s.max \in Nat /\ s.length >= 64 /\ s.min >= 64 /\ s.max >= 64
  BY DEF Fit, Stream, LongEnough
<1>1. min \in Nat /\ max \in Nat /\ min >= 64 /\ max >= 64
  BY <1>0
<1>2. longest \in Nat /\ longest >= 64
  BY <1>0 DEF Longer
<1> HIDE DEF min, max, longest
<1>3. Fit(t)
  <2>1. /\ t \in Stream /\ t.on = s.on /\ t.vary = s.vary /\ t.l3 = s.l3 /\ t.l4 = s.l4 /\ t.flen = "Fixed"
        /\ t.length = s.length /\ t.min = 64 /\ t.max = longest
    <3>1. /\ f \in Stream /\ f.on = s.on /\ f.vary = s.vary /\ f.l3 = s.l3 /\ f.l4 = s.l4 /\ f.flen = "Fixed"
          /\ f.length = s.length
      BY <1>0 DEF FixLength, Stream
    <3> HIDE DEF f
    <3> QED BY <1>2, <3>1 DEF Stream
  <2> HIDE DEF t
  <2> QED BY <1>0, <1>2, <2>1 DEF Fit, Layered, HasIp, OneTunnel, Tunnel, IsOn, Varies, Steady, LongEnough
<1>4. Fit(u)
  <2>1. /\ u \in Stream /\ u.on = s.on /\ u.vary = s.vary /\ u.l3 = s.l3 /\ u.l4 = s.l4 /\ u.flen = s.flen
        /\ u.length = max /\ u.min = min /\ u.max = max
    BY <1>0, <1>1 DEF Stream
  <2> HIDE DEF u
  <2> QED BY <1>0, <1>1, <2>1 DEF Fit, Layered, HasIp, OneTunnel, Tunnel, IsOn, Varies, Steady, LongEnough, SupportsVariableLength
<1>5. NormLength(s) \in {s, t, u}
  BY DEF NormLength, min, max, longest
<1> QED BY <1>3, <1>4, <1>5

LEMMA NormTunnelsCalm ==
  ASSUME NEW s, Fit(s)
  PROVE  Calm(s, NormTunnels(s))
<1> DEFINE one == IF IsOn(s, "gtpu_enabled") THEN TurnOff(s, {"vxlan_enabled"}) ELSE s
<1>1. s \in Stream
  BY DEF Fit
<1>2. Calm(s, one) /\ one \in Stream
  BY <1>1, CalmSelf, CalmSwitches, CalmType
<1> HIDE DEF one
<1>3. Tunnel(one) => one.l3 = "IPv4" /\ one.l4 = "UDP"
  BY <1>2, CalmTunnel DEF Calm, Fit, OneTunnel
<1>4. CASE Tunnel(one)
  <2>1. [one EXCEPT !.l3 = "IPv4", !.l4 = "UDP"] = one
    BY <1>2, <1>3, <1>4 DEF Stream
  <2> QED BY <1>2, <1>4, <2>1 DEF NormTunnels, one
<1>5. CASE ~Tunnel(one)
  BY <1>2, <1>5 DEF NormTunnels, one
<1> QED BY <1>4, <1>5

LEMMA NormCalm ==
  ASSUME NEW s \in Stream
  PROVE  /\ Calm(s, NormNetwork(s)) /\ Calm(s, NormVlan(s)) /\ Calm(s, NormMpls(s)) /\ Calm(s, NormGre(s))
         /\ Calm(s, NormGtpu(s)) /\ Calm(s, NormPorts(s)) /\ Calm(s, NormUdp(s)) /\ Calm(s, NormDns(s))
         /\ Calm(s, NormDhcp(s)) /\ Calm(s, NormTcp(s)) /\ Calm(s, NormSctp(s)) /\ Calm(s, NormIcmp(s))
         /\ Calm(s, NormVxlan(s))
<1>0. Calm(s, s) /\ Calm(s, [s EXCEPT !.gre = "IPv4"]) /\ Calm(s, [s EXCEPT !.gtpu = "IPv4"]) /\ Calm(s, [s EXCEPT !.vxlan = "IPv4"])
  BY CalmSelf, CalmVersions DEF Versions
<1>1. Calm(s, NormNetwork(s)) /\ Calm(s, NormVlan(s))
  BY <1>0, CalmSteps DEF NormNetwork, NormVlan
<1>2. Calm(s, NormMpls(s))
  BY <1>0, CalmSteps DEF NormMpls
<1>3. Calm(s, NormGre(s))
  <2> DEFINE udp == Fix(FixLength(s), UdpModes \cup {"tcp_checksum"})
             inner == Fix(udp, OtherVersion(GreInnerVersion(s), GreInner4Modes, GreInner6Modes))
             O == (IF Varies(s, {"gre_key"}) THEN {"gre_key_present"} ELSE {})
                    \cup (IF Varies(s, {"gre_sequence"}) THEN {"gre_sequence_present"} ELSE {})
             options == TurnOn(inner, O)
             gre == IF Varies(options, GreModes) THEN TurnOff(options, {"gre_checksum_present", "gre_checksum_override"})
                    ELSE options
             last == IF GreInnerVersion(s) = "IPv6" THEN TurnOn(gre, {"gre_type_ipv6"}) ELSE gre
  <2>1. Calm(s, udp) /\ Calm(s, inner)
    BY <1>0, CalmSteps
  <2>2. O \subseteq PlainFlags
    <3>1. {"gre_key_present", "gre_sequence_present"} \subseteq GreFlags
      BY DEF GreFlags
    <3> QED BY <3>1, FieldTypes
  <2> HIDE DEF inner, O
  <2>3. Calm(s, options)
    BY <2>1, <2>2, CalmSteps
  <2> HIDE DEF options
  <2>4. Calm(s, gre)
    BY <2>3, CalmSteps
  <2> HIDE DEF gre
  <2>5. Calm(s, last)
    BY <2>4, CalmSteps, FieldTypes
  <2>6. NormGre(s) = IF s.l4 = "GRE" THEN Raised(last) ELSE Fix([s EXCEPT !.gre = "IPv4"], GreModes)
    BY DEF NormGre, gre, options, O, inner
  <2> HIDE DEF last
  <2>7. Calm(s, Raised(last))
    BY <2>5, CalmSteps
  <2>8. Calm(s, Fix([s EXCEPT !.gre = "IPv4"], GreModes))
    BY <1>0, CalmSteps
  <2> QED BY <2>6, <2>7, <2>8
<1>4. Calm(s, NormGtpu(s))
  <2> DEFINE ports == TurnOn(Fix(FixLength(s), L4PortModes), {"l4_src_port_override", "l4_dst_port_override"})
             plain == Drop(ports, {"udp_length_override", "udp_checksum_override", "dns_enabled", "dhcp_enabled"},
                           UdpModes \cup DnsModes \cup DhcpModes)
             options == Fix(plain, (IF IsOn(s, "gtpu_sequence_enabled") THEN {} ELSE {"gtpu_sequence"})
                              \cup (IF IsOn(s, "gtpu_npdu_enabled") THEN {} ELSE {"gtpu_npdu"})
                              \cup (IF IsOn(s, "gtpu_extension_enabled") THEN {} ELSE {"gtpu_extension_udp_port"}))
             last == Fix(options, OtherVersion(s.gtpu, GtpuInner4Modes, GtpuInner6Modes))
  <2>1. Calm(s, ports)
    BY <1>0, CalmSteps, FieldTypes
  <2> HIDE DEF ports
  <2>2. Calm(s, plain)
    BY <2>1, CalmSteps
  <2> HIDE DEF plain
  <2>3. Calm(s, last)
    BY <2>2, CalmSteps
  <2>4. NormGtpu(s) = IF HasGtpu(s) THEN Raised(last) ELSE Drop([s EXCEPT !.gtpu = "IPv4"], GtpuFlags, GtpuModes)
    BY DEF NormGtpu, plain, ports
  <2> HIDE DEF last
  <2> QED BY <1>0, <2>3, <2>4, CalmSteps
<1>5. Calm(s, NormPorts(s))
  BY <1>0, CalmSteps DEF NormPorts
<1>6. Calm(s, NormUdp(s))
  <2>1. \A t : Calm(s, t) => Calm(s, NoDns(t)) /\ Calm(s, NoDhcp(t))
    BY CalmSteps DEF NoDns, NoDhcp
  <2> DEFINE udp == IF s.l4 = "UDP" THEN s
                    ELSE NoDns(NoDhcp(Drop(s, {"udp_length_override", "udp_checksum_override"}, {"udp_checksum"})))
             dns == IF Tunnel(s) THEN NoDns(udp) ELSE udp
             dhcp == IF IsOn(dns, "dhcp_enabled") /\ HasDhcp(dns) THEN dns ELSE NoDhcp(dns)
  <2>2. Calm(s, udp)
    BY <1>0, <2>1, CalmSteps
  <2> HIDE DEF udp
  <2>3. Calm(s, dns)
    BY <2>1, <2>2
  <2> HIDE DEF dns
  <2>4. Calm(s, dhcp)
    BY <2>1, <2>3
  <2> HIDE DEF dhcp
  <2>5. NormUdp(s) \in {dhcp, TurnOff(NoDns(dhcp), {"dns_answer_enabled"})}
    BY DEF NormUdp, dhcp, dns, udp
  <2> QED BY <2>1, <2>4, <2>5, CalmSteps
<1>7. Calm(s, NormDns(s)) /\ Calm(s, NormDhcp(s))
  <2>1. \A t, F : Calm(s, t) => Calm(s, Unchecked(t, F))
    BY CalmSteps DEF Unchecked
  <2>2. Calm(s, NormDns(s))
    <3> DEFINE dns == TurnOn(TurnOff(s, {"udp_length_override"}), {"payload_enabled"})
               answer == IF IsOn(s, "dns_answer_enabled") THEN dns ELSE Fix(dns, DnsAnswerModes)
    <3>1. Calm(s, dns)
      BY <1>0, CalmSteps, FieldTypes
    <3> HIDE DEF dns
    <3>2. Calm(s, Raised(answer))
      BY <3>1, CalmSteps
    <3>3. NormDns(s) \in {s, Unchecked(Raised(answer), DnsModes)}
      BY DEF NormDns, dns
    <3> HIDE DEF answer
    <3> QED BY <1>0, <2>1, <3>2, <3>3
  <2>3. Calm(s, NormDhcp(s))
    <3> DEFINE dhcp == TurnOn(Drop(s, {"udp_length_override"}, {"udp_length"}),
                              {"payload_enabled", "l4_src_port_override", "l4_dst_port_override"})
               options == IF IsOn(s, "dhcp_option_values") THEN dhcp ELSE Fix(dhcp, DhcpOptionModes)
    <3>1. Calm(s, dhcp)
      BY <1>0, CalmSteps, FieldTypes
    <3> HIDE DEF dhcp
    <3>2. Calm(s, Raised(options))
      BY <3>1, CalmSteps
    <3>3. NormDhcp(s) \in {s, Unchecked(Raised(options), DhcpModes)}
      BY DEF NormDhcp, dhcp
    <3> HIDE DEF options
    <3> QED BY <1>0, <2>1, <3>2, <3>3
  <2> QED BY <2>2, <2>3
<1>8. Calm(s, NormTcp(s))
  <2>1. \A t, f, F : Calm(s, t) => Calm(s, Without(t, f, F))
    BY CalmSteps DEF Without
  <2> QED BY <1>0, <2>1, CalmSteps DEF NormTcp
<1>9. Calm(s, NormSctp(s))
  BY <1>0, CalmSteps, FieldTypes DEF NormSctp
<1>10. Calm(s, NormIcmp(s))
  <2> DEFINE icmp == IF s.l4 = "ICMP" THEN s ELSE TurnOff(s, {"icmp_checksum_override"})
             echo == IF Icmpv6Echo(s) THEN icmp ELSE Fix(icmp, IcmpModes)
             checked == IF Varies(echo, IcmpModes) THEN TurnOff(echo, {"icmp_checksum_override"}) ELSE echo
             fixed == FixLength(Fix(checked, Ipv6AddressModes))
  <2>1. Calm(s, echo)
    BY <1>0, CalmSteps
  <2> HIDE DEF echo
  <2>2. Calm(s, checked)
    BY <2>1, CalmSteps
  <2> HIDE DEF checked
  <2>3. Calm(s, fixed)
    BY <2>2, CalmSteps
  <2>4. NormIcmp(s) \in {checked, fixed, Raised(Fix(fixed, {"ipv6_hop_limit"}))}
    BY DEF NormIcmp, checked, echo
  <2> HIDE DEF fixed
  <2> QED BY <2>2, <2>3, <2>4, CalmSteps
<1>11. Calm(s, NormVxlan(s))
  <2> DEFINE outer == FixLength(Fix(s, L4PortModes \cup {"udp_length"} \cup OtherVersion(s.vxlan, VxlanInner4Modes, VxlanInner6Modes)))
             vxlan == CASE ~IsOn(s, "vxlan_enabled") -> Fix([s EXCEPT !.vxlan = "IPv4"], VxlanModes)
                        [] IsOn(s, "vxlan_enabled") /\ ~IsOn(s, "bytes") -> Raised(outer)
                        [] OTHER -> outer
  <2>1. Calm(s, outer) /\ Calm(s, Fix([s EXCEPT !.vxlan = "IPv4"], VxlanModes))
    BY <1>0, CalmSteps
  <2> HIDE DEF outer
  <2>2. Calm(s, vxlan)
    BY <2>1, CalmSteps
  <2>3. NormVxlan(s) \in {vxlan, FixLength(vxlan)}
    BY DEF NormVxlan, outer
  <2> HIDE DEF vxlan
  <2> QED BY <2>2, <2>3, CalmSteps
<1> QED BY <1>1, <1>2, <1>3, <1>4, <1>5, <1>6, <1>7, <1>8, <1>9, <1>10, <1>11

\* What the server makes of a stream is a stream of the same kind.
LEMMA NormaliseFit ==
  ASSUME NEW s, Fit(s)
  PROVE  Fit(Normalise(s))
<1> DEFINE Step(t) == Fit(NormNetwork(t)) /\ Fit(NormVlan(t)) /\ Fit(NormMpls(t)) /\ Fit(NormGre(t)) /\ Fit(NormGtpu(t))
                        /\ Fit(NormPorts(t)) /\ Fit(NormUdp(t)) /\ Fit(NormDns(t)) /\ Fit(NormDhcp(t)) /\ Fit(NormTcp(t))
                        /\ Fit(NormSctp(t)) /\ Fit(NormIcmp(t)) /\ Fit(NormVxlan(t))
<1>1. ASSUME NEW t, Fit(t) PROVE Step(t)
  <2>1. t \in Stream
    BY <1>1 DEF Fit
  <2> QED BY <1>1, <2>1, NormCalm, CalmFit
<1>2. Fit(NormTunnels(NormLength(s)))
  BY NormLengthFit, NormTunnelsCalm, CalmFit
<1> DEFINE headers == NormGtpu(NormGre(NormMpls(NormVlan(NormNetwork(NormTunnels(NormLength(s)))))))
           messages == NormDhcp(NormDns(NormUdp(NormPorts(headers))))
<1>3. Fit(headers)
  BY <1>1, <1>2
<1> HIDE DEF headers
<1>4. Fit(messages)
  BY <1>1, <1>3
<1> HIDE DEF messages
<1>5. Fit(NormVxlan(NormIcmp(NormSctp(NormTcp(messages)))))
  BY <1>1, <1>4
<1> QED BY <1>5 DEF Normalise, headers, messages

-----------------------------------------------------------------------------
(* Every edit and save *)

Inv == Fit(stream) /\ focus \in Focuses

LEMMA InitFit ==
  Init => Inv
<1> SUFFICES ASSUME Init PROVE Inv
  OBVIOUS
<1>1. DefaultStream \in Stream
  <2>1. Icmpv6Flags \cup {"payload_enabled", "sctp_zero"} \subseteq Flags
    BY FieldTypes DEF PlainFlags
  <2> QED BY <2>1 DEF DefaultStream, Stream, Network, Transport, Versions, IcmpTypes
<1>2. Fit(DefaultStream)
  <2>1. ~Tunnel(DefaultStream)
    BY DEF DefaultStream, Tunnel, IsOn, Icmpv6Flags
  <2> QED BY <1>1, <2>1 DEF Fit, Layered, HasIp, Versions, OneTunnel, Steady, LongEnough, DefaultStream
<1>3. Fit(ImportedStream)
  <2>1. {"bytes", "l4_src_port_override", "l4_dst_port_override"} \subseteq PlainFlags
    BY FieldTypes
  <2> QED BY <1>1, <1>2, <2>1, CalmSwitches, CalmFit DEF ImportedStream
<1> QED BY <1>2, <1>3 DEF Init, Inv

\* A patch that keeps a stream fit, with the bytes of an imported packet dropped or kept.
LEMMA ChangeFit ==
  ASSUME NEW t, Fit(t), NEW a, handleStreamChange(t, a)
  PROVE  Fit(stream')
<1>1. t \in Stream
  BY DEF Fit
<1>2. stream' \in {t, TurnOff(t, {"bytes"})}
  BY DEF handleStreamChange
<1> QED BY <1>1, <1>2, CalmSwitches, CalmFit

LEMMA LinkEditsFit ==
  ASSUME Fit(stream), LinkEdits \/ NetworkEdits
  PROVE  Fit(stream')
<1>0. stream \in Stream
  BY DEF Fit
<1>1. \A a : Harmless(a) => /\ Fit(LinkPatch(stream, a)) /\ Fit(Ipv4Patch(stream, a)) /\ Fit(Ipv6Patch(stream, a))
                            /\ Fit(VlanPatch(stream, a)) /\ Fit(MplsPatch(stream, a))
  BY <1>0, PlainCalm, ApplicationPatches, CalmFit DEF LinkPatch, Ipv4Patch, Ipv6Patch
<1>2. CASE VlanSelect \/ MplsSelect
  BY <1>1, <1>2, OtherActions, ChangeFit DEF VlanSelect, MplsSelect, Select
<1>3. CASE EtherEdit \/ VlanEdit \/ VlanInnerEdit \/ MplsEdit \/ MplsSecondEdit \/ MplsThirdEdit
  BY <1>1, <1>3, LinkActions, ChangeFit
     DEF EtherEdit, VlanEdit, VlanInnerEdit, MplsEdit, MplsSecondEdit, MplsThirdEdit, Edit
<1>4. CASE NetworkEdits
  BY <1>1, <1>4, LinkActions, ChangeFit
     DEF NetworkEdits, ArpEdit, Ipv4AddressEdit, Ipv4ScalarEdit, Ipv6AddressEdit, Ipv6ScalarEdit, Edit
<1> QED BY <1>2, <1>3, <1>4 DEF LinkEdits

LEMMA TransportEditsFit ==
  ASSUME Fit(stream), TransportEdits
  PROVE  Fit(stream')
<1>0. stream \in Stream
  BY DEF Fit
<1>1. \A a : Harmless(a) => /\ Fit(UdpPatch(stream, a)) /\ Fit(DnsPatch(stream, a)) /\ Fit(DhcpPatch(stream, a))
                            /\ Fit(SctpPatch(stream, a)) /\ Fit(TcpCorePatch(stream, a))
                            /\ Fit(tcpOptionSelectionPatch(stream, a))
  BY <1>0, PlainCalm, ApplicationPatches, CalmFit DEF TcpCorePatch, tcpOptionSelectionPatch
<1>2. CASE L4PortEdit
  BY <1>2, PortPatch, ChangeFit DEF L4PortEdit, Edit
<1>3. CASE UdpEdit \/ DnsQueryEdit \/ DnsAnswerEdit \/ DhcpBootpEdit \/ DhcpAddressEdit \/ DhcpOptionEdit
  BY <1>1, <1>3, OtherActions, ChangeFit
     DEF UdpEdit, DnsQueryEdit, DnsAnswerEdit, DhcpBootpEdit, DhcpAddressEdit, DhcpOptionEdit, Edit
<1>4. CASE SctpEdit \/ TcpCoreEdit \/ TcpOptionEdit
  BY <1>1, <1>4, OtherActions, ChangeFit DEF SctpEdit, TcpCoreEdit, TcpOptionEdit, Edit
<1>5. CASE IcmpTypeEdit \/ IcmpEchoEdit
  <2>1. PICK a \in IcmpTypeActions \cup IcmpEchoActions :
          handleStreamChange(IcmpPatch(stream, a), a) /\ a.field \in IcmpTypePanel(stream) \cup IcmpEchoPanel(stream)
    BY <1>5 DEF IcmpTypeEdit, IcmpEchoEdit, Edit
  <2>2. stream.l4 = "ICMP"
    BY <2>1 DEF IcmpTypePanel, IcmpEchoPanel, When
  <2>3. Fit(IcmpPatch(stream, a))
    BY <2>1, <2>2, OtherActions, TunnelActions, IcmpPatches, CalmFit
  <2> QED BY <2>1, <2>3, ChangeFit
<1>6. CASE Icmpv6Edit
  <2>1. PICK a \in Icmpv6Actions :
          /\ handleStreamChange(Icmpv6Patch(stream, a), a)
          /\ a.field \in Icmpv6RsPanel(stream) \cup Icmpv6RaPanel(stream) \cup Icmpv6NdPanel(stream)
    BY <1>6 DEF Icmpv6Edit, Edit
  <2>2. stream.l4 = "ICMP"
    BY <2>1 DEF Icmpv6RsPanel, Icmpv6RaPanel, Icmpv6NdPanel, When, Icmpv6
  <2>3. Fit(Icmpv6Patch(stream, a))
    BY <2>1, <2>2, OtherActions, IcmpPatches, CalmFit
  <2> QED BY <2>1, <2>3, ChangeFit
<1> QED BY <1>2, <1>3, <1>4, <1>5, <1>6 DEF TransportEdits

LEMMA TunnelEditsFit ==
  ASSUME Fit(stream), TunnelEdits
  PROVE  Fit(stream')
<1>0. stream \in Stream
  BY DEF Fit
<1>1. CASE VxlanVniEdit \/ VxlanInnerEdit \/ VxlanPortEdit
  <2>1. PICK a \in VxlanVniActions \cup VxlanInnerActions \cup VxlanPortActions :
          handleStreamChange(VxlanPatch(stream, a), a)
    BY <1>1 DEF VxlanVniEdit, VxlanInnerEdit, VxlanPortEdit, Edit
  <2>2. Fit(VxlanPatch(stream, a))
    BY <1>0, <2>1, TunnelActions, TunnelPatches, CalmFit
  <2> QED BY <2>1, <2>2, ChangeFit
<1>2. CASE GtpuTeidEdit \/ GtpuOptionEdit \/ GtpuInnerEdit \/ GtpuPortEdit
  <2>1. PICK a \in GtpuTeidActions \cup GtpuOptionActions \cup GtpuInnerActions \cup GtpuPortActions :
          handleStreamChange(GtpuPatch(stream, a), a)
    BY <1>2 DEF GtpuTeidEdit, GtpuOptionEdit, GtpuInnerEdit, GtpuPortEdit, Edit
  <2>2. Fit(GtpuPatch(stream, a))
    BY <1>0, <2>1, TunnelActions, TunnelPatches, CalmFit
  <2> QED BY <2>1, <2>2, ChangeFit
<1>3. CASE GreOptionEdit \/ GreInnerEdit \/ GrePortEdit
  <2>1. PICK a \in GreOptionActions \cup GreInnerActions \cup GrePortActions :
          /\ handleStreamChange(GrePatch(stream, a), a)
          /\ a.field \in GreOptionPanel(stream) \cup GreInner4Panel(stream) \cup GreInner6Panel(stream) \cup GrePortPanel(stream)
    BY <1>3 DEF GreOptionEdit, GreInnerEdit, GrePortEdit, Edit
  <2>2. stream.l4 = "GRE"
    BY <2>1 DEF GreOptionPanel, GreInner4Panel, GreInner6Panel, GrePortPanel, When
  <2>3. Fit(GrePatch(stream, a))
    BY <2>1, <2>2, TunnelActions, GrePatches, CalmFit
  <2> QED BY <2>1, <2>3, ChangeFit
<1> QED BY <1>1, <1>2, <1>3 DEF TunnelEdits

LEMMA SelectionEditsFit ==
  ASSUME Fit(stream), ProtocolEdit \/ PacketTypeEdit \/ FrameLengthTypeEdit \/ FrameLengthEdit \/ PayloadSelect
  PROVE  Fit(stream')
<1>0. stream \in Stream
  BY DEF Fit
<1>1. CASE ProtocolEdit
  BY <1>1, ProtocolPatches, ChangeFit DEF ProtocolEdit, Select
<1>2. CASE PacketTypeEdit
  <2>1. PICK l3 \in Network, l4 \in Transport : stream' = TurnOff(packetTypePatch(stream, l3, l4), {"bytes"})
    BY <1>2 DEF PacketTypeEdit
  <2>2. Fit(packetTypePatch(stream, l3, l4)) /\ packetTypePatch(stream, l3, l4) \in Stream
    BY PacketTypePatch DEF Fit
  <2> QED BY <2>1, <2>2, CalmSwitches, CalmFit
<1>3. CASE FrameLengthTypeEdit \/ FrameLengthEdit
  BY <1>3, LengthPatch, ChangeFit DEF FrameLengthTypeEdit, FrameLengthEdit, Select
<1>4. CASE PayloadSelect
  <2>1. \A a : Harmless(a) => Fit(PayloadPatch(stream, a))
    BY <1>0, PlainCalm, CalmFit DEF PayloadPatch
  <2> QED BY <1>4, <2>1, OtherActions, ChangeFit DEF PayloadSelect, Select
<1> QED BY <1>1, <1>2, <1>3, <1>4

LEMMA NextFit ==
  Inv /\ [Next]_vars => Inv'
<1> SUFFICES ASSUME Inv, [Next]_vars PROVE Inv'
  OBVIOUS
<1>1. CASE LinkEdits \/ NetworkEdits
  BY <1>1, LinkEditsFit DEF Inv, LinkEdits, NetworkEdits, EtherEdit, VlanSelect, VlanEdit, VlanInnerEdit, MplsSelect,
     MplsEdit, MplsSecondEdit, MplsThirdEdit, ArpEdit, Ipv4AddressEdit, Ipv4ScalarEdit, Ipv6AddressEdit, Ipv6ScalarEdit,
     Edit, Select
<1>2. CASE TransportEdits
  BY <1>2, TransportEditsFit DEF Inv, TransportEdits, L4PortEdit, UdpEdit, DnsQueryEdit, DnsAnswerEdit, DhcpBootpEdit,
     DhcpAddressEdit, DhcpOptionEdit, SctpEdit, TcpCoreEdit, TcpOptionEdit, IcmpTypeEdit, IcmpEchoEdit, Icmpv6Edit, Edit
<1>3. CASE TunnelEdits
  BY <1>3, TunnelEditsFit DEF Inv, TunnelEdits, VxlanVniEdit, VxlanInnerEdit, VxlanPortEdit, GtpuTeidEdit,
     GtpuOptionEdit, GtpuInnerEdit, GtpuPortEdit, GreOptionEdit, GreInnerEdit, GrePortEdit, Edit
<1>4. CASE ProtocolEdit \/ PacketTypeEdit \/ FrameLengthTypeEdit \/ FrameLengthEdit \/ PayloadSelect
  BY <1>4, SelectionEditsFit DEF Inv, ProtocolEdit, PacketTypeEdit, FrameLengthTypeEdit, FrameLengthEdit, PayloadSelect, Select
<1>5. CASE SaveAndOpen
  BY <1>5, NormaliseFit DEF Inv, SaveAndOpen
<1>6. CASE UNCHANGED vars
  BY <1>6 DEF Inv, vars
<1> QED BY <1>1, <1>2, <1>3, <1>4, <1>5, <1>6 DEF Next

\* Every edit and every save keeps the stream fit: well formed, one tunnel at most, lengths of at
\* least a frame, and a varying length only where the headers allow one (streamPatchModel.ts,
\* normalize_workbench_streams).
THEOREM StreamFit == Spec => []Inv
BY InitFit, NextFit, PTL DEF Spec

\* Whatever edits and saves led here, the stream is well formed, and without an IP layer it has
\* no transport (packetTypeFor, and the normalisation of the server).
THEOREM StreamTypes == Spec => []TypeOK
<1>1. Inv => TypeOK
  BY DEF Inv, Fit, Layered, TypeOK
<1> QED BY <1>1, StreamFit, PTL

\* A tunnel is one tunnel, over IPv4 and UDP, in a frame of fixed length and between ports that
\* do not vary (vxlanSelectionPatch, gtpuSelectionPatch, and every edit after them).
THEOREM OneTunnelAtATime == Spec => []TunnelShape
<1>1. Inv => TunnelShape
  BY DEF Inv, Fit, OneTunnel, Steady, SupportsVariableLength, TunnelShape
<1> QED BY <1>1, StreamFit, PTL

-----------------------------------------------------------------------------
(* What the steps of a patch or of the server write *)

\* The same protocols.
Alike(s, t) ==
  /\ t \in Stream
  /\ t.l3 = s.l3 /\ t.l4 = s.l4 /\ t.icmp = s.icmp /\ t.vxlan = s.vxlan /\ t.gtpu = s.gtpu /\ t.gre = s.gre

LEMMA Written ==
  ASSUME NEW s \in Stream, NEW F
  PROVE  /\ F \subseteq Flags =>
              Alike(s, TurnOn(s, F)) /\ TurnOn(s, F).on = s.on \cup F /\ TurnOn(s, F).vary = s.vary
                /\ TurnOn(s, F).length = s.length
         /\ Alike(s, TurnOff(s, F)) /\ TurnOff(s, F).on = s.on \ F /\ TurnOff(s, F).vary = s.vary
              /\ TurnOff(s, F).length = s.length
         /\ Alike(s, Fix(s, F)) /\ Fix(s, F).on = s.on /\ Fix(s, F).vary = s.vary \ F /\ Fix(s, F).length = s.length
         /\ Alike(s, FixLength(s)) /\ FixLength(s).on = s.on /\ FixLength(s).vary = s.vary
              /\ FixLength(s).length = s.length
<1>1. F \subseteq Flags =>
        Alike(s, TurnOn(s, F)) /\ TurnOn(s, F).on = s.on \cup F /\ TurnOn(s, F).vary = s.vary
          /\ TurnOn(s, F).length = s.length
  BY DEF Alike, TurnOn, Stream
<1>2. Alike(s, TurnOff(s, F)) /\ TurnOff(s, F).on = s.on \ F /\ TurnOff(s, F).vary = s.vary
        /\ TurnOff(s, F).length = s.length
  BY DEF Alike, TurnOff, Stream
<1>3. Alike(s, Fix(s, F)) /\ Fix(s, F).on = s.on /\ Fix(s, F).vary = s.vary \ F /\ Fix(s, F).length = s.length
  BY DEF Alike, Fix, Stream
<1>4. Alike(s, FixLength(s)) /\ FixLength(s).on = s.on /\ FixLength(s).vary = s.vary /\ FixLength(s).length = s.length
  BY DEF Alike, FixLength, Stream
<1> QED BY <1>1, <1>2, <1>3, <1>4

LEMMA LengthWrites ==
  ASSUME NEW s \in Stream, NEW n \in Nat
  PROVE  /\ Alike(s, AtLeast(s, n)) /\ AtLeast(s, n).on = s.on /\ AtLeast(s, n).vary = s.vary
         /\ LET t == minimumFrameLengthPatch(s, n)
            IN Alike(s, t) /\ t.on = s.on /\ t.vary = s.vary /\ t.flen = s.flen /\ t.length = Longer(s.length, n)
         /\ LET t == TunnelLength(s, n) IN Alike(s, t) /\ t.on = s.on /\ t.vary = s.vary
<1> DEFINE t == AtLeast(s, n)
           u == [t EXCEPT !.min = Longer(@, n), !.max = Longer(@, n)]
           w == [t EXCEPT !.max = Longer(@, Longer(s.length, n))]
<1>1. s.length \in Nat /\ s.min \in Nat /\ s.max \in Nat
  BY DEF Stream
<1>2. Longer(s.length, n) \in Nat /\ Longer(s.min, n) \in Nat /\ Longer(s.max, n) \in Nat
      /\ Longer(s.max, Longer(s.length, n)) \in Nat
  BY <1>1 DEF Longer
<1>3. /\ Alike(s, t) /\ t.on = s.on /\ t.vary = s.vary /\ t.flen = s.flen /\ t.length = Longer(s.length, n)
      /\ t.min = s.min /\ t.max = s.max
  BY <1>2 DEF Alike, AtLeast, Stream
<1> HIDE DEF t
<1>4. Alike(s, u) /\ u.on = s.on /\ u.vary = s.vary /\ u.flen = s.flen /\ u.length = Longer(s.length, n)
  BY <1>2, <1>3 DEF Alike, Stream
<1>5. Alike(s, w) /\ w.on = s.on /\ w.vary = s.vary
  BY <1>2, <1>3 DEF Alike, Stream
<1>6. minimumFrameLengthPatch(s, n) = u /\ TunnelLength(s, n) = w /\ AtLeast(s, n) = t
  BY DEF minimumFrameLengthPatch, TunnelLength, t
<1> HIDE DEF u, w
<1> QED BY <1>3, <1>4, <1>5, <1>6

LEMMA RaisedWrites ==
  ASSUME NEW s \in Stream
  PROVE  /\ Alike(s, Raised(s)) /\ Raised(s).on = s.on /\ Raised(s).vary = s.vary /\ Raised(s).flen = s.flen
         /\ Raised(s).length = Longer(s.length, MinimumWireLength(s))
BY WireLength, LengthWrites DEF Raised

LEMMA AlikeChain ==
  ASSUME NEW s, NEW t, NEW u, Alike(s, t), Alike(t, u)
  PROVE  Alike(s, u) /\ t \in Stream /\ u \in Stream
BY DEF Alike

\* A stream of the same protocols with those switches on and those fields varying.
Writes(s, t, on, vary) == Alike(s, t) /\ t.on = on /\ t.vary = vary

LEMMA WriteSteps ==
  ASSUME NEW s, NEW t, NEW on, NEW vary, Writes(s, t, on, vary)
  PROVE  /\ Writes(s, FixLength(t), on, vary) /\ Writes(s, Raised(t), on, vary)
         /\ \A n \in Nat : Writes(s, minimumFrameLengthPatch(t, n), on, vary) /\ Writes(s, TunnelLength(t, n), on, vary)
         /\ \A F : Writes(s, Fix(t, F), on, vary \ F)
         /\ \A F : Writes(s, TurnOff(t, F), on \ F, vary)
         /\ \A F, G : Writes(s, Drop(t, F, G), on \ F, vary \ G)
         /\ \A F : F \subseteq Flags => Writes(s, TurnOn(t, F), on \cup F, vary)
<1>1. ASSUME NEW u, Alike(t, u) PROVE Alike(s, u)
  BY <1>1, AlikeChain DEF Writes
<1>2. t \in Stream /\ t.on = on /\ t.vary = vary
  BY DEF Writes, Alike
<1>3. Writes(s, FixLength(t), on, vary) /\ Writes(s, Raised(t), on, vary)
  BY <1>1, <1>2, Written, RaisedWrites DEF Writes
<1>4. ASSUME NEW n \in Nat PROVE Writes(s, minimumFrameLengthPatch(t, n), on, vary) /\ Writes(s, TunnelLength(t, n), on, vary)
  BY <1>1, <1>2, LengthWrites DEF Writes
<1>5. ASSUME NEW F PROVE Writes(s, Fix(t, F), on, vary \ F)
  BY <1>1, <1>2, Written DEF Writes
<1>6. ASSUME NEW F PROVE Writes(s, TurnOff(t, F), on \ F, vary)
  BY <1>1, <1>2, Written DEF Writes
<1>7. ASSUME NEW F, F \subseteq Flags PROVE Writes(s, TurnOn(t, F), on \cup F, vary)
  BY <1>1, <1>2, <1>7, Written DEF Writes
<1>8. ASSUME NEW F, NEW G PROVE Writes(s, Drop(t, F, G), on \ F, vary \ G)
  <2>1. TurnOff(t, F) \in Stream /\ Alike(t, TurnOff(t, F)) /\ TurnOff(t, F).on = on \ F /\ TurnOff(t, F).vary = vary
    BY <1>2, Written DEF Alike
  <2>2. Alike(TurnOff(t, F), Drop(t, F, G)) /\ Drop(t, F, G).on = on \ F /\ Drop(t, F, G).vary = vary \ G
    BY <2>1, Written DEF Drop
  <2> QED BY <1>1, <2>1, <2>2, AlikeChain DEF Writes
<1> QED BY <1>3, <1>4, <1>5, <1>6, <1>7, <1>8

LEMMA WriteSelf ==
  ASSUME NEW s \in Stream
  PROVE  Writes(s, s, s.on, s.vary)
BY DEF Writes, Alike

-----------------------------------------------------------------------------
(* The length that was typed in *)

\* The switches a header is longer or shorter for.
Weights ==
  {"vlan_enabled", "vlan2_enabled", "mpls_enabled", "mpls_label2_enabled", "mpls_label3_enabled", "vxlan_enabled",
   "gtpu_enabled", "dns_enabled", "dns_answer_enabled", "dhcp_enabled", "gre_checksum_present", "gre_key_present",
   "gre_sequence_present"}
    \cup GtpuFlags \cup Icmpv6Flags

\* A change that makes no header longer.
Lighter(s, t) ==
  /\ t \in Stream /\ t.l3 = s.l3 /\ t.l4 = s.l4 /\ t.icmp = s.icmp
  /\ t.on \cap Weights \subseteq s.on
  /\ t.vxlan \in {s.vxlan, "IPv4"} /\ t.gtpu \in {s.gtpu, "IPv4"}
  /\ GreInnerVersion(t) = "IPv6" => GreInnerVersion(s) = "IPv6"

\* One that keeps the length of the frame, too.
Snug(s, t) == Lighter(s, t) /\ t.length = s.length /\ t.vary \subseteq s.vary

LEMMA LighterFrame ==
  ASSUME NEW s, NEW t, Lighter(s, t)
  PROVE  Frame(t) <= Frame(s)
<1>1. VlanHeader(t) \in 0..8 /\ VlanHeader(s) \in 0..8 /\ MplsCount(t) \in 0..3 /\ MplsCount(s) \in 0..3
  BY DEF VlanHeader, MplsCount
<1>2. VlanHeader(t) <= VlanHeader(s)
  BY DEF VlanHeader, Lighter, Weights, IsOn
<1>3. MplsCount(t) <= MplsCount(s)
  BY DEF MplsCount, Lighter, Weights, IsOn
<1> QED BY <1>1, <1>2, <1>3 DEF Frame

LEMMA LighterGre ==
  ASSUME NEW s, NEW t, Lighter(s, t)
  PROVE  GreHeader(t) <= GreHeader(s)
<1> DEFINE A == {"gre_checksum_present", "gre_key_present", "gre_sequence_present"}
<1>1. A \cap t.on \subseteq A \cap s.on
  BY DEF Lighter, Weights
<1>2. IsFiniteSet(A \cap s.on)
  BY GreWords
<1>3. Cardinality(A \cap t.on) \in Nat /\ Cardinality(A \cap s.on) \in Nat
  BY GreWords, FS_CardinalityType
<1> HIDE DEF A
<1>4. Cardinality(A \cap t.on) <= Cardinality(A \cap s.on)
  BY <1>1, <1>2, FS_Subset
<1> QED BY <1>3, <1>4 DEF GreHeader, A

LEMMA LighterHeaders ==
  ASSUME NEW s, NEW t, Lighter(s, t)
  PROVE  /\ GtpuHeader(t) <= GtpuHeader(s) /\ IpHeader(t.gtpu) <= IpHeader(s.gtpu) /\ IpHeader(t.vxlan) <= IpHeader(s.vxlan)
         /\ IpHeader(GreInnerVersion(t)) <= IpHeader(GreInnerVersion(s))
         /\ Icmpv6Control(s) => 64 <= icmpv6ControlMinimumFrameLength(s)
                                  /\ Frame(t) + 40 + Icmpv6Body(t) <= icmpv6ControlMinimumFrameLength(s)
<1>1. /\ IpHeader(t.gtpu) <= IpHeader(s.gtpu) /\ IpHeader(t.vxlan) <= IpHeader(s.vxlan)
      /\ IpHeader(GreInnerVersion(t)) <= IpHeader(GreInnerVersion(s))
  BY DEF Lighter, IpHeader
<1>2. GtpuHeader(t) <= GtpuHeader(s)
  <2>1. IsOn(t, "gtpu_extension_enabled") => IsOn(s, "gtpu_extension_enabled")
    BY DEF Lighter, Weights, GtpuFlags, IsOn
  <2>2. GtpuFlags \cap t.on # {} => GtpuFlags \cap s.on # {}
    BY DEF Lighter, Weights
  <2> QED BY <2>1, <2>2 DEF GtpuHeader
<1>3. ASSUME Icmpv6Control(s)
      PROVE  /\ 64 <= icmpv6ControlMinimumFrameLength(s)
             /\ Frame(t) + 40 + Icmpv6Body(t) <= icmpv6ControlMinimumFrameLength(s)
  <2> DEFINE body == CASE s.icmp = "rs" -> 8 + SourceLinkLayer(s, "icmpv6_rs_include_slla")
                       [] s.icmp = "ra" -> 16 + SourceLinkLayer(s, "icmpv6_ra_include_slla")
                                              + (IF IsOn(s, "icmpv6_ra_include_prefix") THEN 32 ELSE 0)
                       [] OTHER -> 24 + SourceLinkLayer(s, "icmpv6_nd_include_option")
  <2>1. t.icmp = s.icmp /\ s.icmp \in {"rs", "ra", "nd"}
    BY <1>3 DEF Lighter, Icmpv6Control, IcmpControl
  <2>2. \A f \in Icmpv6Flags : IsOn(t, f) => IsOn(s, f)
    BY DEF Lighter, Weights, IsOn
  <2>3. body \in Nat /\ Icmpv6Body(t) \in Nat
    BY <2>1 DEF Icmpv6Body, SourceLinkLayer
  <2>4. Icmpv6Body(t) <= body
    BY <2>1, <2>2 DEF Icmpv6Body, SourceLinkLayer, Icmpv6Flags
  <2>5. Frame(t) \in Nat /\ Frame(s) \in Nat /\ Frame(t) <= Frame(s)
    BY NaturalLengths, LighterFrame
  <2>6. icmpv6ControlMinimumFrameLength(s) = Longer(64, Frame(s) + 40 + body)
    BY DEF icmpv6ControlMinimumFrameLength
  <2> HIDE DEF body
  <2> QED BY <2>3, <2>4, <2>5, <2>6 DEF Longer
<1> QED BY <1>1, <1>2, <1>3

\* The page asks of every frame what the server would raise it to.
LEMMA LighterWire ==
  ASSUME NEW s, Fit(s), validateWorkbenchStream(s), ~Message(s), NEW t, Lighter(s, t)
  PROVE  MinimumWireLength(t) <= s.length
<1>0. s.length \in Nat /\ s.length >= 64
  BY DEF Fit, Stream, LongEnough
<1>1. Frame(t) \in Nat /\ Frame(s) \in Nat /\ Frame(t) <= Frame(s)
  BY NaturalLengths, LighterFrame
<1>2. GreHeader(t) \in Nat /\ GreHeader(s) \in Nat /\ GreHeader(t) <= GreHeader(s)
  BY GreWords, LighterGre
<1>3. \A v : IpHeader(v) \in Nat
  BY DEF IpHeader
<1>4. \A u : GtpuHeader(u) \in Nat
  BY DEF GtpuHeader
<1>5. ~HasDhcp(t) /\ ~HasDns(t)
  BY DEF HasDhcp, HasDns, Message, IsOn, Lighter, Weights
<1>6. t.l3 = s.l3 /\ t.l4 = s.l4 /\ (Icmpv6Control(t) <=> Icmpv6Control(s))
  BY DEF Lighter, Icmpv6Control, Icmpv6
<1>7. CASE Icmpv6Control(t)
  <2>1. Frame(t) + 40 + Icmpv6Body(t) <= s.length
    <3>1. icmpv6ControlMinimumFrameLength(s) <= s.length /\ icmpv6ControlMinimumFrameLength(s) \in Nat
      BY <1>0, <1>6, <1>7, NaturalLengths DEF validateWorkbenchStream, validLength
    <3>2. Icmpv6Body(t) \in Nat
      BY <1>7 DEF Icmpv6Body, Icmpv6Control, IcmpControl
    <3> QED BY <1>0, <1>1, <1>6, <1>7, <3>1, <3>2, LighterHeaders
  <2>2. s.l4 = "ICMP" /\ ~HasGtpu(t) /\ ~Tunnel(t)
    <3>1. s.l4 = "ICMP"
      BY <1>6, <1>7 DEF Icmpv6Control, Icmpv6
    <3>2. ~Tunnel(s)
      BY <3>1 DEF Fit, OneTunnel
    <3> QED BY <3>1, <3>2 DEF HasGtpu, Tunnel, IsOn, Lighter, Weights
  <2>3. MinimumWireLength(t) = Longer(64, Frame(t) + 40 + Icmpv6Body(t))
    BY <1>5, <1>6, <1>7, <2>2 DEF MinimumWireLength, Tunnel
  <2> QED BY <1>0, <2>1, <2>3 DEF Longer
<1>8. CASE s.l4 = "GRE"
  <2>1. s.length >= Frame(s) + IpHeader(s.l3) + GreHeader(s) + IpHeader(GreInnerVersion(s)) + 8
    BY <1>8 DEF validateWorkbenchStream, validGre
  <2>2. ~Icmpv6Control(t) /\ ~HasGtpu(t) /\ ~Tunnel(t)
    <3>1. ~Tunnel(s)
      BY <1>8 DEF Fit, OneTunnel
    <3> QED BY <1>6, <1>8, <3>1 DEF HasGtpu, Tunnel, IsOn, Lighter, Weights, Icmpv6Control, Icmpv6
  <2>3. MinimumWireLength(t)
          = Longer(64, Frame(t) + IpHeader(t.l3) + GreHeader(t) + IpHeader(GreInnerVersion(t)) + 8)
    BY <1>5, <1>6, <1>8, <2>2 DEF MinimumWireLength, Tunnel
  <2>4. Frame(t) + IpHeader(t.l3) + GreHeader(t) + IpHeader(GreInnerVersion(t)) + 8 <= s.length
    BY <1>0, <1>1, <1>2, <1>3, <1>6, <2>1, LighterHeaders
  <2> QED BY <1>0, <2>3, <2>4 DEF Longer
<1>9. CASE s.l4 = "SCTP"
  <2>1. s.length >= Frame(s) + IpHeader(s.l3) + 28
    BY <1>9 DEF validateWorkbenchStream, validLength, sctpMinimumFrameLength
  <2>2. ~Icmpv6Control(t) /\ ~HasGtpu(t) /\ ~Tunnel(t)
    <3>1. ~Tunnel(s)
      BY <1>9 DEF Fit, OneTunnel
    <3> QED BY <1>6, <1>9, <3>1 DEF HasGtpu, Tunnel, IsOn, Lighter, Weights, Icmpv6Control, Icmpv6
  <2>3. MinimumWireLength(t) = Longer(64, Frame(t) + IpHeader(t.l3) + 28)
    BY <1>5, <1>6, <1>9, <2>2 DEF MinimumWireLength, Tunnel
  <2>4. Frame(t) + IpHeader(t.l3) + 28 <= s.length
    BY <1>0, <1>1, <1>3, <1>6, <2>1
  <2> QED BY <1>0, <2>3, <2>4 DEF Longer
<1>10. CASE ~Icmpv6Control(t) /\ s.l4 \notin {"GRE", "SCTP"} /\ HasGtpu(t)
  <2>1. IsOn(s, "gtpu_enabled")
    BY <1>10 DEF HasGtpu, IsOn, Lighter, Weights
  <2>2. s.length >= Frame(s) + 20 + 8 + GtpuHeader(s) + IpHeader(s.gtpu) + 8
    BY <2>1 DEF validateWorkbenchStream, validGtpu
  <2>3. MinimumWireLength(t) = Longer(64, Frame(t) + 20 + 8 + GtpuHeader(t) + IpHeader(t.gtpu) + 8)
    BY <1>5, <1>6, <1>10 DEF MinimumWireLength
  <2>4. Frame(t) + 20 + 8 + GtpuHeader(t) + IpHeader(t.gtpu) + 8 <= s.length
    BY <1>0, <1>1, <1>3, <1>4, <2>2, LighterHeaders
  <2> QED BY <1>0, <2>3, <2>4 DEF Longer
<1>11. CASE ~Icmpv6Control(t) /\ s.l4 \notin {"GRE", "SCTP"} /\ ~HasGtpu(t) /\ IsOn(t, "vxlan_enabled")
  <2>1. IsOn(s, "vxlan_enabled")
    BY <1>11 DEF IsOn, Lighter, Weights
  <2>2. s.length >= Frame(s) + 20 + 8 + 8 + 14 + IpHeader(s.vxlan) + 8
    BY <2>1 DEF validateWorkbenchStream, validVxlan
  <2>3. MinimumWireLength(t) = Longer(64, Frame(t) + 20 + 8 + 8 + 14 + IpHeader(t.vxlan) + 8)
    BY <1>5, <1>6, <1>11 DEF MinimumWireLength
  <2>4. Frame(t) + 20 + 8 + 8 + 14 + IpHeader(t.vxlan) + 8 <= s.length
    BY <1>0, <1>1, <1>3, <2>2, LighterHeaders
  <2> QED BY <1>0, <2>3, <2>4 DEF Longer
<1>12. CASE ~Icmpv6Control(t) /\ s.l4 \notin {"GRE", "SCTP"} /\ ~HasGtpu(t) /\ ~IsOn(t, "vxlan_enabled")
  <2>1. MinimumWireLength(t) = Longer(64, 64)
    BY <1>5, <1>6, <1>12 DEF MinimumWireLength
  <2> QED BY <1>0, <2>1 DEF Longer
<1> QED BY <1>7, <1>8, <1>9, <1>10, <1>11, <1>12

LEMMA SnugSteps ==
  ASSUME NEW s, Fit(s), validateWorkbenchStream(s), ~Message(s), NEW t, Snug(s, t)
  PROVE  /\ Snug(s, FixLength(t)) /\ Snug(s, Raised(t))
         /\ \A F : Snug(s, Fix(t, F)) /\ Snug(s, TurnOff(t, F))
         /\ \A F : F \subseteq Flags /\ F \cap Weights \subseteq s.on
                     /\ ("gre_type_ipv6" \in F => GreInnerVersion(t) = "IPv6") => Snug(s, TurnOn(t, F))
         /\ \A F, G : Snug(s, Drop(t, F, G))
         /\ Snug(s, [t EXCEPT !.gre = "IPv4"]) /\ Snug(s, [t EXCEPT !.gtpu = "IPv4"]) /\ Snug(s, [t EXCEPT !.vxlan = "IPv4"])
<1>0. t \in Stream
  BY DEF Snug, Lighter
\* What is written makes no header longer.
<1>1. ASSUME NEW u, NEW v, Snug(s, u), Alike(u, v), v.length = u.length, v.on \cap Weights \subseteq s.on,
             v.vary \subseteq u.vary, IsOn(v, "gre_type_ipv6") => GreInnerVersion(u) = "IPv6"
      PROVE  Snug(s, v)
  <2>1. GreInnerVersion(v) = "IPv6" => GreInnerVersion(u) = "IPv6"
    BY <1>1 DEF GreInnerVersion, Alike
  <2> QED BY <1>1, <2>1 DEF Snug, Lighter, Alike
<1>2. ASSUME NEW u, Snug(s, u) PROVE IsOn(u, "gre_type_ipv6") => GreInnerVersion(u) = "IPv6"
  BY DEF GreInnerVersion
<1>3. Snug(s, FixLength(t))
  BY <1>0, <1>1, <1>2, Written DEF Snug, Lighter, IsOn
<1>4. Snug(s, Raised(t))
  <2>1. MinimumWireLength(t) <= s.length /\ t.length = s.length /\ s.length \in Nat
    BY LighterWire DEF Fit, Stream, Snug, Lighter
  <2>2. Longer(t.length, MinimumWireLength(t)) = t.length
    BY <2>1, WireLength DEF Longer
  <2> QED BY <1>0, <1>1, <1>2, <2>2, RaisedWrites DEF Snug, Lighter, IsOn
<1>5. ASSUME NEW u, Snug(s, u), NEW F PROVE Snug(s, Fix(u, F))
  <2>1. u \in Stream
    BY <1>5 DEF Snug, Lighter
  <2> QED BY <1>1, <1>2, <1>5, <2>1, Written DEF Snug, Lighter, IsOn
<1>6. ASSUME NEW F PROVE Snug(s, TurnOff(t, F))
  BY <1>0, <1>1, <1>2, Written DEF Snug, Lighter, IsOn
<1>7. ASSUME NEW F, F \subseteq Flags, F \cap Weights \subseteq s.on, "gre_type_ipv6" \in F => GreInnerVersion(t) = "IPv6"
      PROVE  Snug(s, TurnOn(t, F))
  <2>1. Alike(t, TurnOn(t, F)) /\ TurnOn(t, F).on = t.on \cup F /\ TurnOn(t, F).vary = t.vary /\ TurnOn(t, F).length = t.length
    BY <1>0, <1>7, Written
  <2>2. TurnOn(t, F).on \cap Weights \subseteq s.on
    BY <1>7, <2>1 DEF Snug, Lighter
  <2>3. IsOn(TurnOn(t, F), "gre_type_ipv6") => GreInnerVersion(t) = "IPv6"
    BY <1>2, <1>7, <2>1 DEF IsOn
  <2> QED BY <1>1, <2>1, <2>2, <2>3
<1>8. ASSUME NEW F, NEW G PROVE Snug(s, Drop(t, F, G))
  BY <1>5, <1>6 DEF Drop
<1>9. Snug(s, [t EXCEPT !.gre = "IPv4"]) /\ Snug(s, [t EXCEPT !.gtpu = "IPv4"]) /\ Snug(s, [t EXCEPT !.vxlan = "IPv4"])
  <2>1. "IPv4" \in Versions
    BY DEF Versions
  <2>2. Snug(s, [t EXCEPT !.gre = "IPv4"])
    <3> DEFINE v == [t EXCEPT !.gre = "IPv4"]
    <3>1. /\ v \in Stream /\ v.length = t.length /\ v.l3 = t.l3 /\ v.l4 = t.l4 /\ v.icmp = t.icmp /\ v.vxlan = t.vxlan
          /\ v.gtpu = t.gtpu /\ v.gre = "IPv4" /\ v.on = t.on /\ v.vary = t.vary
      BY <1>0, <2>1 DEF Stream
    <3> HIDE DEF v
    <3>2. GreInnerVersion(v) = "IPv6" => GreInnerVersion(t) = "IPv6"
      BY <3>1 DEF GreInnerVersion, IsOn
    <3>3. Snug(s, v)
      BY <3>1, <3>2 DEF Snug, Lighter
    <3> QED BY <3>3 DEF v
  <2>3. Snug(s, [t EXCEPT !.gtpu = "IPv4"])
    <3> DEFINE v == [t EXCEPT !.gtpu = "IPv4"]
    <3>1. /\ v \in Stream /\ v.length = t.length /\ v.l3 = t.l3 /\ v.l4 = t.l4 /\ v.icmp = t.icmp /\ v.vxlan = t.vxlan
          /\ v.gtpu = "IPv4" /\ v.gre = t.gre /\ v.on = t.on /\ v.vary = t.vary
      BY <1>0, <2>1 DEF Stream
    <3> HIDE DEF v
    <3>2. GreInnerVersion(v) = GreInnerVersion(t)
      BY <3>1 DEF GreInnerVersion, IsOn
    <3>3. Snug(s, v)
      BY <3>1, <3>2 DEF Snug, Lighter
    <3> QED BY <3>3 DEF v
  <2>4. Snug(s, [t EXCEPT !.vxlan = "IPv4"])
    <3> DEFINE v == [t EXCEPT !.vxlan = "IPv4"]
    <3>1. /\ v \in Stream /\ v.length = t.length /\ v.l3 = t.l3 /\ v.l4 = t.l4 /\ v.icmp = t.icmp /\ v.vxlan = "IPv4"
          /\ v.gtpu = t.gtpu /\ v.gre = t.gre /\ v.on = t.on /\ v.vary = t.vary
      BY <1>0, <2>1 DEF Stream
    <3> HIDE DEF v
    <3>2. GreInnerVersion(v) = GreInnerVersion(t)
      BY <3>1 DEF GreInnerVersion, IsOn
    <3>3. Snug(s, v)
      BY <3>1, <3>2 DEF Snug, Lighter
    <3> QED BY <3>3 DEF v
  <2> QED BY <2>2, <2>3, <2>4
<1> QED BY <1>3, <1>4, <1>5, <1>6, <1>7, <1>8, <1>9

\* The longest length of a varying frame is its length, and far enough from the shortest.
LEMMA SnugLength ==
  ASSUME NEW s, Fit(s), validateWorkbenchStream(s), ~IsOn(s, "bytes")
  PROVE  Snug(s, NormLength(s))
<1> DEFINE min == IF s.min > 9211 THEN 9211 ELSE s.min
           max == IF s.max <= min THEN min + 5 ELSE s.max
           u == [s EXCEPT !.min = min, !.max = max, !.length = max]
<1>0. s \in Stream /\ s.length \in Nat /\ s.min \in Nat /\ s.max \in Nat
  BY DEF Fit, Stream
<1>1. s.flen # "Fixed" => s.max - s.min >= 5 /\ s.length = s.max
  BY DEF Fit, Steady, validateWorkbenchStream, validLength
<1>2. min \in Nat /\ max \in Nat /\ (s.flen # "Fixed" => max = s.max)
  BY <1>0, <1>1
<1> HIDE DEF min, max
<1>3. s.flen # "Fixed" => /\ u \in Stream /\ u.length = s.length /\ u.l3 = s.l3 /\ u.l4 = s.l4 /\ u.icmp = s.icmp
                          /\ u.vxlan = s.vxlan /\ u.gtpu = s.gtpu /\ u.gre = s.gre /\ u.on = s.on /\ u.vary = s.vary
  BY <1>0, <1>1, <1>2 DEF Stream
<1>4. NormLength(s) = IF s.flen # "Fixed" THEN u ELSE s
  BY DEF NormLength, min, max
<1> HIDE DEF u
<1>5. s.flen # "Fixed" => Snug(s, u)
  BY <1>3 DEF Snug, Lighter, GreInnerVersion, IsOn
<1>6. Snug(s, s)
  BY <1>0 DEF Snug, Lighter
<1> QED BY <1>4, <1>5, <1>6

LEMMA SnugStages ==
  ASSUME NEW s, Fit(s), validateWorkbenchStream(s), ~Message(s), NEW t, Snug(s, t)
  PROVE  /\ Snug(s, NormTunnels(t)) /\ Snug(s, NormNetwork(t)) /\ Snug(s, NormVlan(t)) /\ Snug(s, NormMpls(t))
         /\ Snug(s, NormGre(t)) /\ Snug(s, NormGtpu(t)) /\ Snug(s, NormPorts(t)) /\ Snug(s, NormUdp(t))
         /\ Snug(s, NormDns(t)) /\ Snug(s, NormDhcp(t)) /\ Snug(s, NormTcp(t)) /\ Snug(s, NormSctp(t))
         /\ Snug(s, NormIcmp(t)) /\ Snug(s, NormVxlan(t))
<1>0. t \in Stream /\ ~IsOn(t, "dns_enabled") /\ ~IsOn(t, "dhcp_enabled")
  BY DEF Snug, Lighter, Message, IsOn, Weights
\* The switches that are turned on and make no header longer.
<1>1. /\ {"l4_src_port_override", "l4_dst_port_override"} \subseteq Flags
      /\ {"l4_src_port_override", "l4_dst_port_override"} \cap Weights = {}
      /\ {"sctp_checksum_override", "sctp_zero"} \subseteq Flags /\ {"sctp_checksum_override", "sctp_zero"} \cap Weights = {}
      /\ {"gre_type_ipv6"} \subseteq Flags /\ {"gre_type_ipv6"} \cap Weights = {}
  BY DEF Flags, Weights, GtpuFlags, Icmpv6Flags
<1>2. Snug(s, NormTunnels(t))
  <2> DEFINE one == IF IsOn(t, "gtpu_enabled") THEN TurnOff(t, {"vxlan_enabled"}) ELSE t
  <2>1. Snug(s, one)
    BY SnugSteps
  <2> HIDE DEF one
  <2>2. Tunnel(one) => one.l3 = "IPv4" /\ one.l4 = "UDP"
    BY <2>1 DEF Snug, Lighter, Tunnel, IsOn, Weights, Fit, OneTunnel
  <2>3. Tunnel(one) => [one EXCEPT !.l3 = "IPv4", !.l4 = "UDP"] = one
    BY <2>1, <2>2 DEF Snug, Lighter, Stream
  <2> QED BY <2>1, <2>3 DEF NormTunnels, one
<1>3. Snug(s, NormNetwork(t)) /\ Snug(s, NormVlan(t))
  BY SnugSteps DEF NormNetwork, NormVlan
<1>4. Snug(s, NormMpls(t))
  BY SnugSteps DEF NormMpls
<1>5. Snug(s, NormGre(t))
  <2> DEFINE udp == Fix(FixLength(t), UdpModes \cup {"tcp_checksum"})
             inner == Fix(udp, OtherVersion(GreInnerVersion(t), GreInner4Modes, GreInner6Modes))
             O == (IF Varies(t, {"gre_key"}) THEN {"gre_key_present"} ELSE {})
                    \cup (IF Varies(t, {"gre_sequence"}) THEN {"gre_sequence_present"} ELSE {})
             options == TurnOn(inner, O)
             gre == IF Varies(options, GreModes) THEN TurnOff(options, {"gre_checksum_present", "gre_checksum_override"})
                    ELSE options
             last == IF GreInnerVersion(t) = "IPv6" THEN TurnOn(gre, {"gre_type_ipv6"}) ELSE gre
  <2>1. CASE t.l4 = "GRE"
    <3>1. Snug(s, udp)
      BY SnugSteps
    <3>2. Alike(t, udp) /\ udp.on = t.on
      <4>1. Alike(t, FixLength(t)) /\ FixLength(t).on = t.on /\ FixLength(t) \in Stream
        BY <1>0, Written DEF Alike
      <4>2. Alike(FixLength(t), udp) /\ udp.on = t.on
        BY <4>1, Written
      <4> HIDE DEF udp
      <4> QED BY <4>1, <4>2 DEF Alike
    <3> HIDE DEF udp
    <3>3. Snug(s, inner)
      BY <3>1, SnugSteps
    <3>4. Alike(t, inner) /\ inner.on = t.on
      BY <3>2, Written DEF Alike
    <3> HIDE DEF inner
    <3>5. O \subseteq s.on /\ O \subseteq Flags /\ "gre_type_ipv6" \notin O
      <4>1. Varies(t, {"gre_key"}) => Varies(s, {"gre_key"})
        BY DEF Varies, Snug, Lighter
      <4>2. Varies(t, {"gre_sequence"}) => Varies(s, {"gre_sequence"})
        BY DEF Varies, Snug, Lighter
      <4>3. s.l4 = "GRE"
        BY <2>1 DEF Snug, Lighter
      <4>4. O \subseteq s.on
        BY <4>1, <4>2, <4>3 DEF validateWorkbenchStream, validGre, IsOn
      <4>5. s.on \subseteq Flags
        BY DEF Fit, Stream
      <4> QED BY <4>4, <4>5
    <3> HIDE DEF O
    <3>6. Snug(s, options)
      BY <3>3, <3>5, SnugSteps
    <3>7. Alike(t, options) /\ t.on \subseteq options.on
      BY <3>4, <3>5, Written DEF Alike
    <3> HIDE DEF options
    <3>8. Snug(s, gre)
      BY <3>6, SnugSteps
    <3>9. Alike(t, gre) /\ (IsOn(t, "gre_type_ipv6") => IsOn(gre, "gre_type_ipv6"))
      BY <3>7, Written DEF Alike, IsOn
    <3> HIDE DEF gre
    <3>10. GreInnerVersion(t) = "IPv6" => GreInnerVersion(gre) = "IPv6"
      BY <3>9 DEF GreInnerVersion, Alike
    <3>11. Snug(s, last)
      BY <1>1, <3>8, <3>10, SnugSteps
    <3>12. NormGre(t) = Raised(last)
      BY <2>1 DEF NormGre, gre, options, O, inner, udp
    <3> HIDE DEF last
    <3>13. Snug(s, Raised(last))
      BY <3>11, SnugSteps
    <3> QED BY <3>12, <3>13
  <2>2. CASE t.l4 # "GRE"
    BY <2>2, SnugSteps DEF NormGre
  <2> QED BY <2>1, <2>2
<1>6. Snug(s, NormGtpu(t))
  <2> DEFINE fixed == Fix(FixLength(t), L4PortModes)
             ports == TurnOn(fixed, {"l4_src_port_override", "l4_dst_port_override"})
             plain == Drop(ports, {"udp_length_override", "udp_checksum_override", "dns_enabled", "dhcp_enabled"},
                           UdpModes \cup DnsModes \cup DhcpModes)
             options == Fix(plain, (IF IsOn(t, "gtpu_sequence_enabled") THEN {} ELSE {"gtpu_sequence"})
                              \cup (IF IsOn(t, "gtpu_npdu_enabled") THEN {} ELSE {"gtpu_npdu"})
                              \cup (IF IsOn(t, "gtpu_extension_enabled") THEN {} ELSE {"gtpu_extension_udp_port"}))
             last == Fix(options, OtherVersion(t.gtpu, GtpuInner4Modes, GtpuInner6Modes))
  <2>1. Snug(s, fixed)
    BY SnugSteps
  <2> HIDE DEF fixed
  <2>2. Snug(s, ports)
    BY <1>1, <2>1, SnugSteps
  <2> HIDE DEF ports
  <2>3. Snug(s, plain)
    BY <2>2, SnugSteps
  <2> HIDE DEF plain
  <2>4. Snug(s, last)
    BY <2>3, SnugSteps
  <2>5. NormGtpu(t) = IF HasGtpu(t) THEN Raised(last) ELSE Drop([t EXCEPT !.gtpu = "IPv4"], GtpuFlags, GtpuModes)
    BY DEF NormGtpu, plain, ports, fixed
  <2> HIDE DEF last
  <2>6. Snug(s, Raised(last)) /\ Snug(s, Drop([t EXCEPT !.gtpu = "IPv4"], GtpuFlags, GtpuModes))
    BY <2>4, SnugSteps
  <2> QED BY <2>5, <2>6
<1>7. Snug(s, NormPorts(t))
  BY SnugSteps DEF NormPorts
<1>8. Snug(s, NormUdp(t))
  <2>1. \A u : Snug(s, u) => Snug(s, NoDns(u)) /\ Snug(s, NoDhcp(u))
    BY SnugSteps DEF NoDns, NoDhcp
  <2> DEFINE udp == IF t.l4 = "UDP" THEN t
                    ELSE NoDns(NoDhcp(Drop(t, {"udp_length_override", "udp_checksum_override"}, {"udp_checksum"})))
             dns == IF Tunnel(t) THEN NoDns(udp) ELSE udp
             dhcp == IF IsOn(dns, "dhcp_enabled") /\ HasDhcp(dns) THEN dns ELSE NoDhcp(dns)
  <2>2. Snug(s, udp)
    BY <2>1, SnugSteps
  <2> HIDE DEF udp
  <2>3. Snug(s, dns)
    BY <2>1, <2>2
  <2> HIDE DEF dns
  <2>4. Snug(s, dhcp)
    BY <2>1, <2>3
  <2> HIDE DEF dhcp
  <2>5. NormUdp(t) \in {dhcp, TurnOff(NoDns(dhcp), {"dns_answer_enabled"})}
    BY DEF NormUdp, dhcp, dns, udp
  <2>6. Snug(s, TurnOff(NoDns(dhcp), {"dns_answer_enabled"}))
    BY <2>1, <2>4, SnugSteps
  <2> QED BY <2>4, <2>5, <2>6
<1>9. Snug(s, NormDns(t)) /\ Snug(s, NormDhcp(t))
  BY <1>0 DEF NormDns, NormDhcp
<1>10. Snug(s, NormTcp(t))
  <2>1. \A u, f, F : Snug(s, u) => Snug(s, Without(u, f, F))
    BY SnugSteps DEF Without
  <2> QED BY <2>1, SnugSteps DEF NormTcp
<1>11. Snug(s, NormSctp(t))
  <2> DEFINE zero == TurnOn(t, {"sctp_checksum_override", "sctp_zero"})
  <2>1. Snug(s, zero)
    BY <1>1, SnugSteps
  <2>2. NormSctp(t) \in {Drop(t, {"sctp_checksum_override"}, SctpModes), Raised(zero), zero, t}
    BY DEF NormSctp
  <2> HIDE DEF zero
  <2>3. Snug(s, Raised(zero)) /\ Snug(s, Drop(t, {"sctp_checksum_override"}, SctpModes))
    BY <2>1, SnugSteps
  <2> QED BY <2>1, <2>2, <2>3
<1>12. Snug(s, NormIcmp(t))
  <2> DEFINE icmp == IF t.l4 = "ICMP" THEN t ELSE TurnOff(t, {"icmp_checksum_override"})
             echo == IF Icmpv6Echo(t) THEN icmp ELSE Fix(icmp, IcmpModes)
             checked == IF Varies(echo, IcmpModes) THEN TurnOff(echo, {"icmp_checksum_override"}) ELSE echo
             fixed == FixLength(Fix(checked, Ipv6AddressModes))
  <2>1. Snug(s, echo)
    BY SnugSteps
  <2> HIDE DEF echo
  <2>2. Snug(s, checked)
    BY <2>1, SnugSteps
  <2> HIDE DEF checked
  <2>3. Snug(s, fixed)
    BY <2>2, SnugSteps
  <2>4. NormIcmp(t) \in {checked, fixed, Raised(Fix(fixed, {"ipv6_hop_limit"}))}
    BY DEF NormIcmp, checked, echo
  <2> HIDE DEF fixed
  <2>5. Snug(s, Raised(Fix(fixed, {"ipv6_hop_limit"})))
    BY <2>3, SnugSteps
  <2> QED BY <2>2, <2>3, <2>4, <2>5
<1>13. Snug(s, NormVxlan(t))
  <2> DEFINE outer == FixLength(Fix(t, L4PortModes \cup {"udp_length"} \cup OtherVersion(t.vxlan, VxlanInner4Modes, VxlanInner6Modes)))
             vxlan == CASE ~IsOn(t, "vxlan_enabled") -> Fix([t EXCEPT !.vxlan = "IPv4"], VxlanModes)
                        [] IsOn(t, "vxlan_enabled") /\ ~IsOn(t, "bytes") -> Raised(outer)
                        [] OTHER -> outer
  <2>1. Snug(s, outer) /\ Snug(s, Fix([t EXCEPT !.vxlan = "IPv4"], VxlanModes))
    BY SnugSteps
  <2> HIDE DEF outer
  <2>2. Snug(s, vxlan)
    BY <2>1, SnugSteps
  <2>3. NormVxlan(t) \in {vxlan, FixLength(vxlan)}
    BY DEF NormVxlan, outer
  <2> HIDE DEF vxlan
  <2>4. Snug(s, FixLength(vxlan))
    BY <2>2, SnugSteps
  <2> QED BY <2>2, <2>3, <2>4
<1> QED BY <1>2, <1>3, <1>4, <1>5, <1>6, <1>7, <1>8, <1>9, <1>10, <1>11, <1>12, <1>13

LEMMA NormaliseSnug ==
  ASSUME NEW s, Fit(s), validateWorkbenchStream(s), ~Message(s), ~IsOn(s, "bytes")
  PROVE  Snug(s, Normalise(s))
<1> DEFINE headers == NormGtpu(NormGre(NormMpls(NormVlan(NormNetwork(NormTunnels(NormLength(s)))))))
           messages == NormDhcp(NormDns(NormUdp(NormPorts(headers))))
<1>1. Snug(s, NormNetwork(NormTunnels(NormLength(s))))
  BY SnugLength, SnugStages
<1>2. Snug(s, headers)
  BY <1>1, SnugStages
<1> HIDE DEF headers
<1>3. Snug(s, messages)
  BY <1>2, SnugStages
<1> HIDE DEF messages
<1>4. Snug(s, NormVxlan(NormIcmp(NormSctp(NormTcp(messages)))))
  BY <1>3, SnugStages
<1> QED BY <1>4 DEF Normalise, headers, messages

\* The page accepts no frame that is too short for its headers: the server keeps the length
\* that was typed in, unless the packet is imported or carries a DNS or DHCP message
\* (validateWorkbenchStream beside minimum_wire_length).
THEOREM TypedLengthKept == Spec => []LengthKept
<1>1. Inv => LengthKept
  BY NormaliseSnug DEF Inv, LengthKept, Saved, Snug, Lighter
<1> QED BY <1>1, StreamFit, PTL
-----------------------------------------------------------------------------
(* What no edit leaves behind *)

\* No field varies that its panel cannot show any more: a UDP field under a tunnel, a port that
\* is not overridden, an inner IPv6 address of a GRE header that carries IPv4.  And the payload is
\* one message, which GTP-U does not carry.
Tidy(s) ==
  /\ Tunnel(s) => ~Varies(s, UdpModes)
  /\ "l4_src_port" \in s.vary => IsOn(s, "l4_src_port_override")
  /\ "l4_dst_port" \in s.vary => IsOn(s, "l4_dst_port_override")
  /\ s.gre = "IPv4" => ~Varies(s, GreInner6Modes)
  /\ ~(IsOn(s, "dns_enabled") /\ IsOn(s, "dhcp_enabled"))
  /\ ~(IsOn(s, "gtpu_enabled") /\ IsOn(s, "dhcp_enabled"))

MessageFlags == {"dns_enabled", "dhcp_enabled"}
PortFlags == {"l4_src_port_override", "l4_dst_port_override"}

PortKept(s, t, port, override) ==
  port \in t.vary => port \in s.vary /\ (override \in s.on => override \in t.on)

\* A change that leaves nothing behind that was not there.
Neat(s, t) ==
  /\ t \in Stream
  /\ t.on \cap (TunnelFlags \cup MessageFlags) \subseteq s.on
  /\ t.vary \cap UdpModes \subseteq s.vary
  /\ PortKept(s, t, "l4_src_port", "l4_src_port_override")
  /\ PortKept(s, t, "l4_dst_port", "l4_dst_port_override")
  /\ t.gre = "IPv4" /\ Varies(t, GreInner6Modes) => s.gre = "IPv4" /\ Varies(s, GreInner6Modes)

LEMMA NeatTidy ==
  ASSUME NEW s, NEW t, Tidy(s), Neat(s, t)
  PROVE  Tidy(t)
<1>1. Tunnel(t) => Tunnel(s) /\ ~Varies(t, UdpModes)
  BY DEF Neat, Tidy, Tunnel, IsOn, Varies, TunnelFlags
<1>2. /\ "l4_src_port" \in t.vary => IsOn(t, "l4_src_port_override")
      /\ "l4_dst_port" \in t.vary => IsOn(t, "l4_dst_port_override")
  BY DEF Neat, Tidy, PortKept, IsOn
<1>3. /\ ~(IsOn(t, "dns_enabled") /\ IsOn(t, "dhcp_enabled"))
      /\ ~(IsOn(t, "gtpu_enabled") /\ IsOn(t, "dhcp_enabled"))
  BY DEF Neat, Tidy, IsOn, TunnelFlags, MessageFlags
<1>4. t.gre = "IPv4" => ~Varies(t, GreInner6Modes)
  BY DEF Neat, Tidy
<1> QED BY <1>1, <1>2, <1>3, <1>4 DEF Tidy

LEMMA NeatChain ==
  ASSUME NEW s, NEW t, NEW u, Neat(s, t), Neat(t, u)
  PROVE  Neat(s, u)
BY DEF Neat, PortKept

LEMMA NeatType ==
  ASSUME NEW s, NEW t, Neat(s, t)
  PROVE  t \in Stream
BY DEF Neat

LEMMA NeatSame ==
  ASSUME NEW s, NEW t \in Stream, t.on = s.on, t.vary = s.vary, t.gre = s.gre
  PROVE  Neat(s, t)
BY DEF Neat, PortKept, Varies

LEMMA NeatSwitches ==
  ASSUME NEW s \in Stream, NEW F
  PROVE  /\ F \subseteq PlainFlags \ MessageFlags => Neat(s, TurnOn(s, F))
         /\ F \cap PortFlags = {} => Neat(s, TurnOff(s, F))
         /\ Neat(s, Fix(s, F))
         /\ F \cap PortFlags = {} => \A G : Neat(s, Drop(s, F, G))
<1>1. F \subseteq PlainFlags \ MessageFlags => Neat(s, TurnOn(s, F))
  <2>1. /\ TurnOn(s, F).on = s.on \cup F /\ TurnOn(s, F).vary = s.vary /\ TurnOn(s, F).gre = s.gre
        /\ F \subseteq PlainFlags => TurnOn(s, F) \in Stream
    BY DEF TurnOn, Stream, PlainFlags
  <2> QED BY <2>1 DEF Neat, PortKept, Varies, PlainFlags
<1>2. F \cap PortFlags = {} => Neat(s, TurnOff(s, F))
  <2>1. /\ TurnOff(s, F).on = s.on \ F /\ TurnOff(s, F).vary = s.vary /\ TurnOff(s, F).gre = s.gre
        /\ TurnOff(s, F) \in Stream
    BY DEF TurnOff, Stream
  <2> QED BY <2>1 DEF Neat, PortKept, Varies, PortFlags
<1>3. ASSUME NEW t \in Stream, NEW G PROVE Neat(t, Fix(t, G))
  <2>1. /\ Fix(t, G).on = t.on /\ Fix(t, G).vary = t.vary \ G /\ Fix(t, G).gre = t.gre /\ Fix(t, G) \in Stream
    BY DEF Fix, Stream
  <2> QED BY <2>1 DEF Neat, PortKept, Varies
<1>4. ASSUME F \cap PortFlags = {}, NEW G PROVE Neat(s, Drop(s, F, G))
  <2>1. TurnOff(s, F) \in Stream
    BY CalmSwitches, CalmType
  <2> QED BY <1>2, <1>3, <1>4, <2>1, NeatChain DEF Drop
<1> QED BY <1>1, <1>2, <1>3, <1>4

\* A port that is not overridden any more is fixed.
LEMMA NeatPorts ==
  ASSUME NEW s \in Stream
  PROVE  /\ \A F, G : L4PortModes \subseteq G => Neat(s, Drop(s, F, G))
         /\ Neat(s, Drop(s, {"l4_src_port_override"}, {"l4_src_port"}))
         /\ Neat(s, Drop(s, {"l4_dst_port_override"}, {"l4_dst_port"}))
<1>1. ASSUME NEW F, NEW G
      PROVE  /\ Drop(s, F, G).on = s.on \ F /\ Drop(s, F, G).vary = s.vary \ G /\ Drop(s, F, G).gre = s.gre
             /\ Drop(s, F, G) \in Stream
  BY DEF Drop, Fix, TurnOff, Stream
<1>2. ASSUME NEW F, NEW G, L4PortModes \subseteq G PROVE Neat(s, Drop(s, F, G))
  BY <1>1, <1>2 DEF Neat, PortKept, Varies, L4PortModes
<1>3. Neat(s, Drop(s, {"l4_src_port_override"}, {"l4_src_port"})) /\ Neat(s, Drop(s, {"l4_dst_port_override"}, {"l4_dst_port"}))
  BY <1>1 DEF Neat, PortKept, Varies
<1> QED BY <1>2, <1>3

LEMMA NeatLengths ==
  ASSUME NEW s \in Stream
  PROVE  /\ Neat(s, FixLength(s))
         /\ \A n \in Nat : Neat(s, AtLeast(s, n)) /\ Neat(s, minimumFrameLengthPatch(s, n)) /\ Neat(s, TunnelLength(s, n))
<1>1. Neat(s, FixLength(s))
  BY Written, NeatSame DEF Alike
<1>2. ASSUME NEW n \in Nat PROVE Neat(s, AtLeast(s, n)) /\ Neat(s, minimumFrameLengthPatch(s, n)) /\ Neat(s, TunnelLength(s, n))
  BY LengthWrites, NeatSame DEF Alike
<1> QED BY <1>1, <1>2

LEMMA NeatVersions ==
  ASSUME NEW s \in Stream, NEW v
  PROVE  /\ v \in Versions => Neat(s, [s EXCEPT !.vxlan = v]) /\ Neat(s, [s EXCEPT !.gtpu = v])
         /\ v \in IcmpTypes => Neat(s, [s EXCEPT !.icmp = v])
BY NeatSame DEF Stream

\* Any number of such steps.
LEMMA NeatSteps ==
  ASSUME NEW s, NEW t, Neat(s, t)
  PROVE  /\ Neat(s, FixLength(t)) /\ Neat(s, Raised(t))
         /\ \A n \in Nat : Neat(s, AtLeast(t, n)) /\ Neat(s, minimumFrameLengthPatch(t, n)) /\ Neat(s, TunnelLength(t, n))
         /\ \A F : Neat(s, Fix(t, F))
         /\ \A F : F \cap PortFlags = {} => Neat(s, TurnOff(t, F))
         /\ \A F : F \subseteq PlainFlags \ MessageFlags => Neat(s, TurnOn(t, F))
         /\ \A F, G : F \cap PortFlags = {} => Neat(s, Drop(t, F, G))
         /\ \A F, G : L4PortModes \subseteq G => Neat(s, Drop(t, F, G))
<1>1. t \in Stream
  BY NeatType
<1>2. Neat(s, FixLength(t)) /\ Neat(s, Raised(t))
  BY <1>1, NeatLengths, NeatChain, WireLength DEF Raised
<1>3. ASSUME NEW n \in Nat
      PROVE  Neat(s, AtLeast(t, n)) /\ Neat(s, minimumFrameLengthPatch(t, n)) /\ Neat(s, TunnelLength(t, n))
  BY <1>1, NeatLengths, NeatChain
<1>4. ASSUME NEW F
      PROVE  /\ Neat(s, Fix(t, F))
             /\ F \cap PortFlags = {} => Neat(s, TurnOff(t, F))
             /\ F \subseteq PlainFlags \ MessageFlags => Neat(s, TurnOn(t, F))
  BY <1>1, NeatSwitches, NeatChain
<1>5. ASSUME NEW F, NEW G
      PROVE  /\ F \cap PortFlags = {} => Neat(s, Drop(t, F, G))
             /\ L4PortModes \subseteq G => Neat(s, Drop(t, F, G))
  BY <1>1, NeatSwitches, NeatPorts, NeatChain
<1> QED BY <1>2, <1>3, <1>4, <1>5

LEMMA NeatSelf ==
  ASSUME NEW s \in Stream
  PROVE  Neat(s, s)
BY NeatSame

\* The edits of one field that leave nothing behind whatever their panel.
QuietModes == PlainModes \ (UdpModes \cup GreInner6Modes)
QuietFlags == PlainFlags \ (MessageFlags \cup PortFlags)
Quiet(a) ==
  \/ a.kind = "mode" /\ a.field \in QuietModes
  \/ a.kind = "switch" /\ a.field \in QuietFlags
  \/ a.kind = "value"

LEMMA QuietFields ==
  /\ EtherModes \cup ArpModes \cup Ipv4AddressModes \cup Ipv4ScalarModes \cup Ipv6AddressModes
       \cup Ipv6ScalarModes \cup VlanModes \cup Vlan2Modes \cup MplsModes \cup Mpls2Modes
       \cup Mpls3Modes \cup DnsModes \cup DhcpModes \cup SctpModes \cup TcpCoreModes \cup TcpOptionModes
       \cup IcmpModes \cup VxlanModes \cup GtpuModes \cup GreOptionModes \cup GreInner4Modes \cup GrePortModes
       \subseteq QuietModes
  /\ GtpuFlags \cup TcpOptionFlags \cup GreFlags \cup Icmpv6Flags \subseteq QuietFlags
  /\ {"vlan_enabled", "vlan2_enabled", "mpls_enabled", "mpls_label2_enabled", "mpls_label3_enabled",
      "udp_length_override", "udp_checksum_override", "dns_answer_enabled", "dhcp_option_values",
      "sctp_checksum_override", "sctp_zero", "tcp_checksum_override", "icmp_checksum_override", "gre_type_ipv6",
      "payload_enabled", "flow_stats_enabled", "latency_enabled", "bytes"} \subseteq QuietFlags
<1> DEFINE X == UdpModes \cup GreInner6Modes
<1>1. /\ EtherModes \cap X = {} /\ ArpModes \cap X = {} /\ Ipv4AddressModes \cap X = {}
      /\ Ipv4ScalarModes \cap X = {} /\ Ipv6AddressModes \cap X = {}
      /\ Ipv6ScalarModes \cap X = {} /\ VlanModes \cap X = {} /\ Vlan2Modes \cap X = {}
      /\ MplsModes \cap X = {} /\ Mpls2Modes \cap X = {} /\ Mpls3Modes \cap X = {}
  BY DEF EtherModes, ArpModes, Ipv4AddressModes, Ipv4ScalarModes, Ipv6AddressModes, Ipv6ScalarModes, VlanModes,
         Vlan2Modes, MplsModes, Mpls2Modes, Mpls3Modes, UdpModes, GreInner6Modes
<1>2. /\ DnsModes \cap X = {} /\ DhcpModes \cap X = {} /\ SctpModes \cap X = {} /\ TcpCoreModes \cap X = {}
      /\ TcpOptionModes \cap X = {} /\ IcmpModes \cap X = {}
  BY DEF DnsModes, DnsQueryModes, DnsAnswerModes, DhcpModes, DhcpBootpModes, DhcpAddressModes,
         DhcpOptionModes, DhcpTimerModes, DhcpOptionAddressModes, SctpModes, TcpCoreModes, TcpOptionModes, IcmpModes,
         UdpModes, GreInner6Modes
<1>3. /\ VxlanModes \cap X = {} /\ GtpuModes \cap X = {} /\ GreOptionModes \cap X = {} /\ GreInner4Modes \cap X = {}
      /\ GrePortModes \cap X = {}
  BY DEF VxlanModes, VxlanVniModes, VxlanInner4Modes, VxlanInner6Modes, VxlanPortModes, GtpuModes, GtpuTeidModes,
         GtpuOptionModes, GtpuInnerModes, GtpuInner4Modes, GtpuInner6Modes, GtpuPortModes, GreOptionModes,
         GreInner4Modes, GrePortModes, UdpModes, GreInner6Modes
<1>4. GreOptionModes \cup GreInner4Modes \cup GrePortModes \subseteq PlainModes
  BY FieldTypes DEF GreModes, GreInnerModes
<1>5. GtpuFlags \cup TcpOptionFlags \cup GreFlags \cup Icmpv6Flags \subseteq QuietFlags
  BY FieldTypes DEF QuietFlags, MessageFlags, PortFlags, GtpuFlags, TcpOptionFlags, GreFlags, Icmpv6Flags
<1>6. {"vlan_enabled", "vlan2_enabled", "mpls_enabled", "mpls_label2_enabled", "mpls_label3_enabled",
      "udp_length_override", "udp_checksum_override", "dns_answer_enabled", "dhcp_option_values",
      "sctp_checksum_override", "sctp_zero", "tcp_checksum_override", "icmp_checksum_override", "gre_type_ipv6",
      "payload_enabled", "flow_stats_enabled", "latency_enabled", "bytes"} \subseteq QuietFlags
  BY FieldTypes DEF QuietFlags, MessageFlags, PortFlags
<1> QED BY <1>1, <1>2, <1>3, <1>4, <1>5, <1>6, FieldTypes DEF QuietModes

LEMMA PlainNeat ==
  ASSUME NEW s \in Stream, NEW a, Quiet(a)
  PROVE  Neat(s, Plain(s, a))
<1>1. CASE a.kind = "mode" /\ a.field \in QuietModes
  <2> DEFINE V == IF a.to = "Varied" THEN s.vary \cup {a.field} ELSE s.vary \ {a.field}
             t == [s EXCEPT !.vary = V]
  <2>1. Plain(s, a) = t
    BY <1>1 DEF Plain
  <2>2. V \in SUBSET Modes
    BY <1>1 DEF Stream, PlainModes, QuietModes
  <2>3. V \cap (L4PortModes \cup UdpModes \cup GreInner6Modes) \subseteq s.vary
    BY <1>1 DEF PlainModes, QuietModes
  <2> HIDE DEF V
  <2>4. t \in Stream /\ t.on = s.on /\ t.vary = V /\ t.gre = s.gre
    BY <2>2 DEF Stream
  <2> HIDE DEF t
  <2> QED BY <2>1, <2>3, <2>4 DEF Neat, PortKept, L4PortModes, Varies
<1>2. CASE a.kind = "switch" /\ a.field \in QuietFlags
  <2>1. Plain(s, a) \in {TurnOn(s, {a.field}), TurnOff(s, {a.field})}
    BY <1>2 DEF Plain
  <2>2. {a.field} \subseteq PlainFlags \ MessageFlags /\ {a.field} \cap PortFlags = {}
    BY <1>2 DEF QuietFlags
  <2> QED BY <2>1, <2>2, NeatSwitches
<1>3. CASE a.kind = "value"
  <2>1. Plain(s, a) = s
    BY <1>3 DEF Plain
  <2> QED BY <2>1, NeatSelf
<1> QED BY <1>1, <1>2, <1>3 DEF Quiet

LEMMA GateNeat ==
  ASSUME NEW s \in Stream, NEW a, NEW F, a.field \in QuietFlags
  PROVE  Neat(s, Gate(s, a, F))
<1>1. {a.field} \subseteq PlainFlags \ MessageFlags /\ {a.field} \cap PortFlags = {}
  BY DEF QuietFlags
<1> QED BY <1>1, NeatSwitches DEF Gate

LEMMA QuietActions ==
  ASSUME NEW a
  PROVE  /\ a \in EtherActions \cup VlanActions \cup VlanInnerActions \cup MplsActions \cup MplsSecondActions
                    \cup MplsThirdActions \cup ArpActions \cup Ipv4AddressActions \cup Ipv4ScalarActions
                    \cup Ipv6AddressActions \cup Ipv6ScalarActions => Quiet(a)
         /\ a \in TcpCoreActions \cup TcpOptionActions \cup PayloadSelection \cup SctpActions \cup IcmpEchoActions
                    \cup Icmpv6Actions \cup VlanSelection \cup MplsSelection \cup DnsAnswerActions \cup DhcpAddressActions
                    \cup DhcpOptionActions => Quiet(a)
         /\ a \in DnsQueryActions => Quiet(a) \/ a \in Switch({"dns_enabled"})
         /\ a \in DhcpBootpActions => Quiet(a) \/ a \in Switch({"dhcp_enabled"})
         /\ a \in IcmpTypeActions => Quiet(a) \/ Chosen(a, "type", "icmp_type_value", IcmpTypes)
         /\ a \in UdpActions => Quiet(a) \/ a \in Mode(UdpModes)
<1>1. a \in EtherActions \cup VlanActions \cup VlanInnerActions \cup MplsActions \cup MplsSecondActions
              \cup MplsThirdActions \cup ArpActions \cup Ipv4AddressActions \cup Ipv4ScalarActions
              \cup Ipv6AddressActions \cup Ipv6ScalarActions => Quiet(a)
  BY Sent, QuietFields DEF EtherActions, VlanActions, VlanInnerActions, MplsActions, MplsSecondActions,
     MplsThirdActions, ArpActions, Ipv4AddressActions, Ipv4ScalarActions, Ipv6AddressActions, Ipv6ScalarActions, Quiet
<1>2. a \in TcpCoreActions \cup TcpOptionActions \cup PayloadSelection \cup SctpActions \cup Icmpv6Actions
              \cup VlanSelection \cup MplsSelection => Quiet(a)
  BY Sent, QuietFields DEF TcpCoreActions, TcpOptionActions, PayloadSelection, SctpActions, Icmpv6Actions,
     VlanSelection, MplsSelection, Quiet
<1>3. /\ a \in DnsAnswerActions \cup DhcpAddressActions \cup DhcpOptionActions => Quiet(a)
      /\ a \in DnsQueryActions => Quiet(a) \/ a \in Switch({"dns_enabled"})
      /\ a \in DhcpBootpActions => Quiet(a) \/ a \in Switch({"dhcp_enabled"})
  BY Sent, QuietFields DEF DnsAnswerActions, DhcpAddressActions, DhcpOptionActions, DnsQueryActions, DhcpBootpActions,
     DnsModes, DhcpModes, Quiet
<1>4. a \in IcmpEchoActions => Quiet(a)
  <2>1. {"icmp_identifier", "icmp_sequence"} \subseteq IcmpModes
    BY DEF IcmpModes
  <2> QED BY <2>1, Sent, QuietFields DEF IcmpEchoActions, Quiet
<1>5. a \in IcmpTypeActions => Quiet(a) \/ Chosen(a, "type", "icmp_type_value", IcmpTypes)
  <2>1. {"icmp_type", "icmp_code"} \subseteq IcmpModes
    BY DEF IcmpModes
  <2> QED BY <2>1, Sent, QuietFields DEF IcmpTypeActions, Quiet, Chosen
<1>6. a \in UdpActions => Quiet(a) \/ a \in Mode(UdpModes)
  BY Sent, QuietFields DEF UdpActions, Quiet
<1> QED BY <1>1, <1>2, <1>3, <1>4, <1>5, <1>6

LEMMA QuietTunnelActions ==
  ASSUME NEW a
  PROVE  /\ a \in VxlanVniActions \cup VxlanInnerActions \cup VxlanPortActions =>
              Quiet(a) \/ Chosen(a, "version", "vxlan_inner_ip_version", Versions)
         /\ a \in GtpuTeidActions \cup GtpuOptionActions \cup GtpuInnerActions \cup GtpuPortActions =>
              Quiet(a) \/ Chosen(a, "version", "gtpu_inner_ip_version", Versions)
         /\ a \in GreOptionActions \cup GrePortActions =>
              Quiet(a) \/ Chosen(a, "version", "gre_inner_ip_version", Versions)
         /\ a \in GreInnerActions => Quiet(a) \/ a \in Mode(GreInner6Modes)
<1>1. a \in VxlanVniActions \cup VxlanInnerActions \cup VxlanPortActions =>
        Quiet(a) \/ Chosen(a, "version", "vxlan_inner_ip_version", Versions)
  BY Sent, QuietFields DEF VxlanVniActions, VxlanInnerActions, VxlanPortActions, VxlanModes, Quiet, Chosen
<1>2. a \in GtpuTeidActions \cup GtpuOptionActions \cup GtpuInnerActions \cup GtpuPortActions =>
        Quiet(a) \/ Chosen(a, "version", "gtpu_inner_ip_version", Versions)
  BY Sent, QuietFields DEF GtpuTeidActions, GtpuOptionActions, GtpuInnerActions, GtpuPortActions, GtpuModes,
     GtpuInnerModes, Quiet, Chosen
<1>3. a \in GreOptionActions \cup GrePortActions => Quiet(a) \/ Chosen(a, "version", "gre_inner_ip_version", Versions)
  BY Sent, QuietFields DEF GreOptionActions, GrePortActions, Quiet, Chosen
<1>4. a \in GreInnerActions => Quiet(a) \/ a \in Mode(GreInner6Modes)
  <2>1. a \in GreInnerActions => a \in Mode(GreInner4Modes) \/ a \in Mode(GreInner6Modes) \/ a.kind = "value"
    BY Sent DEF GreInnerActions, Mode
  <2> QED BY <2>1, Sent, QuietFields DEF Quiet
<1> QED BY <1>1, <1>2, <1>3, <1>4

LEMMA NeatPatches ==
  ASSUME NEW s \in Stream, NEW a, Quiet(a)
  PROVE  /\ Neat(s, VlanPatch(s, a)) /\ Neat(s, MplsPatch(s, a)) /\ Neat(s, UdpPatch(s, a)) /\ Neat(s, SctpPatch(s, a))
         /\ Neat(s, IcmpPatch(s, a)) /\ Neat(s, Icmpv6Patch(s, a)) /\ Neat(s, VxlanPatch(s, a))
         /\ Neat(s, GtpuPatch(s, a))
<1>0. Neat(s, s) /\ Neat(s, Plain(s, a))
  BY NeatSelf, PlainNeat
<1>1. \A f \in QuietFlags : {f} \subseteq PlainFlags \ MessageFlags /\ {f} \cap PortFlags = {}
  BY DEF QuietFlags
<1>2. Neat(s, VlanPatch(s, a))
  <2>1. {"vlan_enabled"} \subseteq PlainFlags \ MessageFlags /\ {"vlan_enabled", "vlan2_enabled"} \cap PortFlags = {}
    BY QuietFields DEF QuietFlags
  <2>2. \A b : Neat(s, vlanSelectionPatch(s, b))
    BY <1>0, <2>1, NeatSteps DEF vlanSelectionPatch
  <2> QED BY <1>0, <2>2, GateNeat, QuietFields DEF VlanPatch
<1>3. Neat(s, MplsPatch(s, a))
  <2>1. /\ {"mpls_label2_enabled"} \subseteq PlainFlags \ MessageFlags
        /\ {"mpls_label3_enabled"} \subseteq PlainFlags \ MessageFlags
        /\ {"mpls_label2_enabled", "mpls_label3_enabled"} \cap PortFlags = {} /\ {"mpls_label3_enabled"} \cap PortFlags = {}
    BY QuietFields DEF QuietFlags
  <2>2. \A b : Neat(s, mplsSecondLabelSelectionPatch(s, b))
    BY <1>0, <2>1, NeatSteps DEF mplsSecondLabelSelectionPatch
  <2>3. \A b : Neat(s, mplsThirdLabelSelectionPatch(s, b))
    <3> DEFINE t == TurnOn(s, {"mpls_label2_enabled"})
    <3>1. Neat(s, t)
      BY <1>0, <2>1, NeatSteps
    <3> HIDE DEF t
    <3>2. Neat(s, TurnOn(t, {"mpls_label3_enabled"})) /\ Neat(s, Drop(t, {"mpls_label3_enabled"}, Mpls3Modes))
      BY <2>1, <3>1, NeatSteps
    <3> QED BY <3>2 DEF mplsThirdLabelSelectionPatch, t
  <2> QED BY <1>0, <2>2, <2>3 DEF MplsPatch
<1>4. Neat(s, UdpPatch(s, a))
  BY <1>0, GateNeat, QuietFields DEF UdpPatch
<1>5. Neat(s, SctpPatch(s, a))
  <2>1. {"sctp_checksum_override", "sctp_zero"} \subseteq PlainFlags \ MessageFlags /\ {"sctp_zero"} \cap PortFlags = {}
    BY QuietFields DEF QuietFlags
  <2>2. Neat(s, TurnOn(Plain(s, a), {"sctp_checksum_override", "sctp_zero"})) /\ Neat(s, TurnOff(s, {"sctp_zero"}))
    BY <1>0, <2>1, NeatSteps
  <2> QED BY <1>0, <2>2 DEF SctpPatch, sctpChecksumCoupledModePatch
<1>6. Neat(s, IcmpPatch(s, a))
  <2>1. {"icmp_checksum_override"} \cap PortFlags = {}
    BY QuietFields DEF QuietFlags
  <2>2. Neat(s, TurnOff(Plain(s, a), {"icmp_checksum_override"}))
    BY <1>0, <2>1, NeatSteps
  <2>3. a.kind # "type"
    BY DEF Quiet
  <2> QED BY <1>0, <2>2, <2>3 DEF IcmpPatch, icmpChecksumCoupledModePatch
<1>7. Neat(s, Icmpv6Patch(s, a))
  <2> DEFINE t == Plain(s, a)
  <2>1. Neat(s, AtLeast(t, icmpv6ControlMinimumFrameLength(t)))
    BY <1>0, NaturalLengths, NeatSteps
  <2>2. Icmpv6Patch(s, a) \in {t, AtLeast(t, icmpv6ControlMinimumFrameLength(t))}
    BY DEF Icmpv6Patch
  <2> HIDE DEF t
  <2> QED BY <1>0, <2>1, <2>2 DEF t
<1>8. Neat(s, VxlanPatch(s, a))
  BY <1>0 DEF VxlanPatch, Quiet
<1>9. Neat(s, GtpuPatch(s, a))
  <2>1. GtpuFlags = {"gtpu_sequence_enabled", "gtpu_npdu_enabled", "gtpu_extension_enabled"}
    BY DEF GtpuFlags
  <2>2. a.kind # "version"
    BY DEF Quiet
  <2>3. a.field \in GtpuFlags => a.field \in QuietFlags
    BY QuietFields
  <2> QED BY <1>0, <2>1, <2>2, <2>3, GateNeat DEF GtpuPatch
<1> QED BY <1>2, <1>3, <1>4, <1>5, <1>6, <1>7, <1>8, <1>9

LEMMA NeatChoices ==
  ASSUME NEW s \in Stream
  PROVE  /\ \A k \in IcmpTypes : Neat(s, icmpTypePatch(s, k))
         /\ \A v \in Versions : Neat(s, vxlanInnerIpVersionPatch(s, v)) /\ Neat(s, gtpuInnerIpVersionPatch(s, v))
         /\ \A v \in Versions : Neat(s, greInnerIpVersionPatch(s, v))
<1>1. ASSUME NEW k \in IcmpTypes PROVE Neat(s, icmpTypePatch(s, k))
  <2> DEFINE t == [s EXCEPT !.icmp = k]
             u == Drop(t, {"icmp_checksum_override"}, IcmpModes \cup {"ipv6_hop_limit"})
             n == icmpv6ControlMinimumFrameLength(t)
  <2>1. Neat(s, t)
    BY <1>1, NeatVersions
  <2> HIDE DEF t
  <2>2. {"icmp_checksum_override"} \cap PortFlags = {}
    BY QuietFields DEF QuietFlags
  <2>3. Neat(s, Fix(t, IcmpModes)) /\ Neat(s, u)
    BY <2>1, <2>2, NeatSteps
  <2>4. n \in Nat
    BY NaturalLengths
  <2> HIDE DEF u, n
  <2>5. Neat(s, FixLength(u))
    BY <2>3, NeatSteps
  <2>6. Neat(s, AtLeast(FixLength(u), n))
    BY <2>4, <2>5, NeatSteps
  <2>7. icmpTypePatch(s, k) \in {AtLeast(FixLength(u), n), Fix(t, IcmpModes), t}
    BY DEF icmpTypePatch, t, u, n
  <2> QED BY <2>1, <2>3, <2>6, <2>7
<1>2. ASSUME NEW t, Neat(s, t), NEW F, NEW n \in Nat PROVE Neat(s, TunnelLength(FixLength(Fix(t, F)), n))
  <2>1. Neat(s, FixLength(Fix(t, F)))
    BY <1>2, NeatSteps
  <2> QED BY <1>2, <2>1, NeatSteps
<1>3. ASSUME NEW v \in Versions PROVE Neat(s, vxlanInnerIpVersionPatch(s, v)) /\ Neat(s, gtpuInnerIpVersionPatch(s, v))
  <2>1. Neat(s, [s EXCEPT !.vxlan = v]) /\ Neat(s, [s EXCEPT !.gtpu = v])
    BY <1>3, NeatVersions
  <2>2. Neat(s, vxlanInnerIpVersionPatch(s, v))
    BY <1>2, <2>1 DEF vxlanInnerIpVersionPatch
  <2>3. (IF v = "IPv6" THEN 116 ELSE 96) \in Nat
    OBVIOUS
  <2>4. Neat(s, gtpuInnerIpVersionPatch(s, v))
    BY <1>2, <2>1, <2>3 DEF gtpuInnerIpVersionPatch
  <2> QED BY <2>2, <2>4
<1>4. ASSUME NEW v \in Versions PROVE Neat(s, greInnerIpVersionPatch(s, v))
  <2> DEFINE t == [s EXCEPT !.gre = v]
             six == Fix(TurnOn(t, {"gre_type_ipv6"}), GreInner4Modes)
             four == Fix(TurnOff(t, {"gre_type_ipv6"}), GreInner6Modes)
  <2>1. t \in Stream /\ t.on = s.on /\ t.vary = s.vary /\ t.gre = v
    BY <1>4 DEF Stream
  <2> HIDE DEF t
  <2>2. {"gre_type_ipv6"} \subseteq PlainFlags
    BY FieldTypes
  <2>3. /\ TurnOn(t, {"gre_type_ipv6"}) \in Stream /\ TurnOn(t, {"gre_type_ipv6"}).on = s.on \cup {"gre_type_ipv6"}
        /\ TurnOn(t, {"gre_type_ipv6"}).vary = s.vary /\ TurnOn(t, {"gre_type_ipv6"}).gre = v
    BY <2>1, <2>2 DEF TurnOn, Stream, PlainFlags
  <2>4. /\ TurnOff(t, {"gre_type_ipv6"}) \in Stream /\ TurnOff(t, {"gre_type_ipv6"}).on = s.on \ {"gre_type_ipv6"}
        /\ TurnOff(t, {"gre_type_ipv6"}).vary = s.vary /\ TurnOff(t, {"gre_type_ipv6"}).gre = v
    BY <2>1 DEF TurnOff, Stream
  <2>5. /\ six \in Stream /\ six.on = s.on \cup {"gre_type_ipv6"} /\ six.vary = s.vary \ GreInner4Modes /\ six.gre = v
    BY <2>3 DEF Fix, Stream
  <2>6. /\ four \in Stream /\ four.on = s.on \ {"gre_type_ipv6"} /\ four.vary = s.vary \ GreInner6Modes /\ four.gre = v
    BY <2>4 DEF Fix, Stream
  <2> HIDE DEF six, four
  <2>7. v = "IPv6" => Neat(s, six)
    BY <2>5 DEF Neat, PortKept, Varies, TunnelFlags, MessageFlags
  <2>8. Neat(s, four)
    BY <2>6 DEF Neat, PortKept, Varies
  <2>9. (v = "IPv6" => Neat(s, AtLeast(six, 90))) /\ Neat(s, AtLeast(four, 64))
    BY <2>7, <2>8, NeatSteps
  <2>10. greInnerIpVersionPatch(s, v) = IF v = "IPv6" THEN AtLeast(six, 90) ELSE AtLeast(four, 64)
    BY DEF greInnerIpVersionPatch, six, four, t
  <2> QED BY <2>9, <2>10
<1> QED BY <1>1, <1>3, <1>4

LEMMA NeatGre ==
  ASSUME NEW s \in Stream, NEW a, Quiet(a) \/ a \in Mode(GreInner6Modes), a.kind = "mode" /\ a.field \in GreInner6Modes => s.gre = "IPv6"
  PROVE  Neat(s, GrePatch(s, a))
<1>0. /\ GreFlags = {"gre_checksum_present", "gre_checksum_override", "gre_key_present", "gre_sequence_present"}
      /\ \A f \in GreFlags : {f} \subseteq PlainFlags \ MessageFlags /\ {f} \cap PortFlags = {}
      /\ {"gre_checksum_present", "gre_checksum_override"} \cap PortFlags = {}
  BY QuietFields DEF QuietFlags, GreFlags, PortFlags
<1>1. a.kind = "mode" => a.field \notin GreFlags
  <2>1. a.kind = "mode" => a.field \in Modes
    BY Sent, FieldTypes DEF Quiet, QuietModes, PlainModes, GreModes, GreInnerModes
  <2> QED BY <2>1, NamesApart, FieldTypes DEF PlainFlags
<1>2. Neat(s, Plain(s, a))
  <2>1. CASE Quiet(a)
    BY <2>1, PlainNeat
  <2>2. CASE a \in Mode(GreInner6Modes)
    <3> DEFINE V == IF a.to = "Varied" THEN s.vary \cup {a.field} ELSE s.vary \ {a.field}
               t == [s EXCEPT !.vary = V]
    <3>1. a.kind = "mode" /\ a.field \in GreInner6Modes /\ s.gre = "IPv6"
      BY <2>2, Sent
    <3>2. Plain(s, a) = t
      BY <3>1 DEF Plain
    <3>3. a.field \in PlainModes /\ a.field \notin UdpModes
      BY <3>1, FieldTypes DEF GreModes, GreInnerModes, GreInner6Modes, UdpModes
    <3>4. V \in SUBSET Modes
      BY <3>3 DEF Stream, PlainModes
    <3>5. V \cap (L4PortModes \cup UdpModes) \subseteq s.vary
      BY <3>3 DEF PlainModes
    <3> HIDE DEF V
    <3>6. t \in Stream /\ t.on = s.on /\ t.vary = V /\ t.gre = s.gre
      BY <3>4 DEF Stream
    <3> HIDE DEF t
    <3> QED BY <3>1, <3>2, <3>5, <3>6 DEF Neat, PortKept, L4PortModes, Varies
  <2> QED BY <2>1, <2>2
<1>3. CASE a.kind = "mode"
  <2> DEFINE t == TurnOff(Plain(s, a), {"gre_checksum_present", "gre_checksum_override"})
  <2>1. Neat(s, t)
    BY <1>0, <1>2, NeatSteps
  <2> HIDE DEF t
  <2>2. Neat(s, TurnOn(t, {"gre_key_present"})) /\ Neat(s, TurnOn(t, {"gre_sequence_present"}))
    BY <1>0, <2>1, NeatSteps
  <2>3. GrePatch(s, a) = greChecksumInvalidatingModePatch(s, a)
    BY <1>0, <1>1, <1>3 DEF GrePatch
  <2> QED BY <2>1, <2>2, <2>3 DEF greChecksumInvalidatingModePatch, t
<1>4. CASE a.kind # "mode"
  <2>1. ASSUME NEW F, NEW G, F \cap PortFlags = {}, a.field \in GreFlags PROVE Neat(s, greOptionPatch(s, a, F, G))
    <3>1. {a.field} \subseteq PlainFlags \ MessageFlags
      BY <1>0, <2>1
    <3>2. Neat(s, TurnOn(s, {a.field})) /\ Neat(s, Drop(s, F, G))
      BY <2>1, <3>1, NeatSelf, NeatSteps
    <3> QED BY <3>2, NeatSteps DEF greOptionPatch
  <2>2. a.kind # "version"
    BY Sent DEF Quiet
  <2>3. /\ {"gre_checksum_present", "gre_checksum_override"} \cap PortFlags = {} /\ {"gre_key_present"} \cap PortFlags = {}
        /\ {"gre_sequence_present"} \cap PortFlags = {}
    BY DEF PortFlags
  <2> QED BY <1>0, <1>2, <1>4, <2>1, <2>2, <2>3 DEF GrePatch
<1> QED BY <1>3, <1>4

LEMMA NeatPacketType ==
  ASSUME NEW s \in Stream, NEW l3 \in Network, NEW l4 \in Transport
  PROVE  Neat(s, packetTypePatch(s, l3, l4))
<1> DEFINE t == packetTypeFor(s, l3, l4)
           kept == IF t.l4 = "SCTP" THEN t ELSE ForgetSctp(t)
<1>0. L4PortModes \subseteq L4PortModes
  OBVIOUS
<1>1. Neat(s, t)
  <2>1. (IF l3 \in Versions THEN l4 ELSE "None") \in Transport
    BY DEF Transport
  <2>2. t \in Stream /\ t.on = s.on /\ t.vary = s.vary /\ t.gre = s.gre
    BY <2>1 DEF packetTypeFor, Stream
  <2> QED BY <2>2, NeatSame
<1> HIDE DEF t
<1>2. ASSUME NEW u, Neat(s, u)
      PROVE  /\ Neat(s, ForgetPorts(u)) /\ Neat(s, ForgetUdp(u)) /\ Neat(s, ForgetEcho(u)) /\ Neat(s, ForgetSctp(u))
             /\ Neat(s, ForgetGtpu(u)) /\ Neat(s, ForgetVxlan(u))
  <2>1. /\ {"udp_length_override", "udp_checksum_override"} \cap PortFlags = {} /\ {"icmp_checksum_override"} \cap PortFlags = {}
        /\ {"sctp_checksum_override"} \cap PortFlags = {} /\ ({"gtpu_enabled"} \cup GtpuFlags) \cap PortFlags = {}
        /\ {"vxlan_enabled"} \cap PortFlags = {}
    BY DEF PortFlags, GtpuFlags
  <2>2. Neat(s, ForgetPorts(u)) /\ Neat(s, ForgetUdp(u)) /\ Neat(s, ForgetEcho(u)) /\ Neat(s, ForgetSctp(u))
    BY <1>0, <1>2, <2>1, NeatSteps DEF ForgetPorts, ForgetUdp, ForgetEcho, ForgetSctp
  <2>3. u \in Stream
    BY <1>2, NeatType
  <2>4. Neat(s, [u EXCEPT !.gtpu = "IPv4"]) /\ Neat(s, [u EXCEPT !.vxlan = "IPv4"])
    BY <1>2, <2>3, NeatVersions, NeatChain DEF Versions
  <2> QED BY <2>1, <2>2, <2>4, NeatSteps DEF ForgetGtpu, ForgetVxlan
<1>3. Neat(s, kept)
  BY <1>1, <1>2
<1> HIDE DEF kept
<1>4. Neat(s, ForgetTransport(kept))
  BY <1>2, <1>3 DEF ForgetTransport
<1>5. Neat(s, ForgetVxlan(ForgetGtpu(ForgetEcho(ForgetUdp(kept)))))
  BY <1>2, <1>3
<1>6. /\ {"mpls_enabled", "flow_stats_enabled", "latency_enabled"} \cap PortFlags = {} /\ {"mpls_enabled"} \cap PortFlags = {}
  BY DEF PortFlags
<1>7. /\ Neat(s, TurnOff(ForgetTransport(kept), {"mpls_enabled", "flow_stats_enabled", "latency_enabled"}))
      /\ Neat(s, TurnOff(ForgetTransport(kept), {"mpls_enabled"}))
  BY <1>4, <1>6, NeatSteps
<1> DEFINE echo == FixLength([ForgetTransport(kept) EXCEPT !.icmp = "echo"])
<1>8. Neat(s, echo) /\ Neat(s, Fix(echo, Ipv6AddressModes))
  <2>1. Neat(s, [ForgetTransport(kept) EXCEPT !.icmp = "echo"])
    BY <1>4, NeatVersions, NeatChain, NeatType DEF IcmpTypes
  <2>2. Neat(s, echo)
    BY <2>1, NeatSteps
  <2> HIDE DEF echo
  <2> QED BY <2>2, NeatSteps
<1>9. Neat(s, AtLeast(FixLength(ForgetTransport(kept)), 96))
  <2>1. Neat(s, FixLength(ForgetTransport(kept)))
    BY <1>4, NeatSteps
  <2> QED BY <2>1, NeatSteps
<1> DEFINE n == sctpMinimumFrameLength(t)
           sctp == FixLength(ForgetVxlan(ForgetGtpu(ForgetEcho(ForgetUdp(kept)))))
           w == [sctp EXCEPT !.min = Longer(@, n)]
<1>10. Neat(s, AtLeast(w, n))
  <2>1. Neat(s, sctp) /\ sctp \in Stream
    BY <1>5, NeatSteps, NeatType
  <2> HIDE DEF sctp
  <2>2. n \in Nat
    BY NaturalLengths
  <2> HIDE DEF n
  <2>3. Longer(sctp.min, n) \in Nat
    BY <2>1, <2>2 DEF Longer, Stream
  <2>4. w \in Stream /\ w.on = sctp.on /\ w.vary = sctp.vary /\ w.gre = sctp.gre
    BY <2>1, <2>3 DEF Stream
  <2> HIDE DEF w
  <2>5. Neat(s, w)
    BY <2>1, <2>4, NeatSame, NeatChain
  <2> QED BY <2>2, <2>5, NeatSteps
<1>11. Neat(s, ForgetEcho(kept))
  BY <1>2, <1>3
<1>12. packetTypePatch(s, l3, l4) \in
         {s, TurnOff(ForgetTransport(kept), {"mpls_enabled", "flow_stats_enabled", "latency_enabled"}),
          TurnOff(ForgetTransport(kept), {"mpls_enabled"}), ForgetTransport(kept), echo, Fix(echo, Ipv6AddressModes),
          AtLeast(FixLength(ForgetTransport(kept)), 96), AtLeast(w, n), ForgetEcho(kept)}
  <2>1. t.l3 \in {"ARP", "None"} => ~HasIp(t) /\ t.l4 = "None"
    BY DEF packetTypeFor, t, HasIp, Versions, Stream
  <2> QED BY <2>1 DEF packetTypePatch, t, kept
<1> HIDE DEF echo, w, n
<1> QED BY <1>4, <1>7, <1>8, <1>9, <1>10, <1>11, <1>12, NeatSelf

\* A message is chosen: the other one goes.
LEMMA TidyMessages ==
  ASSUME NEW s, s \in Stream, Tidy(s), NEW a
  PROVE  /\ Quiet(a) \/ a \in Switch({"dns_enabled"}) => Tidy(DnsPatch(s, a))
         /\ Quiet(a) /\ a.field # "dhcp_enabled" => Tidy(DhcpPatch(s, a))
         /\ a \in Switch({"dhcp_enabled"}) /\ (a.to = "on" => ~Tunnel(s)) => Tidy(DhcpPatch(s, a))
<1>1. ASSUME NEW F, NEW G, NEW H, NEW n \in Nat, H \subseteq Flags
      PROVE  LET t == minimumFrameLengthPatch(TurnOn(Drop(s, F, G), H), n)
             IN t \in Stream /\ t.on = (s.on \ F) \cup H /\ t.vary = s.vary \ G /\ t.gre = s.gre
  <2>1. Writes(s, Drop(s, F, G), s.on \ F, s.vary \ G)
    BY WriteSelf, WriteSteps
  <2>2. Writes(s, TurnOn(Drop(s, F, G), H), (s.on \ F) \cup H, s.vary \ G)
    BY <1>1, <2>1, WriteSteps
  <2>3. Writes(s, minimumFrameLengthPatch(TurnOn(Drop(s, F, G), H), n), (s.on \ F) \cup H, s.vary \ G)
    BY <1>1, <2>2, WriteSteps
  <2> QED BY <2>3 DEF Writes, Alike
<1>2. Neat(s, s) /\ (Quiet(a) => Neat(s, Plain(s, a)))
  BY NeatSelf, PlainNeat
<1>3. Tidy(dnsSelectionPatch(s, TRUE))
  <2> DEFINE F == {"dhcp_enabled", "udp_length_override", "udp_checksum_override"}
             G == {"udp_length"} \cup (DhcpModes \ DhcpTimerModes)
             H == {"dns_enabled", "l4_dst_port_override"}
             t == dnsSelectionPatch(s, TRUE)
  <2>1. H \subseteq Flags
    BY DEF Flags
  <2>2. t = minimumFrameLengthPatch(TurnOn(Drop(s, F, G), H), udpApplicationMinimumFrameLength(s, 29))
    BY DEF dnsSelectionPatch
  <2> HIDE DEF t, G
  <2>3. t.on = (s.on \ F) \cup H /\ t.vary = s.vary \ G /\ t.gre = s.gre
    BY <1>1, <2>1, <2>2, NaturalLengths
  <2>4. Tidy(t)
    BY <2>3 DEF Tidy, IsOn, Varies, Tunnel
  <2> QED BY <2>4 DEF t
<1>4. ASSUME ~Tunnel(s) PROVE Tidy(dhcpSelectionPatch(s, TRUE))
  <2> DEFINE F == {"dns_enabled", "dns_answer_enabled", "udp_length_override", "udp_checksum_override"}
             G == {"udp_length"} \cup DnsModes
             H == {"dhcp_enabled", "l4_src_port_override", "l4_dst_port_override"}
             t == dhcpSelectionPatch(s, TRUE)
  <2>1. H \subseteq Flags
    BY DEF Flags
  <2>2. t = minimumFrameLengthPatch(TurnOn(Drop(s, F, G), H), udpApplicationMinimumFrameLength(s, 300))
    BY DEF dhcpSelectionPatch
  <2> HIDE DEF t, G
  <2>3. t.on = (s.on \ F) \cup H /\ t.vary = s.vary \ G /\ t.gre = s.gre
    BY <1>1, <2>1, <2>2, NaturalLengths
  <2>4. Tidy(t)
    BY <1>4, <2>3 DEF Tidy, IsOn, Varies, Tunnel
  <2> QED BY <2>4 DEF t
<1>5. /\ Neat(s, dnsSelectionPatch(s, FALSE)) /\ Neat(s, dhcpSelectionPatch(s, FALSE))
      /\ Neat(s, dnsAnswerSelectionPatch(s, FALSE))
  <2>1. {"dns_enabled", "dns_answer_enabled"} \cap PortFlags = {} /\ {"dhcp_enabled"} \cap PortFlags = {}
        /\ {"dns_answer_enabled"} \cap PortFlags = {}
    BY DEF PortFlags
  <2> QED BY <2>1, NeatSwitches DEF dnsSelectionPatch, dhcpSelectionPatch, dnsAnswerSelectionPatch
<1>6. Neat(s, dnsAnswerSelectionPatch(s, TRUE))
  <2> DEFINE t == Fix(TurnOn(s, {"dns_answer_enabled"}), {"dns_query_type", "dns_query_class"})
  <2>1. Neat(s, TurnOn(s, {"dns_answer_enabled"}))
    BY <1>2, NeatSteps, QuietFields DEF QuietFlags
  <2>2. Neat(s, t)
    BY <2>1, NeatSteps
  <2> HIDE DEF t
  <2>3. Neat(s, minimumFrameLengthPatch(t, udpApplicationMinimumFrameLength(s, 45)))
    BY <2>2, NaturalLengths, NeatSteps
  <2> QED BY <2>3 DEF dnsAnswerSelectionPatch, t
<1>7. Quiet(a) \/ a \in Switch({"dns_enabled"}) => Tidy(DnsPatch(s, a))
  <2>1. DnsPatch(s, a) \in {dnsSelectionPatch(s, TRUE), dnsSelectionPatch(s, FALSE), dnsAnswerSelectionPatch(s, TRUE),
                            dnsAnswerSelectionPatch(s, FALSE), Plain(s, a)}
    BY DEF DnsPatch
  <2>2. a \in Switch({"dns_enabled"}) => DnsPatch(s, a) \in {dnsSelectionPatch(s, TRUE), dnsSelectionPatch(s, FALSE)}
    BY Sent DEF DnsPatch
  <2> QED BY <1>2, <1>3, <1>5, <1>6, <2>1, <2>2, NeatTidy
<1>8. Quiet(a) /\ a.field # "dhcp_enabled" => Tidy(DhcpPatch(s, a))
  <2>1. a.field # "dhcp_enabled" => DhcpPatch(s, a) = Plain(s, a)
    BY DEF DhcpPatch
  <2> QED BY <1>2, <2>1, NeatTidy
<1>9. ASSUME a \in Switch({"dhcp_enabled"}), a.to = "on" => ~Tunnel(s) PROVE Tidy(DhcpPatch(s, a))
  <2>1. a.field = "dhcp_enabled" /\ a.to \in {"on", "off"}
    BY <1>9, Sent
  <2>2. DhcpPatch(s, a) = dhcpSelectionPatch(s, a.to = "on")
    BY <2>1 DEF DhcpPatch
  <2>3. CASE a.to = "on"
    BY <1>4, <1>9, <2>2, <2>3
  <2>4. CASE a.to = "off"
    BY <1>5, <2>2, <2>4, NeatTidy
  <2> QED BY <2>1, <2>3, <2>4
<1> QED BY <1>7, <1>8, <1>9

\* The length fields of UDP, and the ports, are locked under a tunnel.
LEMMA TidyPorts ==
  ASSUME NEW s, s \in Stream, Tidy(s), NEW a
  PROVE  /\ a \in UdpActions /\ a.field \in UdpPanel(s) => Tidy(UdpPatch(s, a))
         /\ a \in L4PortActions /\ a.field \in L4PortPanel(s) => Tidy(L4PortPatch(s, a))
\* A field starts to vary, or stops.
<1>1. ASSUME NEW f \in Modes, a.kind = "mode", a.field = f
      PROVE  Plain(s, a).on = s.on /\ Plain(s, a).gre = s.gre /\ Plain(s, a).vary \subseteq s.vary \cup {f}
  BY <1>1 DEF Plain, Stream
<1>2. ASSUME a \in UdpActions, a.field \in UdpPanel(s) PROVE Tidy(UdpPatch(s, a))
  <2>1. CASE Quiet(a)
    BY <2>1, NeatPatches, NeatTidy
  <2>2. CASE a \in Mode(UdpModes)
    <3>1. a.kind = "mode" /\ a.field \in UdpModes
      BY <2>2, Sent
    <3>2. ~Tunnel(s)
      BY <1>2, <3>1 DEF UdpPanel, UdpLocked, When
    <3>3. UdpPatch(s, a) = Plain(s, a) /\ a.field \in Modes
      BY <3>1, FieldTypes DEF UdpPatch, UdpModes, PlainModes
    <3> DEFINE t == Plain(s, a)
    <3>4. t.on = s.on /\ t.gre = s.gre /\ t.vary \subseteq s.vary \cup {a.field}
      BY <1>1, <3>1, <3>3
    <3>5. a.field \notin {"l4_src_port", "l4_dst_port"} /\ a.field \notin GreInner6Modes
      BY <3>1 DEF UdpModes, GreInner6Modes
    <3> HIDE DEF t
    <3>6. Tidy(t)
      BY <3>2, <3>4, <3>5 DEF Tidy, Tunnel, IsOn, Varies
    <3> QED BY <3>3, <3>6 DEF t
  <2> QED BY <1>2, <2>1, <2>2, QuietActions
<1>3. ASSUME a \in L4PortActions, a.field \in L4PortPanel(s) PROVE Tidy(L4PortPatch(s, a))
  <2>1. CASE a \in Value(L4PortModes)
    <3>1. a.kind = "value" /\ a.field \in {"l4_src_port", "l4_dst_port"}
      BY <2>1, Sent DEF L4PortModes
    <3>2. L4PortPatch(s, a) = s
      BY <3>1 DEF L4PortPatch, Plain
    <3> QED BY <3>2
  <2>2. CASE a \in Switch({"l4_src_port_override", "l4_dst_port_override"})
    <3>1. a.kind = "switch" /\ a.field \in {"l4_src_port_override", "l4_dst_port_override"}
      BY <2>2, Sent
    <3>2. {a.field} \subseteq PlainFlags \ MessageFlags
      BY <3>1, FieldTypes DEF MessageFlags
    <3>3. Neat(s, TurnOn(s, {a.field}))
      BY <3>2, NeatSwitches
    <3>4. L4PortPatch(s, a) \in {TurnOn(s, {a.field}), Drop(s, {"l4_src_port_override"}, {"l4_src_port"}),
                                 Drop(s, {"l4_dst_port_override"}, {"l4_dst_port"})}
      BY <3>1 DEF L4PortPatch, Gate
    <3> QED BY <3>3, <3>4, NeatPorts, NeatTidy
  <2>3. CASE a \in Mode(L4PortModes)
    <3>1. a.kind = "mode" /\ a.field \in L4PortModes /\ a.field \in {"l4_src_port", "l4_dst_port"}
      BY <2>3, Sent DEF L4PortModes
    <3>2. IsOn(s, IF a.field = "l4_src_port" THEN "l4_src_port_override" ELSE "l4_dst_port_override")
      BY <1>3, <3>1 DEF L4PortPanel, L4PortLocked, When
    <3>3. L4PortPatch(s, a) = Plain(s, a) /\ a.field \in Modes
      BY <3>1, FieldTypes DEF L4PortPatch
    <3> DEFINE t == Plain(s, a)
    <3>4. t.on = s.on /\ t.gre = s.gre /\ t.vary \subseteq s.vary \cup {a.field}
      BY <1>1, <3>1, <3>3
    <3>5. a.field \notin UdpModes /\ a.field \notin GreInner6Modes
      BY <3>1 DEF UdpModes, GreInner6Modes
    <3> HIDE DEF t
    <3>6. Tidy(t)
      BY <3>1, <3>2, <3>4, <3>5 DEF Tidy, Tunnel, IsOn, Varies
    <3> QED BY <3>3, <3>6 DEF t
  <2> QED BY <1>3, <2>1, <2>2, <2>3 DEF L4PortActions
<1> QED BY <1>2, <1>3

\* A tunnel is chosen: what it cannot have beside it goes.
LEMMA TidyTunnels ==
  ASSUME NEW s, s \in Stream, Tidy(s)
  PROVE  Tidy(tunnelDisabledPatch(s)) /\ Tidy(vxlanSelectionPatch(s)) /\ Tidy(gtpuSelectionPatch(s))
<1>1. Tidy(tunnelDisabledPatch(s))
  <2>1. ({"gtpu_enabled", "vxlan_enabled"} \cup GtpuFlags) \cap PortFlags = {}
    BY DEF PortFlags, GtpuFlags
  <2> QED BY <2>1, NeatSwitches, NeatTidy DEF tunnelDisabledPatch
<1>2. ASSUME NEW t \in Stream, NEW f \in TunnelFlags, NEW n \in Nat
      PROVE  LET y == TunnelLength(OverTunnel(TurnOn(t, {f})), n)
             IN /\ y \in Stream /\ y.gre = t.gre /\ y.vary = (t.vary \ UdpModes) \ L4PortModes
                /\ y.on = ((t.on \cup {f}) \ {"udp_length_override", "udp_checksum_override"}) \cup PortFlags
  <2> DEFINE t1 == TurnOn(t, {f})
             u == [t1 EXCEPT !.l3 = "IPv4", !.l4 = "UDP"]
             w == ForgetUdp(u)
             x == Fix(w, L4PortModes)
             z == TurnOn(FixLength(x), PortFlags)
             on == (t.on \cup {f}) \ {"udp_length_override", "udp_checksum_override"}
             vary == (t.vary \ UdpModes) \ L4PortModes
  <2>1. t1 \in Stream /\ t1.on = t.on \cup {f} /\ t1.vary = t.vary /\ t1.gre = t.gre
    <3>1. {f} \subseteq Flags
      BY FieldTypes
    <3> QED BY <3>1, Written DEF Alike
  <2> HIDE DEF t1
  <2>2. u \in Stream /\ u.on = t.on \cup {f} /\ u.vary = t.vary /\ u.gre = t.gre
    BY <2>1 DEF Stream, Network, Transport
  <2> HIDE DEF u
  <2>3. Writes(u, w, on, t.vary \ UdpModes)
    BY <2>2, WriteSelf, WriteSteps DEF ForgetUdp
  <2> HIDE DEF w
  <2>4. Writes(u, x, on, vary)
    BY <2>3, WriteSteps
  <2> HIDE DEF x
  <2>5. Writes(u, FixLength(x), on, vary)
    BY <2>4, WriteSteps
  <2>6. PortFlags \subseteq Flags
    BY DEF PortFlags, Flags
  <2>7. Writes(u, z, on \cup PortFlags, vary)
    BY <2>5, <2>6, WriteSteps
  <2>8. OverTunnel(TurnOn(t, {f})) = z
    BY DEF OverTunnel, PortFlags, t1, u, w, x
  <2> HIDE DEF z
  <2>9. Writes(u, TunnelLength(z, n), on \cup PortFlags, vary)
    BY <1>2, <2>7, WriteSteps
  <2> QED BY <2>2, <2>8, <2>9 DEF Writes, Alike
<1>3. ASSUME NEW F, NEW G
      PROVE  Drop(s, F, G) \in Stream /\ Drop(s, F, G).on = s.on \ F /\ Drop(s, F, G).vary = s.vary \ G /\ Drop(s, F, G).gre = s.gre
  BY WriteSelf, WriteSteps DEF Writes, Alike
<1>4. Tidy(vxlanSelectionPatch(s))
  <2> DEFINE t == Drop(s, {"gtpu_enabled"} \cup GtpuFlags, GtpuOptionModes)
             y == vxlanSelectionPatch(s)
  <2>1. t \in Stream /\ t.on = s.on \ ({"gtpu_enabled"} \cup GtpuFlags) /\ t.vary \subseteq s.vary /\ t.gre = s.gre
    BY <1>3
  <2>2. y = TunnelLength(OverTunnel(TurnOn(t, {"vxlan_enabled"})), 128)
    BY DEF vxlanSelectionPatch
  <2> HIDE DEF t, y
  <2>3. /\ y.gre = t.gre /\ y.vary = (t.vary \ UdpModes) \ L4PortModes
        /\ y.on = ((t.on \cup {"vxlan_enabled"}) \ {"udp_length_override", "udp_checksum_override"}) \cup PortFlags
    BY <1>2, <2>1, <2>2 DEF TunnelFlags
  <2>4. Tidy(y)
    BY <2>1, <2>3 DEF Tidy, IsOn, Varies, L4PortModes, PortFlags
  <2> QED BY <2>4 DEF y
<1>5. Tidy(gtpuSelectionPatch(s))
  <2> DEFINE G == DnsQueryModes \cup (DhcpModes \ DhcpTimerModes)
             t == Drop(s, {"vxlan_enabled", "dns_enabled", "dhcp_enabled"}, G)
             y == gtpuSelectionPatch(s)
  <2>1. t \in Stream /\ t.on = s.on \ {"vxlan_enabled", "dns_enabled", "dhcp_enabled"} /\ t.vary \subseteq s.vary /\ t.gre = s.gre
    <3> HIDE DEF G
    <3> QED BY <1>3
  <2>2. y = TunnelLength(OverTunnel(TurnOn(t, {"gtpu_enabled"})), 96)
    BY DEF gtpuSelectionPatch
  <2> HIDE DEF t, y
  <2>3. /\ y.gre = t.gre /\ y.vary = (t.vary \ UdpModes) \ L4PortModes
        /\ y.on = ((t.on \cup {"gtpu_enabled"}) \ {"udp_length_override", "udp_checksum_override"}) \cup PortFlags
    BY <1>2, <2>1, <2>2 DEF TunnelFlags
  <2>4. Tidy(y)
    BY <2>1, <2>3 DEF Tidy, IsOn, Varies, L4PortModes, PortFlags
  <2> QED BY <2>4 DEF y
<1> QED BY <1>1, <1>4, <1>5

LEMMA TidyLengths ==
  ASSUME NEW s, Fit(s), Tidy(s), NEW a \in FrameLengthType \cup FrameLengthValue, FrameLengthEnabled(s, a)
  PROVE  Tidy(FrameLengthPatch(s, a))
<1>0. s \in Stream
  BY DEF Fit
<1>1. \A t : t.on = s.on /\ t.vary = s.vary /\ t.gre = s.gre => Tidy(t)
  BY DEF Tidy, IsOn, Varies, Tunnel
<1>2. a.kind \in {"length", "min", "max", "type"}
  BY Sent DEF FrameLengthType, FrameLengthValue
<1>3. CASE a.kind = "type"
  <2> DEFINE n == Longer(s.max, s.min + 5)
             t == [s EXCEPT !.flen = a.to, !.max = n, !.length = n]
  <2>1. FrameLengthPatch(s, a) \in {FixLength(s), t, s}
    BY <1>3 DEF FrameLengthPatch, frameLengthTypePatch
  <2>2. t.on = s.on /\ t.vary = s.vary /\ t.gre = s.gre
    BY <1>0 DEF Stream
  <2> HIDE DEF t
  <2>3. FixLength(s).on = s.on /\ FixLength(s).vary = s.vary /\ FixLength(s).gre = s.gre
    BY <1>0, Written DEF Alike
  <2> QED BY <1>1, <2>1, <2>2, <2>3
<1>4. CASE a.kind # "type"
  <2>1. FrameLengthPatch(s, a) \in {[s EXCEPT !.length = a.to], [s EXCEPT !.min = a.to], [s EXCEPT !.max = a.to, !.length = a.to]}
    BY <1>2, <1>4 DEF FrameLengthPatch
  <2>2. \A t \in {[s EXCEPT !.length = a.to], [s EXCEPT !.min = a.to], [s EXCEPT !.max = a.to, !.length = a.to]} :
          t.on = s.on /\ t.vary = s.vary /\ t.gre = s.gre
    BY <1>0 DEF Stream
  <2> QED BY <1>1, <2>1, <2>2
<1> QED BY <1>3, <1>4
\* A patch that keeps a stream tidy, with the bytes of an imported packet dropped or kept.
LEMMA ChangeTidy ==
  ASSUME NEW t \in Stream, Tidy(t), NEW a, handleStreamChange(t, a)
  PROVE  Tidy(stream')
<1>1. stream' \in {t, TurnOff(t, {"bytes"})}
  BY DEF handleStreamChange
<1>2. {"bytes"} \cap PortFlags = {}
  BY DEF PortFlags
<1> QED BY <1>1, <1>2, NeatSwitches, NeatTidy

LEMMA ChangeNeat ==
  ASSUME NEW s, Tidy(s), NEW t, Neat(s, t), NEW a, handleStreamChange(t, a)
  PROVE  Tidy(stream')
BY NeatType, NeatTidy, ChangeTidy

LEMMA LinkEditsTidy ==
  ASSUME Fit(stream), Tidy(stream), LinkEdits \/ NetworkEdits
  PROVE  Tidy(stream')
<1>0. stream \in Stream
  BY DEF Fit
<1>1. \A a : Quiet(a) => /\ Neat(stream, LinkPatch(stream, a)) /\ Neat(stream, Ipv4Patch(stream, a))
                         /\ Neat(stream, Ipv6Patch(stream, a)) /\ Neat(stream, VlanPatch(stream, a))
                         /\ Neat(stream, MplsPatch(stream, a))
  BY <1>0, PlainNeat, NeatPatches DEF LinkPatch, Ipv4Patch, Ipv6Patch
<1>2. CASE VlanSelect \/ MplsSelect
  BY <1>1, <1>2, QuietActions, ChangeNeat DEF VlanSelect, MplsSelect, Select
<1>3. CASE EtherEdit \/ VlanEdit \/ VlanInnerEdit \/ MplsEdit \/ MplsSecondEdit \/ MplsThirdEdit
  BY <1>1, <1>3, QuietActions, ChangeNeat
     DEF EtherEdit, VlanEdit, VlanInnerEdit, MplsEdit, MplsSecondEdit, MplsThirdEdit, Edit
<1>4. CASE NetworkEdits
  BY <1>1, <1>4, QuietActions, ChangeNeat
     DEF NetworkEdits, ArpEdit, Ipv4AddressEdit, Ipv4ScalarEdit, Ipv6AddressEdit, Ipv6ScalarEdit, Edit
<1> QED BY <1>2, <1>3, <1>4 DEF LinkEdits

\* What a patch yields is a stream.
LEMMA PatchTypes ==
  ASSUME NEW s, Fit(s), NEW a
  PROVE  /\ Quiet(a) \/ a \in UdpActions => UdpPatch(s, a) \in Stream
         /\ a \in L4PortActions /\ a.field \in L4PortPanel(s) => L4PortPatch(s, a) \in Stream
         /\ a \in DnsQueryActions \cup DnsAnswerActions => DnsPatch(s, a) \in Stream
         /\ a \in DhcpBootpActions \cup DhcpAddressActions \cup DhcpOptionActions => DhcpPatch(s, a) \in Stream
<1>0. s \in Stream
  BY DEF Fit
<1>1. a \in UdpActions \cup DnsQueryActions \cup DnsAnswerActions \cup DhcpBootpActions \cup DhcpAddressActions
             \cup DhcpOptionActions => Harmless(a)
  BY OtherActions
<1>2. Quiet(a) => UdpPatch(s, a) \in Stream
  BY <1>0, NeatPatches, NeatType
<1>3. Harmless(a) => UdpPatch(s, a) \in Stream /\ DnsPatch(s, a) \in Stream /\ DhcpPatch(s, a) \in Stream
  BY <1>0, ApplicationPatches, CalmType
<1>4. a \in L4PortActions /\ a.field \in L4PortPanel(s) => L4PortPatch(s, a) \in Stream
  BY PortPatch DEF Fit
<1> QED BY <1>1, <1>2, <1>3, <1>4

LEMMA TransportEditsTidy ==
  ASSUME Fit(stream), Tidy(stream), TransportEdits
  PROVE  Tidy(stream')
<1>0. stream \in Stream
  BY DEF Fit
<1>1. \A a : Quiet(a) => /\ Neat(stream, SctpPatch(stream, a)) /\ Neat(stream, IcmpPatch(stream, a))
                         /\ Neat(stream, Icmpv6Patch(stream, a)) /\ Neat(stream, TcpCorePatch(stream, a))
                         /\ Neat(stream, tcpOptionSelectionPatch(stream, a))
  BY <1>0, PlainNeat, NeatPatches DEF TcpCorePatch, tcpOptionSelectionPatch
<1>2. CASE L4PortEdit \/ UdpEdit
  <2>1. CASE L4PortEdit
    BY <1>0, <2>1, TidyPorts, PatchTypes, ChangeTidy DEF L4PortEdit, Edit
  <2>2. CASE UdpEdit
    BY <1>0, <2>2, TidyPorts, PatchTypes, ChangeTidy DEF UdpEdit, Edit
  <2> QED BY <1>2, <2>1, <2>2
<1>3. CASE DnsQueryEdit \/ DnsAnswerEdit
  <2>1. PICK a \in DnsQueryActions \cup DnsAnswerActions : handleStreamChange(DnsPatch(stream, a), a)
    BY <1>3 DEF DnsQueryEdit, DnsAnswerEdit, Edit
  <2>2. Quiet(a) \/ a \in Switch({"dns_enabled"})
    BY <2>1, QuietActions
  <2>3. Tidy(DnsPatch(stream, a)) /\ DnsPatch(stream, a) \in Stream
    BY <1>0, <2>1, <2>2, TidyMessages, PatchTypes
  <2> QED BY <2>1, <2>3, ChangeTidy
<1>4. CASE DhcpBootpEdit \/ DhcpAddressEdit \/ DhcpOptionEdit
  <2>1. PICK a \in DhcpBootpActions \cup DhcpAddressActions \cup DhcpOptionActions :
          /\ handleStreamChange(DhcpPatch(stream, a), a)
          /\ a \in DhcpBootpActions => a.field \in DhcpBootpPanel(stream)
    <3>1. CASE DhcpBootpEdit
      BY <3>1 DEF DhcpBootpEdit, Edit
    <3>2. CASE DhcpAddressEdit
      <4>1. \A a \in DhcpAddressActions : a \notin DhcpBootpActions
        <5>1. \A a \in DhcpAddressActions : a.field \in DhcpAddressModes
          BY Sent DEF DhcpAddressActions, DhcpAddressModes
        <5>2. \A a \in DhcpBootpActions : a.field \in DhcpBootpModes \cup {"dhcp_enabled"}
          BY Sent DEF DhcpBootpActions, DhcpBootpModes
        <5> QED BY <5>1, <5>2 DEF DhcpAddressModes, DhcpBootpModes
      <4> QED BY <3>2, <4>1 DEF DhcpAddressEdit, Edit
    <3>3. CASE DhcpOptionEdit
      <4>1. \A a \in DhcpOptionActions : a \notin DhcpBootpActions
        <5>1. \A a \in DhcpOptionActions : a.field \in DhcpOptionModes \cup {"dhcp_option_values"}
          BY Sent DEF DhcpOptionActions
        <5>2. \A a \in DhcpBootpActions : a.field \in DhcpBootpModes \cup {"dhcp_enabled"}
          BY Sent DEF DhcpBootpActions, DhcpBootpModes
        <5> QED BY <5>1, <5>2 DEF DhcpOptionModes, DhcpTimerModes, DhcpOptionAddressModes, DhcpBootpModes
      <4> QED BY <3>3, <4>1 DEF DhcpOptionEdit, Edit
    <3> QED BY <1>4, <3>1, <3>2, <3>3
  <2>2. DhcpPatch(stream, a) \in Stream
    BY <2>1, PatchTypes
  <2>3. CASE a \in Switch({"dhcp_enabled"})
    <3>1. a.field = "dhcp_enabled"
      BY <2>3, Sent
    <3>2. ~Tunnel(stream) \/ a.to = "off"
      <4>1. a \in DhcpBootpActions
        BY <2>3 DEF DhcpBootpActions
      <4>2. a.field \in DhcpBootpPanel(stream)
        BY <2>1, <4>1
      <4>3. "dhcp_enabled" \notin DhcpBootpModes
        BY DEF DhcpBootpModes
      <4> QED BY <3>1, <4>2, <4>3 DEF DhcpBootpPanel, When, Behind
    <3> QED BY <1>0, <2>1, <2>2, <2>3, <3>2, TidyMessages, ChangeTidy
  <2>4. CASE a \notin Switch({"dhcp_enabled"})
    <3>1. Quiet(a)
      BY <2>1, <2>4, QuietActions
    <3>2. a.field # "dhcp_enabled"
      <4>1. /\ a \in DhcpBootpActions => a.field \in DhcpBootpModes
            /\ a \in DhcpAddressActions => a.field \in DhcpAddressModes
            /\ a \in DhcpOptionActions => a.field \in DhcpOptionModes \cup {"dhcp_option_values"}
        BY <2>4, Sent DEF DhcpBootpActions, DhcpBootpModes, DhcpAddressActions, DhcpAddressModes, DhcpOptionActions
      <4> QED BY <2>1, <4>1 DEF DhcpBootpModes, DhcpAddressModes, DhcpOptionModes, DhcpTimerModes, DhcpOptionAddressModes
    <3> QED BY <1>0, <2>1, <2>2, <3>1, <3>2, TidyMessages, ChangeTidy
  <2> QED BY <2>3, <2>4
<1>5. CASE SctpEdit \/ TcpCoreEdit \/ TcpOptionEdit \/ IcmpEchoEdit \/ Icmpv6Edit
  BY <1>1, <1>5, QuietActions, ChangeNeat DEF SctpEdit, TcpCoreEdit, TcpOptionEdit, IcmpEchoEdit, Icmpv6Edit, Edit
<1>6. CASE IcmpTypeEdit
  <2>1. PICK a \in IcmpTypeActions : handleStreamChange(IcmpPatch(stream, a), a)
    BY <1>6 DEF IcmpTypeEdit, Edit
  <2>2. Chosen(a, "type", "icmp_type_value", IcmpTypes) => IcmpPatch(stream, a) = icmpTypePatch(stream, a.to) /\ a.to \in IcmpTypes
    BY DEF IcmpPatch, Chosen
  <2>3. Neat(stream, IcmpPatch(stream, a))
    BY <1>0, <1>1, <2>1, <2>2, QuietActions, NeatChoices
  <2> QED BY <2>1, <2>3, ChangeNeat
<1> QED BY <1>2, <1>3, <1>4, <1>5, <1>6 DEF TransportEdits

LEMMA TunnelEditsTidy ==
  ASSUME Fit(stream), Tidy(stream), TunnelEdits
  PROVE  Tidy(stream')
<1>0. stream \in Stream
  BY DEF Fit
<1>1. CASE VxlanVniEdit \/ VxlanInnerEdit \/ VxlanPortEdit
  <2>1. PICK a \in VxlanVniActions \cup VxlanInnerActions \cup VxlanPortActions :
          handleStreamChange(VxlanPatch(stream, a), a)
    BY <1>1 DEF VxlanVniEdit, VxlanInnerEdit, VxlanPortEdit, Edit
  <2>2. Chosen(a, "version", "vxlan_inner_ip_version", Versions) =>
          VxlanPatch(stream, a) = vxlanInnerIpVersionPatch(stream, a.to) /\ a.to \in Versions
    BY DEF VxlanPatch, Chosen
  <2>3. Neat(stream, VxlanPatch(stream, a))
    BY <1>0, <2>1, <2>2, QuietTunnelActions, NeatPatches, NeatChoices
  <2> QED BY <2>1, <2>3, ChangeNeat
<1>2. CASE GtpuTeidEdit \/ GtpuOptionEdit \/ GtpuInnerEdit \/ GtpuPortEdit
  <2>1. PICK a \in GtpuTeidActions \cup GtpuOptionActions \cup GtpuInnerActions \cup GtpuPortActions :
          handleStreamChange(GtpuPatch(stream, a), a)
    BY <1>2 DEF GtpuTeidEdit, GtpuOptionEdit, GtpuInnerEdit, GtpuPortEdit, Edit
  <2>2. Chosen(a, "version", "gtpu_inner_ip_version", Versions) =>
          GtpuPatch(stream, a) = gtpuInnerIpVersionPatch(stream, a.to) /\ a.to \in Versions
    BY DEF GtpuPatch, Chosen
  <2>3. Neat(stream, GtpuPatch(stream, a))
    BY <1>0, <2>1, <2>2, QuietTunnelActions, NeatPatches, NeatChoices
  <2> QED BY <2>1, <2>3, ChangeNeat
<1>3. CASE GreOptionEdit \/ GreInnerEdit \/ GrePortEdit
  <2>1. PICK a \in GreOptionActions \cup GreInnerActions \cup GrePortActions :
          /\ handleStreamChange(GrePatch(stream, a), a)
          /\ a.field \in GreOptionPanel(stream) \cup GreInner4Panel(stream) \cup GreInner6Panel(stream) \cup GrePortPanel(stream)
    BY <1>3 DEF GreOptionEdit, GreInnerEdit, GrePortEdit, Edit
  <2>2. CASE Chosen(a, "version", "gre_inner_ip_version", Versions)
    <3>1. GrePatch(stream, a) = greInnerIpVersionPatch(stream, a.to) /\ a.to \in Versions
      BY <2>2 DEF GrePatch, Chosen
    <3> QED BY <1>0, <2>1, <3>1, NeatChoices, ChangeNeat
  <2>3. CASE Quiet(a) \/ a \in Mode(GreInner6Modes)
    \* The inner IPv6 addresses are on screen only for a GRE header that carries IPv6.
    <3>1. a.field \in GreInner6Modes => stream.gre = "IPv6"
      <4>1. GreInner6Modes \cap (GreOptionModes \cup GreInner4Modes \cup GrePortModes \cup {"gre_inner_ip_version"}) = {}
        BY DEF GreInner6Modes, GreOptionModes, GreInner4Modes, GrePortModes
      <4>2. GreInner6Modes \cap GreFlags = {}
        BY DEF GreInner6Modes, GreFlags
      <4> QED BY <2>1, <4>1, <4>2 DEF GreOptionPanel, GreInner4Panel, GreInner6Panel, GrePortPanel, When
    <3>2. Neat(stream, GrePatch(stream, a))
      BY <1>0, <2>3, <3>1, NeatGre
    <3> QED BY <2>1, <3>2, ChangeNeat
  <2> QED BY <2>1, <2>2, <2>3, QuietTunnelActions
<1> QED BY <1>1, <1>2, <1>3 DEF TunnelEdits

LEMMA SelectionEditsTidy ==
  ASSUME Fit(stream), Tidy(stream), ProtocolEdit \/ PacketTypeEdit \/ FrameLengthTypeEdit \/ FrameLengthEdit \/ PayloadSelect
  PROVE  Tidy(stream')
<1>0. stream \in Stream /\ stream.l3 \in Network /\ stream.l4 \in Transport
  BY DEF Fit, Stream
<1>1. CASE ProtocolEdit
  <2>1. PICK a \in TunnelSelection \cup L3Selection \cup L4Selection : handleStreamChange(ProtocolPatch(stream, a), a)
    BY <1>1 DEF ProtocolEdit, Select
  <2>2. ProtocolPatch(stream, a) \in Stream
    BY ProtocolPatches DEF Fit
  <2>3. Tidy(ProtocolPatch(stream, a))
    <3>1. CASE a \in TunnelSelection
      <4>1. a.kind = "tunnel" /\ a.to \in {"none", "vxlan", "gtpu"}
        BY <3>1, Sent DEF TunnelSelection
      <4> QED BY <1>0, <4>1, TidyTunnels DEF ProtocolPatch, TunnelPatch
    <3>2. CASE a \in L3Selection
      <4>1. a.kind = "l3" /\ a.to \in Network
        BY <3>2, Sent DEF L3Selection
      <4>2. ProtocolPatch(stream, a) = packetTypePatch(stream, a.to, stream.l4)
        BY <4>1 DEF ProtocolPatch
      <4> QED BY <1>0, <4>1, <4>2, NeatPacketType, NeatTidy
    <3>3. CASE a \in L4Selection
      <4>1. a.kind = "l4" /\ a.to \in Transport
        BY <3>3, Sent DEF L4Selection
      <4>2. ProtocolPatch(stream, a) = packetTypePatch(stream, stream.l3, a.to)
        BY <4>1 DEF ProtocolPatch
      <4> QED BY <1>0, <4>1, <4>2, NeatPacketType, NeatTidy
    <3> QED BY <3>1, <3>2, <3>3
  <2> QED BY <2>1, <2>2, <2>3, ChangeTidy
<1>2. CASE PacketTypeEdit
  <2>1. PICK l3 \in Network, l4 \in Transport : stream' = TurnOff(packetTypePatch(stream, l3, l4), {"bytes"})
    BY <1>2 DEF PacketTypeEdit
  <2>2. Neat(stream, packetTypePatch(stream, l3, l4))
    BY <1>0, NeatPacketType
  <2>3. {"bytes"} \cap PortFlags = {}
    BY DEF PortFlags
  <2>4. Neat(stream, stream')
    BY <2>1, <2>2, <2>3, NeatSteps
  <2> QED BY <2>4, NeatTidy
<1>3. CASE FrameLengthTypeEdit \/ FrameLengthEdit
  <2>1. PICK a \in FrameLengthType \cup FrameLengthValue :
          FrameLengthEnabled(stream, a) /\ handleStreamChange(FrameLengthPatch(stream, a), a)
    BY <1>3 DEF FrameLengthTypeEdit, FrameLengthEdit, Select
  <2>2. FrameLengthPatch(stream, a) \in Stream
    BY <2>1, LengthPatch DEF Fit
  <2> QED BY <2>1, <2>2, TidyLengths, ChangeTidy
<1>4. CASE PayloadSelect
  <2>1. \A a : Quiet(a) => Neat(stream, PayloadPatch(stream, a))
    BY <1>0, PlainNeat DEF PayloadPatch
  <2> QED BY <1>4, <2>1, QuietActions, ChangeNeat DEF PayloadSelect, Select
<1> QED BY <1>1, <1>2, <1>3, <1>4

LEMMA InitTidy ==
  ASSUME Init
  PROVE  Tidy(stream)
<1>1. DefaultStream.vary = {} /\ ImportedStream.vary = {}
  BY DEF DefaultStream, ImportedStream, TurnOn
<1>2. DefaultStream.on = Icmpv6Flags \cup {"payload_enabled", "sctp_zero"}
  BY DEF DefaultStream
<1>3. ImportedStream.on = DefaultStream.on \cup {"bytes", "l4_src_port_override", "l4_dst_port_override"}
  BY <1>2 DEF ImportedStream, TurnOn, DefaultStream
<1>4. \A s \in {DefaultStream, ImportedStream} : "dhcp_enabled" \notin s.on /\ s.vary = {}
  BY <1>1, <1>2, <1>3 DEF Icmpv6Flags
<1> QED BY <1>4 DEF Init, Tidy, IsOn, Varies

-----------------------------------------------------------------------------
(* What the server sends of a stream *)

\* The fields by the layer they belong to.
LinkModes == EtherModes \cup VlanModes \cup Vlan2Modes \cup MplsModes \cup Mpls2Modes \cup Mpls3Modes
NetworkModes == ArpModes \cup Ipv4AddressModes \cup Ipv4ScalarModes \cup Ipv6AddressModes \cup Ipv6ScalarModes
TunnelModes == VxlanModes \cup GtpuModes \cup GreModes
TransportModes ==
  L4PortModes \cup UdpModes \cup DnsModes \cup DhcpModes \cup SctpModes \cup TcpCoreModes \cup TcpOptionModes \cup IcmpModes

Fields(s) == LinkFields(s) \cup NetworkFields(s) \cup TunnelFields(s) \cup TransportFields(s)

LEMMA Layers ==
  /\ LinkModes \cap (NetworkModes \cup TunnelModes \cup TransportModes) = {}
  /\ NetworkModes \cap (TunnelModes \cup TransportModes) = {}
  /\ TunnelModes \cap TransportModes = {}
<1>1. /\ LinkModes \cap NetworkModes = {} /\ LinkModes \cap TunnelModes = {}
  BY DEF LinkModes, EtherModes, VlanModes, Vlan2Modes, MplsModes, Mpls2Modes, Mpls3Modes,
         NetworkModes, ArpModes, Ipv4AddressModes, Ipv4ScalarModes, Ipv6AddressModes, Ipv6ScalarModes,
         TunnelModes, VxlanModes, VxlanVniModes, VxlanInner4Modes, VxlanInner6Modes, VxlanPortModes, GtpuModes, GtpuTeidModes,
         GtpuOptionModes, GtpuInnerModes, GtpuInner4Modes, GtpuInner6Modes, GtpuPortModes, GreModes, GreOptionModes,
         GreInnerModes, GreInner4Modes, GreInner6Modes, GrePortModes
<1>2. LinkModes \cap TransportModes = {}
  BY DEF LinkModes, EtherModes, VlanModes, Vlan2Modes, MplsModes, Mpls2Modes, Mpls3Modes,
         TransportModes, L4PortModes, UdpModes, DnsModes, DnsQueryModes, DnsAnswerModes, DhcpModes, DhcpBootpModes,
         DhcpAddressModes, DhcpOptionModes, DhcpTimerModes, DhcpOptionAddressModes, SctpModes, TcpCoreModes,
         TcpOptionModes, IcmpModes
<1>3. NetworkModes \cap TunnelModes = {}
  BY DEF NetworkModes, ArpModes, Ipv4AddressModes, Ipv4ScalarModes, Ipv6AddressModes, Ipv6ScalarModes,
         TunnelModes, VxlanModes, VxlanVniModes, VxlanInner4Modes, VxlanInner6Modes, VxlanPortModes, GtpuModes, GtpuTeidModes,
         GtpuOptionModes, GtpuInnerModes, GtpuInner4Modes, GtpuInner6Modes, GtpuPortModes, GreModes, GreOptionModes,
         GreInnerModes, GreInner4Modes, GreInner6Modes, GrePortModes
<1>4. NetworkModes \cap TransportModes = {}
  BY DEF NetworkModes, ArpModes, Ipv4AddressModes, Ipv4ScalarModes, Ipv6AddressModes, Ipv6ScalarModes,
         TransportModes, L4PortModes, UdpModes, DnsModes, DnsQueryModes, DnsAnswerModes, DhcpModes, DhcpBootpModes,
         DhcpAddressModes, DhcpOptionModes, DhcpTimerModes, DhcpOptionAddressModes, SctpModes, TcpCoreModes,
         TcpOptionModes, IcmpModes
<1>5. TunnelModes \cap TransportModes = {}
  BY DEF TunnelModes, VxlanModes, VxlanVniModes, VxlanInner4Modes, VxlanInner6Modes, VxlanPortModes, GtpuModes, GtpuTeidModes,
         GtpuOptionModes, GtpuInnerModes, GtpuInner4Modes, GtpuInner6Modes, GtpuPortModes, GreModes, GreOptionModes,
         GreInnerModes, GreInner4Modes, GreInner6Modes, GrePortModes,
         TransportModes, L4PortModes, UdpModes, DnsModes, DnsQueryModes, DnsAnswerModes, DhcpModes, DhcpBootpModes,
         DhcpAddressModes, DhcpOptionModes, DhcpTimerModes, DhcpOptionAddressModes, SctpModes, TcpCoreModes,
         TcpOptionModes, IcmpModes
<1> QED BY <1>1, <1>2, <1>3, <1>4, <1>5

LEMMA LayerFields ==
  ASSUME NEW s \in Stream
  PROVE  /\ LinkFields(s) \subseteq LinkModes /\ NetworkFields(s) \subseteq NetworkModes
         /\ TunnelFields(s) \subseteq TunnelModes /\ TransportFields(s) \subseteq TransportModes
<1>1. LinkFields(s) \subseteq LinkModes
  BY DEF LinkFields, LinkModes, Applies
<1>2. NetworkFields(s) \subseteq NetworkModes
  BY DEF NetworkFields, NetworkModes, Stream, Network
<1>3. TunnelFields(s) \subseteq TunnelModes
  <2>1. {"gtpu_sequence", "gtpu_npdu", "gtpu_extension_udp_port"} \subseteq TunnelModes
    BY DEF TunnelModes, GtpuModes, GtpuOptionModes
  <2>2. {"gre_key", "gre_sequence"} \subseteq TunnelModes
    BY DEF TunnelModes, GreModes, GreOptionModes
  <2>3. /\ VxlanVniModes \cup VxlanPortModes \cup VxlanInner4Modes \cup VxlanInner6Modes \subseteq TunnelModes
        /\ GtpuTeidModes \cup GtpuPortModes \cup GtpuInner4Modes \cup GtpuInner6Modes \subseteq TunnelModes
        /\ GrePortModes \cup GreInner4Modes \cup GreInner6Modes \subseteq TunnelModes
    BY DEF TunnelModes, VxlanModes, GtpuModes, GtpuInnerModes, GreModes, GreInnerModes
  <2> QED BY <2>1, <2>2, <2>3 DEF TunnelFields, Applies, Given, ByVersion
<1>4. TransportFields(s) \subseteq TransportModes
  <2>1. {"l4_src_port", "l4_dst_port", "udp_length", "udp_checksum", "tcp_checksum"} \subseteq TransportModes
    BY DEF TransportModes, L4PortModes, UdpModes, TcpCoreModes
  <2>2. TcpOptionFields(s) \subseteq TransportModes
    <3>1. TcpOptionFields(s) \subseteq TcpOptionModes
      BY DEF TcpOptionFields, TcpOptionModes, Applies
    <3> QED BY <3>1 DEF TransportModes
  <2>3. DnsQueryModes \cup DnsAnswerModes \cup DhcpBootpModes \cup DhcpAddressModes \cup DhcpOptionModes
          \cup TcpCoreModes \cup SctpModes \cup IcmpModes \subseteq TransportModes
    BY DEF TransportModes, DnsModes, DhcpModes
  <2> QED BY <2>1, <2>2, <2>3 DEF TransportFields, Applies, Given
<1> QED BY <1>1, <1>2, <1>3, <1>4

\* What of a layer is sent is in the fields of that layer.
LEMMA InLayer ==
  ASSUME NEW s \in Stream, NEW X
  PROVE  /\ X \subseteq LinkModes => X \cap Fields(s) = X \cap LinkFields(s)
         /\ X \subseteq NetworkModes => X \cap Fields(s) = X \cap NetworkFields(s)
         /\ X \subseteq TunnelModes => X \cap Fields(s) = X \cap TunnelFields(s)
         /\ X \subseteq TransportModes => X \cap Fields(s) = X \cap TransportFields(s)
<1> DEFINE L == LinkFields(s)
           N == NetworkFields(s)
           T == TunnelFields(s)
           R == TransportFields(s)
<1>1. L \subseteq LinkModes /\ N \subseteq NetworkModes /\ T \subseteq TunnelModes /\ R \subseteq TransportModes
  BY LayerFields
<1>2. Fields(s) = L \cup N \cup T \cup R
  BY DEF Fields
<1> HIDE DEF L, N, T, R
<1>3. X \subseteq LinkModes => X \cap Fields(s) = X \cap L
  BY <1>1, <1>2, Layers
<1>4. X \subseteq NetworkModes => X \cap Fields(s) = X \cap N
  BY <1>1, <1>2, Layers
<1>5. X \subseteq TunnelModes => X \cap Fields(s) = X \cap T
  BY <1>1, <1>2, Layers
<1>6. X \subseteq TransportModes => X \cap Fields(s) = X \cap R
  BY <1>1, <1>2, Layers
<1> QED BY <1>3, <1>4, <1>5, <1>6 DEF L, N, T, R

\* Fields the server may fix: they do not vary, are not sent, or are overruled.
Free(s, X) == X \cap s.vary \cap Fields(s) \subseteq Overruled(s)

LEMMA FreeSets ==
  ASSUME NEW s, NEW X, Free(s, X)
  PROVE  /\ \A Y : Y \subseteq X => Free(s, Y)
         /\ \A Y : Free(s, Y) => Free(s, X \cup Y)
BY DEF Free

LEMMA FreeLink ==
  ASSUME NEW s \in Stream
  PROVE  /\ ~IsOn(s, "vlan_enabled") => Free(s, VlanModes \cup Vlan2Modes)
         /\ ~(IsOn(s, "vlan_enabled") /\ IsOn(s, "vlan2_enabled")) => Free(s, Vlan2Modes)
         /\ ~IsOn(s, "mpls_enabled") => Free(s, MplsModes \cup Mpls2Modes \cup Mpls3Modes)
         /\ ~(IsOn(s, "mpls_enabled") /\ IsOn(s, "mpls_label2_enabled")) => Free(s, Mpls2Modes \cup Mpls3Modes)
         /\ ~(IsOn(s, "mpls_enabled") /\ IsOn(s, "mpls_label2_enabled") /\ IsOn(s, "mpls_label3_enabled")) =>
              Free(s, Mpls3Modes)
<1>1. \A X : X \subseteq LinkModes /\ X \cap LinkFields(s) = {} => Free(s, X)
  BY InLayer DEF Free
<1>2. /\ VlanModes \cup Vlan2Modes \subseteq LinkModes
      /\ MplsModes \cup Mpls2Modes \cup Mpls3Modes \subseteq LinkModes
  BY DEF LinkModes
<1> USE DEF LinkFields, Applies, EtherModes, VlanModes, Vlan2Modes, MplsModes, Mpls2Modes, Mpls3Modes
<1>3. ~IsOn(s, "vlan_enabled") => (VlanModes \cup Vlan2Modes) \cap LinkFields(s) = {}
  OBVIOUS
<1>4. ~(IsOn(s, "vlan_enabled") /\ IsOn(s, "vlan2_enabled")) => Vlan2Modes \cap LinkFields(s) = {}
  OBVIOUS
<1>5. ~IsOn(s, "mpls_enabled") => (MplsModes \cup Mpls2Modes \cup Mpls3Modes) \cap LinkFields(s) = {}
  OBVIOUS
<1>6. ~(IsOn(s, "mpls_enabled") /\ IsOn(s, "mpls_label2_enabled")) => (Mpls2Modes \cup Mpls3Modes) \cap LinkFields(s) = {}
  OBVIOUS
<1>7. ~(IsOn(s, "mpls_enabled") /\ IsOn(s, "mpls_label2_enabled") /\ IsOn(s, "mpls_label3_enabled")) =>
        Mpls3Modes \cap LinkFields(s) = {}
  OBVIOUS
<1> QED BY ONLY <1>1, <1>2, <1>3, <1>4, <1>5, <1>6, <1>7

LEMMA FreeNetwork ==
  ASSUME NEW s, Fit(s), validateWorkbenchStream(s)
  PROVE  /\ Icmpv6(s) => Free(s, Ipv6AddressModes)
         /\ Icmpv6Control(s) => Free(s, {"ipv6_hop_limit"})
<1>1. Icmpv6(s) => Ipv6AddressModes \cap s.vary = {}
  BY DEF validateWorkbenchStream, validIcmp, Varies
<1>2. Icmpv6Control(s) => {"ipv6_hop_limit"} \subseteq Overruled(s)
  BY DEF Overruled, When
<1> QED BY <1>1, <1>2 DEF Free

LEMMA FreeTunnel ==
  ASSUME NEW s, Fit(s)
  PROVE  /\ ~IsOn(s, "vxlan_enabled") => Free(s, VxlanModes)
         /\ IsOn(s, "vxlan_enabled") => Free(s, OtherVersion(s.vxlan, VxlanInner4Modes, VxlanInner6Modes))
         /\ ~IsOn(s, "gtpu_enabled") => Free(s, GtpuModes)
         /\ IsOn(s, "gtpu_enabled") => Free(s, OtherVersion(s.gtpu, GtpuInner4Modes, GtpuInner6Modes))
         /\ ~IsOn(s, "gtpu_sequence_enabled") => Free(s, {"gtpu_sequence"})
         /\ ~IsOn(s, "gtpu_npdu_enabled") => Free(s, {"gtpu_npdu"})
         /\ ~IsOn(s, "gtpu_extension_enabled") => Free(s, {"gtpu_extension_udp_port"})
         /\ s.l4 # "GRE" => Free(s, GreModes)
         /\ Free(s, OtherVersion(GreInnerVersion(s), GreInner4Modes, GreInner6Modes))
<1>0. s \in Stream
  BY DEF Fit
<1>1. \A X : X \subseteq TunnelModes /\ X \cap TunnelFields(s) = {} => Free(s, X)
  BY <1>0, InLayer DEF Free
<1> DEFINE V == Applies(s, "vxlan_enabled", VxlanVniModes \cup VxlanPortModes \cup ByVersion(s.vxlan, VxlanInner4Modes, VxlanInner6Modes))
           G == Given(HasGtpu(s),
                  GtpuTeidModes \cup GtpuPortModes \cup ByVersion(s.gtpu, GtpuInner4Modes, GtpuInner6Modes)
                    \cup Applies(s, "gtpu_sequence_enabled", {"gtpu_sequence"})
                    \cup Applies(s, "gtpu_npdu_enabled", {"gtpu_npdu"})
                    \cup Applies(s, "gtpu_extension_enabled", {"gtpu_extension_udp_port"}))
           R == Given(s.l4 = "GRE",
                  GrePortModes \cup ByVersion(GreInnerVersion(s), GreInner4Modes, GreInner6Modes)
                    \cup Applies(s, "gre_key_present", {"gre_key"})
                    \cup Applies(s, "gre_sequence_present", {"gre_sequence"}))
<1>2. TunnelFields(s) = V \cup G \cup R
  BY DEF TunnelFields
<1>3. V \subseteq VxlanModes
  BY DEF Applies, ByVersion, VxlanModes
<1>4. G \subseteq GtpuModes
  BY DEF Applies, Given, ByVersion, GtpuModes, GtpuInnerModes, GtpuOptionModes
<1>5. R \subseteq GreModes
  BY DEF Applies, Given, ByVersion, GreModes, GreInnerModes, GreOptionModes
<1>6. VxlanModes \cap (GtpuModes \cup GreModes) = {} /\ GtpuModes \cap GreModes = {}
  BY DEF VxlanModes, VxlanVniModes, VxlanInner4Modes, VxlanInner6Modes, VxlanPortModes, GtpuModes, GtpuTeidModes,
         GtpuOptionModes, GtpuInnerModes, GtpuInner4Modes, GtpuInner6Modes, GtpuPortModes, GreModes, GreOptionModes,
         GreInnerModes, GreInner4Modes, GreInner6Modes, GrePortModes
<1>7. \A X : /\ X \subseteq VxlanModes /\ X \cap V = {} => Free(s, X)
             /\ X \subseteq GtpuModes /\ X \cap G = {} => Free(s, X)
             /\ X \subseteq GreModes /\ X \cap R = {} => Free(s, X)
  <2> HIDE DEF V, G, R
  <2> QED BY <1>1, <1>2, <1>3, <1>4, <1>5, <1>6 DEF TunnelModes
<1>8. /\ ~IsOn(s, "vxlan_enabled") => Free(s, VxlanModes)
      /\ IsOn(s, "vxlan_enabled") => Free(s, OtherVersion(s.vxlan, VxlanInner4Modes, VxlanInner6Modes))
  <2>1. ~IsOn(s, "vxlan_enabled") => VxlanModes \cap V = {}
    BY DEF Applies
  <2>2. OtherVersion(s.vxlan, VxlanInner4Modes, VxlanInner6Modes) \cap V = {}
    BY DEF Applies, OtherVersion, ByVersion, VxlanVniModes, VxlanPortModes, VxlanInner4Modes, VxlanInner6Modes
  <2>3. OtherVersion(s.vxlan, VxlanInner4Modes, VxlanInner6Modes) \subseteq VxlanModes
    BY DEF OtherVersion, VxlanModes
  <2> HIDE DEF V
  <2> QED BY <1>7, <2>1, <2>2, <2>3
<1>9. /\ ~IsOn(s, "gtpu_enabled") => Free(s, GtpuModes)
      /\ IsOn(s, "gtpu_enabled") => Free(s, OtherVersion(s.gtpu, GtpuInner4Modes, GtpuInner6Modes))
  <2>1. ~IsOn(s, "gtpu_enabled") => GtpuModes \cap G = {}
    BY DEF Given, HasGtpu
  <2>2. OtherVersion(s.gtpu, GtpuInner4Modes, GtpuInner6Modes) \cap G = {}
    BY DEF Given, Applies, OtherVersion, ByVersion, GtpuTeidModes, GtpuPortModes, GtpuInner4Modes, GtpuInner6Modes
  <2>3. OtherVersion(s.gtpu, GtpuInner4Modes, GtpuInner6Modes) \subseteq GtpuModes
    BY DEF OtherVersion, GtpuModes, GtpuInnerModes
  <2> HIDE DEF G
  <2> QED BY <1>7, <2>1, <2>2, <2>3
<1>10. /\ ~IsOn(s, "gtpu_sequence_enabled") => Free(s, {"gtpu_sequence"})
       /\ ~IsOn(s, "gtpu_npdu_enabled") => Free(s, {"gtpu_npdu"})
       /\ ~IsOn(s, "gtpu_extension_enabled") => Free(s, {"gtpu_extension_udp_port"})
  <2>1. /\ ~IsOn(s, "gtpu_sequence_enabled") => {"gtpu_sequence"} \cap G = {}
        /\ ~IsOn(s, "gtpu_npdu_enabled") => {"gtpu_npdu"} \cap G = {}
        /\ ~IsOn(s, "gtpu_extension_enabled") => {"gtpu_extension_udp_port"} \cap G = {}
    BY DEF Given, Applies, ByVersion, GtpuTeidModes, GtpuPortModes, GtpuInner4Modes, GtpuInner6Modes
  <2>2. {"gtpu_sequence", "gtpu_npdu", "gtpu_extension_udp_port"} \subseteq GtpuModes
    BY DEF GtpuModes, GtpuOptionModes
  <2> HIDE DEF G
  <2> QED BY <1>7, <2>1, <2>2
<1>11. /\ s.l4 # "GRE" => Free(s, GreModes)
       /\ Free(s, OtherVersion(GreInnerVersion(s), GreInner4Modes, GreInner6Modes))
  <2>1. s.l4 # "GRE" => GreModes \cap R = {}
    BY DEF Given
  <2>2. OtherVersion(GreInnerVersion(s), GreInner4Modes, GreInner6Modes) \cap R = {}
    BY DEF Given, Applies, OtherVersion, ByVersion, GrePortModes, GreInner4Modes, GreInner6Modes
  <2>3. OtherVersion(GreInnerVersion(s), GreInner4Modes, GreInner6Modes) \subseteq GreModes
    BY DEF OtherVersion, GreModes, GreInnerModes
  <2> HIDE DEF R
  <2> QED BY <1>7, <2>1, <2>2, <2>3
<1> QED BY <1>8, <1>9, <1>10, <1>11

LEMMA TransportApart ==
  /\ L4PortModes \cap (UdpModes \cup DnsModes \cup DhcpModes \cup SctpModes \cup TcpCoreModes \cup TcpOptionModes \cup IcmpModes) = {}
  /\ UdpModes \cap (DnsModes \cup DhcpModes \cup SctpModes \cup TcpCoreModes \cup TcpOptionModes \cup IcmpModes) = {}
  /\ DnsModes \cap (DhcpModes \cup SctpModes \cup TcpCoreModes \cup TcpOptionModes \cup IcmpModes) = {}
  /\ DhcpModes \cap (SctpModes \cup TcpCoreModes \cup TcpOptionModes \cup IcmpModes) = {}
  /\ SctpModes \cap (TcpCoreModes \cup TcpOptionModes \cup IcmpModes) = {}
  /\ TcpCoreModes \cap (TcpOptionModes \cup IcmpModes) = {}
  /\ TcpOptionModes \cap IcmpModes = {}
<1> USE DEF L4PortModes, UdpModes, DnsModes, DnsQueryModes, DnsAnswerModes, DhcpModes, DhcpBootpModes,
        DhcpAddressModes, DhcpOptionModes, DhcpTimerModes, DhcpOptionAddressModes, SctpModes, TcpCoreModes,
        TcpOptionModes, IcmpModes
<1>1. L4PortModes \cap (UdpModes \cup DnsModes \cup DhcpModes \cup SctpModes \cup TcpCoreModes \cup TcpOptionModes \cup IcmpModes) = {}
  OBVIOUS
<1>2. UdpModes \cap (DnsModes \cup DhcpModes \cup SctpModes \cup TcpCoreModes \cup TcpOptionModes \cup IcmpModes) = {}
  OBVIOUS
<1>3. DnsModes \cap (DhcpModes \cup SctpModes \cup TcpCoreModes \cup TcpOptionModes \cup IcmpModes) = {}
  OBVIOUS
<1>4. DhcpModes \cap (SctpModes \cup TcpCoreModes \cup TcpOptionModes \cup IcmpModes) = {}
  OBVIOUS
<1>5. SctpModes \cap (TcpCoreModes \cup TcpOptionModes \cup IcmpModes) = {}
  OBVIOUS
<1>6. TcpCoreModes \cap (TcpOptionModes \cup IcmpModes) = {} /\ TcpOptionModes \cap IcmpModes = {}
  OBVIOUS
<1> QED BY ONLY <1>1, <1>2, <1>3, <1>4, <1>5, <1>6

\* What is sent of each kind of transport field.
LEMMA TransportSent ==
  ASSUME NEW s \in Stream
  PROVE  /\ L4PortModes \cap TransportFields(s) =
              {f \in L4PortModes : HasPorts(s) /\ IsOn(s, IF f = "l4_src_port" THEN "l4_src_port_override" ELSE "l4_dst_port_override")}
         /\ UdpModes \cap TransportFields(s) =
              {f \in UdpModes : s.l4 = "UDP" /\ IsOn(s, IF f = "udp_length" THEN "udp_length_override" ELSE "udp_checksum_override")}
         /\ DnsModes \cap TransportFields(s) =
              {f \in DnsModes : HasDns(s) /\ (f \in DnsAnswerModes => IsOn(s, "dns_answer_enabled"))}
         /\ DhcpModes \cap TransportFields(s) =
              {f \in DhcpModes : HasDhcp(s) /\ (f \in DhcpOptionModes => IsOn(s, "dhcp_option_values"))}
         /\ SctpModes \cap TransportFields(s) = {f \in SctpModes : s.l4 = "SCTP"}
         /\ TcpCoreModes \cap TransportFields(s) =
              {f \in TcpCoreModes : s.l4 = "TCP" /\ (f = "tcp_checksum" => IsOn(s, "tcp_checksum_override"))}
         /\ TcpOptionModes \cap TransportFields(s) = {f \in TcpOptionFields(s) : s.l4 = "TCP"}
         /\ IcmpModes \cap TransportFields(s) = {f \in IcmpModes : Icmpv6Echo(s)}
<1> DEFINE P == Given(HasPorts(s), Applies(s, "l4_src_port_override", {"l4_src_port"})
                                     \cup Applies(s, "l4_dst_port_override", {"l4_dst_port"}))
           U == Given(s.l4 = "UDP", Applies(s, "udp_length_override", {"udp_length"})
                                      \cup Applies(s, "udp_checksum_override", {"udp_checksum"}))
           D == Given(HasDns(s), DnsQueryModes \cup Applies(s, "dns_answer_enabled", DnsAnswerModes))
           H == Given(HasDhcp(s), DhcpBootpModes \cup DhcpAddressModes \cup Applies(s, "dhcp_option_values", DhcpOptionModes))
           C == Given(s.l4 = "TCP", (TcpCoreModes \ {"tcp_checksum"}) \cup Applies(s, "tcp_checksum_override", {"tcp_checksum"}))
           O == Given(s.l4 = "TCP", TcpOptionFields(s))
           S == Given(s.l4 = "SCTP", SctpModes)
           I == Given(Icmpv6Echo(s), IcmpModes)
<1>1. TransportFields(s) = P \cup U \cup D \cup H \cup C \cup O \cup S \cup I
  BY DEF TransportFields, Given
<1>2. P = {f \in L4PortModes : HasPorts(s) /\ IsOn(s, IF f = "l4_src_port" THEN "l4_src_port_override" ELSE "l4_dst_port_override")}
  BY DEF Given, Applies, L4PortModes
<1>3. U = {f \in UdpModes : s.l4 = "UDP" /\ IsOn(s, IF f = "udp_length" THEN "udp_length_override" ELSE "udp_checksum_override")}
  BY DEF Given, Applies, UdpModes
<1>4. D = {f \in DnsModes : HasDns(s) /\ (f \in DnsAnswerModes => IsOn(s, "dns_answer_enabled"))}
  <2>1. DnsQueryModes \cap DnsAnswerModes = {}
    BY DEF DnsQueryModes, DnsAnswerModes
  <2> QED BY <2>1 DEF Given, Applies, DnsModes
<1>5. H = {f \in DhcpModes : HasDhcp(s) /\ (f \in DhcpOptionModes => IsOn(s, "dhcp_option_values"))}
  <2>1. (DhcpBootpModes \cup DhcpAddressModes) \cap DhcpOptionModes = {}
    BY DEF DhcpBootpModes, DhcpAddressModes, DhcpOptionModes, DhcpTimerModes, DhcpOptionAddressModes
  <2> QED BY <2>1 DEF Given, Applies, DhcpModes
<1>6. C = {f \in TcpCoreModes : s.l4 = "TCP" /\ (f = "tcp_checksum" => IsOn(s, "tcp_checksum_override"))}
  BY DEF Given, Applies, TcpCoreModes
<1>7. O = {f \in TcpOptionFields(s) : s.l4 = "TCP"} /\ O \subseteq TcpOptionModes
  <2>1. TcpOptionFields(s) \subseteq TcpOptionModes
    BY DEF TcpOptionFields, Applies, TcpOptionModes
  <2> QED BY <2>1 DEF Given
<1>8. S = {f \in SctpModes : s.l4 = "SCTP"} /\ I = {f \in IcmpModes : Icmpv6Echo(s)}
  BY DEF Given
<1> HIDE DEF P, U, D, H, C, O, S, I
<1>9. /\ P \subseteq L4PortModes /\ U \subseteq UdpModes /\ D \subseteq DnsModes /\ H \subseteq DhcpModes
      /\ C \subseteq TcpCoreModes /\ S \subseteq SctpModes /\ I \subseteq IcmpModes
  BY <1>2, <1>3, <1>4, <1>5, <1>6, <1>8
<1>10. L4PortModes \cap TransportFields(s) = P /\ UdpModes \cap TransportFields(s) = U
  BY <1>1, <1>7, <1>9, TransportApart
<1>11. DnsModes \cap TransportFields(s) = D /\ DhcpModes \cap TransportFields(s) = H
  BY <1>1, <1>7, <1>9, TransportApart
<1>12. SctpModes \cap TransportFields(s) = S /\ TcpCoreModes \cap TransportFields(s) = C
  BY <1>1, <1>7, <1>9, TransportApart
<1>13. TcpOptionModes \cap TransportFields(s) = O /\ IcmpModes \cap TransportFields(s) = I
  BY <1>1, <1>7, <1>9, TransportApart
<1> QED BY <1>2, <1>3, <1>4, <1>5, <1>6, <1>7, <1>8, <1>10, <1>11, <1>12, <1>13

LEMMA FreeTransport ==
  ASSUME NEW s, Fit(s), Tidy(s)
  PROVE  /\ ~HasPorts(s) \/ Tunnel(s) => Free(s, L4PortModes)
         /\ s.l4 # "UDP" \/ Tunnel(s) => Free(s, UdpModes)
         /\ s.l4 # "TCP" => Free(s, {"tcp_checksum"}) /\ Free(s, TcpOptionModes)
         /\ ~IsOn(s, "dns_enabled") => Free(s, DnsModes)
         /\ ~IsOn(s, "dns_answer_enabled") => Free(s, DnsAnswerModes)
         /\ ~IsOn(s, "dhcp_enabled") => Free(s, DhcpModes)
         /\ ~IsOn(s, "dhcp_option_values") => Free(s, DhcpOptionModes)
         /\ Message(s) => Free(s, {"udp_length"})
         /\ s.l4 # "SCTP" => Free(s, SctpModes)
         /\ ~Icmpv6Echo(s) => Free(s, IcmpModes)
         /\ ~IsOn(s, "tcp_option_window_scale_enabled") => Free(s, {"tcp_option_window_scale"})
         /\ ~IsOn(s, "tcp_option_sack_blocks_enabled") =>
              Free(s, {"tcp_option_sack_left_edge", "tcp_option_sack_right_edge"})
         /\ ~IsOn(s, "tcp_option_timestamp_enabled") =>
              Free(s, {"tcp_option_timestamp_value", "tcp_option_timestamp_echo"})
<1>0. s \in Stream
  BY DEF Fit
<1>1. \A X : X \subseteq TransportModes /\ X \cap TransportFields(s) = {} => Free(s, X)
  BY <1>0, InLayer DEF Free
<1>2. \A X : X \cap s.vary = {} => Free(s, X)
  BY DEF Free
<1>3. /\ L4PortModes \subseteq TransportModes /\ UdpModes \subseteq TransportModes /\ DnsModes \subseteq TransportModes
      /\ DhcpModes \subseteq TransportModes /\ SctpModes \subseteq TransportModes /\ TcpCoreModes \subseteq TransportModes
      /\ TcpOptionModes \subseteq TransportModes /\ IcmpModes \subseteq TransportModes
  BY DEF TransportModes
<1>4. /\ ~HasPorts(s) \/ Tunnel(s) => Free(s, L4PortModes)
      /\ s.l4 # "UDP" \/ Tunnel(s) => Free(s, UdpModes)
  <2>1. Tunnel(s) => L4PortModes \cap s.vary = {} /\ UdpModes \cap s.vary = {}
    BY DEF Fit, OneTunnel, Tidy, Varies
  <2>2. ~HasPorts(s) => L4PortModes \cap TransportFields(s) = {}
    BY <1>0, TransportSent
  <2>3. s.l4 # "UDP" => UdpModes \cap TransportFields(s) = {}
    BY <1>0, TransportSent
  <2> QED BY <1>1, <1>2, <1>3, <2>1, <2>2, <2>3
<1>5. s.l4 # "TCP" => Free(s, {"tcp_checksum"}) /\ Free(s, TcpOptionModes)
  <2>1. s.l4 # "TCP" => TcpCoreModes \cap TransportFields(s) = {} /\ TcpOptionModes \cap TransportFields(s) = {}
    BY <1>0, TransportSent
  <2>2. s.l4 # "TCP" => Free(s, TcpCoreModes) /\ Free(s, TcpOptionModes)
    BY <1>1, <1>3, <2>1
  <2>3. {"tcp_checksum"} \subseteq TcpCoreModes
    BY DEF TcpCoreModes
  <2> QED BY <2>2, <2>3, FreeSets
<1>6. /\ ~IsOn(s, "dns_enabled") => Free(s, DnsModes)
      /\ ~IsOn(s, "dns_answer_enabled") => Free(s, DnsAnswerModes)
  <2>1. /\ ~IsOn(s, "dns_enabled") => DnsModes \cap TransportFields(s) = {}
        /\ ~IsOn(s, "dns_answer_enabled") => DnsAnswerModes \cap TransportFields(s) = {}
        /\ DnsAnswerModes \subseteq DnsModes
    BY <1>0, TransportSent DEF HasDns, DnsModes
  <2> QED BY <1>1, <1>3, <2>1
<1>7. /\ ~IsOn(s, "dhcp_enabled") => Free(s, DhcpModes)
      /\ ~IsOn(s, "dhcp_option_values") => Free(s, DhcpOptionModes)
  <2>1. /\ ~IsOn(s, "dhcp_enabled") => DhcpModes \cap TransportFields(s) = {}
        /\ ~IsOn(s, "dhcp_option_values") => DhcpOptionModes \cap TransportFields(s) = {}
        /\ DhcpOptionModes \subseteq DhcpModes
    BY <1>0, TransportSent DEF HasDhcp, DhcpModes
  <2> QED BY <1>1, <1>3, <2>1
<1>8. Message(s) => Free(s, {"udp_length"})
  BY DEF Free, Overruled, When
<1>9. (s.l4 # "SCTP" => Free(s, SctpModes)) /\ (~Icmpv6Echo(s) => Free(s, IcmpModes))
  <2>1. (s.l4 # "SCTP" => SctpModes \cap TransportFields(s) = {}) /\ (~Icmpv6Echo(s) => IcmpModes \cap TransportFields(s) = {})
    BY <1>0, TransportSent
  <2> QED BY <1>1, <1>3, <2>1
<1>10. /\ ~IsOn(s, "tcp_option_window_scale_enabled") => Free(s, {"tcp_option_window_scale"})
       /\ ~IsOn(s, "tcp_option_sack_blocks_enabled") =>
            Free(s, {"tcp_option_sack_left_edge", "tcp_option_sack_right_edge"})
       /\ ~IsOn(s, "tcp_option_timestamp_enabled") =>
            Free(s, {"tcp_option_timestamp_value", "tcp_option_timestamp_echo"})
  <2>1. \A X : X \subseteq TcpOptionModes /\ X \cap TcpOptionFields(s) = {} => Free(s, X)
    <3>1. TcpOptionModes \cap TransportFields(s) \subseteq TcpOptionFields(s)
      BY <1>0, TransportSent
    <3> QED BY <1>1, <1>3, <3>1
  <2>2. {"tcp_option_window_scale", "tcp_option_sack_left_edge", "tcp_option_sack_right_edge",
         "tcp_option_timestamp_value", "tcp_option_timestamp_echo"} \subseteq TcpOptionModes
    BY DEF TcpOptionModes
  <2>3. /\ ~IsOn(s, "tcp_option_window_scale_enabled") => {"tcp_option_window_scale"} \cap TcpOptionFields(s) = {}
        /\ ~IsOn(s, "tcp_option_sack_blocks_enabled") =>
             {"tcp_option_sack_left_edge", "tcp_option_sack_right_edge"} \cap TcpOptionFields(s) = {}
        /\ ~IsOn(s, "tcp_option_timestamp_enabled") =>
             {"tcp_option_timestamp_value", "tcp_option_timestamp_echo"} \cap TcpOptionFields(s) = {}
    BY DEF TcpOptionFields, Applies
  <2> QED BY <2>1, <2>2, <2>3
<1> QED BY <1>4, <1>5, <1>6, <1>7, <1>8, <1>9, <1>10

\* The fields of a DNS or DHCP message vary.
Spoken(s) == Message(s) /\ Seen(s) \cap (DnsModes \cup DhcpModes) # {}

UdpFlags == {"udp_length_override", "udp_checksum_override"}

\* The switches the server leaves as they are in a stream the page accepts: those of the headers
\* and messages, and those of what is in them.
Held(s) ==
  {"vlan_enabled", "mpls_enabled", "vxlan_enabled", "gtpu_enabled", "dns_enabled", "dhcp_enabled",
   "dhcp_option_values", "tcp_checksum_override"}
    \cup When(IsOn(s, "vlan_enabled"), {"vlan2_enabled"})
    \cup When(IsOn(s, "mpls_enabled"), {"mpls_label2_enabled"})
    \cup When(IsOn(s, "mpls_enabled") /\ IsOn(s, "mpls_label2_enabled"), {"mpls_label3_enabled"})
    \cup When(IsOn(s, "gtpu_enabled"), GtpuFlags)
    \cup When(s.l4 = "GRE", {"gre_key_present", "gre_sequence_present"})
    \cup When(IsOn(s, "dns_enabled"), {"dns_answer_enabled"})
    \cup When(s.l4 = "TCP", TcpOptionFlags)
    \cup When(s.l4 = "UDP" /\ ~Tunnel(s) /\ ~Message(s), {"udp_length_override"})
    \cup When(s.l4 = "UDP" /\ ~Tunnel(s) /\ ~Spoken(s), {"udp_checksum_override"})

\* The stream t of the server still carries what the stream s of the page says, and of the
\* overrides of UDP and the varying fields no more than the given ones.
Carries(s, t, overrides, fields) ==
  /\ t \in Stream /\ t.l3 = s.l3 /\ t.l4 = s.l4 /\ t.icmp = s.icmp
  /\ IsOn(s, "vxlan_enabled") => t.vxlan = s.vxlan
  /\ IsOn(s, "gtpu_enabled") => t.gtpu = s.gtpu
  /\ s.l4 = "GRE" => GreInnerVersion(t) = GreInnerVersion(s)
  /\ t.gre = s.gre \/ ~Varies(t, GreModes)
  /\ t.on \cap Held(s) = s.on \cap Held(s)
  /\ t.on \cap UdpFlags \subseteq overrides
  /\ t.vary \subseteq s.vary /\ t.vary \subseteq fields
  /\ PortKept(s, t, "l4_src_port", "l4_src_port_override")
  /\ PortKept(s, t, "l4_dst_port", "l4_dst_port_override")
  /\ Free(s, s.vary \ t.vary)

LEMMA CarriesSelf ==
  ASSUME NEW s \in Stream
  PROVE  Carries(s, s, s.on, s.vary)
BY DEF Carries, PortKept, Free

\* A step that keeps the protocols.
LEMMA CarriesStep ==
  ASSUME NEW s \in Stream, NEW t, NEW overrides, NEW fields, Carries(s, t, overrides, fields), NEW u, Alike(t, u),
         u.on \cap Held(s) = t.on \cap Held(s), u.on \cap UdpFlags \subseteq t.on, u.vary \subseteq t.vary,
         Free(s, t.vary \ u.vary), s.l4 = "GRE" => GreInnerVersion(u) = GreInnerVersion(t),
         PortKept(t, u, "l4_src_port", "l4_src_port_override"), PortKept(t, u, "l4_dst_port", "l4_dst_port_override")
  PROVE  Carries(s, u, overrides, fields)
<1>1. /\ u \in Stream /\ u.l3 = s.l3 /\ u.l4 = s.l4 /\ u.icmp = s.icmp
      /\ IsOn(s, "vxlan_enabled") => u.vxlan = s.vxlan
      /\ IsOn(s, "gtpu_enabled") => u.gtpu = s.gtpu
      /\ s.l4 = "GRE" => GreInnerVersion(u) = GreInnerVersion(s)
  BY DEF Carries, Alike
<1>2. u.gre = s.gre \/ ~Varies(u, GreModes)
  BY DEF Carries, Alike, Varies
<1>3. /\ u.on \cap Held(s) = s.on \cap Held(s)
      /\ u.on \cap UdpFlags \subseteq overrides
  BY DEF Carries
<1>4. u.vary \subseteq s.vary /\ u.vary \subseteq fields
  BY DEF Carries
<1>5. PortKept(s, u, "l4_src_port", "l4_src_port_override") /\ PortKept(s, u, "l4_dst_port", "l4_dst_port_override")
  BY DEF Carries, PortKept
<1>6. Free(s, s.vary \ u.vary)
  BY DEF Carries, Free
<1> QED BY <1>1, <1>2, <1>3, <1>4, <1>5, <1>6 DEF Carries

LEMMA CarriesSteps ==
  ASSUME NEW s \in Stream, NEW t, NEW overrides, NEW fields, Carries(s, t, overrides, fields)
  PROVE  /\ Carries(s, FixLength(t), overrides, fields) /\ Carries(s, Raised(t), overrides, fields)
         /\ \A F : Free(s, F) => Carries(s, Fix(t, F), overrides, fields)
         /\ \A F : /\ F \cap Held(s) \cap s.on = {} /\ F \cap PortFlags = {} /\ "gre_type_ipv6" \notin F
                   => Carries(s, TurnOff(t, F), overrides, fields)
         /\ \A F : /\ F \subseteq Flags /\ F \cap Held(s) \subseteq s.on /\ F \cap UdpFlags = {}
                   /\ "gre_type_ipv6" \in F /\ s.l4 = "GRE" => GreInnerVersion(t) = "IPv6"
                   => Carries(s, TurnOn(t, F), overrides, fields)
         /\ \A F, G : /\ F \cap Held(s) \cap s.on = {} /\ "gre_type_ipv6" \notin F
                      /\ Free(s, G) /\ (F \cap PortFlags = {} \/ L4PortModes \subseteq G)
                      => Carries(s, Drop(t, F, G), overrides, fields)
<1>0. t \in Stream /\ t.on \cap Held(s) = s.on \cap Held(s) /\ t.vary \subseteq s.vary
  BY DEF Carries
<1>1. ASSUME NEW u, Alike(t, u), u.on = t.on, u.vary = t.vary PROVE Carries(s, u, overrides, fields)
  <2>1. GreInnerVersion(u) = GreInnerVersion(t)
    BY <1>1 DEF Alike, GreInnerVersion, IsOn
  <2>2. Free(s, t.vary \ u.vary)
    BY <1>1 DEF Free
  <2>3. PortKept(t, u, "l4_src_port", "l4_src_port_override") /\ PortKept(t, u, "l4_dst_port", "l4_dst_port_override")
    BY <1>1 DEF PortKept
  <2> QED BY <1>1, <2>1, <2>2, <2>3, CarriesStep
<1>2. Carries(s, FixLength(t), overrides, fields) /\ Carries(s, Raised(t), overrides, fields)
  BY <1>0, <1>1, Written, RaisedWrites
<1>3. ASSUME NEW F, Free(s, F) PROVE Carries(s, Fix(t, F), overrides, fields)
  <2> DEFINE u == Fix(t, F)
  <2>1. Alike(t, u) /\ u.on = t.on /\ u.vary = t.vary \ F
    BY <1>0, Written
  <2> HIDE DEF u
  <2>2. GreInnerVersion(u) = GreInnerVersion(t)
    BY <2>1 DEF Alike, GreInnerVersion, IsOn
  <2>3. Free(s, t.vary \ u.vary)
    BY <1>3, <2>1 DEF Free
  <2>4. PortKept(t, u, "l4_src_port", "l4_src_port_override") /\ PortKept(t, u, "l4_dst_port", "l4_dst_port_override")
    BY <2>1 DEF PortKept
  <2>5. Carries(s, u, overrides, fields)
    BY <2>1, <2>2, <2>3, <2>4, CarriesStep
  <2> QED BY <2>5 DEF u
<1>4. ASSUME NEW F, F \cap Held(s) \cap s.on = {}, F \cap PortFlags = {}, "gre_type_ipv6" \notin F
      PROVE  Carries(s, TurnOff(t, F), overrides, fields)
  <2> DEFINE u == TurnOff(t, F)
  <2>1. Alike(t, u) /\ u.on = t.on \ F /\ u.vary = t.vary
    BY <1>0, Written
  <2> HIDE DEF u
  <2>2. GreInnerVersion(u) = GreInnerVersion(t)
    BY <1>4, <2>1 DEF Alike, GreInnerVersion, IsOn
  <2>3. Free(s, t.vary \ u.vary)
    BY <2>1 DEF Free
  <2>4. PortKept(t, u, "l4_src_port", "l4_src_port_override") /\ PortKept(t, u, "l4_dst_port", "l4_dst_port_override")
    BY <1>4, <2>1 DEF PortKept, PortFlags
  <2>5. u.on \cap Held(s) = t.on \cap Held(s)
    BY <1>0, <1>4, <2>1
  <2>6. Carries(s, u, overrides, fields)
    BY <2>1, <2>2, <2>3, <2>4, <2>5, CarriesStep
  <2> QED BY <2>6 DEF u
<1>5. ASSUME NEW F, F \subseteq Flags, F \cap Held(s) \subseteq s.on, F \cap UdpFlags = {},
             "gre_type_ipv6" \in F /\ s.l4 = "GRE" => GreInnerVersion(t) = "IPv6"
      PROVE  Carries(s, TurnOn(t, F), overrides, fields)
  <2> DEFINE u == TurnOn(t, F)
  <2>1. Alike(t, u) /\ u.on = t.on \cup F /\ u.vary = t.vary
    BY <1>0, <1>5, Written
  <2> HIDE DEF u
  <2>2. s.l4 = "GRE" => GreInnerVersion(u) = GreInnerVersion(t)
    BY <1>5, <2>1 DEF Alike, GreInnerVersion, IsOn
  <2>3. Free(s, t.vary \ u.vary)
    BY <2>1 DEF Free
  <2>4. PortKept(t, u, "l4_src_port", "l4_src_port_override") /\ PortKept(t, u, "l4_dst_port", "l4_dst_port_override")
    BY <2>1 DEF PortKept
  <2>5. u.on \cap Held(s) = t.on \cap Held(s)
    BY <1>0, <1>5, <2>1
  <2>6. Carries(s, u, overrides, fields)
    BY <1>5, <2>1, <2>2, <2>3, <2>4, <2>5, CarriesStep
  <2> QED BY <2>6 DEF u
<1>6. ASSUME NEW F, NEW G, F \cap Held(s) \cap s.on = {}, "gre_type_ipv6" \notin F, Free(s, G),
             F \cap PortFlags = {} \/ L4PortModes \subseteq G
      PROVE  Carries(s, Drop(t, F, G), overrides, fields)
  <2> DEFINE u == Drop(t, F, G)
  <2>1. Alike(t, u) /\ u.on = t.on \ F /\ u.vary = t.vary \ G
    BY <1>0, WriteSelf, WriteSteps DEF Writes
  <2> HIDE DEF u
  <2>2. GreInnerVersion(u) = GreInnerVersion(t)
    BY <1>6, <2>1 DEF Alike, GreInnerVersion, IsOn
  <2>3. Free(s, t.vary \ u.vary)
    BY <1>6, <2>1 DEF Free
  <2>4. PortKept(t, u, "l4_src_port", "l4_src_port_override") /\ PortKept(t, u, "l4_dst_port", "l4_dst_port_override")
    BY <1>6, <2>1 DEF PortKept, PortFlags, L4PortModes
  <2>5. u.on \cap Held(s) = t.on \cap Held(s)
    BY <1>0, <1>6, <2>1
  <2>6. Carries(s, u, overrides, fields)
    BY <2>1, <2>2, <2>3, <2>4, <2>5, CarriesStep
  <2> QED BY <2>6 DEF u
<1> QED BY <1>2, <1>3, <1>4, <1>5, <1>6

LEMMA CarriesSame ==
  ASSUME NEW s \in Stream, NEW t, NEW overrides, NEW fields, Carries(s, t, overrides, fields),
         NEW u, Alike(t, u), u.on = t.on, u.vary = t.vary
  PROVE  Carries(s, u, overrides, fields)
<1>1. GreInnerVersion(u) = GreInnerVersion(t)
  BY DEF Alike, GreInnerVersion, IsOn
<1>2. Free(s, t.vary \ u.vary)
  BY DEF Free
<1>3. PortKept(t, u, "l4_src_port", "l4_src_port_override") /\ PortKept(t, u, "l4_dst_port", "l4_dst_port_override")
  BY DEF PortKept
<1> QED BY <1>1, <1>2, <1>3, CarriesStep

\* The versions of headers the packet does not have.
LEMMA CarriesVersions ==
  ASSUME NEW s \in Stream, NEW t, NEW overrides, NEW fields, Carries(s, t, overrides, fields)
  PROVE  /\ ~IsOn(s, "vxlan_enabled") => Carries(s, [t EXCEPT !.vxlan = "IPv4"], overrides, fields)
         /\ ~IsOn(s, "gtpu_enabled") => Carries(s, [t EXCEPT !.gtpu = "IPv4"], overrides, fields)
         /\ s.l4 # "GRE" /\ Free(s, GreModes) => Carries(s, Fix([t EXCEPT !.gre = "IPv4"], GreModes), overrides, fields)
<1>0. t \in Stream
  BY DEF Carries
<1>1. ASSUME ~IsOn(s, "vxlan_enabled") PROVE Carries(s, [t EXCEPT !.vxlan = "IPv4"], overrides, fields)
  <2> DEFINE u == [t EXCEPT !.vxlan = "IPv4"]
  <2>1. /\ u \in Stream /\ u.l3 = t.l3 /\ u.l4 = t.l4 /\ u.icmp = t.icmp /\ u.gtpu = t.gtpu /\ u.gre = t.gre
        /\ u.on = t.on /\ u.vary = t.vary
    BY <1>0 DEF Stream, Versions
  <2> HIDE DEF u
  <2>2. GreInnerVersion(u) = GreInnerVersion(t)
    BY <2>1 DEF GreInnerVersion, IsOn
  <2>3. Carries(s, u, overrides, fields)
    BY <1>1, <2>1, <2>2 DEF Carries, PortKept, Varies
  <2> QED BY <2>3 DEF u
<1>2. ASSUME ~IsOn(s, "gtpu_enabled") PROVE Carries(s, [t EXCEPT !.gtpu = "IPv4"], overrides, fields)
  <2> DEFINE u == [t EXCEPT !.gtpu = "IPv4"]
  <2>1. /\ u \in Stream /\ u.l3 = t.l3 /\ u.l4 = t.l4 /\ u.icmp = t.icmp /\ u.vxlan = t.vxlan /\ u.gre = t.gre
        /\ u.on = t.on /\ u.vary = t.vary
    BY <1>0 DEF Stream, Versions
  <2> HIDE DEF u
  <2>2. GreInnerVersion(u) = GreInnerVersion(t)
    BY <2>1 DEF GreInnerVersion, IsOn
  <2>3. Carries(s, u, overrides, fields)
    BY <1>2, <2>1, <2>2 DEF Carries, PortKept, Varies
  <2> QED BY <2>3 DEF u
<1>3. ASSUME s.l4 # "GRE", Free(s, GreModes) PROVE Carries(s, Fix([t EXCEPT !.gre = "IPv4"], GreModes), overrides, fields)
  <2> DEFINE w == [t EXCEPT !.gre = "IPv4"]
             u == Fix(w, GreModes)
  <2>1. /\ w \in Stream /\ w.l3 = t.l3 /\ w.l4 = t.l4 /\ w.icmp = t.icmp /\ w.vxlan = t.vxlan /\ w.gtpu = t.gtpu
        /\ w.on = t.on /\ w.vary = t.vary
    BY <1>0 DEF Stream, Versions
  <2> HIDE DEF w
  <2>2. /\ u \in Stream /\ u.l3 = t.l3 /\ u.l4 = t.l4 /\ u.icmp = t.icmp /\ u.vxlan = t.vxlan /\ u.gtpu = t.gtpu
        /\ u.on = t.on /\ u.vary = t.vary \ GreModes
    <3>1. Alike(w, u) /\ u.on = w.on /\ u.vary = w.vary \ GreModes
      BY <2>1, Written
    <3> HIDE DEF u
    <3> QED BY <2>1, <3>1 DEF Alike
  <2> HIDE DEF u
  <2>3. Free(s, s.vary \ u.vary)
    BY <1>3, <2>2 DEF Carries, Free
  <2>4. /\ u.l3 = s.l3 /\ u.l4 = s.l4 /\ u.icmp = s.icmp
        /\ IsOn(s, "vxlan_enabled") => u.vxlan = s.vxlan
        /\ IsOn(s, "gtpu_enabled") => u.gtpu = s.gtpu
        /\ ~Varies(u, GreModes)
    BY <2>2 DEF Carries, Varies
  <2>5. /\ u.on \cap Held(s) = s.on \cap Held(s)
        /\ u.on \cap UdpFlags \subseteq overrides
        /\ u.vary \subseteq s.vary /\ u.vary \subseteq fields
    BY <2>2 DEF Carries
  <2>6. PortKept(s, u, "l4_src_port", "l4_src_port_override") /\ PortKept(s, u, "l4_dst_port", "l4_dst_port_override")
    BY <2>2 DEF Carries, PortKept
  <2>7. Carries(s, u, overrides, fields)
    BY <1>3, <2>2, <2>3, <2>4, <2>5, <2>6 DEF Carries
  <2> QED BY <2>7 DEF u, w
<1> QED BY <1>1, <1>2, <1>3

\* Switches that are not held.
LEMMA NotHeld ==
  ASSUME NEW s \in Stream
  PROVE  /\ {"flow_stats_enabled", "latency_enabled", "l4_src_port_override", "l4_dst_port_override",
             "sctp_checksum_override", "sctp_zero", "icmp_checksum_override", "gre_checksum_present",
             "gre_checksum_override", "gre_type_ipv6", "payload_enabled", "bytes"} \cap Held(s) = {}
         /\ ~IsOn(s, "vlan_enabled") => "vlan2_enabled" \notin Held(s)
         /\ ~(IsOn(s, "mpls_enabled") /\ IsOn(s, "mpls_label2_enabled")) => "mpls_label3_enabled" \notin Held(s)
         /\ ~IsOn(s, "gtpu_enabled") => GtpuFlags \cap Held(s) = {}
         /\ ~IsOn(s, "dns_enabled") => "dns_answer_enabled" \notin Held(s)
         /\ s.l4 # "TCP" => TcpOptionFlags \cap Held(s) = {}
         /\ s.l4 # "UDP" \/ Tunnel(s) => UdpFlags \cap Held(s) = {}
         /\ Message(s) => "udp_length_override" \notin Held(s)
         /\ Spoken(s) => "udp_checksum_override" \notin Held(s)
<1> USE DEF Held, When, GtpuFlags, TcpOptionFlags, UdpFlags
<1>1. {"flow_stats_enabled", "latency_enabled", "l4_src_port_override", "l4_dst_port_override",
       "sctp_checksum_override", "sctp_zero", "icmp_checksum_override", "gre_checksum_present",
       "gre_checksum_override", "gre_type_ipv6", "payload_enabled", "bytes"} \cap Held(s) = {}
  OBVIOUS
<1>2. /\ ~IsOn(s, "vlan_enabled") => "vlan2_enabled" \notin Held(s)
      /\ ~(IsOn(s, "mpls_enabled") /\ IsOn(s, "mpls_label2_enabled")) => "mpls_label3_enabled" \notin Held(s)
  OBVIOUS
<1>3. /\ ~IsOn(s, "gtpu_enabled") => GtpuFlags \cap Held(s) = {}
      /\ ~IsOn(s, "dns_enabled") => "dns_answer_enabled" \notin Held(s)
      /\ s.l4 # "TCP" => TcpOptionFlags \cap Held(s) = {}
  OBVIOUS
<1>4. s.l4 # "UDP" \/ Tunnel(s) => UdpFlags \cap Held(s) = {}
  OBVIOUS
<1>5. /\ Message(s) => "udp_length_override" \notin Held(s)
      /\ Spoken(s) => "udp_checksum_override" \notin Held(s)
  OBVIOUS
<1> QED BY ONLY <1>1, <1>2, <1>3, <1>4, <1>5

\* Switches that are: they are the same in what the server makes of the stream.
LEMMA StillOn ==
  ASSUME NEW s \in Stream, NEW t, NEW overrides, NEW fields, Carries(s, t, overrides, fields)
  PROVE  /\ IsOn(t, "vlan_enabled") = IsOn(s, "vlan_enabled") /\ IsOn(t, "mpls_enabled") = IsOn(s, "mpls_enabled")
         /\ IsOn(t, "vxlan_enabled") = IsOn(s, "vxlan_enabled") /\ IsOn(t, "gtpu_enabled") = IsOn(s, "gtpu_enabled")
         /\ IsOn(t, "dns_enabled") = IsOn(s, "dns_enabled") /\ IsOn(t, "dhcp_enabled") = IsOn(s, "dhcp_enabled")
         /\ IsOn(t, "dhcp_option_values") = IsOn(s, "dhcp_option_values")
         /\ IsOn(t, "tcp_checksum_override") = IsOn(s, "tcp_checksum_override")
         /\ IsOn(s, "vlan_enabled") => IsOn(t, "vlan2_enabled") = IsOn(s, "vlan2_enabled")
         /\ IsOn(s, "mpls_enabled") => IsOn(t, "mpls_label2_enabled") = IsOn(s, "mpls_label2_enabled")
         /\ IsOn(s, "mpls_enabled") /\ IsOn(s, "mpls_label2_enabled") =>
              IsOn(t, "mpls_label3_enabled") = IsOn(s, "mpls_label3_enabled")
         /\ IsOn(s, "gtpu_enabled") => \A f \in GtpuFlags : IsOn(t, f) = IsOn(s, f)
         /\ s.l4 = "GRE" => \A f \in {"gre_key_present", "gre_sequence_present"} : IsOn(t, f) = IsOn(s, f)
         /\ IsOn(s, "dns_enabled") => IsOn(t, "dns_answer_enabled") = IsOn(s, "dns_answer_enabled")
         /\ s.l4 = "TCP" => \A f \in TcpOptionFlags : IsOn(t, f) = IsOn(s, f)
         /\ Tunnel(t) = Tunnel(s)
<1>1. \A f \in Held(s) : IsOn(t, f) = IsOn(s, f)
  BY DEF Carries, IsOn
<1> USE <1>1 DEF Held, When
<1>2. /\ IsOn(t, "vlan_enabled") = IsOn(s, "vlan_enabled") /\ IsOn(t, "mpls_enabled") = IsOn(s, "mpls_enabled")
      /\ IsOn(t, "vxlan_enabled") = IsOn(s, "vxlan_enabled") /\ IsOn(t, "gtpu_enabled") = IsOn(s, "gtpu_enabled")
      /\ IsOn(t, "dns_enabled") = IsOn(s, "dns_enabled") /\ IsOn(t, "dhcp_enabled") = IsOn(s, "dhcp_enabled")
      /\ IsOn(t, "dhcp_option_values") = IsOn(s, "dhcp_option_values")
      /\ IsOn(t, "tcp_checksum_override") = IsOn(s, "tcp_checksum_override")
  OBVIOUS
<1>3. /\ IsOn(s, "vlan_enabled") => IsOn(t, "vlan2_enabled") = IsOn(s, "vlan2_enabled")
      /\ IsOn(s, "mpls_enabled") => IsOn(t, "mpls_label2_enabled") = IsOn(s, "mpls_label2_enabled")
      /\ IsOn(s, "mpls_enabled") /\ IsOn(s, "mpls_label2_enabled") =>
           IsOn(t, "mpls_label3_enabled") = IsOn(s, "mpls_label3_enabled")
      /\ IsOn(s, "dns_enabled") => IsOn(t, "dns_answer_enabled") = IsOn(s, "dns_answer_enabled")
  OBVIOUS
<1>4. IsOn(s, "gtpu_enabled") => \A f \in GtpuFlags : IsOn(t, f) = IsOn(s, f)
  OBVIOUS
<1>5. s.l4 = "GRE" => \A f \in {"gre_key_present", "gre_sequence_present"} : IsOn(t, f) = IsOn(s, f)
  OBVIOUS
<1>6. s.l4 = "TCP" => \A f \in TcpOptionFlags : IsOn(t, f) = IsOn(s, f)
  OBVIOUS
<1> QED BY ONLY <1>2, <1>3, <1>4, <1>5, <1>6 DEF Tunnel

LEMMA CarriesLengths ==
  ASSUME NEW s, Fit(s), NEW t, NEW overrides, NEW fields, Carries(s, t, overrides, fields)
  PROVE  Carries(s, NormLength(t), overrides, fields) /\ Carries(s, NormTunnels(t), overrides, fields)
<1>0. s \in Stream /\ t \in Stream /\ t.length \in Nat /\ t.min \in Nat /\ t.max \in Nat
  BY DEF Fit, Carries, Stream
<1>1. Carries(s, NormLength(t), overrides, fields)
  <2> DEFINE fixed == FixLength(t)
             m == Longer(1518, t.length)
             bytes == [fixed EXCEPT !.min = 64, !.max = m]
             min == IF t.min > 9211 THEN 9211 ELSE t.min
             max == IF t.max <= min THEN min + 5 ELSE t.max
             varied == [t EXCEPT !.min = min, !.max = max, !.length = max]
  <2>1. m \in Nat /\ min \in Nat /\ max \in Nat
    BY <1>0 DEF Longer
  <2>2. NormLength(t) \in {bytes, varied, t}
    BY <1>0 DEF NormLength, fixed, Longer
  <2>3. Alike(t, fixed) /\ fixed.on = t.on /\ fixed.vary = t.vary
    BY <1>0, Written
  <2> HIDE DEF fixed, m, min, max
  <2>4. Alike(t, bytes) /\ bytes.on = t.on /\ bytes.vary = t.vary
    BY <2>1, <2>3 DEF Alike, Stream
  <2>5. Alike(t, varied) /\ varied.on = t.on /\ varied.vary = t.vary
    BY <1>0, <2>1 DEF Alike, Stream
  <2> HIDE DEF bytes, varied
  <2> QED BY <1>0, <2>2, <2>4, <2>5, CarriesSame
<1>2. Carries(s, NormTunnels(t), overrides, fields)
  <2> DEFINE one == IF IsOn(t, "gtpu_enabled") THEN TurnOff(t, {"vxlan_enabled"}) ELSE t
             u == [one EXCEPT !.l3 = "IPv4", !.l4 = "UDP"]
  <2>1. IsOn(t, "gtpu_enabled") => {"vxlan_enabled"} \cap Held(s) \cap s.on = {}
    <3>1. IsOn(t, "gtpu_enabled") = IsOn(s, "gtpu_enabled")
      BY <1>0, StillOn
    <3>2. IsOn(s, "gtpu_enabled") => "vxlan_enabled" \notin s.on
      BY DEF Fit, OneTunnel, Tunnel, IsOn
    <3> QED BY <3>1, <3>2
  <2>2. {"vxlan_enabled"} \cap PortFlags = {}
    BY DEF PortFlags
  <2>3. Carries(s, one, overrides, fields)
    BY <1>0, <2>1, <2>2, CarriesSteps
  <2> HIDE DEF one
  <2>4. Tunnel(one) => one.l3 = "IPv4" /\ one.l4 = "UDP" /\ one \in Stream
    <3>1. Tunnel(one) = Tunnel(s)
      BY <1>0, <2>3, StillOn
    <3>2. one.l3 = s.l3 /\ one.l4 = s.l4 /\ one \in Stream
      BY <2>3 DEF Carries
    <3> QED BY <3>1, <3>2 DEF Fit, OneTunnel
  <2>5. Tunnel(one) => Carries(s, u, overrides, fields)
    <3>1. Tunnel(one) => Alike(one, u) /\ u.on = one.on /\ u.vary = one.vary
      BY <2>4 DEF Alike, Stream
    <3> HIDE DEF u
    <3> QED BY <1>0, <2>3, <3>1, CarriesSame
  <2>6. NormTunnels(t) = IF Tunnel(one) THEN u ELSE one
    BY DEF NormTunnels, one
  <2> HIDE DEF u
  <2> QED BY <2>3, <2>5, <2>6
<1> QED BY <1>1, <1>2

LEMMA CarriesLink ==
  ASSUME NEW s, Fit(s), validateWorkbenchStream(s), NEW t, NEW overrides, NEW fields, Carries(s, t, overrides, fields)
  PROVE  /\ Carries(s, NormNetwork(t), overrides, fields)
         /\ Carries(s, NormVlan(t), overrides, fields)
         /\ Carries(s, NormMpls(t), overrides, fields)
<1>0. s \in Stream /\ t.l3 = s.l3 /\ t.l4 = s.l4
  BY DEF Fit, Carries
<1>1. Carries(s, NormNetwork(t), overrides, fields)
  <2> DEFINE F == {"mpls_enabled", "vxlan_enabled", "gtpu_enabled"}
             G == {"mpls_enabled", "vxlan_enabled", "gtpu_enabled", "flow_stats_enabled", "latency_enabled"}
  <2>1. s.l3 \in {"ARP", "None"} => F \cap s.on = {}
    <3>1. s.l3 \in {"ARP", "None"} => "mpls_enabled" \notin s.on
      BY DEF validateWorkbenchStream, validApplication, HasIp, Versions, IsOn
    <3>2. s.l3 \in {"ARP", "None"} => "vxlan_enabled" \notin s.on /\ "gtpu_enabled" \notin s.on
      BY DEF Fit, OneTunnel, Tunnel, IsOn
    <3> QED BY <3>1, <3>2
  <2>2. {"flow_stats_enabled", "latency_enabled"} \cap Held(s) = {}
    BY <1>0, NotHeld
  <2>3. s.l3 \in {"ARP", "None"} => F \cap Held(s) \cap s.on = {} /\ G \cap Held(s) \cap s.on = {}
    BY <2>1, <2>2
  <2>4. F \cap PortFlags = {} /\ G \cap PortFlags = {} /\ "gre_type_ipv6" \notin F /\ "gre_type_ipv6" \notin G
    BY DEF PortFlags
  <2>5. NormNetwork(t) = CASE s.l3 = "ARP" -> TurnOff(t, G) [] s.l3 = "None" -> TurnOff(t, F) [] OTHER -> t
    BY <1>0 DEF NormNetwork
  <2> HIDE DEF F, G
  <2>6. s.l3 \in {"ARP", "None"} => Carries(s, TurnOff(t, F), overrides, fields) /\ Carries(s, TurnOff(t, G), overrides, fields)
    BY <1>0, <2>3, <2>4, CarriesSteps
  <2> QED BY <2>5, <2>6
<1>2. Carries(s, NormVlan(t), overrides, fields)
  <2>1. IsOn(t, "vlan_enabled") = IsOn(s, "vlan_enabled")
        /\ (IsOn(s, "vlan_enabled") => IsOn(t, "vlan2_enabled") = IsOn(s, "vlan2_enabled"))
    BY <1>0, StillOn
  <2>2. CASE ~IsOn(t, "vlan_enabled")
    <3>1. Free(s, VlanModes \cup Vlan2Modes) /\ {"vlan2_enabled"} \cap Held(s) \cap s.on = {}
      BY <1>0, <2>1, <2>2, FreeLink, NotHeld
    <3>2. {"vlan2_enabled"} \cap PortFlags = {}
      BY DEF PortFlags
    <3>3. Carries(s, Drop(t, {"vlan2_enabled"}, VlanModes \cup Vlan2Modes), overrides, fields)
      BY <1>0, <3>1, <3>2, CarriesSteps
    <3> QED BY <2>2, <3>3 DEF NormVlan
  <2>3. CASE IsOn(t, "vlan_enabled") /\ ~IsOn(t, "vlan2_enabled")
    <3>1. Free(s, Vlan2Modes)
      BY <1>0, <2>1, <2>3, FreeLink
    <3>2. Carries(s, Fix(t, Vlan2Modes), overrides, fields)
      BY <1>0, <3>1, CarriesSteps
    <3> QED BY <2>3, <3>2 DEF NormVlan
  <2>4. CASE IsOn(t, "vlan_enabled") /\ IsOn(t, "vlan2_enabled")
    BY <2>4 DEF NormVlan
  <2> QED BY <2>2, <2>3, <2>4
<1>3. Carries(s, NormMpls(t), overrides, fields)
  <2> DEFINE top == IF IsOn(t, "mpls_enabled") THEN t ELSE Fix(t, MplsModes \cup Mpls2Modes \cup Mpls3Modes)
  <2>1. /\ IsOn(t, "mpls_enabled") = IsOn(s, "mpls_enabled")
        /\ IsOn(s, "mpls_enabled") => IsOn(t, "mpls_label2_enabled") = IsOn(s, "mpls_label2_enabled")
        /\ IsOn(s, "mpls_enabled") /\ IsOn(s, "mpls_label2_enabled") =>
             IsOn(t, "mpls_label3_enabled") = IsOn(s, "mpls_label3_enabled")
    BY <1>0, StillOn
  <2>2. Carries(s, top, overrides, fields)
    <3>1. ~IsOn(t, "mpls_enabled") => Free(s, MplsModes \cup Mpls2Modes \cup Mpls3Modes)
      BY <1>0, <2>1, FreeLink
    <3> QED BY <1>0, <3>1, CarriesSteps
  <2> HIDE DEF top
  <2>3. NormMpls(t) =
          CASE ~IsOn(t, "mpls_label2_enabled") -> Drop(top, {"mpls_label3_enabled"}, Mpls2Modes \cup Mpls3Modes)
            [] IsOn(t, "mpls_label2_enabled") /\ ~IsOn(t, "mpls_label3_enabled") -> Fix(top, Mpls3Modes)
            [] OTHER -> top
    BY DEF NormMpls, top
  <2>4. CASE ~IsOn(t, "mpls_label2_enabled")
    <3>1. ~(IsOn(s, "mpls_enabled") /\ IsOn(s, "mpls_label2_enabled"))
      BY <2>1, <2>4
    <3>2. Free(s, Mpls2Modes \cup Mpls3Modes) /\ {"mpls_label3_enabled"} \cap Held(s) \cap s.on = {}
      BY <1>0, <3>1, FreeLink, NotHeld
    <3>3. {"mpls_label3_enabled"} \cap PortFlags = {}
      BY DEF PortFlags
    <3>4. Carries(s, Drop(top, {"mpls_label3_enabled"}, Mpls2Modes \cup Mpls3Modes), overrides, fields)
      BY <1>0, <2>2, <3>2, <3>3, CarriesSteps
    <3> QED BY <2>3, <2>4, <3>4
  <2>5. CASE IsOn(t, "mpls_label2_enabled") /\ ~IsOn(t, "mpls_label3_enabled")
    <3>1. Free(s, Mpls3Modes)
      BY <1>0, <2>1, <2>5, FreeLink
    <3>2. Carries(s, Fix(top, Mpls3Modes), overrides, fields)
      BY <1>0, <2>2, <3>1, CarriesSteps
    <3> QED BY <2>3, <2>5, <3>2
  <2>6. CASE IsOn(t, "mpls_label2_enabled") /\ IsOn(t, "mpls_label3_enabled")
    BY <2>2, <2>3, <2>6
  <2> QED BY <2>4, <2>5, <2>6
<1> QED BY <1>1, <1>2, <1>3

LEMMA CarriesTunnels ==
  ASSUME NEW s, Fit(s), Tidy(s), validateWorkbenchStream(s), NEW t, NEW overrides, NEW fields, Carries(s, t, overrides, fields)
  PROVE  /\ Carries(s, NormGre(t), overrides, fields)
         /\ Carries(s, NormGtpu(t), overrides, fields)
         /\ Carries(s, NormVxlan(t), overrides, fields)
<1>0. s \in Stream /\ t.l3 = s.l3 /\ t.l4 = s.l4 /\ t.vary \subseteq s.vary
  BY DEF Fit, Carries
<1>1. ASSUME t.l4 = "GRE" PROVE Carries(s, NormGre(t), overrides, fields)
  <2> DEFINE udp == Fix(FixLength(t), UdpModes \cup {"tcp_checksum"})
             inner == Fix(udp, OtherVersion(GreInnerVersion(t), GreInner4Modes, GreInner6Modes))
             O == (IF Varies(t, {"gre_key"}) THEN {"gre_key_present"} ELSE {})
                    \cup (IF Varies(t, {"gre_sequence"}) THEN {"gre_sequence_present"} ELSE {})
             options == TurnOn(inner, O)
             gre == IF Varies(options, GreModes) THEN TurnOff(options, {"gre_checksum_present", "gre_checksum_override"})
                    ELSE options
             last == IF GreInnerVersion(t) = "IPv6" THEN TurnOn(gre, {"gre_type_ipv6"}) ELSE gre
  <2>1. s.l4 = "GRE" /\ GreInnerVersion(t) = GreInnerVersion(s)
    BY <1>0, <1>1 DEF Carries
  <2>2. Free(s, UdpModes \cup {"tcp_checksum"})
    BY <2>1, FreeTransport, FreeSets
  <2>3. Carries(s, udp, overrides, fields)
    <3>1. Carries(s, FixLength(t), overrides, fields)
      BY <1>0, CarriesSteps
    <3> QED BY <1>0, <2>2, <3>1, CarriesSteps
  <2> HIDE DEF udp
  <2>4. Carries(s, inner, overrides, fields)
    <3>1. Free(s, OtherVersion(GreInnerVersion(t), GreInner4Modes, GreInner6Modes))
      BY <2>1, FreeTunnel
    <3> QED BY <1>0, <2>3, <3>1, CarriesSteps
  <2> HIDE DEF inner
  \* A key or a sequence number that varies is in the header already.
  <2>5. O \subseteq s.on /\ O \subseteq Flags /\ O \cap UdpFlags = {} /\ "gre_type_ipv6" \notin O
    <3>1. Varies(t, {"gre_key"}) => "gre_key_present" \in s.on
      BY <1>0, <2>1 DEF validateWorkbenchStream, validGre, Varies, IsOn
    <3>2. Varies(t, {"gre_sequence"}) => "gre_sequence_present" \in s.on
      BY <1>0, <2>1 DEF validateWorkbenchStream, validGre, Varies, IsOn
    <3>3. s.on \subseteq Flags
      BY <1>0 DEF Stream
    <3> QED BY <3>1, <3>2, <3>3 DEF UdpFlags
  <2> HIDE DEF O
  <2>6. Carries(s, options, overrides, fields)
    BY <1>0, <2>4, <2>5, CarriesSteps
  <2> HIDE DEF options
  <2>7. Carries(s, gre, overrides, fields)
    <3>1. {"gre_checksum_present", "gre_checksum_override"} \cap Held(s) \cap s.on = {}
      BY <1>0, NotHeld
    <3>2. {"gre_checksum_present", "gre_checksum_override"} \cap PortFlags = {}
      BY DEF PortFlags
    <3>3. Carries(s, TurnOff(options, {"gre_checksum_present", "gre_checksum_override"}), overrides, fields)
      BY <1>0, <2>6, <3>1, <3>2, CarriesSteps
    <3> QED BY <2>6, <3>3
  <2> HIDE DEF gre
  <2>8. Carries(s, last, overrides, fields)
    <3>1. {"gre_type_ipv6"} \subseteq Flags /\ {"gre_type_ipv6"} \cap UdpFlags = {} /\ {"gre_type_ipv6"} \cap Held(s) \subseteq s.on
      BY <1>0, NotHeld DEF UdpFlags, Flags
    <3>2. GreInnerVersion(gre) = GreInnerVersion(t)
      BY <2>1, <2>7 DEF Carries
    <3>3. GreInnerVersion(t) = "IPv6" => Carries(s, TurnOn(gre, {"gre_type_ipv6"}), overrides, fields)
      BY <1>0, <2>7, <3>1, <3>2, CarriesSteps
    <3> QED BY <2>7, <3>3
  <2>9. NormGre(t) = Raised(last)
    BY <1>1 DEF NormGre, gre, options, O, inner, udp
  <2> HIDE DEF last
  <2> QED BY <1>0, <2>8, <2>9, CarriesSteps
<1>2. ASSUME t.l4 # "GRE" PROVE Carries(s, NormGre(t), overrides, fields)
  <2>1. NormGre(t) = Fix([t EXCEPT !.gre = "IPv4"], GreModes)
    BY <1>2 DEF NormGre
  <2>2. s.l4 # "GRE"
    BY <1>0, <1>2
  <2>3. Free(s, GreModes)
    BY <2>2, FreeTunnel
  <2>4. Carries(s, Fix([t EXCEPT !.gre = "IPv4"], GreModes), overrides, fields)
    BY <1>0, <2>2, <2>3, CarriesVersions
  <2> QED BY <2>1, <2>4
<1>3. /\ IsOn(t, "gtpu_enabled") = IsOn(s, "gtpu_enabled") /\ IsOn(t, "vxlan_enabled") = IsOn(s, "vxlan_enabled")
      /\ IsOn(s, "gtpu_enabled") => t.gtpu = s.gtpu
      /\ IsOn(s, "vxlan_enabled") => t.vxlan = s.vxlan
      /\ IsOn(s, "gtpu_enabled") => \A f \in GtpuFlags : IsOn(t, f) = IsOn(s, f)
  BY <1>0, StillOn DEF Carries
<1>4. ASSUME HasGtpu(t) PROVE Carries(s, NormGtpu(t), overrides, fields)
  <2> DEFINE O == {"l4_src_port_override", "l4_dst_port_override"}
             fixed == Fix(FixLength(t), L4PortModes)
             ports == TurnOn(fixed, O)
             F == {"udp_length_override", "udp_checksum_override", "dns_enabled", "dhcp_enabled"}
             M == UdpModes \cup DnsModes \cup DhcpModes
             plain == Drop(ports, F, M)
             G == (IF IsOn(t, "gtpu_sequence_enabled") THEN {} ELSE {"gtpu_sequence"})
                    \cup (IF IsOn(t, "gtpu_npdu_enabled") THEN {} ELSE {"gtpu_npdu"})
                    \cup (IF IsOn(t, "gtpu_extension_enabled") THEN {} ELSE {"gtpu_extension_udp_port"})
             options == Fix(plain, G)
             H == OtherVersion(t.gtpu, GtpuInner4Modes, GtpuInner6Modes)
             last == Fix(options, H)
  <2>1. IsOn(s, "gtpu_enabled") /\ Tunnel(s)
    BY <1>3, <1>4 DEF HasGtpu, Tunnel
  <2>2. Carries(s, fixed, overrides, fields)
    <3>1. Free(s, L4PortModes)
      BY <2>1, FreeTransport
    <3>2. Carries(s, FixLength(t), overrides, fields)
      BY <1>0, CarriesSteps
    <3> QED BY <1>0, <3>1, <3>2, CarriesSteps
  <2>3. O \subseteq Flags /\ O \cap Held(s) \subseteq s.on /\ O \cap UdpFlags = {} /\ "gre_type_ipv6" \notin O
    BY <1>0, NotHeld DEF Flags, UdpFlags
  <2> HIDE DEF fixed, O
  <2>4. Carries(s, ports, overrides, fields)
    BY <1>0, <2>2, <2>3, CarriesSteps
  <2> HIDE DEF ports
  <2>5. Carries(s, plain, overrides, fields)
    \* A tunnel carries no message.
    <3>1. "dns_enabled" \notin s.on /\ "dhcp_enabled" \notin s.on
      BY <2>1 DEF Tidy, validateWorkbenchStream, validApplication, IsOn
    <3>2. UdpFlags \cap Held(s) = {}
      BY <1>0, <2>1, NotHeld
    <3>3. F \cap Held(s) \cap s.on = {} /\ F \cap PortFlags = {} /\ "gre_type_ipv6" \notin F
      BY <3>1, <3>2 DEF UdpFlags, PortFlags
    <3>4. Free(s, UdpModes) /\ Free(s, DnsModes) /\ Free(s, DhcpModes)
      BY <2>1, <3>1, FreeTransport DEF IsOn
    <3>5. Free(s, M)
      BY <3>4, FreeSets
    <3> HIDE DEF F, M
    <3> QED BY <1>0, <2>4, <3>3, <3>5, CarriesSteps
  <2> HIDE DEF plain
  <2>6. Free(s, G) /\ Free(s, H)
    <3>1. \A f \in {"gtpu_sequence_enabled", "gtpu_npdu_enabled", "gtpu_extension_enabled"} : IsOn(t, f) = IsOn(s, f)
      BY <1>3, <2>1 DEF GtpuFlags
    <3>2. Free(s, {})
      BY DEF Free
    <3>3. Free(s, IF IsOn(t, "gtpu_sequence_enabled") THEN {} ELSE {"gtpu_sequence"})
      BY <3>1, <3>2, FreeTunnel
    <3>4. Free(s, IF IsOn(t, "gtpu_npdu_enabled") THEN {} ELSE {"gtpu_npdu"})
      BY <3>1, <3>2, FreeTunnel
    <3>5. Free(s, IF IsOn(t, "gtpu_extension_enabled") THEN {} ELSE {"gtpu_extension_udp_port"})
      BY <3>1, <3>2, FreeTunnel
    <3>6. Free(s, G)
      BY <3>3, <3>4, <3>5, FreeSets
    <3>7. Free(s, H)
      BY <1>3, <2>1, FreeTunnel
    <3> QED BY <3>6, <3>7
  <2>7. NormGtpu(t) = Raised(last)
    BY <1>4 DEF NormGtpu, ports, fixed, plain, O
  <2> HIDE DEF G, H
  <2>8. Carries(s, options, overrides, fields)
    BY <1>0, <2>5, <2>6, CarriesSteps
  <2> HIDE DEF options
  <2>9. Carries(s, last, overrides, fields)
    BY <1>0, <2>6, <2>8, CarriesSteps
  <2> HIDE DEF last
  <2> QED BY <1>0, <2>7, <2>9, CarriesSteps
<1>5. ASSUME ~HasGtpu(t) PROVE Carries(s, NormGtpu(t), overrides, fields)
  <2> DEFINE u == [t EXCEPT !.gtpu = "IPv4"]
  <2>1. ~IsOn(s, "gtpu_enabled")
    BY <1>0, <1>3, <1>5 DEF HasGtpu, Fit, OneTunnel, Tunnel
  <2>2. Carries(s, u, overrides, fields)
    BY <1>0, <2>1, CarriesVersions
  <2>3. NormGtpu(t) = Drop(u, GtpuFlags, GtpuModes)
    BY <1>5 DEF NormGtpu
  <2> HIDE DEF u
  <2>4. Free(s, GtpuModes) /\ GtpuFlags \cap Held(s) \cap s.on = {}
    BY <1>0, <2>1, FreeTunnel, NotHeld
  <2>5. GtpuFlags \cap PortFlags = {} /\ "gre_type_ipv6" \notin GtpuFlags
    BY DEF GtpuFlags, PortFlags
  <2> QED BY <1>0, <2>2, <2>3, <2>4, <2>5, CarriesSteps
<1>6. Carries(s, NormVxlan(t), overrides, fields)
  <2> DEFINE X == L4PortModes \cup {"udp_length"} \cup OtherVersion(t.vxlan, VxlanInner4Modes, VxlanInner6Modes)
             outer == FixLength(Fix(t, X))
             none == Fix([t EXCEPT !.vxlan = "IPv4"], VxlanModes)
             vxlan == CASE ~IsOn(t, "vxlan_enabled") -> none
                        [] IsOn(t, "vxlan_enabled") /\ ~IsOn(t, "bytes") -> Raised(outer)
                        [] OTHER -> outer
  <2>1. IsOn(t, "vxlan_enabled") => Carries(s, outer, overrides, fields)
    <3> SUFFICES ASSUME IsOn(t, "vxlan_enabled") PROVE Carries(s, outer, overrides, fields)
      OBVIOUS
    <3>1. Tunnel(s)
      BY <1>3 DEF Tunnel
    <3>2. Free(s, L4PortModes) /\ Free(s, UdpModes)
      BY <3>1, FreeTransport
    <3>3. Free(s, {"udp_length"})
      BY <3>2, FreeSets DEF UdpModes
    <3>4. Free(s, OtherVersion(t.vxlan, VxlanInner4Modes, VxlanInner6Modes))
      BY <1>3, FreeTunnel
    <3>5. Free(s, X)
      BY <3>2, <3>3, <3>4, FreeSets
    <3> HIDE DEF X
    <3>6. Carries(s, Fix(t, X), overrides, fields)
      BY <1>0, <3>5, CarriesSteps
    <3> QED BY <1>0, <3>6, CarriesSteps
  <2>2. IsOn(t, "vxlan_enabled") => Carries(s, Raised(outer), overrides, fields)
    <3> HIDE DEF outer
    <3> QED BY <1>0, <2>1, CarriesSteps
  <2>3. ~IsOn(t, "vxlan_enabled") => Carries(s, none, overrides, fields)
    <3>1. ~IsOn(t, "vxlan_enabled") => Free(s, VxlanModes) /\ Carries(s, [t EXCEPT !.vxlan = "IPv4"], overrides, fields)
      BY <1>0, <1>3, FreeTunnel, CarriesVersions
    <3> QED BY <1>0, <3>1, CarriesSteps
  <2> HIDE DEF outer, none
  <2>4. Carries(s, vxlan, overrides, fields)
    BY <2>1, <2>2, <2>3
  <2>5. NormVxlan(t) \in {vxlan, FixLength(vxlan)}
    BY DEF NormVxlan, outer, none
  <2> HIDE DEF vxlan
  <2>6. Carries(s, FixLength(vxlan), overrides, fields)
    BY <1>0, <2>4, CarriesSteps
  <2> QED BY <2>4, <2>5, <2>6
<1> QED BY <1>1, <1>2, <1>4, <1>5, <1>6

\* A switch that is off in the stream of the page may be turned off.
LEMMA CarriesOff ==
  ASSUME NEW s \in Stream, NEW t, NEW overrides, NEW fields, Carries(s, t, overrides, fields),
         NEW flag, flag \notin Held(s) \/ ~IsOn(s, flag), flag \notin PortFlags, flag # "gre_type_ipv6"
  PROVE  /\ Carries(s, TurnOff(t, {flag}), overrides, fields)
         /\ \A F : Free(s, F) => Carries(s, Drop(t, {flag}, F), overrides, fields)
<1>1. {flag} \cap Held(s) \cap s.on = {}
  BY DEF IsOn
<1>2. {flag} \cap PortFlags = {} /\ "gre_type_ipv6" \notin {flag}
  OBVIOUS
<1> QED BY <1>1, <1>2, CarriesSteps

\* A switch that is held by nothing may be turned on.
LEMMA CarriesOn ==
  ASSUME NEW s \in Stream, NEW t, NEW overrides, NEW fields, Carries(s, t, overrides, fields),
         NEW F \in SUBSET {"payload_enabled", "l4_src_port_override", "l4_dst_port_override", "sctp_checksum_override", "sctp_zero"}
  PROVE  Carries(s, TurnOn(t, F), overrides, fields)
<1>1. F \cap Held(s) \subseteq s.on
  BY NotHeld
<1>2. F \subseteq Flags /\ F \cap UdpFlags = {} /\ "gre_type_ipv6" \notin F
  BY DEF Flags, UdpFlags
<1> QED BY <1>1, <1>2, CarriesSteps

LEMMA CarriesPorts ==
  ASSUME NEW s, Fit(s), Tidy(s), NEW t, NEW overrides, NEW fields, Carries(s, t, overrides, fields)
  PROVE  Carries(s, NormPorts(t), overrides, fields)
<1>0. s \in Stream /\ t.l4 = s.l4 /\ HasPorts(t) = HasPorts(s)
  BY DEF Fit, Carries, HasPorts
<1> DEFINE l4 == IF t.l4 = "None" THEN Fix(t, {"udp_length"}) ELSE t
           F == {"l4_src_port_override", "l4_dst_port_override"}
<1>1. t.l4 = "None" => Free(s, {"udp_length"})
  <2>1. t.l4 = "None" => Free(s, UdpModes)
    BY <1>0, FreeTransport
  <2>2. {"udp_length"} \subseteq UdpModes
    BY DEF UdpModes
  <2> QED BY <2>1, <2>2, FreeSets
<1>2. Carries(s, l4, overrides, fields)
  BY <1>0, <1>1, CarriesSteps
<1>3. NormPorts(t) = IF HasPorts(t) THEN l4 ELSE Drop(l4, F, L4PortModes)
  BY DEF NormPorts
<1>4. ~HasPorts(t) => Free(s, L4PortModes)
  BY <1>0, FreeTransport
<1>5. F \cap Held(s) \cap s.on = {} /\ "gre_type_ipv6" \notin F
  BY <1>0, NotHeld
<1> HIDE DEF l4, F
<1>6. ~HasPorts(t) => Carries(s, Drop(l4, F, L4PortModes), overrides, fields)
  BY <1>0, <1>2, <1>4, <1>5, CarriesSteps
<1> QED BY <1>2, <1>3, <1>6

\* The messages: only UDP outside a tunnel carries one, and DHCP only over IPv4.
LEMMA MessageShape ==
  ASSUME NEW s, Tidy(s), validateWorkbenchStream(s)
  PROVE  /\ Message(s) => s.l4 = "UDP" /\ ~Tunnel(s)
         /\ IsOn(s, "dhcp_enabled") => s.l3 = "IPv4" /\ ~IsOn(s, "dns_enabled")
<1>1. IsOn(s, "dns_enabled") => s.l4 = "UDP" /\ ~Tunnel(s)
  BY DEF validateWorkbenchStream, validApplication
<1>2. IsOn(s, "dhcp_enabled") => s.l3 = "IPv4" /\ s.l4 = "UDP" /\ ~IsOn(s, "vxlan_enabled")
  BY DEF validateWorkbenchStream, validApplication
<1>3. IsOn(s, "dhcp_enabled") => ~IsOn(s, "gtpu_enabled") /\ ~IsOn(s, "dns_enabled")
  BY DEF Tidy
<1> QED BY <1>1, <1>2, <1>3 DEF Message, Tunnel

LEMMA CarriesUdp ==
  ASSUME NEW s, Fit(s), Tidy(s), validateWorkbenchStream(s), NEW t, NEW overrides, NEW fields,
         Carries(s, t, overrides, fields)
  PROVE  Carries(s, NormUdp(t), overrides, fields)
<1>0. s \in Stream /\ t.l4 = s.l4 /\ Tunnel(t) = Tunnel(s)
  BY StillOn DEF Fit, Carries
<1>1. ASSUME ~IsOn(s, "dns_enabled"), NEW u, Carries(s, u, overrides, fields)
      PROVE  /\ Carries(s, NoDns(u), overrides, fields)
             /\ Carries(s, TurnOff(NoDns(u), {"dns_answer_enabled"}), overrides, fields)
  <2>1. Free(s, DnsModes) /\ "dns_answer_enabled" \notin Held(s)
    BY <1>0, <1>1, FreeTransport, NotHeld
  <2>2. "dns_enabled" \notin PortFlags /\ "dns_answer_enabled" \notin PortFlags
    BY DEF PortFlags
  <2>3. Carries(s, NoDns(u), overrides, fields)
    BY <1>0, <1>1, <2>1, <2>2, CarriesOff DEF NoDns
  <2> QED BY <1>0, <2>1, <2>2, <2>3, CarriesOff
<1>2. ASSUME ~IsOn(s, "dhcp_enabled"), NEW u, Carries(s, u, overrides, fields)
      PROVE  Carries(s, NoDhcp(u), overrides, fields)
  <2>1. Free(s, DhcpModes)
    BY <1>2, FreeTransport
  <2>2. "dhcp_enabled" \notin PortFlags
    BY DEF PortFlags
  <2> QED BY <1>0, <1>2, <2>1, <2>2, CarriesOff DEF NoDhcp
<1> DEFINE bare == Drop(t, {"udp_length_override", "udp_checksum_override"}, {"udp_checksum"})
           udp == IF t.l4 = "UDP" THEN t ELSE NoDns(NoDhcp(bare))
           dns == IF Tunnel(t) THEN NoDns(udp) ELSE udp
           dhcp == IF IsOn(dns, "dhcp_enabled") /\ HasDhcp(dns) THEN dns ELSE NoDhcp(dns)
<1>3. t.l4 # "UDP" => Carries(s, bare, overrides, fields)
  <2> SUFFICES ASSUME t.l4 # "UDP" PROVE Carries(s, bare, overrides, fields)
    OBVIOUS
  <2>1. UdpFlags \cap Held(s) \cap s.on = {} /\ UdpFlags \cap PortFlags = {} /\ "gre_type_ipv6" \notin UdpFlags
    <3>1. UdpFlags \cap Held(s) = {}
      BY <1>0, NotHeld
    <3> QED BY <3>1 DEF UdpFlags, PortFlags
  <2>2. Free(s, {"udp_checksum"})
    <3>1. Free(s, UdpModes) /\ {"udp_checksum"} \subseteq UdpModes
      BY <1>0, FreeTransport DEF UdpModes
    <3> QED BY <3>1, FreeSets
  <2>3. Carries(s, Drop(t, UdpFlags, {"udp_checksum"}), overrides, fields)
    BY <1>0, <2>1, <2>2, CarriesSteps
  <2> QED BY <2>3 DEF UdpFlags
<1> HIDE DEF bare
<1>4. Carries(s, udp, overrides, fields)
  <2>1. t.l4 # "UDP" => ~IsOn(s, "dns_enabled") /\ ~IsOn(s, "dhcp_enabled")
    BY <1>0, MessageShape DEF Message
  <2>2. t.l4 # "UDP" => Carries(s, NoDhcp(bare), overrides, fields)
    BY <1>2, <1>3, <2>1
  <2>3. t.l4 # "UDP" => Carries(s, NoDns(NoDhcp(bare)), overrides, fields)
    BY <1>1, <2>1, <2>2
  <2> QED BY <2>3
<1> HIDE DEF udp
<1>5. Carries(s, dns, overrides, fields)
  <2>1. Tunnel(t) => ~IsOn(s, "dns_enabled")
    BY <1>0, MessageShape DEF Message
  <2> QED BY <1>1, <1>4, <2>1
<1> HIDE DEF dns
<1>6. Carries(s, dhcp, overrides, fields) /\ (IsOn(s, "dhcp_enabled") => dhcp = dns)
  <2>1. IsOn(s, "dhcp_enabled") => IsOn(dns, "dhcp_enabled") /\ HasDhcp(dns)
    <3>1. IsOn(dns, "dhcp_enabled") = IsOn(s, "dhcp_enabled") /\ Tunnel(dns) = Tunnel(s)
      BY <1>0, <1>5, StillOn
    <3>2. dns.l3 = s.l3 /\ dns.l4 = s.l4
      BY <1>5 DEF Carries
    <3>3. IsOn(s, "dhcp_enabled") => s.l3 = "IPv4" /\ s.l4 = "UDP" /\ ~Tunnel(s)
      BY MessageShape DEF Message
    <3> QED BY <3>1, <3>2, <3>3 DEF HasDhcp
  <2> QED BY <1>2, <1>5, <2>1
<1>7. NormUdp(t) = IF IsOn(dhcp, "dns_enabled") /\ ~IsOn(dhcp, "dhcp_enabled") THEN dhcp
                   ELSE TurnOff(NoDns(dhcp), {"dns_answer_enabled"})
  BY DEF NormUdp, dns, udp, bare
<1> HIDE DEF dhcp
<1>8. IsOn(s, "dns_enabled") => IsOn(dhcp, "dns_enabled") /\ ~IsOn(dhcp, "dhcp_enabled")
  <2>1. IsOn(dhcp, "dns_enabled") = IsOn(s, "dns_enabled") /\ IsOn(dhcp, "dhcp_enabled") = IsOn(s, "dhcp_enabled")
    BY <1>0, <1>6, StillOn
  <2> QED BY <2>1, MessageShape
<1> QED BY <1>1, <1>6, <1>7, <1>8

-----------------------------------------------------------------------------
(* What the panels show of a stream *)

\* The controls of a panel that are not the mode of a field.
Choices == {"icmp_type_value", "vxlan_inner_ip_version", "gtpu_inner_ip_version", "gre_inner_ip_version", "sctp_checksum"}

LinkControls(s) ==
  EtherPanel(s) \cup VlanPanel(s) \cup VlanInnerPanel(s) \cup MplsPanel(s) \cup MplsSecondPanel(s) \cup MplsThirdPanel(s)
NetworkControls(s) ==
  ArpPanel(s) \cup Ipv4AddressPanel(s) \cup Ipv4ScalarPanel(s) \cup Ipv6AddressPanel(s) \cup Ipv6ScalarPanel(s)
TunnelControls(s) ==
  VxlanVniPanel(s) \cup VxlanTtlPanel(s) \cup VxlanAddressPanel(s) \cup VxlanPortPanel(s)
    \cup GtpuTeidPanel(s) \cup GtpuOptionPanel(s) \cup GtpuTtlPanel(s) \cup GtpuAddressPanel(s) \cup GtpuPortPanel(s)
    \cup GreOptionPanel(s) \cup GreInner6Panel(s) \cup GreInner4Panel(s) \cup GrePortPanel(s)

DnsControls(s) == DnsQueryPanel(s) \cup DnsAnswerPanel(s)
DhcpControls(s) == DhcpBootpPanel(s) \cup DhcpAddressPanel(s) \cup DhcpTimerPanel(s) \cup DhcpOptionAddressPanel(s)
SctpControls(s) == SctpCommonPanel(s) \cup SctpDataPanel(s)
TcpCoreControls(s) == TcpNumberPanel(s) \cup TcpChecksumPanel(s) \cup TcpFlagsPanel(s)
TcpOptionControls(s) == TcpSegmentPanel(s) \cup TcpSackPanel(s) \cup TcpTimestampPanel(s)
IcmpControls(s) == IcmpTypePanel(s) \cup IcmpEchoPanel(s)

TransportControls(s) ==
  L4PortPanel(s) \cup UdpPanel(s) \cup DnsControls(s) \cup DhcpControls(s) \cup SctpControls(s) \cup TcpCoreControls(s)
    \cup TcpOptionControls(s) \cup IcmpControls(s)

Others == Flags \cup Choices

LEMMA OthersApart ==
  Others \cap (LinkModes \cup NetworkModes \cup TunnelModes \cup TransportModes) = {}
<1>1. LinkModes \cup NetworkModes \cup TunnelModes \cup TransportModes \subseteq Modes
  BY DEF LinkModes, NetworkModes, TunnelModes, TransportModes, Modes
<1>2. Flags \cap (LinkModes \cup NetworkModes \cup TunnelModes \cup TransportModes) = {}
  BY <1>1, NamesApart
<1>3. Choices \cap LinkModes = {} /\ Choices \cap NetworkModes = {}
  BY DEF Choices, LinkModes, EtherModes, VlanModes, Vlan2Modes, MplsModes, Mpls2Modes, Mpls3Modes,
         NetworkModes, ArpModes, Ipv4AddressModes, Ipv4ScalarModes, Ipv6AddressModes, Ipv6ScalarModes
<1>4. Choices \cap TunnelModes = {}
  BY DEF Choices, TunnelModes, VxlanModes, VxlanVniModes, VxlanInner4Modes, VxlanInner6Modes, VxlanPortModes, GtpuModes,
         GtpuTeidModes, GtpuOptionModes, GtpuInnerModes, GtpuInner4Modes, GtpuInner6Modes, GtpuPortModes, GreModes,
         GreOptionModes, GreInnerModes, GreInner4Modes, GreInner6Modes, GrePortModes
<1>5. Choices \cap TransportModes = {}
  BY DEF Choices, TransportModes, L4PortModes, UdpModes, DnsModes, DnsQueryModes, DnsAnswerModes, DhcpModes,
         DhcpBootpModes, DhcpAddressModes, DhcpOptionModes, DhcpTimerModes, DhcpOptionAddressModes, SctpModes,
         TcpCoreModes, TcpOptionModes, IcmpModes
<1> QED BY <1>2, <1>3, <1>4, <1>5 DEF Others

LEMMA OtherNames ==
  /\ {"vlan2_enabled", "mpls_label2_enabled", "mpls_label3_enabled", "l4_src_port_override", "l4_dst_port_override",
      "udp_length_override", "udp_checksum_override", "dns_enabled", "dns_answer_enabled", "dhcp_enabled",
      "dhcp_option_values", "sctp_checksum_override", "sctp_checksum", "tcp_checksum_override",
      "icmp_checksum_override", "icmp_type_value", "vxlan_inner_ip_version", "gtpu_inner_ip_version",
      "gre_inner_ip_version"} \subseteq Others
  /\ GtpuFlags \cup GreFlags \cup TcpOptionFlags \subseteq Others
<1>1. {"vlan2_enabled", "mpls_label2_enabled", "mpls_label3_enabled", "l4_src_port_override", "l4_dst_port_override",
      "udp_length_override", "udp_checksum_override", "dns_enabled", "dns_answer_enabled", "dhcp_enabled",
      "dhcp_option_values", "sctp_checksum_override", "tcp_checksum_override", "icmp_checksum_override"} \subseteq Flags
  BY DEF Flags
<1>2. GtpuFlags \cup GreFlags \cup TcpOptionFlags \subseteq Flags
  BY DEF Flags
<1> QED BY <1>1, <1>2 DEF Others, Choices

LEMMA LinkShown ==
  ASSUME NEW s
  PROVE  LinkControls(s) \cup Others = LinkFields(s) \cup Others
BY OtherNames DEF LinkControls, EtherPanel, VlanPanel, VlanInnerPanel, MplsPanel, MplsSecondPanel, MplsThirdPanel, Behind,
   LinkFields, Applies

LEMMA NetworkShown ==
  ASSUME NEW s \in Stream
  PROVE  NetworkControls(s) = NetworkFields(s)
BY DEF NetworkControls, ArpPanel, Ipv4AddressPanel, Ipv4ScalarPanel, Ipv6AddressPanel, Ipv6ScalarPanel, When, NetworkFields,
   Stream, Network

LEMMA VxlanShown ==
  ASSUME NEW s
  PROVE  VxlanVniPanel(s) \cup VxlanTtlPanel(s) \cup VxlanAddressPanel(s) \cup VxlanPortPanel(s) \cup Others
           = Applies(s, "vxlan_enabled", VxlanVniModes \cup VxlanPortModes \cup ByVersion(s.vxlan, VxlanInner4Modes, VxlanInner6Modes))
               \cup Others
<1>1. ByVersion(s.vxlan, VxlanInner4Modes, VxlanInner6Modes) = VxlanInnerModes(s)
  BY DEF ByVersion, VxlanInnerModes, Inner
<1> QED BY <1>1, OtherNames DEF VxlanVniPanel, VxlanTtlPanel, VxlanAddressPanel, VxlanPortPanel, Behind, Applies

GtpuSent(s) ==
  Given(HasGtpu(s),
    GtpuTeidModes \cup GtpuPortModes \cup ByVersion(s.gtpu, GtpuInner4Modes, GtpuInner6Modes)
      \cup Applies(s, "gtpu_sequence_enabled", {"gtpu_sequence"})
      \cup Applies(s, "gtpu_npdu_enabled", {"gtpu_npdu"})
      \cup Applies(s, "gtpu_extension_enabled", {"gtpu_extension_udp_port"}))

LEMMA GtpuShown ==
  ASSUME NEW s, Fit(s)
  PROVE  GtpuTeidPanel(s) \cup GtpuOptionPanel(s) \cup GtpuTtlPanel(s) \cup GtpuAddressPanel(s) \cup GtpuPortPanel(s) \cup Others
           = GtpuSent(s) \cup Others
<1> DEFINE O == Applies(s, "gtpu_sequence_enabled", {"gtpu_sequence"})
                  \cup Applies(s, "gtpu_npdu_enabled", {"gtpu_npdu"})
                  \cup Applies(s, "gtpu_extension_enabled", {"gtpu_extension_udp_port"})
           P == (GtpuOptionModes \cup GtpuFlags) \ GtpuLocked(s)
           N == GtpuInnerFields(s)
<1>1. P \cup Others = O \cup Others
  <2>1. GtpuOptionModes \ GtpuLocked(s) = O
    BY DEF GtpuOptionModes, GtpuLocked, When, Applies
  <2> HIDE DEF O
  <2> QED BY <2>1, OtherNames
<1>2. ByVersion(s.gtpu, GtpuInner4Modes, GtpuInner6Modes) = N
  BY DEF ByVersion, GtpuInnerFields, Inner
<1>3. HasGtpu(s) <=> IsOn(s, "gtpu_enabled")
  BY DEF HasGtpu, Fit, OneTunnel, Tunnel
<1>4. CASE IsOn(s, "gtpu_enabled")
  <2>1. GtpuSent(s) = GtpuTeidModes \cup GtpuPortModes \cup N \cup O
    <3> DEFINE M == ByVersion(s.gtpu, GtpuInner4Modes, GtpuInner6Modes)
    <3>1. GtpuSent(s) = GtpuTeidModes \cup GtpuPortModes \cup M \cup O
      BY <1>3, <1>4 DEF GtpuSent, Given
    <3> QED BY <1>2, <3>1
  <2>2. /\ GtpuTeidPanel(s) = GtpuTeidModes \cup {"gtpu_inner_ip_version"} /\ GtpuOptionPanel(s) = P
        /\ GtpuTtlPanel(s) = N \cap Ttls /\ GtpuAddressPanel(s) = N \ Ttls /\ GtpuPortPanel(s) = GtpuPortModes
    BY <1>4 DEF GtpuTeidPanel, GtpuOptionPanel, GtpuTtlPanel, GtpuAddressPanel, GtpuPortPanel, Behind
  <2> HIDE DEF N, P, O
  <2> QED BY <1>1, <2>1, <2>2, OtherNames
<1>5. CASE ~IsOn(s, "gtpu_enabled")
  <2>1. GtpuSent(s) = {}
    BY <1>3, <1>5 DEF GtpuSent, Given
  <2>2. /\ GtpuTeidPanel(s) = {} /\ GtpuOptionPanel(s) = {} /\ GtpuTtlPanel(s) = {} /\ GtpuAddressPanel(s) = {}
        /\ GtpuPortPanel(s) = {}
    BY <1>5 DEF GtpuTeidPanel, GtpuOptionPanel, GtpuTtlPanel, GtpuAddressPanel, GtpuPortPanel, Behind
  <2> QED BY <2>1, <2>2
<1> QED BY <1>4, <1>5

GreSent(s) ==
  Given(s.l4 = "GRE",
    GrePortModes \cup ByVersion(GreInnerVersion(s), GreInner4Modes, GreInner6Modes)
      \cup Applies(s, "gre_key_present", {"gre_key"})
      \cup Applies(s, "gre_sequence_present", {"gre_sequence"}))

\* The panel goes by the version that was chosen, the server by the protocol type too.
LEMMA GreShown ==
  ASSUME NEW s \in Stream, Tidy(s)
  PROVE  /\ GreOptionPanel(s) \cup GreInner6Panel(s) \cup GreInner4Panel(s) \cup GrePortPanel(s) \subseteq GreModes \cup Others
         /\ \A f \in GreModes \cap s.vary :
              f \notin Overruled(s) =>
                (f \in GreOptionPanel(s) \cup GreInner6Panel(s) \cup GreInner4Panel(s) \cup GrePortPanel(s) <=> f \in GreSent(s))
<1> DEFINE O == Applies(s, "gre_key_present", {"gre_key"}) \cup Applies(s, "gre_sequence_present", {"gre_sequence"})
           P == (GreOptionModes \cup GreFlags \cup {"gre_inner_ip_version"}) \ GreLocked(s)
           N == ByVersion(GreInnerVersion(s), GreInner4Modes, GreInner6Modes)
           M == GreInner6Panel(s) \cup GreInner4Panel(s)
<1>1. P \cup Others = O \cup Others
  <2>1. GreOptionModes \ GreLocked(s) = O
    BY DEF GreOptionModes, GreLocked, When, Applies
  <2> HIDE DEF O
  <2> QED BY <2>1, OtherNames
<1>2. GreOptionModes \cup GreInner6Modes \cup GreInner4Modes \cup GrePortModes = GreModes
  BY DEF GreModes, GreInnerModes
<1>3. M \subseteq GreModes
  BY <1>2 DEF GreInner6Panel, GreInner4Panel, When
<1>4. O \subseteq GreModes
  BY <1>2 DEF Applies, GreOptionModes
<1>5. GreModes \cap Others = {}
  BY OthersApart DEF TunnelModes
<1>6. CASE s.l4 = "GRE"
  <2>1. GreOptionPanel(s) = P /\ GrePortPanel(s) = GrePortModes
    BY <1>6 DEF GreOptionPanel, GrePortPanel, When
  <2>2. GreSent(s) = GrePortModes \cup N \cup O
    BY <1>6 DEF GreSent, Given
  <2>3. \A f \in s.vary : f \notin Overruled(s) => (f \in M <=> f \in N)
    <3>1. GreInnerVersion(s) \in Versions /\ s.gre \in Versions /\ (s.gre = "IPv6" => GreInnerVersion(s) = "IPv6")
      BY DEF GreInnerVersion, Stream, Versions
    <3>2. M = IF s.gre = "IPv6" THEN GreInner6Modes ELSE GreInner4Modes
      BY <1>6, <3>1 DEF GreInner6Panel, GreInner4Panel, When, Versions
    <3>3. N = IF GreInnerVersion(s) = "IPv6" THEN GreInner6Modes ELSE GreInner4Modes
      BY DEF ByVersion
    <3> HIDE DEF M, N
    <3>4. CASE s.gre = GreInnerVersion(s)
      BY <3>2, <3>3, <3>4
    <3>5. CASE s.gre # GreInnerVersion(s)
      <4>1. s.gre = "IPv4" /\ GreInnerVersion(s) = "IPv6"
        BY <3>1, <3>5 DEF Versions
      <4>2. M = GreInner4Modes /\ N = GreInner6Modes
        BY <3>2, <3>3, <4>1
      <4>3. GreInner4Modes \subseteq Overruled(s)
        BY <1>6, <3>5 DEF Overruled, When
      <4>4. GreInner6Modes \cap s.vary = {}
        BY <4>1 DEF Tidy, Varies
      <4> QED BY <4>2, <4>3, <4>4
    <3> QED BY <3>4, <3>5
  <2> HIDE DEF M, N, P, O
  <2>4. GreOptionPanel(s) \cup GreInner6Panel(s) \cup GreInner4Panel(s) \cup GrePortPanel(s) = P \cup M \cup GrePortModes
    BY <2>1 DEF M
  <2>5. P \subseteq GreModes \cup Others
    BY <1>1, <1>4
  <2>6. \A f \in GreModes : f \in P <=> f \in O
    BY <1>1, <1>5
  <2>7. \A f \in GreModes \cap s.vary :
          f \notin Overruled(s) => (f \in P \cup M \cup GrePortModes <=> f \in GrePortModes \cup N \cup O)
    BY <2>3, <2>6
  <2> QED BY <1>2, <1>3, <2>2, <2>4, <2>5, <2>7
<1>7. CASE s.l4 # "GRE"
  <2>1. GreOptionPanel(s) = {} /\ GreInner6Panel(s) = {} /\ GreInner4Panel(s) = {} /\ GrePortPanel(s) = {}
    BY <1>7 DEF GreOptionPanel, GreInner6Panel, GreInner4Panel, GrePortPanel, When
  <2>2. GreSent(s) = {}
    BY <1>7 DEF GreSent, Given
  <2> QED BY <2>1, <2>2
<1> QED BY <1>6, <1>7

\* A field of a tunnel that varies is shown if, and only if, it is sent, but for what is overruled.
LEMMA TunnelShown ==
  ASSUME NEW s, Fit(s), Tidy(s)
  PROVE  /\ TunnelControls(s) \subseteq TunnelModes \cup Others
         /\ \A f \in TunnelModes \cap s.vary : f \notin Overruled(s) => (f \in TunnelControls(s) <=> f \in TunnelFields(s))
<1> DEFINE V == VxlanVniPanel(s) \cup VxlanTtlPanel(s) \cup VxlanAddressPanel(s) \cup VxlanPortPanel(s)
           VF == Applies(s, "vxlan_enabled", VxlanVniModes \cup VxlanPortModes \cup ByVersion(s.vxlan, VxlanInner4Modes, VxlanInner6Modes))
           G == GtpuTeidPanel(s) \cup GtpuOptionPanel(s) \cup GtpuTtlPanel(s) \cup GtpuAddressPanel(s) \cup GtpuPortPanel(s)
           R == GreOptionPanel(s) \cup GreInner6Panel(s) \cup GreInner4Panel(s) \cup GrePortPanel(s)
<1>0. s \in Stream
  BY DEF Fit
<1>1. TunnelControls(s) = V \cup G \cup R
  BY DEF TunnelControls
<1>2. TunnelFields(s) = VF \cup GtpuSent(s) \cup GreSent(s)
  BY DEF TunnelFields, GtpuSent, GreSent
<1>3. V \cup Others = VF \cup Others /\ G \cup Others = GtpuSent(s) \cup Others
  BY VxlanShown, GtpuShown
<1>4. /\ R \subseteq GreModes \cup Others
      /\ \A f \in GreModes \cap s.vary : f \notin Overruled(s) => (f \in R <=> f \in GreSent(s))
  BY <1>0, GreShown
<1> HIDE DEF V, VF, G, R
<1>5. TunnelFields(s) \subseteq TunnelModes /\ TunnelModes \cap Others = {} /\ GreModes \subseteq TunnelModes
  BY <1>0, LayerFields, OthersApart DEF TunnelModes
<1>6. GreSent(s) \subseteq GreModes
  BY DEF GreSent, Given, Applies, ByVersion, GreModes, GreInnerModes, GreOptionModes
<1>7. \A f \in TunnelModes : (f \in V <=> f \in VF) /\ (f \in G <=> f \in GtpuSent(s))
  BY <1>3, <1>5
<1>8. \A f \in TunnelModes \cap s.vary : f \notin Overruled(s) => (f \in R <=> f \in GreSent(s))
  BY <1>4, <1>5, <1>6
<1>9. TunnelControls(s) \subseteq TunnelModes \cup Others
  BY <1>1, <1>2, <1>3, <1>4, <1>5
<1>10. \A f \in TunnelModes \cap s.vary : f \notin Overruled(s) => (f \in TunnelControls(s) <=> f \in TunnelFields(s))
  BY <1>1, <1>2, <1>7, <1>8
<1> QED BY <1>9, <1>10

\* What is shown of each kind of transport field.
LEMMA TransportShown ==
  ASSUME NEW s, Fit(s), Tidy(s), validateWorkbenchStream(s)
  PROVE  /\ TransportControls(s) \subseteq TransportModes \cup Others
         /\ \A f \in TransportModes \cap s.vary : f \in TransportControls(s) <=> f \in TransportFields(s)
<1> DEFINE X == TransportControls(s)
           Y == TransportFields(s)
<1>0. s \in Stream
  BY DEF Fit
<1>1. /\ TransportModes \cap Others = {}
      /\ TransportModes = L4PortModes \cup UdpModes \cup DnsModes \cup DhcpModes \cup SctpModes \cup TcpCoreModes
                            \cup TcpOptionModes \cup IcmpModes
  BY OthersApart DEF TransportModes
<1>2. /\ L4PortPanel(s) \subseteq L4PortModes \cup Others /\ UdpPanel(s) \subseteq UdpModes \cup Others
      /\ DnsControls(s) \subseteq DnsModes \cup Others /\ DhcpControls(s) \subseteq DhcpModes \cup Others
  <2>1. L4PortPanel(s) \subseteq L4PortModes \cup Others
    BY OtherNames DEF L4PortPanel, When
  <2>2. UdpPanel(s) \subseteq UdpModes \cup Others
    BY OtherNames DEF UdpPanel, When
  <2>3. DnsControls(s) \subseteq DnsModes \cup Others
    BY OtherNames DEF DnsControls, DnsQueryPanel, DnsAnswerPanel, When, Behind, DnsModes
  <2>4. DhcpControls(s) \subseteq DhcpModes \cup Others
    BY OtherNames DEF DhcpControls, DhcpBootpPanel, DhcpAddressPanel, DhcpTimerPanel, DhcpOptionAddressPanel, When, Behind,
       DhcpModes, DhcpOptionModes
  <2> QED BY <2>1, <2>2, <2>3, <2>4
<1>3. /\ SctpControls(s) \subseteq SctpModes \cup Others /\ TcpCoreControls(s) \subseteq TcpCoreModes \cup Others
      /\ TcpOptionControls(s) \subseteq TcpOptionModes \cup Others /\ IcmpControls(s) \subseteq IcmpModes \cup Others
  <2>1. SctpControls(s) \subseteq SctpModes \cup Others
    <3>1. SctpCommonModes \subseteq SctpModes
      BY DEF SctpCommonModes, SctpModes
    <3> QED BY <3>1, OtherNames DEF SctpControls, SctpCommonPanel, SctpDataPanel, When
  <2>2. TcpCoreControls(s) \subseteq TcpCoreModes \cup Others
    <3>1. TcpNumberModes \cup TcpFlagModes \cup {"tcp_checksum"} \subseteq TcpCoreModes
      BY DEF TcpNumberModes, TcpFlagModes, TcpCoreModes
    <3> QED BY <3>1, OtherNames DEF TcpCoreControls, TcpNumberPanel, TcpChecksumPanel, TcpFlagsPanel, When, Behind
  <2>3. TcpOptionControls(s) \subseteq TcpOptionModes \cup Others
    <3>1. TcpOptionControls(s) \subseteq TcpOptionModes \cup TcpOptionFlags
      BY DEF TcpOptionControls, TcpSegmentPanel, TcpSegmentModes, TcpSackPanel, TcpTimestampPanel, When, TcpOptionModes, TcpOptionFlags
    <3> QED BY <3>1, OtherNames
  <2>4. IcmpControls(s) \subseteq IcmpModes \cup Others
    <3>1. IcmpControls(s) \subseteq IcmpModes \cup {"icmp_type_value", "icmp_checksum_override"}
      BY DEF IcmpControls, IcmpTypePanel, IcmpEchoPanel, When, IcmpModes
    <3> QED BY <3>1, OtherNames
  <2> QED BY <2>1, <2>2, <2>3, <2>4
<1>4. X = L4PortPanel(s) \cup UdpPanel(s) \cup DnsControls(s) \cup DhcpControls(s) \cup SctpControls(s) \cup TcpCoreControls(s)
            \cup TcpOptionControls(s) \cup IcmpControls(s)
  BY DEF TransportControls
<1> DEFINE P == L4PortPanel(s)
           U == UdpPanel(s)
           D == DnsControls(s)
           H == DhcpControls(s)
           S == SctpControls(s)
           C == TcpCoreControls(s)
           O == TcpOptionControls(s)
           I == IcmpControls(s)
<1>5. /\ \A f \in L4PortModes : f \in X <=> f \in P
      /\ \A f \in UdpModes : f \in X <=> f \in U
      /\ \A f \in DnsModes : f \in X <=> f \in D
      /\ \A f \in DhcpModes : f \in X <=> f \in H
      /\ \A f \in SctpModes : f \in X <=> f \in S
      /\ \A f \in TcpCoreModes : f \in X <=> f \in C
      /\ \A f \in TcpOptionModes : f \in X <=> f \in O
      /\ \A f \in IcmpModes : f \in X <=> f \in I
  <2> HIDE DEF X, P, U, D, H, S, C, O, I
  <2>1. X = P \cup U \cup D \cup H \cup S \cup C \cup O \cup I
    BY <1>4 DEF P, U, D, H, S, C, O, I
  <2>2. /\ P \subseteq L4PortModes \cup Others /\ U \subseteq UdpModes \cup Others /\ D \subseteq DnsModes \cup Others
        /\ H \subseteq DhcpModes \cup Others
    BY <1>2 DEF P, U, D, H
  <2>3. /\ S \subseteq SctpModes \cup Others /\ C \subseteq TcpCoreModes \cup Others
        /\ O \subseteq TcpOptionModes \cup Others /\ I \subseteq IcmpModes \cup Others
    BY <1>3 DEF S, C, O, I
  <2>4. /\ L4PortModes \cap Others = {} /\ UdpModes \cap Others = {} /\ DnsModes \cap Others = {}
        /\ DhcpModes \cap Others = {} /\ SctpModes \cap Others = {} /\ TcpCoreModes \cap Others = {}
        /\ TcpOptionModes \cap Others = {} /\ IcmpModes \cap Others = {}
    BY <1>1
  <2>5. (\A f \in L4PortModes : f \in X <=> f \in P) /\ (\A f \in UdpModes : f \in X <=> f \in U)
    BY <2>1, <2>2, <2>3, <2>4, TransportApart
  <2>6. (\A f \in DnsModes : f \in X <=> f \in D) /\ (\A f \in DhcpModes : f \in X <=> f \in H)
    BY <2>1, <2>2, <2>3, <2>4, TransportApart
  <2>7. (\A f \in SctpModes : f \in X <=> f \in S) /\ (\A f \in TcpCoreModes : f \in X <=> f \in C)
    BY <2>1, <2>2, <2>3, <2>4, TransportApart
  <2>8. (\A f \in TcpOptionModes : f \in X <=> f \in O) /\ (\A f \in IcmpModes : f \in X <=> f \in I)
    BY <2>1, <2>2, <2>3, <2>4, TransportApart
  <2> QED BY <2>5, <2>6, <2>7, <2>8
<1> HIDE DEF X, Y
<1>6. \A f \in L4PortModes \cap s.vary : f \in P <=> f \in Y
  <2>1. \A f \in L4PortModes :
          f \in Y <=> HasPorts(s) /\ IsOn(s, IF f = "l4_src_port" THEN "l4_src_port_override" ELSE "l4_dst_port_override")
    BY <1>0, TransportSent DEF Y
  <2>2. \A f \in L4PortModes :
          f \in P <=> /\ HasPorts(s) /\ ~Tunnel(s)
                      /\ IsOn(s, IF f = "l4_src_port" THEN "l4_src_port_override" ELSE "l4_dst_port_override")
    BY DEF L4PortPanel, L4PortLocked, When
  <2>3. Tunnel(s) => L4PortModes \cap s.vary = {}
    BY DEF Fit, OneTunnel, Varies
  <2> HIDE DEF P
  <2> QED BY <2>1, <2>2, <2>3
<1>7. \A f \in UdpModes \cap s.vary : f \in U <=> f \in Y
  <2>1. \A f \in UdpModes :
          f \in Y <=> s.l4 = "UDP" /\ IsOn(s, IF f = "udp_length" THEN "udp_length_override" ELSE "udp_checksum_override")
    BY <1>0, TransportSent DEF Y
  <2>2. \A f \in UdpModes :
          f \in U <=> /\ s.l4 = "UDP" /\ ~Tunnel(s)
                      /\ IsOn(s, IF f = "udp_length" THEN "udp_length_override" ELSE "udp_checksum_override")
    BY DEF UdpPanel, UdpLocked, UdpModes, When, Tunnel
  <2>3. Tunnel(s) => UdpModes \cap s.vary = {}
    BY DEF Tidy, Varies
  <2> HIDE DEF U
  <2> QED BY <2>1, <2>2, <2>3
<1>8. \A f \in DnsModes : f \in D <=> f \in Y
  <2>1. \A f \in DnsModes : f \in Y <=> HasDns(s) /\ (f \in DnsAnswerModes => IsOn(s, "dns_answer_enabled"))
    BY <1>0, TransportSent DEF Y
  <2>2. HasDns(s) <=> s.l4 = "UDP" /\ IsOn(s, "dns_enabled")
    BY MessageShape DEF HasDns, Message
  <2>3. \A f \in DnsModes : f \in D <=> /\ s.l4 = "UDP" /\ IsOn(s, "dns_enabled")
                                        /\ f \in DnsAnswerModes => IsOn(s, "dns_answer_enabled")
    BY DEF DnsControls, DnsQueryPanel, DnsAnswerPanel, When, Behind, DnsModes, DnsQueryModes, DnsAnswerModes
  <2> HIDE DEF D
  <2> QED BY <2>1, <2>2, <2>3
<1>9. \A f \in DhcpModes : f \in H <=> f \in Y
  <2>1. \A f \in DhcpModes : f \in Y <=> HasDhcp(s) /\ (f \in DhcpOptionModes => IsOn(s, "dhcp_option_values"))
    BY <1>0, TransportSent DEF Y
  <2>2. HasDhcp(s) <=> s.l4 = "UDP" /\ IsOn(s, "dhcp_enabled")
    BY MessageShape DEF HasDhcp, Message
  <2>3. \A f \in DhcpModes : f \in H <=> /\ s.l4 = "UDP" /\ IsOn(s, "dhcp_enabled")
                                         /\ f \in DhcpOptionModes => IsOn(s, "dhcp_option_values")
    <3>1. DhcpModes \cap {"dhcp_enabled", "dhcp_option_values"} = {}
      <4>1. DhcpModes \subseteq TransportModes /\ {"dhcp_enabled", "dhcp_option_values"} \subseteq Others
        BY OtherNames DEF TransportModes
      <4> QED BY <1>1, <4>1
    <3>2. (DhcpBootpModes \cup DhcpAddressModes) \cap DhcpOptionModes = {}
      BY DEF DhcpBootpModes, DhcpAddressModes, DhcpOptionModes, DhcpTimerModes, DhcpOptionAddressModes
    <3>3. DhcpModes = DhcpBootpModes \cup DhcpAddressModes \cup DhcpOptionModes /\ DhcpOptionModes = DhcpTimerModes \cup DhcpOptionAddressModes
      BY DEF DhcpModes, DhcpOptionModes
    <3> QED BY <3>1, <3>2, <3>3 DEF DhcpControls, DhcpBootpPanel, DhcpAddressPanel, DhcpTimerPanel, DhcpOptionAddressPanel, When, Behind
  <2> HIDE DEF H
  <2> QED BY <2>1, <2>2, <2>3
<1>10. \A f \in SctpModes : f \in S <=> f \in Y
  <2>1. \A f \in SctpModes : f \in Y <=> s.l4 = "SCTP"
    BY <1>0, TransportSent DEF Y
  <2>2. \A f \in SctpModes : f \in S <=> s.l4 = "SCTP"
    BY DEF SctpControls, SctpCommonPanel, SctpDataPanel, SctpLocked, When, SctpModes, SctpCommonModes
  <2> HIDE DEF S
  <2> QED BY <2>1, <2>2
<1>11. \A f \in TcpCoreModes : f \in C <=> f \in Y
  <2>1. \A f \in TcpCoreModes : f \in Y <=> s.l4 = "TCP" /\ (f = "tcp_checksum" => IsOn(s, "tcp_checksum_override"))
    BY <1>0, TransportSent DEF Y
  <2>2. \A f \in TcpCoreModes : f \in C <=> s.l4 = "TCP" /\ (f = "tcp_checksum" => IsOn(s, "tcp_checksum_override"))
    BY DEF TcpCoreControls, TcpNumberPanel, TcpChecksumPanel, TcpFlagsPanel, TcpNumberModes, TcpFlagModes, When, Behind, TcpCoreModes
  <2> HIDE DEF C
  <2> QED BY <2>1, <2>2
<1>12. \A f \in TcpOptionModes : f \in O <=> f \in Y
  <2>1. \A f \in TcpOptionModes : f \in Y <=> s.l4 = "TCP" /\ f \in TcpOptionFields(s)
    BY <1>0, TransportSent DEF Y
  <2>2. \A f \in TcpOptionModes : f \in O <=> s.l4 = "TCP" /\ f \in TcpOptionFields(s)
    BY DEF TcpOptionControls, TcpSegmentPanel, TcpSegmentModes, TcpSackPanel, TcpTimestampPanel, TcpOptionLocked, When,
       TcpOptionModes, TcpOptionFields, Applies
  <2> HIDE DEF O
  <2> QED BY <2>1, <2>2
<1>13. \A f \in IcmpModes : f \in I <=> f \in Y
  <2>1. \A f \in IcmpModes : f \in Y <=> Icmpv6Echo(s)
    BY <1>0, TransportSent DEF Y
  <2>2. Icmpv6Echo(s) => s.l4 = "ICMP" /\ ~Icmpv6Control(s)
    BY DEF Icmpv6Echo, Icmpv6Control, Icmpv6, IcmpControl
  <2>3. \A f \in IcmpModes : f \in I <=> Icmpv6Echo(s)
    BY <2>2 DEF IcmpControls, IcmpTypePanel, IcmpEchoPanel, IcmpLocked, When, IcmpModes
  <2> HIDE DEF I
  <2> QED BY <2>1, <2>3
<1> HIDE DEF P, U, D, H, S, C, O, I
<1>14. \A f \in TransportModes \cap s.vary : f \in X <=> f \in Y
  BY <1>1, <1>5, <1>6, <1>7, <1>8, <1>9, <1>10, <1>11, <1>12, <1>13
<1>15. X \subseteq TransportModes \cup Others
  <2>1. /\ P \subseteq L4PortModes \cup Others /\ U \subseteq UdpModes \cup Others /\ D \subseteq DnsModes \cup Others
        /\ H \subseteq DhcpModes \cup Others
    BY <1>2 DEF P, U, D, H
  <2>2. /\ S \subseteq SctpModes \cup Others /\ C \subseteq TcpCoreModes \cup Others
        /\ O \subseteq TcpOptionModes \cup Others /\ I \subseteq IcmpModes \cup Others
    BY <1>3 DEF S, C, O, I
  <2>3. X = P \cup U \cup D \cup H \cup S \cup C \cup O \cup I
    BY <1>4 DEF P, U, D, H, S, C, O, I
  <2> QED BY <1>1, <2>1, <2>2, <2>3
<1> QED BY <1>14, <1>15 DEF X, Y

\* Of the fields that vary, those shown are those sent, but for what is overruled.
LEMMA ShownIsSent ==
  ASSUME NEW s, Fit(s), Tidy(s), validateWorkbenchStream(s), NEW f \in s.vary, f \notin Overruled(s)
  PROVE  f \in Controls(s) <=> f \in Fields(s)
<1> DEFINE L == LinkControls(s)
           N == NetworkControls(s)
           T == TunnelControls(s)
           R == TransportControls(s)
<1>0. s \in Stream /\ f \in Modes
  BY DEF Fit, Stream
<1>1. Controls(s) = L \cup N \cup T \cup R
  BY DEF Controls, LinkControls, NetworkControls, TunnelControls, TransportControls, DnsControls, DhcpControls, SctpControls,
     TcpCoreControls, TcpOptionControls, IcmpControls
<1>2. L \cup Others = LinkFields(s) \cup Others /\ N = NetworkFields(s)
  BY <1>0, LinkShown, NetworkShown
<1>3. L \subseteq LinkModes \cup Others /\ N \subseteq NetworkModes
  BY <1>0, <1>2, LayerFields
<1>4. T \subseteq TunnelModes \cup Others /\ (f \in TunnelModes => (f \in T <=> f \in TunnelFields(s)))
  BY TunnelShown
<1>5. R \subseteq TransportModes \cup Others /\ (f \in TransportModes => (f \in R <=> f \in TransportFields(s)))
  BY TransportShown
<1>6. f \in LinkModes \cup NetworkModes \cup TunnelModes \cup TransportModes
  BY <1>0 DEF Modes, LinkModes, NetworkModes, TunnelModes, TransportModes
<1> HIDE DEF L, N, T, R
<1>7. f \notin Others
  BY <1>6, OthersApart
<1>8. CASE f \in LinkModes
  <2>1. f \in Fields(s) <=> f \in LinkFields(s)
    BY <1>0, <1>8, LayerFields, Layers DEF Fields
  <2>2. f \in Controls(s) <=> f \in L
    BY <1>1, <1>3, <1>4, <1>5, <1>7, <1>8, Layers
  <2> QED BY <1>2, <1>7, <2>1, <2>2
<1>9. CASE f \in NetworkModes
  <2>1. f \in Fields(s) <=> f \in NetworkFields(s)
    BY <1>0, <1>9, LayerFields, Layers DEF Fields
  <2>2. f \in Controls(s) <=> f \in N
    BY <1>1, <1>3, <1>4, <1>5, <1>7, <1>9, Layers
  <2> QED BY <1>2, <2>1, <2>2
<1>10. CASE f \in TunnelModes
  <2>1. f \in Fields(s) <=> f \in TunnelFields(s)
    BY <1>0, <1>10, LayerFields, Layers DEF Fields
  <2>2. f \in Controls(s) <=> f \in T
    BY <1>1, <1>3, <1>4, <1>5, <1>7, <1>10, Layers
  <2> QED BY <1>4, <1>10, <2>1, <2>2
<1>11. CASE f \in TransportModes
  <2>1. f \in Fields(s) <=> f \in TransportFields(s)
    BY <1>0, <1>11, LayerFields, Layers DEF Fields
  <2>2. f \in Controls(s) <=> f \in R
    BY <1>1, <1>3, <1>4, <1>5, <1>7, <1>11, Layers
  <2> QED BY <1>5, <1>11, <2>1, <2>2
<1> QED BY <1>6, <1>8, <1>9, <1>10, <1>11

\* The fields of a message vary in what the server has if, and only if, they are seen to.
LEMMA MessageVaries ==
  ASSUME NEW s, Fit(s), Tidy(s), validateWorkbenchStream(s), NEW u, NEW overrides, NEW fields,
         Carries(s, u, overrides, fields)
  PROVE  /\ IsOn(s, "dns_enabled") /\ Varies(u, DnsModes) /\ (IsOn(s, "dns_answer_enabled") \/ ~Varies(u, DnsAnswerModes)) =>
              Spoken(s)
         /\ IsOn(s, "dhcp_enabled") /\ Varies(u, DhcpModes) /\ (IsOn(s, "dhcp_option_values") \/ ~Varies(u, DhcpOptionModes)) =>
              Spoken(s)
         /\ Spoken(s) /\ IsOn(s, "dns_enabled") => Varies(u, DnsModes)
         /\ Spoken(s) /\ IsOn(s, "dhcp_enabled") => Varies(u, DhcpModes)
<1>0. s \in Stream /\ u.vary \subseteq s.vary
  BY DEF Fit, Carries
<1>1. TransportControls(s) \subseteq Controls(s)
  BY DEF Controls, TransportControls, DnsControls, DhcpControls, SctpControls, TcpCoreControls, TcpOptionControls, IcmpControls
<1>2. DnsModes \subseteq TransportModes /\ DhcpModes \subseteq TransportModes /\ DnsModes \cap DhcpModes = {}
  BY TransportApart DEF TransportModes
<1>3. /\ IsOn(s, "dns_enabled") => HasDns(s)
      /\ IsOn(s, "dhcp_enabled") => HasDhcp(s) /\ ~IsOn(s, "dns_enabled")
  BY MessageShape DEF HasDns, HasDhcp, Message
<1>4. ASSUME IsOn(s, "dns_enabled"), Varies(u, DnsModes), IsOn(s, "dns_answer_enabled") \/ ~Varies(u, DnsAnswerModes)
      PROVE  Spoken(s)
  <2>1. PICK f \in u.vary \cap DnsModes : TRUE
    BY <1>4 DEF Varies
  <2>2. f \in DnsAnswerModes => IsOn(s, "dns_answer_enabled")
    BY <1>4, <2>1 DEF Varies
  <2>3. f \in TransportFields(s)
    BY <1>0, <1>3, <1>4, <2>1, <2>2, TransportSent
  <2>4. f \in TransportControls(s)
    BY <1>0, <1>2, <2>1, <2>3, TransportShown
  <2>5. f \in Seen(s)
    BY <1>0, <1>1, <2>1, <2>4 DEF Seen
  <2> QED BY <1>4, <2>1, <2>5 DEF Spoken, Message
<1>5. ASSUME IsOn(s, "dhcp_enabled"), Varies(u, DhcpModes), IsOn(s, "dhcp_option_values") \/ ~Varies(u, DhcpOptionModes)
      PROVE  Spoken(s)
  <2>1. PICK f \in u.vary \cap DhcpModes : TRUE
    BY <1>5 DEF Varies
  <2>2. f \in DhcpOptionModes => IsOn(s, "dhcp_option_values")
    BY <1>5, <2>1 DEF Varies
  <2>3. f \in TransportFields(s)
    BY <1>0, <1>3, <1>5, <2>1, <2>2, TransportSent
  <2>4. f \in TransportControls(s)
    BY <1>0, <1>2, <2>1, <2>3, TransportShown
  <2>5. f \in Seen(s)
    BY <1>0, <1>1, <2>1, <2>4 DEF Seen
  <2> QED BY <1>5, <2>1, <2>5 DEF Spoken, Message
\* What is seen is sent, so it is not among what the server has fixed so far.
<1>6. ASSUME Spoken(s)
      PROVE  \E f \in u.vary \cap (DnsModes \cup DhcpModes) : f \in TransportFields(s)
  <2>1. PICK f \in Seen(s) \cap (DnsModes \cup DhcpModes) : TRUE
    BY <1>6 DEF Spoken
  <2>2. f \in s.vary /\ f \in Controls(s)
    BY <2>1 DEF Seen
  <2>3. f \notin Overruled(s)
    <3>1. f \in TransportModes /\ f \notin UdpModes
      BY <1>2, <2>1, TransportApart
    <3>2. f \notin GreInner4Modes
      BY <3>1, Layers DEF TunnelModes, GreModes, GreInnerModes
    <3>3. f # "ipv6_hop_limit"
      <4>1. "ipv6_hop_limit" \in NetworkModes
        BY DEF NetworkModes, Ipv6ScalarModes
      <4> QED BY <3>1, <4>1, Layers
    <3>4. f # "udp_length" /\ f # "udp_checksum"
      BY <3>1 DEF UdpModes
    <3> QED BY <3>2, <3>3, <3>4 DEF Overruled, When
  <2>4. f \in Fields(s)
    BY <2>2, <2>3, ShownIsSent
  <2>5. f \in u.vary
    BY <2>2, <2>3, <2>4 DEF Carries, Free
  <2>6. f \in TransportFields(s)
    <3>1. f \in TransportModes
      BY <1>2, <2>1
    <3> QED BY <1>0, <2>4, <3>1, LayerFields, Layers DEF Fields
  <2> QED BY <2>1, <2>5, <2>6
<1>7. ASSUME Spoken(s), IsOn(s, "dns_enabled") PROVE Varies(u, DnsModes)
  <2>1. PICK f \in u.vary \cap (DnsModes \cup DhcpModes) : f \in TransportFields(s)
    BY <1>6, <1>7
  <2>2. ~HasDhcp(s)
    BY <1>3, <1>7 DEF HasDhcp
  <2>3. f \notin DhcpModes
    BY <1>0, <2>1, <2>2, TransportSent
  <2> QED BY <2>1, <2>3 DEF Varies
<1>8. ASSUME Spoken(s), IsOn(s, "dhcp_enabled") PROVE Varies(u, DhcpModes)
  <2>1. PICK f \in u.vary \cap (DnsModes \cup DhcpModes) : f \in TransportFields(s)
    BY <1>6, <1>8
  <2>2. ~HasDns(s)
    BY <1>3, <1>8 DEF HasDns
  <2>3. f \notin DnsModes
    BY <1>0, <2>1, <2>2, TransportSent
  <2> QED BY <2>1, <2>3 DEF Varies
<1> QED BY <1>4, <1>5, <1>7, <1>8

\* The overrides of the length and of the checksum that a message does away with.
Plainer(s, u, flag) ==
  IsOn(s, flag) => ~IsOn(u, "udp_length_override") /\ (Spoken(s) => ~IsOn(u, "udp_checksum_override"))

LEMMA CarriesDns ==
  ASSUME NEW s, Fit(s), Tidy(s), validateWorkbenchStream(s), NEW t, NEW overrides, NEW fields,
         Carries(s, t, overrides, fields)
  PROVE  Carries(s, NormDns(t), overrides, fields) /\ Plainer(s, NormDns(t), "dns_enabled")
<1>0. s \in Stream /\ t \in Stream /\ IsOn(t, "dns_enabled") = IsOn(s, "dns_enabled")
  BY StillOn DEF Fit, Carries
<1>1. CASE ~IsOn(s, "dns_enabled")
  BY <1>0, <1>1 DEF NormDns, Plainer
<1>2. CASE IsOn(s, "dns_enabled")
  <2> DEFINE off == TurnOff(t, {"udp_length_override"})
             dns == TurnOn(off, {"payload_enabled"})
             answer == IF IsOn(t, "dns_answer_enabled") THEN dns ELSE Fix(dns, DnsAnswerModes)
             raised == Raised(answer)
             last == Unchecked(raised, DnsModes)
  <2>1. NormDns(t) = last
    BY <1>0, <1>2 DEF NormDns
  <2>2. IsOn(t, "dns_answer_enabled") = IsOn(s, "dns_answer_enabled")
    BY <1>0, <1>2, StillOn
  <2>3. "udp_length_override" \notin Held(s) /\ "udp_length_override" \notin PortFlags /\ "udp_checksum_override" \notin PortFlags
    BY <1>0, <1>2, NotHeld DEF Message, PortFlags
  <2>4. Carries(s, off, overrides, fields) /\ ~IsOn(off, "udp_length_override") /\ off \in Stream
    <3>1. Carries(s, off, overrides, fields)
      BY <1>0, <2>3, CarriesOff
    <3>2. off.on = t.on \ {"udp_length_override"}
      BY <1>0, Written
    <3> QED BY <3>1, <3>2 DEF Carries, IsOn
  <2> HIDE DEF off
  <2>5. Carries(s, dns, overrides, fields) /\ ~IsOn(dns, "udp_length_override") /\ dns \in Stream
    <3>1. Carries(s, dns, overrides, fields)
      BY <1>0, <2>4, CarriesOn
    <3>2. dns.on = off.on \cup {"payload_enabled"}
      BY <2>4 DEF TurnOn, Stream
    <3> QED BY <2>4, <3>1, <3>2 DEF Carries, IsOn
  <2> HIDE DEF dns
  <2>6. /\ Carries(s, answer, overrides, fields) /\ answer \in Stream /\ ~IsOn(answer, "udp_length_override")
        /\ IsOn(s, "dns_answer_enabled") \/ ~Varies(answer, DnsAnswerModes)
    <3>1. CASE IsOn(t, "dns_answer_enabled")
      BY <2>2, <2>5, <3>1
    <3>2. CASE ~IsOn(t, "dns_answer_enabled")
      <4>1. Free(s, DnsAnswerModes)
        BY <2>2, <3>2, FreeTransport
      <4>2. Carries(s, Fix(dns, DnsAnswerModes), overrides, fields)
        BY <1>0, <2>5, <4>1, CarriesSteps
      <4>3. Fix(dns, DnsAnswerModes).on = dns.on /\ Fix(dns, DnsAnswerModes).vary = dns.vary \ DnsAnswerModes
        BY <2>5, Written
      <4> QED BY <2>5, <3>2, <4>2, <4>3 DEF Carries, IsOn, Varies
    <3> QED BY <3>1, <3>2
  <2> HIDE DEF answer
  <2>7. /\ Carries(s, raised, overrides, fields) /\ raised \in Stream /\ ~IsOn(raised, "udp_length_override")
        /\ IsOn(s, "dns_answer_enabled") \/ ~Varies(raised, DnsAnswerModes)
    <3>1. Carries(s, raised, overrides, fields)
      BY <1>0, <2>6, CarriesSteps
    <3>2. raised.on = answer.on /\ raised.vary = answer.vary
      BY <2>6, RaisedWrites
    <3> QED BY <2>6, <3>1, <3>2 DEF Carries, IsOn, Varies
  <2> HIDE DEF raised
  <2>8. Varies(raised, DnsModes) => Spoken(s)
    BY <1>2, <2>7, MessageVaries
  <2>9. Spoken(s) => Varies(raised, DnsModes)
    BY <1>2, <2>7, MessageVaries
  <2> DEFINE bare == TurnOff(raised, {"udp_checksum_override"})
  <2>10. Spoken(s) => Carries(s, bare, overrides, fields)
    <3>1. Spoken(s) => "udp_checksum_override" \notin Held(s)
      BY <1>0, NotHeld
    <3> QED BY <1>0, <2>3, <2>7, <3>1, CarriesOff
  <2>11. ~IsOn(bare, "udp_length_override") /\ ~IsOn(bare, "udp_checksum_override")
    <3>1. bare.on = raised.on \ {"udp_checksum_override"}
      BY <2>7, Written
    <3> QED BY <2>7, <3>1 DEF IsOn
  <2>12. last = IF Varies(raised, DnsModes) THEN bare ELSE raised
    BY DEF Unchecked
  <2> HIDE DEF bare, last
  <2>13. Carries(s, last, overrides, fields)
    BY <2>7, <2>8, <2>10, <2>12
  <2>14. ~IsOn(last, "udp_length_override") /\ (Spoken(s) => ~IsOn(last, "udp_checksum_override"))
    BY <2>7, <2>9, <2>11, <2>12
  <2> QED BY <2>1, <2>13, <2>14 DEF Plainer
<1> QED BY <1>1, <1>2

LEMMA CarriesDhcp ==
  ASSUME NEW s, Fit(s), Tidy(s), validateWorkbenchStream(s), NEW t, NEW overrides, NEW fields,
         Carries(s, t, overrides, fields)
  PROVE  Carries(s, NormDhcp(t), overrides, fields) /\ Plainer(s, NormDhcp(t), "dhcp_enabled")
<1>0. s \in Stream /\ t \in Stream /\ IsOn(t, "dhcp_enabled") = IsOn(s, "dhcp_enabled")
  BY StillOn DEF Fit, Carries
<1>1. CASE ~IsOn(s, "dhcp_enabled")
  BY <1>0, <1>1 DEF NormDhcp, Plainer
<1>2. CASE IsOn(s, "dhcp_enabled")
  <2> DEFINE off == Drop(t, {"udp_length_override"}, {"udp_length"})
             O == {"payload_enabled", "l4_src_port_override", "l4_dst_port_override"}
             dhcp == TurnOn(off, O)
             options == IF IsOn(t, "dhcp_option_values") THEN dhcp ELSE Fix(dhcp, DhcpOptionModes)
             raised == Raised(options)
             last == Unchecked(raised, DhcpModes)
  <2>1. NormDhcp(t) = last
    BY <1>0, <1>2 DEF NormDhcp
  <2>2. IsOn(t, "dhcp_option_values") = IsOn(s, "dhcp_option_values")
    BY <1>0, StillOn
  <2>3. "udp_length_override" \notin Held(s) /\ "udp_length_override" \notin PortFlags /\ "udp_checksum_override" \notin PortFlags
    BY <1>0, <1>2, NotHeld DEF Message, PortFlags
  <2>4. Carries(s, off, overrides, fields) /\ ~IsOn(off, "udp_length_override") /\ off \in Stream
    <3>1. Free(s, {"udp_length"})
      BY <1>2, FreeTransport DEF Message
    <3>2. Carries(s, off, overrides, fields)
      BY <1>0, <2>3, <3>1, CarriesOff
    <3>3. off.on = t.on \ {"udp_length_override"}
      BY <1>0 DEF Drop, TurnOff, Fix, Stream
    <3> QED BY <3>2, <3>3 DEF Carries, IsOn
  <2> HIDE DEF off
  <2>5. Carries(s, dhcp, overrides, fields) /\ ~IsOn(dhcp, "udp_length_override") /\ dhcp \in Stream
    <3>1. Carries(s, dhcp, overrides, fields)
      BY <1>0, <2>4, CarriesOn
    <3>2. dhcp.on = off.on \cup O
      BY <2>4 DEF TurnOn, Stream
    <3> QED BY <2>4, <3>1, <3>2 DEF Carries, IsOn
  <2> HIDE DEF dhcp
  <2>6. /\ Carries(s, options, overrides, fields) /\ options \in Stream /\ ~IsOn(options, "udp_length_override")
        /\ IsOn(s, "dhcp_option_values") \/ ~Varies(options, DhcpOptionModes)
    <3>1. CASE IsOn(t, "dhcp_option_values")
      BY <2>2, <2>5, <3>1
    <3>2. CASE ~IsOn(t, "dhcp_option_values")
      <4>1. Free(s, DhcpOptionModes)
        BY <2>2, <3>2, FreeTransport
      <4>2. Carries(s, Fix(dhcp, DhcpOptionModes), overrides, fields)
        BY <1>0, <2>5, <4>1, CarriesSteps
      <4>3. Fix(dhcp, DhcpOptionModes).on = dhcp.on /\ Fix(dhcp, DhcpOptionModes).vary = dhcp.vary \ DhcpOptionModes
        BY <2>5, Written
      <4> QED BY <2>5, <3>2, <4>2, <4>3 DEF Carries, IsOn, Varies
    <3> QED BY <3>1, <3>2
  <2> HIDE DEF options
  <2>7. /\ Carries(s, raised, overrides, fields) /\ raised \in Stream /\ ~IsOn(raised, "udp_length_override")
        /\ IsOn(s, "dhcp_option_values") \/ ~Varies(raised, DhcpOptionModes)
    <3>1. Carries(s, raised, overrides, fields)
      BY <1>0, <2>6, CarriesSteps
    <3>2. raised.on = options.on /\ raised.vary = options.vary
      BY <2>6, RaisedWrites
    <3> QED BY <2>6, <3>1, <3>2 DEF Carries, IsOn, Varies
  <2> HIDE DEF raised
  <2>8. Varies(raised, DhcpModes) => Spoken(s)
    BY <1>2, <2>7, MessageVaries
  <2>9. Spoken(s) => Varies(raised, DhcpModes)
    BY <1>2, <2>7, MessageVaries
  <2> DEFINE bare == TurnOff(raised, {"udp_checksum_override"})
  <2>10. Spoken(s) => Carries(s, bare, overrides, fields)
    <3>1. Spoken(s) => "udp_checksum_override" \notin Held(s)
      BY <1>0, NotHeld
    <3> QED BY <1>0, <2>3, <2>7, <3>1, CarriesOff
  <2>11. ~IsOn(bare, "udp_length_override") /\ ~IsOn(bare, "udp_checksum_override")
    <3>1. bare.on = raised.on \ {"udp_checksum_override"}
      BY <2>7, Written
    <3> QED BY <2>7, <3>1 DEF IsOn
  <2>12. last = IF Varies(raised, DhcpModes) THEN bare ELSE raised
    BY DEF Unchecked
  <2> HIDE DEF bare, last
  <2>13. Carries(s, last, overrides, fields)
    BY <2>7, <2>8, <2>10, <2>12
  <2>14. ~IsOn(last, "udp_length_override") /\ (Spoken(s) => ~IsOn(last, "udp_checksum_override"))
    BY <2>7, <2>9, <2>11, <2>12
  <2> QED BY <2>1, <2>13, <2>14 DEF Plainer
<1> QED BY <1>1, <1>2

LEMMA CarriesTcp ==
  ASSUME NEW s, Fit(s), Tidy(s), NEW t, NEW overrides, NEW fields, Carries(s, t, overrides, fields)
  PROVE  Carries(s, NormTcp(t), overrides, fields)
<1>0. s \in Stream /\ t.l4 = s.l4
  BY DEF Fit, Carries
<1> DEFINE scale == Without(t, "tcp_option_window_scale_enabled", {"tcp_option_window_scale"})
           E == {"tcp_option_sack_left_edge", "tcp_option_sack_right_edge"}
           sack == Without(scale, "tcp_option_sack_blocks_enabled", E)
           T == {"tcp_option_timestamp_value", "tcp_option_timestamp_echo"}
           last == Without(sack, "tcp_option_timestamp_enabled", T)
<1>1. CASE s.l4 # "TCP"
  <2>1. NormTcp(t) = Drop(t, TcpOptionFlags, TcpOptionModes)
    BY <1>0, <1>1 DEF NormTcp
  <2>2. TcpOptionFlags \cap Held(s) \cap s.on = {} /\ TcpOptionFlags \cap PortFlags = {} /\ "gre_type_ipv6" \notin TcpOptionFlags
    <3>1. TcpOptionFlags \cap Held(s) = {}
      BY <1>0, <1>1, NotHeld
    <3> QED BY <3>1 DEF TcpOptionFlags, PortFlags
  <2>3. Free(s, TcpOptionModes)
    BY <1>1, FreeTransport
  <2>4. Carries(s, Drop(t, TcpOptionFlags, TcpOptionModes), overrides, fields)
    BY <1>0, <2>2, <2>3, CarriesSteps
  <2> QED BY <2>1, <2>4
<1>2. CASE s.l4 = "TCP"
  <2>1. ASSUME NEW u, Carries(s, u, overrides, fields), NEW flag \in TcpOptionFlags, NEW F, ~IsOn(s, flag) => Free(s, F)
        PROVE  Carries(s, Without(u, flag, F), overrides, fields)
    <3>1. IsOn(u, flag) = IsOn(s, flag)
      BY <1>0, <1>2, <2>1, StillOn
    <3>2. ~IsOn(u, flag) => Carries(s, Fix(u, F), overrides, fields)
      BY <1>0, <2>1, <3>1, CarriesSteps
    <3> QED BY <2>1, <3>2 DEF Without
  <2>2. {"tcp_option_window_scale_enabled", "tcp_option_sack_blocks_enabled", "tcp_option_timestamp_enabled"} \subseteq TcpOptionFlags
    BY DEF TcpOptionFlags
  <2>3. Carries(s, scale, overrides, fields)
    <3>1. ~IsOn(s, "tcp_option_window_scale_enabled") => Free(s, {"tcp_option_window_scale"})
      BY FreeTransport
    <3> QED BY <2>1, <2>2, <3>1
  <2> HIDE DEF scale
  <2>4. Carries(s, sack, overrides, fields)
    <3>1. ~IsOn(s, "tcp_option_sack_blocks_enabled") => Free(s, E)
      BY FreeTransport
    <3> HIDE DEF E
    <3> QED BY <2>1, <2>2, <2>3, <3>1
  <2> HIDE DEF sack
  <2>5. Carries(s, last, overrides, fields)
    <3>1. ~IsOn(s, "tcp_option_timestamp_enabled") => Free(s, T)
      BY FreeTransport
    <3> HIDE DEF T
    <3> QED BY <2>1, <2>2, <2>4, <3>1
  <2>6. NormTcp(t) = last
    BY <1>0, <1>2 DEF NormTcp, scale, sack
  <2> QED BY <2>5, <2>6
<1> QED BY <1>1, <1>2

LEMMA CarriesSctp ==
  ASSUME NEW s, Fit(s), Tidy(s), NEW t, NEW overrides, NEW fields, Carries(s, t, overrides, fields)
  PROVE  Carries(s, NormSctp(t), overrides, fields)
<1>0. s \in Stream /\ t.l4 = s.l4
  BY DEF Fit, Carries
<1> DEFINE zero == TurnOn(t, {"sctp_checksum_override", "sctp_zero"})
           none == Drop(t, {"sctp_checksum_override"}, SctpModes)
<1>1. Carries(s, zero, overrides, fields)
  BY <1>0, CarriesOn
<1>2. Carries(s, Raised(zero), overrides, fields)
  <2> HIDE DEF zero
  <2> QED BY <1>0, <1>1, CarriesSteps
<1>3. t.l4 # "SCTP" => Carries(s, none, overrides, fields)
  <2>1. t.l4 # "SCTP" => Free(s, SctpModes)
    BY <1>0, FreeTransport
  <2>2. "sctp_checksum_override" \notin Held(s) /\ "sctp_checksum_override" \notin PortFlags
    BY <1>0, NotHeld DEF PortFlags
  <2> QED BY <1>0, <2>1, <2>2, CarriesOff
<1>4. NormSctp(t) \in {zero, Raised(zero), t} \cup (IF t.l4 # "SCTP" THEN {none} ELSE {})
  BY DEF NormSctp
<1> HIDE DEF zero, none
<1> QED BY <1>1, <1>2, <1>3, <1>4

LEMMA CarriesIcmp ==
  ASSUME NEW s, Fit(s), Tidy(s), validateWorkbenchStream(s), NEW t, NEW overrides, NEW fields,
         Carries(s, t, overrides, fields)
  PROVE  /\ Carries(s, NormIcmp(t), overrides, fields)
         /\ Icmpv6Control(s) => "ipv6_hop_limit" \notin NormIcmp(t).vary
<1>0. /\ s \in Stream
      /\ Icmpv6(t) = Icmpv6(s) /\ Icmpv6Control(t) = Icmpv6Control(s) /\ Icmpv6Echo(t) = Icmpv6Echo(s)
  BY DEF Fit, Carries, Icmpv6, Icmpv6Control, Icmpv6Echo
<1> DEFINE C == {"icmp_checksum_override"}
           icmp == IF t.l4 = "ICMP" THEN t ELSE TurnOff(t, C)
           echo == IF Icmpv6Echo(t) THEN icmp ELSE Fix(icmp, IcmpModes)
           checked == IF Varies(echo, IcmpModes) THEN TurnOff(echo, C) ELSE echo
           fixed == FixLength(Fix(checked, Ipv6AddressModes))
           control == Raised(Fix(fixed, {"ipv6_hop_limit"}))
<1>1. ASSUME NEW u, Carries(s, u, overrides, fields) PROVE Carries(s, TurnOff(u, C), overrides, fields)
  <2>1. "icmp_checksum_override" \notin Held(s) /\ "icmp_checksum_override" \notin PortFlags
    BY <1>0, NotHeld DEF PortFlags
  <2> QED BY <1>0, <1>1, <2>1, CarriesOff
<1>2. NormIcmp(t) = CASE ~Icmpv6(t) -> checked [] Icmpv6(t) /\ Icmpv6Control(t) -> control [] OTHER -> fixed
  BY DEF NormIcmp
<1> HIDE DEF C
<1>3. Carries(s, icmp, overrides, fields)
  BY <1>1
<1> HIDE DEF icmp
<1>4. Carries(s, echo, overrides, fields)
  <2>1. ~Icmpv6Echo(t) => Free(s, IcmpModes)
    BY <1>0, FreeTransport
  <2> QED BY <1>0, <1>3, <2>1, CarriesSteps
<1> HIDE DEF echo
<1>5. Carries(s, checked, overrides, fields)
  BY <1>1, <1>4
<1> HIDE DEF checked
<1>6. Icmpv6(t) => Carries(s, fixed, overrides, fields)
  <2>1. Icmpv6(t) => Free(s, Ipv6AddressModes)
    BY <1>0, FreeNetwork
  <2>2. Icmpv6(t) => Carries(s, Fix(checked, Ipv6AddressModes), overrides, fields)
    BY <1>0, <1>5, <2>1, CarriesSteps
  <2> QED BY <1>0, <2>2, CarriesSteps
<1> HIDE DEF fixed
<1>7. Icmpv6(t) /\ Icmpv6Control(t) => Carries(s, control, overrides, fields) /\ "ipv6_hop_limit" \notin control.vary
  <2> DEFINE hop == Fix(fixed, {"ipv6_hop_limit"})
  <2> SUFFICES ASSUME Icmpv6(t), Icmpv6Control(t)
               PROVE  Carries(s, control, overrides, fields) /\ "ipv6_hop_limit" \notin control.vary
    OBVIOUS
  <2>1. Free(s, {"ipv6_hop_limit"})
    BY <1>0, FreeNetwork
  <2>2. Carries(s, hop, overrides, fields)
    BY <1>0, <1>6, <2>1, CarriesSteps
  <2>3. "ipv6_hop_limit" \notin hop.vary /\ hop \in Stream
    <3>1. hop.vary = fixed.vary \ {"ipv6_hop_limit"}
      BY <1>6, Written DEF Carries
    <3> QED BY <2>2, <3>1 DEF Carries
  <2> HIDE DEF hop
  <2>4. Carries(s, Raised(hop), overrides, fields) /\ Raised(hop).vary = hop.vary
    BY <1>0, <2>2, <2>3, CarriesSteps, RaisedWrites
  <2> QED BY <2>3, <2>4 DEF hop
<1> HIDE DEF control
<1>8. Carries(s, NormIcmp(t), overrides, fields)
  BY <1>2, <1>5, <1>6, <1>7
<1>9. Icmpv6Control(s) => "ipv6_hop_limit" \notin NormIcmp(t).vary
  <2>1. Icmpv6Control(s) => Icmpv6(t) /\ Icmpv6Control(t)
    BY <1>0 DEF Icmpv6Control
  <2> QED BY <1>2, <1>7, <2>1
<1> QED BY <1>8, <1>9

\* What the server makes of a stream the page accepts.
LEMMA NormaliseCarries ==
  ASSUME NEW s, Fit(s), Tidy(s), validateWorkbenchStream(s)
  PROVE  LET t == Normalise(s)
         IN /\ Carries(s, t, s.on, s.vary)
            /\ Message(s) => ~IsOn(t, "udp_length_override")
            /\ Spoken(s) => ~IsOn(t, "udp_checksum_override")
            /\ Icmpv6Control(s) => "ipv6_hop_limit" \notin t.vary
<1>0. s \in Stream
  BY DEF Fit
<1> DEFINE a1 == NormNetwork(NormTunnels(NormLength(s)))
           a2 == NormMpls(NormVlan(a1))
           a3 == NormGtpu(NormGre(a2))
           b1 == NormUdp(NormPorts(a3))
           b2 == NormDns(b1)
           b3 == NormDhcp(b2)
           c1 == NormSctp(NormTcp(b3))
           c2 == NormIcmp(c1)
           t == NormVxlan(c2)
<1>1. Carries(s, a1, s.on, s.vary)
  <2>1. Carries(s, NormLength(s), s.on, s.vary)
    BY <1>0, CarriesSelf, CarriesLengths
  <2>2. Carries(s, NormTunnels(NormLength(s)), s.on, s.vary)
    BY <2>1, CarriesLengths
  <2> QED BY <2>2, CarriesLink
<1> HIDE DEF a1
<1>2. Carries(s, a2, s.on, s.vary)
  <2>1. Carries(s, NormVlan(a1), s.on, s.vary)
    BY <1>1, CarriesLink
  <2> QED BY <2>1, CarriesLink
<1> HIDE DEF a2
<1>3. Carries(s, a3, s.on, s.vary)
  <2>1. Carries(s, NormGre(a2), s.on, s.vary)
    BY <1>2, CarriesTunnels
  <2> QED BY <2>1, CarriesTunnels
<1> HIDE DEF a3
<1>4. Carries(s, b1, s.on, s.vary)
  <2>1. Carries(s, NormPorts(a3), s.on, s.vary)
    BY <1>3, CarriesPorts
  <2> QED BY <2>1, CarriesUdp
<1> HIDE DEF b1
\* What a step has reached is what no later step exceeds.
<1>5. \A u, O, F : Carries(s, u, O, F) => Carries(s, u, u.on, u.vary)
  BY DEF Carries
<1>6. Carries(s, b2, s.on, s.vary) /\ Plainer(s, b2, "dns_enabled")
  BY <1>4, CarriesDns
<1> HIDE DEF b2
<1>7. Carries(s, b3, s.on, s.vary) /\ Carries(s, b3, b2.on, b2.vary) /\ Plainer(s, b3, "dhcp_enabled")
  <2>1. Carries(s, b2, b2.on, b2.vary)
    BY <1>5, <1>6
  <2>2. Carries(s, b3, s.on, s.vary) /\ Plainer(s, b3, "dhcp_enabled")
    BY <1>6, CarriesDhcp
  <2>3. Carries(s, b3, b2.on, b2.vary)
    BY <2>1, CarriesDhcp
  <2> QED BY <2>2, <2>3
<1> HIDE DEF b3
<1>8. /\ Message(s) => ~IsOn(b3, "udp_length_override")
      /\ Spoken(s) => ~IsOn(b3, "udp_checksum_override")
  <2>1. b3.on \cap UdpFlags \subseteq b2.on
    BY <1>7 DEF Carries
  <2>2. IsOn(b3, "udp_length_override") => IsOn(b2, "udp_length_override")
    BY <2>1 DEF IsOn, UdpFlags
  <2>3. IsOn(b3, "udp_checksum_override") => IsOn(b2, "udp_checksum_override")
    BY <2>1 DEF IsOn, UdpFlags
  <2>4. CASE IsOn(s, "dns_enabled")
    BY <1>6, <2>2, <2>3, <2>4 DEF Plainer
  <2>5. CASE IsOn(s, "dhcp_enabled")
    BY <1>7, <2>5 DEF Plainer
  <2> QED BY <2>4, <2>5 DEF Message, Spoken
<1>9. Carries(s, c1, s.on, s.vary) /\ Carries(s, c1, b3.on, b3.vary)
  <2>1. Carries(s, b3, b3.on, b3.vary)
    BY <1>5, <1>7
  <2>2. Carries(s, NormTcp(b3), s.on, s.vary) /\ Carries(s, NormTcp(b3), b3.on, b3.vary)
    BY <1>7, <2>1, CarriesTcp
  <2> QED BY <2>2, CarriesSctp
<1> HIDE DEF c1
<1>10. /\ Carries(s, c2, s.on, s.vary) /\ Carries(s, c2, b3.on, b3.vary)
       /\ Icmpv6Control(s) => "ipv6_hop_limit" \notin c2.vary
  BY <1>9, CarriesIcmp
<1> HIDE DEF c2
<1>11. Carries(s, t, s.on, s.vary) /\ Carries(s, t, b3.on, c2.vary)
  <2>1. Carries(s, c2, b3.on, c2.vary)
    BY <1>10 DEF Carries
  <2>2. Carries(s, t, s.on, s.vary)
    BY <1>10, CarriesTunnels
  <2>3. Carries(s, t, b3.on, c2.vary)
    BY <2>1, CarriesTunnels
  <2> QED BY <2>2, <2>3
<1>12. Normalise(s) = t
  BY DEF Normalise, a1, a2, a3, b1, b2, b3, c1, c2
<1> HIDE DEF t
<1>13. t.on \cap UdpFlags \subseteq b3.on /\ t.vary \subseteq c2.vary
  BY <1>11 DEF Carries
<1>14. /\ IsOn(t, "udp_length_override") => IsOn(b3, "udp_length_override")
       /\ IsOn(t, "udp_checksum_override") => IsOn(b3, "udp_checksum_override")
  BY <1>13 DEF IsOn, UdpFlags
<1>15. /\ Message(s) => ~IsOn(t, "udp_length_override")
       /\ Spoken(s) => ~IsOn(t, "udp_checksum_override")
       /\ Icmpv6Control(s) => "ipv6_hop_limit" \notin t.vary
  BY <1>8, <1>10, <1>13, <1>14
<1> QED BY <1>11, <1>12, <1>15

\* Nothing is left behind in it that was not left in the stream of the page.
LEMMA CarriesTidy ==
  ASSUME NEW s, Fit(s), Tidy(s), NEW t, NEW overrides, NEW fields, Carries(s, t, overrides, fields)
  PROVE  Tidy(t)
<1>0. s \in Stream /\ t.vary \subseteq s.vary
  BY DEF Fit, Carries
<1>1. Tunnel(t) = Tunnel(s) /\ IsOn(t, "gtpu_enabled") = IsOn(s, "gtpu_enabled")
      /\ IsOn(t, "dns_enabled") = IsOn(s, "dns_enabled") /\ IsOn(t, "dhcp_enabled") = IsOn(s, "dhcp_enabled")
  BY <1>0, StillOn
<1>2. Tunnel(t) => ~Varies(t, UdpModes)
  BY <1>0, <1>1 DEF Tidy, Varies
<1>3. /\ "l4_src_port" \in t.vary => IsOn(t, "l4_src_port_override")
      /\ "l4_dst_port" \in t.vary => IsOn(t, "l4_dst_port_override")
  BY DEF Carries, PortKept, Tidy, IsOn
<1>4. t.gre = "IPv4" => ~Varies(t, GreInner6Modes)
  <2>1. t.gre = s.gre \/ ~Varies(t, GreModes)
    BY DEF Carries
  <2>2. GreInner6Modes \subseteq GreModes
    BY DEF GreModes, GreInnerModes
  <2> QED BY <1>0, <2>1, <2>2 DEF Tidy, Varies
<1>5. /\ ~(IsOn(t, "dns_enabled") /\ IsOn(t, "dhcp_enabled"))
      /\ ~(IsOn(t, "gtpu_enabled") /\ IsOn(t, "dhcp_enabled"))
  BY <1>1 DEF Tidy
<1> QED BY <1>2, <1>3, <1>4, <1>5 DEF Tidy

\* A field that varies in both is sent of one if it is sent of the other.
LEMMA CarriesFields ==
  ASSUME NEW s, Fit(s), Tidy(s), NEW t, NEW overrides, NEW fields, Carries(s, t, overrides, fields),
         NEW f \in t.vary, f \notin Overruled(s)
  PROVE  f \in Fields(t) <=> f \in Fields(s)
<1>0. s \in Stream /\ t \in Stream /\ t.l3 = s.l3 /\ t.l4 = s.l4 /\ t.icmp = s.icmp /\ f \in s.vary /\ f \in Modes
  BY DEF Fit, Carries, Stream
<1>1. LinkFields(t) = LinkFields(s)
  <2>1. /\ IsOn(t, "vlan_enabled") = IsOn(s, "vlan_enabled") /\ IsOn(t, "mpls_enabled") = IsOn(s, "mpls_enabled")
        /\ IsOn(s, "vlan_enabled") => IsOn(t, "vlan2_enabled") = IsOn(s, "vlan2_enabled")
        /\ IsOn(s, "mpls_enabled") => IsOn(t, "mpls_label2_enabled") = IsOn(s, "mpls_label2_enabled")
        /\ IsOn(s, "mpls_enabled") /\ IsOn(s, "mpls_label2_enabled") =>
             IsOn(t, "mpls_label3_enabled") = IsOn(s, "mpls_label3_enabled")
    BY <1>0, StillOn
  <2> QED BY <2>1 DEF LinkFields, Applies
<1>2. NetworkFields(t) = NetworkFields(s)
  BY <1>0 DEF NetworkFields
<1>3. TunnelFields(t) = TunnelFields(s)
  <2>1. /\ IsOn(t, "vxlan_enabled") = IsOn(s, "vxlan_enabled") /\ (IsOn(s, "vxlan_enabled") => t.vxlan = s.vxlan)
        /\ IsOn(t, "gtpu_enabled") = IsOn(s, "gtpu_enabled") /\ (IsOn(s, "gtpu_enabled") => t.gtpu = s.gtpu)
        /\ s.l4 = "GRE" => GreInnerVersion(t) = GreInnerVersion(s)
    BY <1>0, StillOn DEF Carries
  <2>2. Applies(t, "vxlan_enabled", VxlanVniModes \cup VxlanPortModes \cup ByVersion(t.vxlan, VxlanInner4Modes, VxlanInner6Modes))
          = Applies(s, "vxlan_enabled", VxlanVniModes \cup VxlanPortModes \cup ByVersion(s.vxlan, VxlanInner4Modes, VxlanInner6Modes))
    BY <2>1 DEF Applies
  <2>3. GtpuSent(t) = GtpuSent(s)
    <3>1. HasGtpu(t) <=> HasGtpu(s)
      BY <1>0, <2>1 DEF HasGtpu
    <3>2. CASE HasGtpu(s)
      <4>1. IsOn(s, "gtpu_enabled")
        BY <3>2 DEF HasGtpu
      <4>2. \A g \in GtpuFlags : IsOn(t, g) = IsOn(s, g)
        BY <1>0, <4>1, StillOn
      <4>3. t.gtpu = s.gtpu
        BY <2>1, <4>1
      <4> QED BY <3>1, <4>2, <4>3 DEF GtpuSent, Given, Applies, GtpuFlags
    <3>3. CASE ~HasGtpu(s)
      BY <3>1, <3>3 DEF GtpuSent, Given
    <3> QED BY <3>2, <3>3
  <2>4. GreSent(t) = GreSent(s)
    <3>1. CASE s.l4 = "GRE"
      <4>1. IsOn(t, "gre_key_present") = IsOn(s, "gre_key_present") /\ IsOn(t, "gre_sequence_present") = IsOn(s, "gre_sequence_present")
        BY <1>0, <3>1, StillOn
      <4> QED BY <1>0, <2>1, <3>1, <4>1 DEF GreSent, Given, Applies
    <3>2. CASE s.l4 # "GRE"
      BY <1>0, <3>2 DEF GreSent, Given
    <3> QED BY <3>1, <3>2
  <2> QED BY <2>2, <2>3, <2>4 DEF TunnelFields, GtpuSent, GreSent
<1>4. f \in TransportModes => (f \in TransportFields(t) <=> f \in TransportFields(s))
  <2>0. /\ Tunnel(t) = Tunnel(s) /\ IsOn(t, "dns_enabled") = IsOn(s, "dns_enabled")
        /\ IsOn(t, "dhcp_enabled") = IsOn(s, "dhcp_enabled") /\ IsOn(t, "dhcp_option_values") = IsOn(s, "dhcp_option_values")
        /\ IsOn(t, "tcp_checksum_override") = IsOn(s, "tcp_checksum_override")
        /\ IsOn(s, "dns_enabled") => IsOn(t, "dns_answer_enabled") = IsOn(s, "dns_answer_enabled")
    BY <1>0, StillOn
  <2>1. ASSUME f \in L4PortModes PROVE f \in TransportFields(t) <=> f \in TransportFields(s)
    <3> DEFINE o == IF f = "l4_src_port" THEN "l4_src_port_override" ELSE "l4_dst_port_override"
    <3>1. IsOn(s, o) /\ IsOn(t, o)
      BY <1>0, <2>1 DEF Tidy, Carries, PortKept, L4PortModes, IsOn
    <3>2. f \in TransportFields(t) <=> HasPorts(t) /\ IsOn(t, o)
      BY <1>0, <2>1, TransportSent
    <3>3. f \in TransportFields(s) <=> HasPorts(s) /\ IsOn(s, o)
      BY <1>0, <2>1, TransportSent
    <3> QED BY <1>0, <3>1, <3>2, <3>3 DEF HasPorts
  <2>2. ASSUME f \in UdpModes PROVE f \in TransportFields(t) <=> f \in TransportFields(s)
    <3> DEFINE o == IF f = "udp_length" THEN "udp_length_override" ELSE "udp_checksum_override"
    <3>1. ~Tunnel(s)
      BY <1>0, <2>2 DEF Tidy, Varies
    <3>2. f = "udp_length" => ~Message(s)
      BY DEF Overruled, When
    <3>3. f = "udp_checksum" => ~Spoken(s)
      BY DEF Overruled, When, Spoken
    <3>4. s.l4 = "UDP" => o \in Held(s)
      BY <2>2, <3>1, <3>2, <3>3 DEF Held, When, UdpModes
    <3>5. s.l4 = "UDP" => (IsOn(t, o) <=> IsOn(s, o))
      BY <3>4 DEF Carries, IsOn
    <3>6. f \in TransportFields(t) <=> t.l4 = "UDP" /\ IsOn(t, o)
      BY <1>0, <2>2, TransportSent
    <3>7. f \in TransportFields(s) <=> s.l4 = "UDP" /\ IsOn(s, o)
      BY <1>0, <2>2, TransportSent
    <3> QED BY <1>0, <3>5, <3>6, <3>7
  <2>3. ASSUME f \in DnsModes PROVE f \in TransportFields(t) <=> f \in TransportFields(s)
    <3>1. f \in TransportFields(t) <=> HasDns(t) /\ (f \in DnsAnswerModes => IsOn(t, "dns_answer_enabled"))
      BY <1>0, <2>3, TransportSent
    <3>2. f \in TransportFields(s) <=> HasDns(s) /\ (f \in DnsAnswerModes => IsOn(s, "dns_answer_enabled"))
      BY <1>0, <2>3, TransportSent
    <3> QED BY <1>0, <2>0, <3>1, <3>2 DEF HasDns
  <2>4. ASSUME f \in DhcpModes PROVE f \in TransportFields(t) <=> f \in TransportFields(s)
    <3>1. f \in TransportFields(t) <=> HasDhcp(t) /\ (f \in DhcpOptionModes => IsOn(t, "dhcp_option_values"))
      BY <1>0, <2>4, TransportSent
    <3>2. f \in TransportFields(s) <=> HasDhcp(s) /\ (f \in DhcpOptionModes => IsOn(s, "dhcp_option_values"))
      BY <1>0, <2>4, TransportSent
    <3> QED BY <1>0, <2>0, <3>1, <3>2 DEF HasDhcp
  <2>5. ASSUME f \in SctpModes PROVE f \in TransportFields(t) <=> f \in TransportFields(s)
    <3>1. (f \in TransportFields(t) <=> t.l4 = "SCTP") /\ (f \in TransportFields(s) <=> s.l4 = "SCTP")
      BY <1>0, <2>5, TransportSent
    <3> QED BY <1>0, <3>1
  <2>6. ASSUME f \in TcpCoreModes PROVE f \in TransportFields(t) <=> f \in TransportFields(s)
    <3>1. f \in TransportFields(t) <=> t.l4 = "TCP" /\ (f = "tcp_checksum" => IsOn(t, "tcp_checksum_override"))
      BY <1>0, <2>6, TransportSent
    <3>2. f \in TransportFields(s) <=> s.l4 = "TCP" /\ (f = "tcp_checksum" => IsOn(s, "tcp_checksum_override"))
      BY <1>0, <2>6, TransportSent
    <3> QED BY <1>0, <2>0, <3>1, <3>2
  <2>7. ASSUME f \in TcpOptionModes PROVE f \in TransportFields(t) <=> f \in TransportFields(s)
    <3>1. f \in TransportFields(t) <=> t.l4 = "TCP" /\ f \in TcpOptionFields(t)
      BY <1>0, <2>7, TransportSent
    <3>2. f \in TransportFields(s) <=> s.l4 = "TCP" /\ f \in TcpOptionFields(s)
      BY <1>0, <2>7, TransportSent
    <3>3. s.l4 = "TCP" => TcpOptionFields(t) = TcpOptionFields(s)
      <4>1. s.l4 = "TCP" => \A g \in TcpOptionFlags : IsOn(t, g) = IsOn(s, g)
        BY <1>0, StillOn
      <4> QED BY <4>1 DEF TcpOptionFields, Applies, TcpOptionFlags
    <3> QED BY <1>0, <3>1, <3>2, <3>3
  <2>8. ASSUME f \in IcmpModes PROVE f \in TransportFields(t) <=> f \in TransportFields(s)
    <3>1. (f \in TransportFields(t) <=> Icmpv6Echo(t)) /\ (f \in TransportFields(s) <=> Icmpv6Echo(s))
      BY <1>0, <2>8, TransportSent
    <3> QED BY <1>0, <3>1 DEF Icmpv6Echo, Icmpv6
  <2> QED BY <2>1, <2>2, <2>3, <2>4, <2>5, <2>6, <2>7, <2>8 DEF TransportModes
<1>5. f \in LinkModes \cup NetworkModes \cup TunnelModes \cup TransportModes
  BY <1>0 DEF Modes, LinkModes, NetworkModes, TunnelModes, TransportModes
<1>6. CASE f \in LinkModes
  <2>1. (f \in Fields(t) <=> f \in LinkFields(t)) /\ (f \in Fields(s) <=> f \in LinkFields(s))
    BY <1>0, <1>6, LayerFields, Layers DEF Fields
  <2> QED BY <1>1, <2>1
<1>7. CASE f \in NetworkModes
  <2>1. (f \in Fields(t) <=> f \in NetworkFields(t)) /\ (f \in Fields(s) <=> f \in NetworkFields(s))
    BY <1>0, <1>7, LayerFields, Layers DEF Fields
  <2> QED BY <1>2, <2>1
<1>8. CASE f \in TunnelModes
  <2>1. (f \in Fields(t) <=> f \in TunnelFields(t)) /\ (f \in Fields(s) <=> f \in TunnelFields(s))
    BY <1>0, <1>8, LayerFields, Layers DEF Fields
  <2> QED BY <1>3, <2>1
<1>9. CASE f \in TransportModes
  <2>1. (f \in Fields(t) <=> f \in TransportFields(t)) /\ (f \in Fields(s) <=> f \in TransportFields(s))
    BY <1>0, <1>9, LayerFields, Layers DEF Fields
  <2> QED BY <1>4, <1>9, <2>1
<1> QED BY <1>5, <1>6, <1>7, <1>8, <1>9

-----------------------------------------------------------------------------
(* What is shown is what is sent *)

LEMMA SavedAsSeen ==
  ASSUME NEW s, Fit(s), Tidy(s), validateWorkbenchStream(s)
  PROVE  Applied(Normalise(s)) = Seen(s) \ Overruled(s)
<1> DEFINE t == Normalise(s)
<1>0. s \in Stream
  BY DEF Fit
<1>1. /\ Carries(s, t, s.on, s.vary)
      /\ Message(s) => ~IsOn(t, "udp_length_override")
      /\ Spoken(s) => ~IsOn(t, "udp_checksum_override")
      /\ Icmpv6Control(s) => "ipv6_hop_limit" \notin t.vary
  BY NormaliseCarries
<1> HIDE DEF t
<1>2. t \in Stream /\ t.l4 = s.l4 /\ t.vary \subseteq s.vary
  BY <1>1 DEF Carries
<1>3. Applied(t) = t.vary \cap Fields(t)
  BY DEF Applied, Fields
\* What is overruled is not sent.
<1>4. ASSUME NEW f \in Overruled(s), f \in t.vary, f \in Fields(t) PROVE FALSE
  <2>1. CASE Icmpv6Control(s) /\ f = "ipv6_hop_limit"
    BY <1>1, <1>4, <2>1
  <2>2. CASE Message(s) /\ f = "udp_length"
    <3>1. f \in UdpModes /\ f \in TransportModes
      BY <2>2 DEF UdpModes, TransportModes
    <3>2. f \in TransportFields(t)
      BY <1>2, <1>4, <3>1, LayerFields, Layers DEF Fields
    <3>3. IsOn(t, "udp_length_override")
      BY <1>2, <2>2, <3>1, <3>2, TransportSent
    <3> QED BY <1>1, <2>2, <3>3
  <2>3. CASE Spoken(s) /\ f = "udp_checksum"
    <3>1. f \in UdpModes /\ f \in TransportModes
      BY <2>3 DEF UdpModes, TransportModes
    <3>2. f \in TransportFields(t)
      BY <1>2, <1>4, <3>1, LayerFields, Layers DEF Fields
    <3>3. IsOn(t, IF f = "udp_length" THEN "udp_length_override" ELSE "udp_checksum_override")
      BY <1>2, <3>1, <3>2, TransportSent
    <3>4. f # "udp_length"
      BY <2>3
    <3> QED BY <1>1, <2>3, <3>3, <3>4
  <2>4. CASE s.l4 = "GRE" /\ s.gre # GreInnerVersion(s) /\ f \in GreInner4Modes
    <3>1. GreInnerVersion(t) = "IPv6"
      <4>1. GreInnerVersion(s) = "IPv6"
        BY <1>0, <2>4 DEF GreInnerVersion, Stream, Versions
      <4> QED BY <1>1, <2>4, <4>1 DEF Carries
    <3>2. f \in TunnelModes
      BY <2>4 DEF TunnelModes, GreModes, GreInnerModes
    <3>3. f \in TunnelFields(t)
      BY <1>2, <1>4, <3>2, LayerFields, Layers DEF Fields
    <3>4. TunnelFields(t) \cap GreInner4Modes = {}
      <4>1. GreSent(t) \cap GreInner4Modes = {}
        BY <3>1 DEF GreSent, Given, Applies, ByVersion, GrePortModes, GreInner4Modes, GreInner6Modes
      <4>2. GtpuSent(t) \cap GreInner4Modes = {}
        BY DEF GtpuSent, Given, Applies, ByVersion, GtpuTeidModes, GtpuPortModes, GtpuInner4Modes, GtpuInner6Modes, GreInner4Modes
      <4>3. Applies(t, "vxlan_enabled", VxlanVniModes \cup VxlanPortModes \cup ByVersion(t.vxlan, VxlanInner4Modes, VxlanInner6Modes))
              \cap GreInner4Modes = {}
        BY DEF Applies, ByVersion, VxlanVniModes, VxlanPortModes, VxlanInner4Modes, VxlanInner6Modes, GreInner4Modes
      <4> QED BY <4>1, <4>2, <4>3 DEF TunnelFields, GtpuSent, GreSent
    <3> QED BY <2>4, <3>3, <3>4
  <2> QED BY <2>1, <2>2, <2>3, <2>4 DEF Overruled, When, Spoken
\* The rest is sent if, and only if, it is shown.
<1>5. ASSUME NEW f, f \notin Overruled(s) PROVE f \in Applied(t) <=> f \in Seen(s)
  <2>1. ASSUME f \in Applied(t) PROVE f \in Seen(s)
    <3>1. f \in t.vary /\ f \in Fields(t) /\ f \in s.vary
      BY <1>2, <1>3, <2>1
    <3>2. f \in Fields(s)
      BY <1>1, <1>5, <3>1, CarriesFields
    <3>3. f \in Controls(s)
      BY <1>5, <3>1, <3>2, ShownIsSent
    <3> QED BY <3>1, <3>3 DEF Seen
  <2>2. ASSUME f \in Seen(s) PROVE f \in Applied(t)
    <3>1. f \in s.vary /\ f \in Controls(s)
      BY <2>2 DEF Seen
    <3>2. f \in Fields(s)
      BY <1>5, <3>1, ShownIsSent
    <3>3. f \in t.vary
      BY <1>1, <1>5, <3>1, <3>2 DEF Carries, Free
    <3>4. f \in Fields(t)
      BY <1>1, <1>5, <3>2, <3>3, CarriesFields
    <3> QED BY <1>3, <3>3, <3>4
  <2> QED BY <2>1, <2>2
<1>6. \A f : f \in Applied(t) => f \notin Overruled(s)
  BY <1>3, <1>4
<1>7. Applied(t) = Seen(s) \ Overruled(s)
  BY <1>5, <1>6
<1> QED BY <1>7 DEF t

TidyInv == Inv /\ Tidy(stream)

LEMMA NextTidy ==
  TidyInv /\ [Next]_vars => TidyInv'
<1> SUFFICES ASSUME TidyInv, [Next]_vars PROVE TidyInv'
  OBVIOUS
<1>0. Fit(stream) /\ Tidy(stream) /\ Inv'
  BY NextFit DEF TidyInv, Inv
<1>1. CASE LinkEdits \/ NetworkEdits
  BY <1>0, <1>1, LinkEditsTidy DEF TidyInv
<1>2. CASE TransportEdits
  BY <1>0, <1>2, TransportEditsTidy DEF TidyInv
<1>3. CASE TunnelEdits
  BY <1>0, <1>3, TunnelEditsTidy DEF TidyInv
<1>4. CASE ProtocolEdit \/ PacketTypeEdit \/ FrameLengthTypeEdit \/ FrameLengthEdit \/ PayloadSelect
  BY <1>0, <1>4, SelectionEditsTidy DEF TidyInv
<1>5. CASE SaveAndOpen
  <2>1. stream' = Normalise(stream) /\ validateWorkbenchStream(stream)
    BY <1>5 DEF SaveAndOpen
  <2>2. Carries(stream, Normalise(stream), stream.on, stream.vary)
    BY <1>0, <2>1, NormaliseCarries
  <2> QED BY <1>0, <2>1, <2>2, CarriesTidy DEF TidyInv
<1>6. CASE UNCHANGED vars
  BY <1>6 DEF TidyInv, Inv, vars
<1> QED BY <1>1, <1>2, <1>3, <1>4, <1>5, <1>6 DEF Next

\* No edit and no save leaves a varying field behind that its panel cannot show any more, or two
\* messages in one payload (streamPatchModel.ts, normalize_workbench_streams).
THEOREM StreamTidy == Spec => []TidyInv
<1>1. Init => TidyInv
  BY InitFit, InitTidy DEF TidyInv
<1> QED BY <1>1, NextTidy, PTL DEF Spec

\* The fields that the traffic generator varies for a stream the page accepts are those that the
\* panels show varying, but for what the server overrules on purpose (the panels of
\* TrafficProfilesWorkspace.tsx, normalize_workbench_streams, _workbench_vm_body).
THEOREM FieldsSentAsSeen == Spec => []SentAsSeen
<1>1. TidyInv => SentAsSeen
  BY SavedAsSeen DEF TidyInv, Inv, SentAsSeen, Saved
<1> QED BY <1>1, StreamTidy, PTL
=============================================================================
